----------------------- MODULE ForensicOptions_proofs -----------------------
(***************************************************************************)
(* The parser of ForensicOptions, for any number of arguments, any texts   *)
(* and any lists of algorithms.  Its state is related to the call: what    *)
(* has been read is cut into items in one way only (Cut), and the options  *)
(* that are on are the flags of these items (Parsed).                      *)
(***************************************************************************)
EXTENDS ForensicOptions, SequenceTheorems, TLAPS

USE OptionsAssumption

Outcomes == {"check", "loop", "usage", "noLogFile", "cannotOpen", "run"}

TypeOK ==
    /\ argv \in Seq(Words) /\ k \in 1 .. Final + 1
    /\ seen \subseteq Flags /\ fileOutIndex \in 0 .. Final
    /\ filePresent \in BOOLEAN /\ outcome \in Outcomes

(* The only way to cut what has been read into items. *)
Cut(items) ==
    /\ items \subseteq 1 .. k - 1
    /\ \A i \in 1 .. k - 1 : i \in items <=> Begins(argv, i, items)
    /\ ~filePresent => Begins(argv, k, items)
    /\ \A whole \in SUBSET DOMAIN argv :
         (\A i \in DOMAIN argv : i \in whole <=> Begins(argv, i, whole)) =>
           \A i \in 1 .. k - 1 : i \in items <=> i \in whole

(* What the parser made of these items. *)
Parsed(items) ==
    /\ \A i \in items : argv[i] \in seen \/ (filePresent /\ i = Final)
    /\ \A flag \in seen : \E i \in items : argv[i] = flag
    /\ \A i, j \in items : argv[i] = argv[j] => i = j
    /\ \A i \in items : /\ argv[i] = "-h" => i + 1 < k /\ argv[i + 1] \in Lists
                        /\ argv[i] = "-o" => i + 1 < k /\ argv[i + 1] \notin Flags /\ fileOutIndex = i + 1
    /\ "-o" \notin seen => fileOutIndex = 0
    /\ filePresent => k = Final + 1 /\ Final \in items

Inv ==
    /\ TypeOK
    /\ outcome = "check" => k = 1 /\ seen = {} /\ ~filePresent /\ fileOutIndex = 0
    /\ outcome \notin {"check", "usage"} => Final > 0 /\ argv[Final] \notin Flags
    /\ outcome \notin {"check", "usage"} => \E items \in SUBSET (1 .. k - 1) : Cut(items) /\ Parsed(items)
    /\ outcome \in {"run", "cannotOpen"} => filePresent
    /\ outcome = "usage" => ~IsCall(argv)

LEMMA OptionsInit == Init => Inv
<1> SUFFICES ASSUME Init PROVE Inv
  OBVIOUS
<1>1. PICK n \in 0 .. MaxArgs : argv \in [1 .. n -> Words]
  BY DEF Init
<1>2. n \in Nat /\ argv \in Seq(Words)
  BY <1>1
<1>3. Len(argv) \in Nat
  BY <1>2
<1>4. k = 1 /\ seen = {} /\ fileOutIndex = 0 /\ filePresent = FALSE /\ outcome = "check"
  BY DEF Init
<1>5. k \in 1 .. Final + 1 /\ fileOutIndex \in 0 .. Final
  BY <1>3, <1>4 DEF Final
<1>6. TypeOK
  BY <1>2, <1>4, <1>5 DEF TypeOK, Outcomes
<1> QED
  BY <1>4, <1>6 DEF Inv

(* An item that begins at k is one of every call. *)
LEMMA NextItem ==
  ASSUME TypeOK, NEW items, Cut(items), ~filePresent, k <= Final,
         NEW whole \in SUBSET DOMAIN argv,
         \A i \in DOMAIN argv : i \in whole <=> Begins(argv, i, whole)
  PROVE  k \in whole /\ \A i \in 1 .. k - 1 : i \in items <=> i \in whole
<1>1. k \in DOMAIN argv /\ k \in Nat \ {0}
  BY DEF TypeOK, Final
<1>2. \A i \in 1 .. k - 1 : i \in items <=> i \in whole
  BY DEF Cut
<1>3. k # 1 => k - 1 \in 1 .. k - 1
  BY <1>1
<1>4. Begins(argv, k, items) <=> Begins(argv, k, whole)
  BY <1>2, <1>3 DEF Begins
<1> QED
  BY <1>1, <1>2, <1>4 DEF Cut

(* A round that is refused: there is no way to go on to a call. *)
LEMMA RoundRefused ==
  ASSUME Inv, outcome = "loop", k <= Final,
         \/ argv[k] \in seen
         \/ argv[k] \notin Flags /\ k # Final
         \/ argv[k] = "-h" /\ argv[k + 1] \notin Lists
         \/ argv[k] = "-o" /\ argv[k + 1] \in Flags
  PROVE  ~IsCall(argv)
<1> SUFFICES ASSUME IsCall(argv) PROVE FALSE
  OBVIOUS
<1>1. PICK items \in SUBSET (1 .. k - 1) : Cut(items) /\ Parsed(items)
  BY DEF Inv
<1>2. TypeOK /\ ~filePresent
  BY <1>1 DEF Inv, TypeOK, Parsed, Final
<1>3. PICK whole \in SUBSET DOMAIN argv :
        /\ \A i \in DOMAIN argv : i \in whole <=> Begins(argv, i, whole)
        /\ \A i \in whole \ {Final} : argv[i] \in Flags
        /\ \A i, j \in whole : argv[i] = argv[j] => i = j
        /\ \A i \in whole : /\ argv[i] = "-h" => argv[i + 1] \in Lists
                            /\ argv[i] = "-o" => argv[i + 1] \notin Flags
  BY DEF IsCall, Final
<1>4. k \in whole /\ \A i \in 1 .. k - 1 : i \in items <=> i \in whole
  BY <1>1, <1>2, <1>3, NextItem
<1>5. argv[k] \notin seen
  <2> SUFFICES ASSUME argv[k] \in seen PROVE FALSE
    OBVIOUS
  <2>1. PICK i \in items : argv[i] = argv[k]
    BY <1>1 DEF Parsed
  <2>2. i \in whole /\ i # k
    BY <1>2, <1>4 DEF TypeOK
  <2> QED
    BY <1>3, <1>4, <2>1, <2>2
<1> QED
  BY <1>3, <1>4, <1>5

(* A round that is accepted: one more item, of one or two arguments. *)
LEMMA RoundTaken ==
  ASSUME Inv, outcome = "loop", k <= Final, UNCHANGED <<argv, outcome>>,
         argv[k] \notin seen,
         NEW taken \in {1, 2}, k' = k + taken, k' <= Final + 1,
         \/ /\ argv[k] \in Flags /\ seen' = seen \cup {argv[k]} /\ filePresent' = filePresent
            /\ taken = 1 <=> argv[k] \in {"-r", "-v"}
         \/ argv[k] \notin Flags /\ k = Final /\ seen' = seen /\ filePresent' = TRUE /\ taken = 1,
         argv[k] = "-h" => argv[k + 1] \in Lists,
         argv[k] = "-o" => argv[k + 1] \notin Flags /\ fileOutIndex' = k + 1,
         argv[k] # "-o" => fileOutIndex' = fileOutIndex
  PROVE  Inv'
<1>1. PICK items \in SUBSET (1 .. k - 1) : Cut(items) /\ Parsed(items)
  BY DEF Inv
<1>2. TypeOK /\ ~filePresent /\ k \in Nat \ {0} /\ Final \in Nat /\ Final' = Final
  BY <1>1 DEF Inv, TypeOK, Parsed, Final
<1>3. argv[k] \in Words
  BY <1>2 DEF TypeOK, Final
<1>9. PICK more : more = items \cup {k}
  OBVIOUS
<1>4. TypeOK'
  <2>1. seen' \subseteq Flags /\ filePresent' \in BOOLEAN
    BY <1>2 DEF TypeOK
  <2>2. k' \in 1 .. Final + 1
    BY <1>2
  <2>3. fileOutIndex' \in 0 .. Final
    <3>1. CASE argv[k] = "-o"
      BY <1>2, <3>1 DEF Flags
    <3>2. CASE argv[k] # "-o"
      BY <3>2, <1>2 DEF TypeOK
    <3> QED
      BY <3>1, <3>2
  <2> QED
    BY <1>2, <2>1, <2>2, <2>3 DEF TypeOK
<1>5. more \in SUBSET (1 .. k' - 1)
  BY <1>9, <1>2
<1>6. Cut(more)'
  <2>1. \A i \in 1 .. k - 1 : Begins(argv, i, more) <=> Begins(argv, i, items)
    BY <1>9, <1>2 DEF Begins
  <2>2. Begins(argv, k, more)
    <3>1. Begins(argv, k, items)
      BY <1>9, <1>1, <1>2 DEF Cut
    <3> QED
      BY <1>9, <1>1, <1>2, <3>1 DEF Begins
  <2>3. taken = 2 => k + 1 \notin more /\ ~Begins(argv, k + 1, more)
    BY <1>9, <1>2 DEF Begins, Flags
  <2>4. ~filePresent' => Begins(argv, k', more)
    BY <1>9, <1>1, <1>2 DEF Begins, Flags
  <2>5. ASSUME NEW whole \in SUBSET DOMAIN argv,
               \A i \in DOMAIN argv : i \in whole <=> Begins(argv, i, whole)
        PROVE  \A i \in 1 .. k' - 1 : i \in more <=> i \in whole
    <3>1. k \in whole /\ \A i \in 1 .. k - 1 : i \in items <=> i \in whole
      BY <1>9, <1>1, <1>2, <2>5, NextItem
    <3>2. taken = 2 => k + 1 \notin whole
      <4> SUFFICES ASSUME taken = 2 PROVE k + 1 \notin whole
        OBVIOUS
      <4>1. k + 1 \in DOMAIN argv
        BY <1>9, <1>2 DEF TypeOK, Final
      <4>2. ~Begins(argv, k + 1, whole)
        BY <1>9, <1>2, <3>1 DEF Begins, Flags
      <4> QED
        BY <1>9, <2>5, <4>1, <4>2
    <3> QED
      BY <1>9, <1>2, <2>3, <3>1, <3>2
  <2>6. \A i \in 1 .. k' - 1 : i \in more <=> Begins(argv, i, more)
    BY <1>9, <1>1, <1>2, <2>1, <2>2, <2>3 DEF Cut
  <2> QED
    BY <1>9, <1>5, <2>4, <2>5, <2>6 DEF Cut
<1>7. Parsed(more)'
  <2>1. \A i \in items : argv[i] \in seen /\ i < k
    BY <1>9, <1>1, <1>2 DEF Parsed
  <2>2. \A i, j \in more : argv[i] = argv[j] => i = j
    BY <1>9, <1>1, <2>1 DEF Parsed
  <2>3. \A i \in more : argv[i] \in seen' \/ (filePresent' /\ i = Final)
    BY <1>9, <2>1
  <2>4. \A flag \in seen' : \E i \in more : argv[i] = flag
    BY <1>9, <1>1 DEF Parsed
  <2>5. \A i \in more : argv[i] = "-h" => i + 1 < k' /\ argv[i + 1] \in Lists
    BY <1>9, <1>1, <1>2, <2>1 DEF Parsed, Flags
  <2>6. \A i \in more : argv[i] = "-o" => i + 1 < k' /\ argv[i + 1] \notin Flags /\ fileOutIndex' = i + 1
    BY <1>9, <1>1, <1>2, <2>1 DEF Parsed, Flags
  <2>7. "-o" \notin seen' => fileOutIndex' = 0
    BY <1>9, <1>1 DEF Parsed, Flags
  <2>8. filePresent' => k' = Final + 1 /\ Final \in more
    BY <1>9, <1>2
  <2> QED
    BY <1>9, <1>2, <2>2, <2>3, <2>4, <2>5, <2>6, <2>7, <2>8 DEF Parsed
<1> QED
  BY <1>9, <1>4, <1>5, <1>6, <1>7, <1>2 DEF Inv

(* A call that is refused leaves everything else as it is. *)
LEMMA RefusalKept == Inv /\ Quit("usage") /\ ~IsCall(argv) => Inv'
<1> SUFFICES ASSUME Inv, Quit("usage"), ~IsCall(argv) PROVE Inv'
  OBVIOUS
<1>1. ~IsCall(argv)'
  BY DEF Quit
<1>2. TypeOK'
  BY DEF Inv, Quit, TypeOK, Outcomes, Final
<1> QED
  BY <1>1, <1>2 DEF Quit, Inv

(* The same for the other exits, and for the last step. *)
LEMMA ExitKept ==
  ASSUME Inv, outcome = "loop", NEW kind \in {"noLogFile", "cannotOpen", "run"}, Quit(kind),
         kind # "noLogFile" => filePresent
  PROVE  Inv'
<1>1. PICK items \in SUBSET (1 .. k - 1) : Cut(items) /\ Parsed(items)
  BY DEF Inv
<1>2. Cut(items)' /\ Parsed(items)'
  BY <1>1 DEF Quit, Cut, Parsed, Final
<1>3. TypeOK'
  BY DEF Inv, Quit, TypeOK, Outcomes, Final
<1>4. Final' = Final /\ argv' = argv /\ k' = k /\ outcome' = kind /\ filePresent' = filePresent
  BY DEF Quit, Final
<1>5. (\E others \in SUBSET (1 .. k - 1) : Cut(others) /\ Parsed(others))'
  BY <1>2, <1>4
<1>6. Final > 0 /\ argv[Final] \notin Flags
  BY DEF Inv
<1> QED
  BY <1>3, <1>4, <1>5, <1>6 DEF Inv

LEMMA CheckStep == Inv /\ Check => Inv'
<1> SUFFICES ASSUME Inv, Check PROVE Inv'
  OBVIOUS
<1>1. TypeOK /\ Final \in Nat
  BY DEF Inv, TypeOK, Final
<1>2. CASE Final = 0 \/ argv[Final] \in Flags
  <2>1. ~IsCall(argv)
    BY <1>1, <1>2 DEF IsCall, TypeOK, Final
  <2> QED
    BY <1>2, <2>1, RefusalKept DEF Check
<1>3. CASE ~(Final = 0 \/ argv[Final] \in Flags)
  <2>1. Quit("loop") /\ k = 1 /\ seen = {} /\ ~filePresent /\ fileOutIndex = 0
    BY <1>3 DEF Check, Inv
  <2>2. TypeOK' /\ Final' = Final
    BY <1>1, <2>1 DEF Quit, TypeOK, Outcomes, Final
  <2>3. Cut({})'
    BY <2>1 DEF Quit, Cut, Begins
  <2>4. Parsed({})'
    BY <2>1 DEF Quit, Parsed
  <2>5. (\E items \in SUBSET (1 .. k - 1) : Cut(items) /\ Parsed(items))'
    BY <2>3, <2>4
  <2> QED
    BY <1>1, <1>3, <2>1, <2>2, <2>5 DEF Quit, Inv
<1> QED
  BY <1>2, <1>3

LEMMA RoundStep == Inv /\ (Recursive \/ Algorithms \/ Output \/ LogOption \/ FileName) => Inv'
<1> SUFFICES ASSUME Inv, Recursive \/ Algorithms \/ Output \/ LogOption \/ FileName PROVE Inv'
  OBVIOUS
<1>1. outcome = "loop" /\ k <= Final /\ k \in Nat /\ Final \in Nat /\ seen \subseteq Flags
  BY DEF Recursive, Algorithms, Output, LogOption, FileName, Round, Inv, TypeOK, Final
<1>2. argv[k] \in Flags => k + 1 <= Final
  BY <1>1 DEF Inv
<1>3. ASSUME Quit("usage") PROVE Inv'
  <2>1. \/ argv[k] \in seen
        \/ argv[k] \notin Flags /\ k # Final
        \/ argv[k] = "-h" /\ argv[k + 1] \notin Lists
        \/ argv[k] = "-o" /\ argv[k + 1] \in Flags
    BY <1>3 DEF Recursive, Algorithms, Output, LogOption, FileName, Round, Quit, TurnOn
  <2> QED
    BY <1>1, <1>3, <2>1, RoundRefused, RefusalKept
<1>4. ASSUME Quit("noLogFile") PROVE Inv'
  BY <1>1, <1>4, ExitKept
<1>5. ASSUME ~Quit("usage"), Recursive PROVE Inv'
  BY <1>1, <1>2, <1>5, RoundTaken DEF Recursive, Round, TurnOn, Flags
<1>6. ASSUME ~Quit("usage"), Algorithms PROVE Inv'
  BY <1>1, <1>2, <1>6, RoundTaken DEF Algorithms, Round, TurnOn, Flags
<1>7. ASSUME ~Quit("usage"), Output PROVE Inv'
  BY <1>1, <1>2, <1>7, RoundTaken DEF Output, Round, TurnOn, Flags
<1>8. ASSUME ~Quit("usage"), ~Quit("noLogFile"), LogOption PROVE Inv'
  BY <1>1, <1>2, <1>8, RoundTaken DEF LogOption, Round, TurnOn, Flags
<1>9. ASSUME ~Quit("usage"), FileName PROVE Inv'
  <2>1. argv[k] \notin Flags /\ k = Final /\ filePresent' = TRUE /\ k' = k + 1
    BY <1>9 DEF FileName
  <2>2. UNCHANGED <<argv, seen, fileOutIndex, outcome>>
    BY <1>9 DEF FileName
  <2>3. argv[k] \notin seen /\ argv[k] # "-h" /\ argv[k] # "-o"
    <3>1. argv[k] \notin Flags /\ "-h" \in Flags /\ "-o" \in Flags
      BY <2>1 DEF Flags
    <3> QED
      BY <1>1, <3>1
  <2>6. k' <= Final + 1
    BY <1>1, <2>1
  <2>4. UNCHANGED <<argv, outcome>> /\ 1 \in {1, 2}
    BY <2>2
  <2>5. fileOutIndex' = fileOutIndex /\ seen' = seen
    BY <2>2
  <2> QED
    BY <1>1, <2>1, <2>3, <2>4, <2>5, <2>6, RoundTaken
<1> QED
  BY <1>3, <1>4, <1>5, <1>6, <1>7, <1>8, <1>9

LEMMA OpenStep == Inv /\ OpenFiles => Inv'
<1> SUFFICES ASSUME Inv, OpenFiles PROVE Inv'
  OBVIOUS
<1>1. outcome = "loop" /\ k > Final
  BY DEF OpenFiles
<1>2. CASE ~filePresent /\ Quit("usage")
  <2>1. PICK items \in SUBSET (1 .. k - 1) : Cut(items) /\ Parsed(items)
    BY <1>1 DEF Inv
  <2>2. k = Final + 1 /\ Final \in Nat \ {0} /\ argv[Final] \notin Flags
    BY <1>1 DEF Inv, TypeOK, Final
  <2>3. Final \notin items
    BY <1>2, <2>1, <2>2 DEF Parsed, Inv, TypeOK
  <2>4. ~IsCall(argv)
    BY <2>1, <2>2, <2>3 DEF IsCall, Cut, Final
  <2> QED
    BY <1>2, <2>4, RefusalKept
<1>3. CASE filePresent /\ (Quit("cannotOpen") \/ Quit("run"))
  BY <1>1, <1>3, ExitKept
<1> QED
  BY <1>2, <1>3 DEF OpenFiles

LEMMA OptionsNext == Inv /\ [Next]_vars => Inv'
<1> SUFFICES ASSUME Inv, [Next]_vars PROVE Inv'
  OBVIOUS
<1>1. CASE UNCHANGED vars
  <2>1. UNCHANGED <<argv, k, seen, fileOutIndex, filePresent, outcome>>
    BY <1>1 DEF vars
  <2>2. TypeOK' <=> TypeOK
    BY <2>1 DEF TypeOK, Final
  <2>3. \A items : (Cut(items)' <=> Cut(items)) /\ (Parsed(items)' <=> Parsed(items))
    BY <2>1 DEF Cut, Parsed, Final
  <2> QED
    BY <2>1, <2>2, <2>3 DEF Inv, Final
<1> QED
  BY <1>1, CheckStep, RoundStep, OpenStep DEF Next

LEMMA OptionsCorrect == Spec => []Inv
<1> QED
  BY OptionsInit, OptionsNext, PTL DEF Spec

(* Whatever the command line, the parser accepts what the usage line allows *)
(* and refuses everything else.                                             *)
THEOREM UsageIsAccepted == Spec => []AcceptsUsage
<1>1. Inv => AcceptsUsage
  <2> SUFFICES ASSUME Inv, outcome \in {"run", "cannotOpen"} PROVE IsCall(argv)
    BY DEF Inv, AcceptsUsage
  <2>1. PICK items \in SUBSET (1 .. k - 1) : Cut(items) /\ Parsed(items)
    BY DEF Inv
  <2>2. filePresent /\ k = Final + 1 /\ Final \in items /\ Final \in Nat
    BY <2>1 DEF Inv, Parsed, TypeOK, Final
  <2>3. argv[Final] \notin Flags /\ DOMAIN argv = 1 .. Final /\ seen \subseteq Flags
    BY DEF Inv, TypeOK, Final
  <2>4. items \in SUBSET DOMAIN argv
    BY <2>2, <2>3
  <2>5. \A i \in DOMAIN argv : i \in items <=> Begins(argv, i, items)
    BY <2>1, <2>2, <2>3 DEF Cut
  <2>6. \A i \in items \ {Final} : argv[i] \in Flags
    BY <2>1, <2>3 DEF Parsed
  <2> QED
    BY <2>1, <2>2, <2>3, <2>4, <2>5, <2>6 DEF IsCall, Parsed, Final
<1> QED
  BY <1>1, OptionsCorrect, PTL

(* The parser never reads behind the last argument. *)
THEOREM StaysInsideArgv == Spec => []InsideArgv
<1>1. Inv => InsideArgv
  BY DEF Inv, TypeOK, InsideArgv, Flags, Final
<1> QED
  BY <1>1, OptionsCorrect, PTL

(* The name of the output file is the argument of -o. *)
THEOREM OutputIsNamed == Spec => []NamesOutput
<1>1. Inv => NamesOutput
  <2> SUFFICES ASSUME Inv, outcome = "run" PROVE NamesOutput
    BY DEF NamesOutput
  <2>1. PICK items \in SUBSET (1 .. k - 1) : Cut(items) /\ Parsed(items)
    BY DEF Inv
  <2>2. filePresent /\ k = Final + 1 /\ Final \in items /\ Final \in Nat /\ DOMAIN argv = 1 .. Final
    BY <2>1 DEF Inv, Parsed, TypeOK, Final
  <2>3. CASE "-o" \in seen
    <3>1. PICK i \in items : argv[i] = "-o"
      BY <2>1, <2>3 DEF Parsed
    <3>2. i + 1 < k /\ fileOutIndex = i + 1 /\ i \in 1 .. Final
      BY <2>1, <2>2, <3>1 DEF Parsed
    <3>3. i + 1 # Final
      BY <2>1, <2>2, <3>1, <3>2 DEF Cut, Begins
    <3> QED
      BY <2>2, <2>3, <3>1, <3>2, <3>3 DEF NamesOutput
  <2>4. CASE "-o" \notin seen
    BY <2>1, <2>4 DEF Parsed, NamesOutput
  <2> QED
    BY <2>3, <2>4
<1> QED
  BY <1>1, OptionsCorrect, PTL

=============================================================================
