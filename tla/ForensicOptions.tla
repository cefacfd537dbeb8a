--------------------------- MODULE ForensicOptions ---------------------------
(***************************************************************************)
(* How forensic reads its command line: extractOptions and extractHOptions *)
(* (Trabalho_1/forensic.c), with SIGINT blocked all the while.  An         *)
(* argument is one of Words; which texts a list of algorithms may be made  *)
(* of is abstracted to the set Lists, and argv starts at 1, after the name *)
(* of the program.  A step is one round of the loop.                       *)
(***************************************************************************)
EXTENDS Naturals, Sequences

CONSTANTS
    Words, Lists, \* the arguments, and those -h takes
    MaxArgs       \* bound on the number of arguments

Flags == {"-r", "-h", "-o", "-v"}

ASSUME OptionsAssumption ==
    Flags \subseteq Words /\ Lists \subseteq Words \ Flags /\ MaxArgs \in Nat

VARIABLES
    argv, k,
    seen,          \* boolArray: the options that are on
    fileOutIndex,  \* 0 without -o
    filePresent,
    outcome        \* "check", "loop", "run", or the kind of exit

vars == <<argv, k, seen, fileOutIndex, filePresent, outcome>>

Final == Len(argv)

Init ==
    /\ argv \in UNION {[1 .. n -> Words] : n \in 0 .. MaxArgs}
    /\ k = 1 /\ seen = {} /\ fileOutIndex = 0 /\ filePresent = FALSE
    /\ outcome = "check"

(* incUsage, and the exits with an error. *)
Quit(kind) == outcome' = kind /\ UNCHANGED <<argv, k, seen, fileOutIndex, filePresent>>

(* Mutation of Check: a flag may come last. *)
Check_NotLast ==
    /\ outcome = "check"
    /\ IF Final = 0 THEN Quit("usage") ELSE Quit("loop")

Check ==
    /\ outcome = "check"
    /\ IF Final = 0 \/ argv[Final] \in Flags THEN Quit("usage") ELSE Quit("loop")

Round(flag) == outcome = "loop" /\ k <= Final /\ argv[k] = flag

TurnOn(flag, taken) ==
    /\ seen' = seen \cup {flag} /\ k' = k + taken
    /\ UNCHANGED <<argv, filePresent, outcome>>

Recursive ==
    /\ Round("-r")
    /\ \/ "-r" \in seen /\ Quit("usage")
       \/ "-r" \notin seen /\ TurnOn("-r", 1) /\ UNCHANGED fileOutIndex

(* -h, and extractHOptions on the argument after it. *)
Algorithms ==
    /\ Round("-h")
    /\ \/ ("-h" \in seen \/ argv[k + 1] \notin Lists) /\ Quit("usage")
       \/ "-h" \notin seen /\ argv[k + 1] \in Lists /\ TurnOn("-h", 2) /\ UNCHANGED fileOutIndex

(* Mutation of Output: a flag is taken for the name of the file. *)
Output_Any ==
    /\ Round("-o")
    /\ \/ "-o" \in seen /\ Quit("usage")
       \/ "-o" \notin seen /\ TurnOn("-o", 2) /\ fileOutIndex' = k + 1

(* Mutation of Output: the index of the flag is kept. *)
Output_Flag ==
    /\ Round("-o")
    /\ \/ ("-o" \in seen \/ argv[k + 1] \in Flags) /\ Quit("usage")
       \/ "-o" \notin seen /\ argv[k + 1] \notin Flags /\ TurnOn("-o", 2) /\ fileOutIndex' = k

Output ==
    /\ Round("-o")
    /\ \/ ("-o" \in seen \/ argv[k + 1] \in Flags) /\ Quit("usage")
       \/ "-o" \notin seen /\ argv[k + 1] \notin Flags /\ TurnOn("-o", 2) /\ fileOutIndex' = k + 1

(* -v, for which the environment must have LOGFILENAME. *)
LogOption ==
    /\ Round("-v")
    /\ \/ "-v" \in seen /\ Quit("usage")
       \/ "-v" \notin seen /\ Quit("noLogFile")
       \/ "-v" \notin seen /\ TurnOn("-v", 1) /\ UNCHANGED fileOutIndex

(* The file or directory, which has to come last. *)
FileName ==
    /\ outcome = "loop" /\ k <= Final /\ argv[k] \notin Flags
    /\ \/ k # Final /\ Quit("usage")
       \/ /\ k = Final /\ filePresent' = TRUE /\ k' = k + 1
          /\ UNCHANGED <<argv, seen, fileOutIndex, outcome>>

(* After the loop: the files are opened. *)
OpenFiles ==
    /\ outcome = "loop" /\ k > Final
    /\ \/ ~filePresent /\ Quit("usage")
       \/ filePresent /\ seen \cap {"-o", "-v"} # {} /\ Quit("cannotOpen")
       \/ filePresent /\ Quit("run")

Next == Check \/ Recursive \/ Algorithms \/ Output \/ LogOption \/ FileName \/ OpenFiles

Spec == Init /\ [][Next]_vars

-----------------------------------------------------------------------------
(* Properties.                                                             *)

(* The places of a call where an option, or the name, begins: each but      *)
(* those behind -h and -o.                                                  *)
Begins(a, i, items) == i = 1 \/ i - 1 \notin items \/ a[i - 1] \in {"-r", "-v"}

(* The usage line of incUsage: options in any order, each once, the last    *)
(* of them followed by a name.  The line's brackets around -h are not       *)
(* balanced: they are read as `[-h <list>]', and what a list may be (Lists) *)
(* is what extractHOptions takes.                                           *)
IsCall(a) ==
    \E items \in SUBSET DOMAIN a :
        /\ \A i \in DOMAIN a : i \in items <=> Begins(a, i, items)
        /\ Len(a) \in items /\ a[Len(a)] \notin Flags
        /\ \A i \in items \ {Len(a)} : a[i] \in Flags
        /\ \A i, j \in items : a[i] = a[j] => i = j
        /\ \A i \in items : /\ a[i] = "-h" => a[i + 1] \in Lists
                            /\ a[i] = "-o" => a[i + 1] \notin Flags

(* A call is carried out only if the usage line allows it, and refused for  *)
(* its form only if it does not, whatever the order of the options and      *)
(* whatever their arguments look like.                                      *)
AcceptsUsage ==
    /\ outcome \in {"run", "cannotOpen"} => IsCall(argv)
    /\ outcome = "usage" => ~IsCall(argv)

(* The index never leaves argv, and -h and -o find an argument behind them  *)
(* inside of it: the one test of the last argument before the loop is       *)
(* enough, for the loop has none.                                           *)
InsideArgv ==
    /\ k \in 1 .. Final + 1 /\ fileOutIndex \in 0 .. Final
    /\ outcome = "loop" /\ k <= Final /\ argv[k] \in {"-h", "-o"} => k + 1 <= Final

(* The index that main prints the name of the output file with points       *)
(* behind a -o of the call, and never at the file to be analysed, which the *)
(* open with O_TRUNC would empty.                                           *)
NamesOutput ==
    outcome = "run" =>
        IF "-o" \in seen THEN \E i \in DOMAIN argv : argv[i] = "-o" /\ fileOutIndex = i + 1 /\ i + 1 < Final
        ELSE fileOutIndex = 0

=============================================================================
