-------------------------- MODULE Forensic_proofs --------------------------
(***************************************************************************)
(* Proofs about Forensic, for any tree of directories, any files and any   *)
(* failures.                                                               *)
(***************************************************************************)
EXTENDS Forensic, FiniteSetTheorems, TLAPS

USE ForensicAssumption

Codes == {0, 3, 4, 5, 7, KILLED}

(* What a process has still to do belongs to it, and a child that is still  *)
(* to be forked does not run.                                               *)
Left ==
    /\ \A p \in Dirs : filesLeft[p] \subseteq FilesIn(p)
    /\ \A p, c \in Dirs : c \in subdirsLeft[p] => c \in Subdirs[p] /\ pc[c] = "unborn"

Typing == TypeOK /\ Left

(* Everybody that runs after Ctrl-C has it pending. *)
Interrupts ==
    /\ \A p \in Dirs : interrupted /\ Alive(p) => p \in sigint
    /\ sigint # {} => interrupted
    /\ \A p \in Dirs : status[p] \in {5, 7} => interrupted

(* Paths are looked up before the working directory changes. *)
Paths == \A p \in Dirs : pc[p] \in {"unborn", "logDir", "signalDir", "open", "scan"} => ~atBase[p]

(* Each file of a process that has not failed is still to come, in hands,   *)
(* or done.                                                                 *)
FilesKept ==
    \A p \in Dirs : \A f \in FilesIn(p) :
        \/ status[p] \in {3, KILLED} \/ f \in filesLeft[p]
        \/ f \in written \cup unwritten /\ f \in analyzed
        \/ Blocked(p) /\ f = file[p] /\ (pc[p] = "log" => f \in written \cup unwritten)

(* The process p is through with its part of the tree. *)
Passed(p) == status[p] = 0 \/ pc[p] \in {"report", "leave"}

TreeKept ==
    /\ \A p, c \in Dirs : c \in Subdirs[p] /\ pc[c] = "unborn" => c \in subdirsLeft[p]
    /\ \A p \in Dirs : Passed(p) \/ Blocked(p) \/ pc[p] = "files" => subdirsLeft[p] = {}
    /\ \A p \in Dirs : Passed(p) => filesLeft[p] = {} /\ Children(p) = {}
    /\ \A c \in reaped : status[c] \in {0, KILLED}

(* The children of an ended process passed as well, and those below them.   *)
Deep == \A p \in Dirs : Passed(p) /\ Survived => \A q \in Below[p] : status[q] = 0

Silent == pc[Root] \in {"report", "leave"} /\ Survived => usr = {}

(* What has been announced by a signal, not only in the log. *)
AnnouncedDirs == {d \in sent \cap Dirs : pc[d] # "signalDir"}
AnnouncedFiles ==
    {f \in sent \cap Files : pc[Place[f]] = "signalFile" => file[Place[f]] # f}

Announcing ==
    /\ \A p \in Dirs : pc[p] \in {"unborn", "logDir"} => p \notin sent
    /\ \A p \in Dirs : \A f \in filesLeft[p] : f \notin sent
    /\ \A p \in Dirs : pc[p] = "signalDir" => p \in sent
    /\ \A p \in Dirs : pc[p] = "signalFile" => file[p] \in sent

Sums ==
    /\ numDirs + (IF "SIGUSR1" \in usr THEN 1 ELSE 0) <= Cardinality(AnnouncedDirs)
    /\ numFiles + (IF "SIGUSR2" \in usr THEN 1 ELSE 0) <= Cardinality(AnnouncedFiles)

-----------------------------------------------------------------------------
(* Types.                                                                  *)

(* The end of a process keeps the types. *)
LEMMA TypingExit ==
    ASSUME Typing, NEW p \in Dirs, Alive(p), NEW code \in Codes, Exit(p, code)
    PROVE  Typing'
<1>1. TypeOK'
  BY DEF Typing, TypeOK, Exit, Goto, Codes, Labels, KILLED, Alive, FilesIn, ctrlC, counters, lines, tree
<1>2. Left'
  BY DEF Typing, TypeOK, Left, Exit, Goto, Alive, FilesIn, tree
<1> QED
  BY <1>1, <1>2 DEF Typing

(* Every other step that a process takes by itself keeps them too. *)
LEMMA TypingRuns ==
    ASSUME Typing, NEW p \in Dirs, Runs(p)
    PROVE  Typing'
<1> USE DEF Typing, Left, At, Goto, Labels, FilesIn, ctrlC, counters, lines, tree
<1>1. CASE LogDir(p)
  BY <1>1 DEF LogDir, TypeOK
<1>2. CASE SignalDir(p)
  BY <1>2 DEF SignalDir, Signal, TypeOK
<1>3. CASE Open(p)
  <2>1. CASE Exit(p, 4)
    BY <1>3, <2>1, TypingExit DEF Open, Alive, Codes
  <2>2. CASE ~Exit(p, 4)
    <3>1. /\ pc[p] = "open" /\ pc' = [pc EXCEPT ![p] = "scan"]
          /\ UNCHANGED <<status, atBase, tree, file, usr, ctrlC, counters, lines>>
      BY <1>3, <2>2 DEF Open
    <3>2. TypeOK'
      BY <3>1 DEF TypeOK
    <3>3. Left'
      BY <3>1 DEF TypeOK
    <3> QED
      BY <3>2, <3>3
  <2> QED
    BY <2>1, <2>2
<1>4. CASE ChangeDir(p)
  <2>1. CASE Exit(p, 4)
    BY <1>4, <2>1, TypingExit DEF ChangeDir, Alive, Codes
  <2>2. CASE ~Exit(p, 4)
    <3>1. /\ pc[p] = "scan" /\ pc' = [pc EXCEPT ![p] = "files"]
          /\ atBase' = [atBase EXCEPT ![p] = TRUE]
          /\ UNCHANGED <<status, tree, file, usr, ctrlC, counters, lines>>
      BY <1>4, <2>2 DEF ChangeDir
    <3>2. TypeOK'
      BY <3>1 DEF TypeOK
    <3>3. Left'
      BY <3>1 DEF TypeOK
    <3> QED
      BY <3>2, <3>3
  <2> QED
    BY <2>1, <2>2
<1>5. ASSUME NEW c \in Dirs, Fork(p, c) PROVE Typing'
  <2>1. ASSUME NEW code \in {3, 4}, Exit(p, code) PROVE Typing'
    BY <1>5, <2>1, TypingExit DEF Fork, Alive, Codes
  <2>2. CASE ~\E code \in {3, 4} : Exit(p, code)
    <3>1. /\ pc[p] = "scan" /\ c \in subdirsLeft[p] /\ pc' = [pc EXCEPT ![c] = Begin]
          /\ subdirsLeft' = [subdirsLeft EXCEPT ![p] = @ \ {c}]
          /\ atBase' = [atBase EXCEPT ![c] = atBase[p]]
          /\ UNCHANGED <<status, filesLeft, reaped, file, usr, ctrlC, counters, lines>>
      BY <1>5, <2>2 DEF Fork
    <3>2. c \in Subdirs[p] /\ pc[c] = "unborn" /\ c # Root /\ c # p
      BY <3>1
    <3>3. Begin \in {"logDir", "open"}
      BY DEF Begin
    <3>4. TypeOK'
      BY <3>1, <3>2, <3>3 DEF TypeOK
    <3>5. \A q, e \in Dirs : e \in subdirsLeft'[q] => e \in Subdirs[q] /\ e # c
      <4> SUFFICES ASSUME NEW q \in Dirs, NEW e \in Dirs, e \in subdirsLeft'[q]
                   PROVE  e \in Subdirs[q] /\ e # c
        OBVIOUS
      <4>1. CASE q = p
        BY <3>1, <4>1 DEF TypeOK
      <4>2. CASE q # p
        BY <3>1, <3>2, <4>2 DEF TypeOK
      <4> QED
        BY <4>1, <4>2
    <3>6. \A q, e \in Dirs : e \in subdirsLeft'[q] => e \in subdirsLeft[q]
      BY <3>1 DEF TypeOK
    <3>7. \A e \in Dirs : e # c => pc'[e] = pc[e]
      BY <3>1 DEF TypeOK
    <3>8. Left'
      BY <3>1, <3>5, <3>6, <3>7
    <3> QED
      BY <3>4, <3>8
  <2> QED
    BY <2>1, <2>2
<1>6. ASSUME NEW c \in Dirs, Wait(p, c) PROVE Typing'
  <2>1. CASE Exit(p, 4)
    BY <1>6, <2>1, TypingExit DEF Wait, Alive, Codes
  <2> QED
    BY <1>6, <2>1 DEF Wait, TypeOK
<1>7. ASSUME NEW f \in Files, BeginFile(p, f) PROVE Typing'
  <2>1. CASE Exit(p, 3)
    BY <1>7, <2>1, TypingExit DEF BeginFile, Alive, Codes
  <2>2. CASE ~Exit(p, 3)
    <3>1. /\ pc[p] = "files" /\ f \in FilesIn(p)
          /\ filesLeft' = [filesLeft EXCEPT ![p] = @ \ {f}]
          /\ file' = [file EXCEPT ![p] = f]
          /\ pc' = [pc EXCEPT ![p] = IF OUT THEN "signalFile" ELSE "write"]
          /\ sent' = IF OUT THEN sent \cup {f} ELSE sent
          /\ UNCHANGED <<status, atBase, subdirsLeft, reaped, usr, ctrlC, counters,
                         written, unwritten, analyzed>>
      BY <1>7, <2>2 DEF BeginFile
    <3>2. TypeOK'
      BY <3>1 DEF TypeOK
    <3>3. Left'
      BY <3>1 DEF TypeOK
    <3> QED
      BY <3>2, <3>3
  <2> QED
    BY <2>1, <2>2
<1>8. CASE SignalFile(p)
  BY <1>8 DEF SignalFile, Signal, TypeOK
<1>9. CASE WriteLine(p)
  <2>1. CASE Exit(p, 3)
    BY <1>9, <2>1, TypingExit DEF WriteLine, Alive, Codes
  <2> QED
    BY <1>9, <2>1 DEF WriteLine, TypeOK
<1>10. CASE LogFile(p)
  BY <1>10 DEF LogFile, TypeOK
<1>11. CASE Finish(p)
  <2>1. CASE Exit(p, 0)
    BY <1>11, <2>1, TypingExit DEF Finish, Alive, Codes
  <2> QED
    BY <1>11, <2>1 DEF Finish, TypeOK
<1> QED
  BY <1>1, <1>2, <1>3, <1>4, <1>5, <1>6, <1>7, <1>8, <1>9, <1>10, <1>11 DEF Runs

LEMMA TypingStep == Typing /\ [Next]_vars => Typing'
<1> SUFFICES ASSUME Typing, [Next]_vars PROVE Typing'
  OBVIOUS
<1>1. ASSUME NEW p \in Dirs, HandleInterrupt(p) PROVE Typing'
  BY <1>1, TypingExit DEF HandleInterrupt, Codes
<1>2. ASSUME NEW p \in Dirs, Killed(p) PROVE Typing'
  BY <1>2, TypingExit DEF Killed, Codes
<1>3. CASE Report
  BY <1>3 DEF Report, At, Goto, Typing, TypeOK, Left, Labels, FilesIn, ctrlC, counters, lines, tree
<1>4. CASE Leave
  BY <1>4, TypingExit DEF Leave, At, Alive, Codes
<1>5. ASSUME NEW s \in usr, Count(s) PROVE Typing'
  BY <1>5 DEF Count, Typing, TypeOK, Left, FilesIn, ctrlC, lines, tree
<1>6. CASE Interrupt
  BY <1>6 DEF Interrupt, Typing, TypeOK, Left, FilesIn, counters, lines, tree
<1>7. CASE UNCHANGED vars
  BY <1>7 DEF vars, Typing, TypeOK, Left, FilesIn, ctrlC, counters, lines, tree
<1> QED
  BY <1>1, <1>2, <1>3, <1>4, <1>5, <1>6, <1>7, TypingRuns DEF Next, MainRuns

LEMMA TypingInit == Init => Typing
<1> SUFFICES ASSUME Init PROVE Typing
  OBVIOUS
<1>1. TypeOK
  BY DEF Init, TypeOK, Labels, Begin, FilesIn
<1>2. Left
  BY DEF Init, Left, FilesIn
<1> QED
  BY <1>1, <1>2 DEF Typing

LEMMA TypingCorrect == Spec => []Typing
BY TypingInit, TypingStep, PTL DEF Spec

(* Every variable keeps its type, a child never goes on as the first        *)
(* process, and the file a process has in hands is one of its directory.    *)
THEOREM ForensicTyped == Spec => []TypeOK
BY TypingCorrect, PTL DEF Typing

-----------------------------------------------------------------------------
(* Ctrl-C.                                                                 *)

(* A process that takes a step outside the analysis of a file has not been  *)
(* interrupted.                                                             *)
LEMMA NotInterrupted ==
    ASSUME Typing, Interrupts, NEW p \in Dirs, Alive(p), ~Blocked(p), Undisturbed(p)
    PROVE  ~interrupted /\ p \notin sigint
BY DEF Interrupts, Undisturbed

LEMMA InterruptsExit ==
    ASSUME Typing, Interrupts, NEW p \in Dirs, Alive(p), NEW code \in Codes, Exit(p, code),
           code \in {5, 7} => interrupted
    PROVE  Interrupts'
BY DEF Typing, TypeOK, Interrupts, Exit, Goto, Alive

LEMMA InterruptsRuns ==
    ASSUME Typing, Interrupts, NEW p \in Dirs, Runs(p)
    PROVE  Interrupts'
<1> USE DEF Goto, ctrlC, counters, lines, tree
<1>1. CASE LogDir(p)
  BY <1>1 DEF LogDir, At, Alive, Interrupts, Typing, TypeOK
<1>2. CASE SignalDir(p)
  BY <1>2 DEF SignalDir, At, Alive, Interrupts, Typing, TypeOK
<1>3. CASE Open(p)
  <2>1. CASE Exit(p, 4)
    BY <1>3, <2>1, InterruptsExit DEF Open, At, Alive, Codes
  <2> QED
    BY <1>3, <2>1 DEF Open, At, Alive, Interrupts, Typing, TypeOK
<1>4. CASE ChangeDir(p)
  <2>1. CASE Exit(p, 4)
    BY <1>4, <2>1, InterruptsExit DEF ChangeDir, At, Alive, Codes
  <2> QED
    BY <1>4, <2>1 DEF ChangeDir, At, Alive, Interrupts, Typing, TypeOK
<1>5. ASSUME NEW c \in Dirs, Fork(p, c) PROVE Interrupts'
  <2>1. ASSUME NEW code \in {3, 4}, Exit(p, code) PROVE Interrupts'
    BY <1>5, <2>1, InterruptsExit DEF Fork, At, Alive, Codes
  <2>2. ~interrupted
    BY <1>5, NotInterrupted DEF Fork, At, Alive, Blocked
  <2> QED
    BY <1>5, <2>1, <2>2 DEF Fork, Interrupts, Typing, TypeOK
<1>6. ASSUME NEW c \in Dirs, Wait(p, c) PROVE Interrupts'
  <2>1. CASE Exit(p, 4)
    BY <1>6, <2>1, InterruptsExit DEF Wait, At, Alive, Codes
  <2> QED
    BY <1>6, <2>1 DEF Wait, Interrupts, Alive
<1>7. ASSUME NEW f \in Files, BeginFile(p, f) PROVE Interrupts'
  <2>1. CASE Exit(p, 3)
    BY <1>7, <2>1, InterruptsExit DEF BeginFile, At, Alive, Codes
  <2> QED
    BY <1>7, <2>1 DEF BeginFile, At, Alive, Interrupts, Typing, TypeOK
<1>8. CASE SignalFile(p)
  BY <1>8 DEF SignalFile, At, Alive, Interrupts, Typing, TypeOK
<1>9. CASE WriteLine(p)
  <2>1. CASE Exit(p, 3)
    BY <1>9, <2>1, InterruptsExit DEF WriteLine, At, Alive, Codes
  <2> QED
    BY <1>9, <2>1 DEF WriteLine, At, Alive, Interrupts, Typing, TypeOK
<1>10. CASE LogFile(p)
  BY <1>10 DEF LogFile, At, Alive, Interrupts, Typing, TypeOK
<1>11. CASE Finish(p)
  <2>1. CASE Exit(p, 0)
    BY <1>11, <2>1, InterruptsExit DEF Finish, At, Alive, Codes
  <2> QED
    BY <1>11, <2>1 DEF Finish, At, Alive, Interrupts, Typing, TypeOK
<1> QED
  BY <1>1, <1>2, <1>3, <1>4, <1>5, <1>6, <1>7, <1>8, <1>9, <1>10, <1>11 DEF Runs

LEMMA InterruptsStep == Typing /\ Interrupts /\ [Next]_vars => Interrupts'
<1> SUFFICES ASSUME Typing, Interrupts, [Next]_vars PROVE Interrupts'
  OBVIOUS
<1>1. ASSUME NEW p \in Dirs, HandleInterrupt(p) PROVE Interrupts'
  <2>1. interrupted
    BY <1>1 DEF HandleInterrupt, Interrupts
  <2> QED
    BY <1>1, <2>1, InterruptsExit DEF HandleInterrupt, Codes
<1>2. ASSUME NEW p \in Dirs, Killed(p) PROVE Interrupts'
  BY <1>2, InterruptsExit DEF Killed, Codes, KILLED
<1>3. CASE Report
  BY <1>3 DEF Report, At, Goto, Alive, Interrupts, Typing, TypeOK, ctrlC
<1>4. CASE Leave
  BY <1>4, InterruptsExit DEF Leave, At, Alive, Codes
<1>5. ASSUME NEW s \in usr, Count(s) PROVE Interrupts'
  BY <1>5 DEF Count, Interrupts, Alive, ctrlC
<1>6. CASE Interrupt
  BY <1>6 DEF Interrupt, Interrupts, Alive
<1>7. CASE UNCHANGED vars
  BY <1>7 DEF vars, Interrupts, Alive, ctrlC
<1> QED
  BY <1>1, <1>2, <1>3, <1>4, <1>5, <1>6, <1>7, InterruptsRuns DEF Next, MainRuns

LEMMA InterruptsCorrect == Spec => [](Typing /\ Interrupts)
<1>1. Init => Interrupts
  BY DEF Init, Interrupts
<1> QED
  BY <1>1, TypingInit, TypingStep, InterruptsStep, PTL DEF Spec

(* A step of a process that is neither Fork nor BeginFile starts nothing.    *)
LEMMA StartsNothing ==
    ASSUME Typing, NEW p \in Dirs, NEW q \in Dirs, Alive(p),
           filesLeft' = filesLeft, pc' = pc \/ (\E label : Goto(p, label))
    PROVE  /\ pc[q] = "unborn" => pc'[q] = "unborn"
           /\ filesLeft'[q] = filesLeft[q]
BY DEF Typing, TypeOK, Goto, Alive

LEMMA ExitGoes ==
    ASSUME NEW p \in Dirs, NEW code, Exit(p, code)
    PROVE  Goto(p, "ended") /\ filesLeft' = filesLeft
BY DEF Exit, tree

(* Only Fork and BeginFile start anything, and neither is taken by a        *)
(* process that has Ctrl-C pending.                                         *)
LEMMA NothingNewStep ==
    ASSUME Typing, Interrupts, Next, interrupted, NEW q \in Dirs
    PROVE  /\ pc[q] = "unborn" => pc'[q] = "unborn"
           /\ filesLeft'[q] = filesLeft[q]
<1> DEFINE Same == /\ pc[q] = "unborn" => pc'[q] = "unborn"
                   /\ filesLeft'[q] = filesLeft[q]
<1>1. ASSUME NEW p \in Dirs, Runs(p) PROVE Same
  <2>1. \A c \in Dirs : ~Fork(p, c)
    BY NotInterrupted DEF Fork, At, Alive, Blocked
  <2>2. \A f \in Files : ~BeginFile(p, f)
    BY NotInterrupted DEF BeginFile, At, Alive, Blocked
  <2>3. Alive(p)
    BY <1>1 DEF Runs, LogDir, SignalDir, Open, ChangeDir, Fork, Wait, BeginFile, SignalFile,
                WriteLine, LogFile, Finish, At, Alive
  <2>4. filesLeft' = filesLeft /\ (pc' = pc \/ \E label : Goto(p, label))
    <3>1. CASE LogDir(p) \/ SignalDir(p) \/ SignalFile(p) \/ LogFile(p)
      BY <3>1 DEF LogDir, SignalDir, SignalFile, LogFile, tree
    <3>2. CASE Open(p) \/ ChangeDir(p) \/ WriteLine(p) \/ Finish(p)
      BY <3>2, ExitGoes DEF Open, ChangeDir, WriteLine, Finish, tree
    <3>3. ASSUME NEW c \in Dirs, Wait(p, c)
          PROVE  filesLeft' = filesLeft /\ (pc' = pc \/ \E label : Goto(p, label))
      BY <3>3, ExitGoes DEF Wait
    <3> QED
      BY <1>1, <2>1, <2>2, <3>1, <3>2, <3>3 DEF Runs
  <2> QED
    BY <2>3, <2>4, StartsNothing
<1>2. ASSUME NEW p \in Dirs, HandleInterrupt(p) \/ Killed(p) PROVE Same
  <2>1. Alive(p) /\ Goto(p, "ended") /\ filesLeft' = filesLeft
    BY <1>2, ExitGoes DEF HandleInterrupt, Killed
  <2> QED
    BY <2>1, StartsNothing
<1>3. CASE Report \/ Leave
  <2>1. Alive(Root) /\ filesLeft' = filesLeft /\ \E label : Goto(Root, label)
    BY <1>3, ExitGoes DEF Report, Leave, At, Alive, tree
  <2> QED
    BY <2>1, StartsNothing
<1>4. ASSUME NEW s \in usr, Count(s) PROVE Same
  BY <1>4 DEF Count, tree
<1>5. CASE Interrupt
  BY <1>5 DEF Interrupt, tree
<1> QED
  BY <1>1, <1>2, <1>3, <1>4, <1>5 DEF Next, MainRuns

(* After Ctrl-C no process is forked and no other file is begun, in any     *)
(* tree and wherever in their work the processes are.                       *)
THEOREM NoNewWork == Spec => NothingNewAfterInterrupt
<1>1. Typing /\ Interrupts /\ [Next]_vars =>
        [interrupted => \A p \in Dirs : /\ pc[p] = "unborn" => pc'[p] = "unborn"
                                        /\ filesLeft'[p] = filesLeft[p]]_vars
  BY NothingNewStep
<1> QED
  BY <1>1, InterruptsCorrect, PTL DEF Spec, NothingNewAfterInterrupt

-----------------------------------------------------------------------------
(* Failures.                                                               *)

LEMMA PathsExit ==
    ASSUME Typing, Paths, NEW p \in Dirs, NEW code \in Codes, Exit(p, code)
    PROVE  Paths'
BY DEF Typing, TypeOK, Paths, Exit, Goto

LEMMA PathsRuns ==
    ASSUME Typing, Paths, NEW p \in Dirs, Runs(p)
    PROVE  Paths'
<1> USE DEF Goto, At, Typing, TypeOK, Paths
<1>1. CASE LogDir(p)
  BY <1>1 DEF LogDir
<1>2. CASE SignalDir(p)
  BY <1>2 DEF SignalDir
<1>3. CASE Open(p)
  BY <1>3, PathsExit DEF Open, Codes
<1>4. CASE ChangeDir(p)
  BY <1>4, PathsExit DEF ChangeDir, Codes
<1>5. ASSUME NEW c \in Dirs, Fork(p, c) PROVE Paths'
  <2>1. ASSUME NEW code \in {3, 4}, Exit(p, code) PROVE Paths'
    BY <2>1, PathsExit DEF Codes
  <2>2. CASE ~\E code \in {3, 4} : Exit(p, code)
    <3>1. pc[p] = "scan" /\ pc' = [pc EXCEPT ![c] = Begin] /\ atBase' = [atBase EXCEPT ![c] = atBase[p]]
      BY <1>5, <2>2 DEF Fork
    <3> QED
      BY <3>1
  <2> QED
    BY <2>1, <2>2
<1>6. ASSUME NEW c \in Dirs, Wait(p, c) PROVE Paths'
  BY <1>6, PathsExit DEF Wait, Codes
<1>7. ASSUME NEW f \in Files, BeginFile(p, f) PROVE Paths'
  BY <1>7, PathsExit DEF BeginFile, Codes
<1>8. CASE SignalFile(p)
  BY <1>8 DEF SignalFile
<1>9. CASE WriteLine(p)
  BY <1>9, PathsExit DEF WriteLine, Codes
<1>10. CASE LogFile(p)
  BY <1>10 DEF LogFile
<1>11. CASE Finish(p)
  BY <1>11, PathsExit DEF Finish, Codes
<1> QED
  BY <1>1, <1>2, <1>3, <1>4, <1>5, <1>6, <1>7, <1>8, <1>9, <1>10, <1>11 DEF Runs

LEMMA PathsStep == Typing /\ Paths /\ [Next]_vars => Paths'
<1> SUFFICES ASSUME Typing, Paths, [Next]_vars PROVE Paths'
  OBVIOUS
<1>1. ASSUME NEW p \in Dirs, HandleInterrupt(p) \/ Killed(p) PROVE Paths'
  BY <1>1, PathsExit DEF HandleInterrupt, Killed, Codes
<1>2. CASE Report
  BY <1>2 DEF Report, At, Goto, Paths, Typing, TypeOK
<1>3. CASE Leave
  BY <1>3, PathsExit DEF Leave, Codes
<1>4. CASE Interrupt \/ (\E s \in usr : Count(s)) \/ UNCHANGED vars
  BY <1>4 DEF Interrupt, Count, vars, Paths
<1> QED
  BY <1>1, <1>2, <1>3, <1>4, PathsRuns DEF Next, MainRuns

(* There is a failure in the part of the tree that the process p works on.  *)
Cause(p) == \E d \in {p} \cup Below[p] : ({d} \cup FilesIn(d)) \cap Failing # {}

LEMMA CauseOfChild ==
    ASSUME NEW p \in Dirs, NEW c \in Subdirs[p], Cause(c)
    PROVE  Cause(p)
<1>1. Below[p] = Subdirs[p] \cup UNION {Below[e] : e \in Subdirs[p]}
  OBVIOUS
<1>2. {c} \cup Below[c] \subseteq Below[p]
  BY <1>1
<1> QED
  BY <1>2 DEF Cause

LEMMA CauseExit ==
    ASSUME Typing, FailureHasCause, NEW p \in Dirs, NEW code \in Codes, Exit(p, code),
           code \in {3, 4} => Cause(p)
    PROVE  FailureHasCause'
BY DEF Typing, TypeOK, FailureHasCause, Exit, Cause

LEMMA CauseRuns ==
    ASSUME Typing, Interrupts, Paths, FailureHasCause, NEW p \in Dirs, Runs(p)
    PROVE  FailureHasCause'
<1> USE DEF Codes
<1>1. CASE LogDir(p) \/ SignalDir(p) \/ SignalFile(p) \/ LogFile(p)
  BY <1>1 DEF LogDir, SignalDir, SignalFile, LogFile, FailureHasCause
<1>1a. CASE ChangeDir(p)
  <2>1. CASE Exit(p, 4)
    <3>1. pc[p] = "scan" /\ pc'[p] = "ended"
      BY <1>1a, <2>1 DEF ChangeDir, At, Exit, Goto, Typing, TypeOK
    <3>2. p \in Failing
      BY <1>1a, <3>1 DEF ChangeDir, Goto, Typing, TypeOK
    <3> QED
      BY <2>1, <3>2, CauseExit DEF Cause
  <2> QED
    BY <1>1a, <2>1 DEF ChangeDir, FailureHasCause
<1>2. CASE Open(p)
  <2>1. CASE Exit(p, 4)
    <3>1. ~atBase[p]
      BY <1>2 DEF Open, At, Paths
    <3>2. pc[p] = "open"
      BY <1>2 DEF Open, At
    <3>3. p \in Failing
      BY <1>2, <3>1, <3>2, <2>1 DEF Open, Exit, Goto, Typing, TypeOK
    <3> QED
      BY <2>1, <3>3, CauseExit DEF Cause
  <2> QED
    BY <1>2, <2>1 DEF Open, FailureHasCause
<1>3. ASSUME NEW c \in Dirs, Fork(p, c) PROVE FailureHasCause'
  <2>1. ASSUME NEW code \in {3, 4}, Exit(p, code) PROVE FailureHasCause'
    <3>1. pc[p] = "scan" /\ c \in Subdirs[p]
      BY <1>3 DEF Fork, At, Typing, Left
    <3>2. c # p
      BY <1>3 DEF Fork, At, Typing, Left
    <3>3. c \in Failing
      <4>1. pc'[p] = "ended"
        BY <2>1 DEF Exit, Goto, Typing, TypeOK
      <4>2. pc' # [pc EXCEPT ![c] = Begin]
        BY <4>1, <3>1, <3>2 DEF Typing, TypeOK
      <4> QED
        BY <1>3, <4>2 DEF Fork
    <3>4. Cause(c)
      BY <3>3 DEF Cause
    <3>5. Cause(p)
      BY <3>1, <3>4, CauseOfChild
    <3> QED
      BY <2>1, <3>5, CauseExit
  <2> QED
    BY <1>3, <2>1 DEF Fork, FailureHasCause
<1>4. ASSUME NEW c \in Dirs, Wait(p, c) PROVE FailureHasCause'
  <2>1. CASE ExitStatus(c) # 0 /\ Exit(p, 4)
    <3>1. ~interrupted
      BY <1>4, NotInterrupted DEF Wait, At, Alive, Blocked
    <3>2. status[c] \in {3, 4}
      <4>1. status[c] \in {None, 0, 3, 4, 5, 7, KILLED} /\ status[c] # None
        BY <1>4 DEF Wait, Typing, TypeOK
      <4>2. status[c] \notin {5, 7}
        BY <3>1 DEF Interrupts
      <4> QED
        BY <2>1, <4>1, <4>2 DEF ExitStatus
    <3>3. Cause(c)
      BY <3>2 DEF FailureHasCause, Cause
    <3>4. Cause(p)
      BY <1>4, <3>3, CauseOfChild DEF Wait, Children
    <3> QED
      BY <2>1, <3>4, CauseExit
  <2> QED
    BY <1>4, <2>1 DEF Wait, FailureHasCause
<1>5. ASSUME NEW f \in Files, BeginFile(p, f) PROVE FailureHasCause'
  <2>1. CASE Exit(p, 3)
    <3>1. pc[p] = "files" /\ f \in FilesIn(p)
      BY <1>5 DEF BeginFile, At, Typing, Left
    <3>2. f \in Failing
      BY <1>5, <2>1, <3>1 DEF BeginFile, Exit, Goto, Typing, TypeOK
    <3> QED
      BY <2>1, <3>1, <3>2, CauseExit DEF Cause
  <2> QED
    BY <1>5, <2>1 DEF BeginFile, FailureHasCause
<1>6. CASE WriteLine(p)
  <2>1. CASE Exit(p, 3)
    <3>1. pc[p] = "write" /\ file[p] \in FilesIn(p)
      BY <1>6 DEF WriteLine, At, Typing, TypeOK
    <3>2. file[p] \in Failing
      BY <1>6, <2>1, <3>1 DEF WriteLine, Exit, Goto, Typing, TypeOK
    <3> QED
      BY <2>1, <3>1, <3>2, CauseExit DEF Cause
  <2> QED
    BY <1>6, <2>1 DEF WriteLine, FailureHasCause
<1>7. CASE Finish(p)
  <2>1. CASE Exit(p, 0)
    BY <2>1, CauseExit
  <2> QED
    BY <1>7, <2>1 DEF Finish, FailureHasCause
<1> QED
  BY <1>1, <1>1a, <1>2, <1>3, <1>4, <1>5, <1>6, <1>7 DEF Runs

LEMMA CauseStep ==
    Typing /\ Interrupts /\ Paths /\ FailureHasCause /\ [Next]_vars => FailureHasCause'
<1> SUFFICES ASSUME Typing, Interrupts, Paths, FailureHasCause, [Next]_vars
             PROVE  FailureHasCause'
  OBVIOUS
<1>1. ASSUME NEW p \in Dirs, HandleInterrupt(p) \/ Killed(p) PROVE FailureHasCause'
  BY <1>1, CauseExit DEF HandleInterrupt, Killed, Codes, KILLED
<1>2. CASE Leave
  BY <1>2, CauseExit DEF Leave, Codes
<1>3. CASE Report \/ Interrupt \/ (\E s \in usr : Count(s)) \/ UNCHANGED vars
  BY <1>3 DEF Report, Interrupt, Count, vars, FailureHasCause
<1> QED
  BY <1>1, <1>2, <1>3, CauseRuns DEF Next, MainRuns

(* Whatever the tree, a process ends with 3 or 4 only if a call failed in   *)
(* its part of the tree: Ctrl-C never makes a parent report a failure, and  *)
(* no path is looked up from the wrong working directory.                   *)
THEOREM FailuresHaveCauses == Spec => []FailureHasCause
<1>1. Init => Paths /\ FailureHasCause
  BY DEF Init, Paths, FailureHasCause
<1> QED
  BY <1>1, InterruptsCorrect, PathsStep, CauseStep, PTL DEF Spec

-----------------------------------------------------------------------------
(* Files.                                                                  *)

LEMMA FilesExit ==
    ASSUME Typing, FilesKept, NEW p \in Dirs, NEW code \in Codes, Alive(p), Exit(p, code),
           code \notin {3, KILLED} => ~Blocked(p)
    PROVE  FilesKept'
<1>1. /\ pc' = [pc EXCEPT ![p] = "ended"] /\ status' = [status EXCEPT ![p] = code]
      /\ filesLeft' = filesLeft /\ file' = file /\ UNCHANGED <<written, unwritten, analyzed>>
  BY DEF Exit, Goto, tree, lines
<1>2. status[p] = None
  BY DEF Typing, TypeOK, Alive
<1>3. \A q \in Dirs : q # p => pc'[q] = pc[q] /\ status'[q] = status[q]
  BY <1>1 DEF Typing, TypeOK
<1>4. status'[p] = code
  BY <1>1 DEF Typing, TypeOK
<1>5. SUFFICES ASSUME NEW q \in Dirs, NEW f \in FilesIn(q)
               PROVE  (\/ status[q] \in {3, KILLED} \/ f \in filesLeft[q]
                       \/ f \in written \cup unwritten /\ f \in analyzed
                       \/ /\ Blocked(q) /\ f = file[q]
                          /\ pc[q] = "log" => f \in written \cup unwritten)'
  BY DEF FilesKept, FilesIn
<1>6. \/ status[q] \in {3, KILLED} \/ f \in filesLeft[q]
      \/ f \in written \cup unwritten /\ f \in analyzed
      \/ Blocked(q) /\ f = file[q] /\ (pc[q] = "log" => f \in written \cup unwritten)
  BY DEF FilesKept
<1>7. CASE q = p
  BY <1>1, <1>2, <1>4, <1>6, <1>7 DEF Codes, KILLED
<1>8. CASE q # p
  BY <1>1, <1>3, <1>6, <1>8 DEF Blocked
<1> QED
  BY <1>7, <1>8

LEMMA FilesRuns ==
    ASSUME Typing, FilesKept, NEW p \in Dirs, Runs(p)
    PROVE  FilesKept'
<1> USE DEF At, Goto, Blocked, FilesIn, ctrlC, counters, lines, tree
<1>1. CASE LogDir(p) \/ SignalDir(p)
  BY <1>1 DEF LogDir, SignalDir, FilesKept, Typing, TypeOK
<1>1a. CASE ChangeDir(p)
  <2>1. CASE Exit(p, 4)
    BY <1>1a, <2>1, FilesExit DEF ChangeDir, Alive, Codes
  <2> QED
    BY <1>1a, <2>1 DEF ChangeDir, FilesKept, Typing, TypeOK
<1>2. CASE Open(p)
  <2>1. CASE Exit(p, 4)
    BY <1>2, <2>1, FilesExit DEF Open, Alive, Codes
  <2> QED
    BY <1>2, <2>1 DEF Open, FilesKept, Typing, TypeOK
<1>3. ASSUME NEW c \in Dirs, Fork(p, c) PROVE FilesKept'
  <2>1. ASSUME NEW code \in {3, 4}, Exit(p, code) PROVE FilesKept'
    BY <1>3, <2>1, FilesExit DEF Fork, Alive, Codes
  <2> QED
    BY <1>3, <2>1 DEF Fork, FilesKept, Typing, TypeOK, Left
<1>4. ASSUME NEW c \in Dirs, Wait(p, c) PROVE FilesKept'
  <2>1. CASE Exit(p, 4)
    BY <1>4, <2>1, FilesExit DEF Wait, Alive, Codes
  <2> QED
    BY <1>4, <2>1 DEF Wait, FilesKept
<1>5. ASSUME NEW f \in Files, BeginFile(p, f) PROVE FilesKept'
  <2>1. CASE Exit(p, 3)
    BY <1>5, <2>1, FilesExit DEF BeginFile, Alive, Codes
  <2>2. CASE ~Exit(p, 3)
    <3>1. /\ pc[p] = "files"
          /\ filesLeft' = [filesLeft EXCEPT ![p] = @ \ {f}]
          /\ file' = [file EXCEPT ![p] = f]
          /\ pc' = [pc EXCEPT ![p] = IF OUT THEN "signalFile" ELSE "write"]
          /\ UNCHANGED <<status, written, unwritten, analyzed>>
      BY <1>5, <2>2 DEF BeginFile
    <3>2. pc'[p] \in {"signalFile", "write"} /\ file'[p] = f /\ filesLeft'[p] = filesLeft[p] \ {f}
      BY <3>1 DEF Typing, TypeOK
    <3>3. \A q \in Dirs : q # p => /\ pc'[q] = pc[q] /\ file'[q] = file[q]
                                   /\ filesLeft'[q] = filesLeft[q]
      BY <3>1 DEF Typing, TypeOK
    <3> QED
      BY <3>1, <3>2, <3>3 DEF FilesKept
  <2> QED
    BY <2>1, <2>2
<1>6. CASE SignalFile(p)
  BY <1>6 DEF SignalFile, FilesKept, Typing, TypeOK
<1>7. CASE WriteLine(p)
  <2>1. CASE Exit(p, 3)
    BY <1>7, <2>1, FilesExit DEF WriteLine, Alive, Codes
  <2> QED
    BY <1>7, <2>1 DEF WriteLine, FilesKept, Typing, TypeOK
<1>8. CASE LogFile(p)
  BY <1>8 DEF LogFile, FilesKept, Typing, TypeOK
<1>9. CASE Finish(p)
  <2>1. CASE Exit(p, 0)
    BY <1>9, <2>1, FilesExit DEF Finish, Alive, Codes
  <2> QED
    BY <1>9, <2>1 DEF Finish, FilesKept, Typing, TypeOK
<1> QED
  BY <1>1, <1>1a, <1>2, <1>3, <1>4, <1>5, <1>6, <1>7, <1>8, <1>9 DEF Runs

LEMMA FilesStep == Typing /\ FilesKept /\ [Next]_vars => FilesKept'
<1> SUFFICES ASSUME Typing, FilesKept, [Next]_vars PROVE FilesKept'
  OBVIOUS
<1>1. ASSUME NEW p \in Dirs, HandleInterrupt(p) PROVE FilesKept'
  BY <1>1, FilesExit DEF HandleInterrupt, Codes
<1>2. ASSUME NEW p \in Dirs, Killed(p) PROVE FilesKept'
  BY <1>2, FilesExit DEF Killed, Codes
<1>3. CASE Report
  BY <1>3 DEF Report, At, Goto, FilesKept, Blocked, FilesIn, Typing, TypeOK, tree, lines
<1>4. CASE Leave
  BY <1>4, FilesExit DEF Leave, At, Alive, Blocked, Codes
<1>5. CASE Interrupt \/ (\E s \in usr : Count(s)) \/ UNCHANGED vars
  BY <1>5 DEF Interrupt, Count, vars, FilesKept, Blocked, FilesIn, tree, lines
<1> QED
  BY <1>1, <1>2, <1>3, <1>4, <1>5, FilesRuns DEF Next, MainRuns

LEMMA FilesCorrect == Spec => [](Typing /\ FilesKept)
<1>1. Init => FilesKept
  BY DEF Init, FilesKept, FilesIn
<1> QED
  BY <1>1, TypingInit, TypingStep, FilesStep, PTL DEF Spec

(* In a process that Ctrl-C ended, the lines of a file that was begun were  *)
(* handed to write(), for the output and for the log, in any tree.          *)
THEOREM AnalysesAreWhole == Spec => []WholeAnalyses
<1>1. Typing /\ FilesKept => WholeAnalyses
  <2> SUFFICES ASSUME Typing, FilesKept, NEW p \in Dirs, status[p] \in {5, 7},
                      NEW f \in FilesIn(p)
               PROVE  f \in filesLeft[p] \/ (f \in written \cup unwritten /\ f \in analyzed)
    BY DEF WholeAnalyses
  <2>1. pc[p] = "ended"
    BY DEF Typing, TypeOK
  <2> QED
    BY <2>1 DEF FilesKept, Blocked, KILLED
<1> QED
  BY <1>1, FilesCorrect, PTL

-----------------------------------------------------------------------------
(* The tree.                                                               *)

(* A process that is through has been through its part of the tree.  *)
TreeAt(p) ==
    /\ Passed(p) \/ Blocked(p) \/ pc[p] = "files" => subdirsLeft[p] = {}
    /\ Passed(p) => filesLeft[p] = {} /\ Children(p) = {}

(* A step that changes nothing of a process, and by which no process gets   *)
(* new children, keeps what is known of it.                                 *)
LEMMA TreeElsewhere ==
    ASSUME Typing, TreeKept, NEW q \in Dirs,
           pc'[q] = pc[q], status'[q] = status[q], subdirsLeft'[q] = subdirsLeft[q],
           filesLeft'[q] = filesLeft[q], reaped \subseteq reaped',
           \A c \in Subdirs[q] : pc[c] # "unborn" => pc'[c] # "unborn",
           \A c \in Subdirs[q] : pc'[c] # "unborn" /\ pc[c] = "unborn" => subdirsLeft[q] # {}
    PROVE  TreeAt(q)'
BY DEF TreeKept, TreeAt, Passed, Blocked, Children

LEMMA TreeExit ==
    ASSUME Typing, TreeKept, NEW p \in Dirs, NEW code \in Codes, Alive(p), Exit(p, code),
           code = 0 => subdirsLeft[p] = {} /\ filesLeft[p] = {} /\ Children(p) = {}
    PROVE  TreeKept'
<1>1. /\ pc' = [pc EXCEPT ![p] = "ended"] /\ status' = [status EXCEPT ![p] = code]
      /\ filesLeft' = filesLeft /\ subdirsLeft' = subdirsLeft /\ reaped' = reaped
  BY DEF Exit, Goto, tree
<1>2. status[p] = None /\ pc[p] # "unborn" /\ pc'[p] = "ended" /\ status'[p] = code
  BY <1>1 DEF Typing, TypeOK, Alive
<1>3. \A q \in Dirs : q # p => pc'[q] = pc[q] /\ status'[q] = status[q]
  BY <1>1 DEF Typing, TypeOK
<1>4. \A q, c \in Dirs : c \in Subdirs[q] /\ pc'[c] = "unborn" => c \in subdirsLeft'[q]
  BY <1>1, <1>2, <1>3 DEF TreeKept
<1>5. \A c \in reaped' : status'[c] \in {0, KILLED}
  <2>1. p \notin reaped
    BY <1>2 DEF TreeKept, KILLED
  <2> QED
    BY <1>1, <1>3, <2>1 DEF TreeKept, Typing, TypeOK
<1>6. ASSUME NEW q \in Dirs PROVE TreeAt(q)'
  <2>1. CASE q # p
    BY <1>1, <1>2, <1>3, <2>1, TreeElsewhere
  <2>2. CASE q = p
    <3>1. Children(p)' = Children(p)
      BY <1>1, <1>2, <1>3 DEF Children
    <3> QED
      BY <1>1, <1>2, <2>2, <3>1 DEF TreeAt, Passed, Blocked
  <2> QED
    BY <2>1, <2>2
<1> QED
  BY <1>4, <1>5, <1>6 DEF TreeKept, TreeAt

(* A step to a label of the analysis that leaves the tree as it is. *)
LEMMA TreeGoto ==
    ASSUME Typing, TreeKept, NEW p \in Dirs, Alive(p), NEW label, Goto(p, label),
           label \notin {"unborn", "report", "leave"},
           label \in {"files", "signalFile", "write", "log"} => subdirsLeft[p] = {},
           pc[p] \notin {"report", "leave"},
           UNCHANGED <<status, subdirsLeft, reaped>>,
           \A q \in Dirs : filesLeft'[q] \subseteq filesLeft[q]
    PROVE  TreeKept'
<1>1. pc'[p] = label /\ pc[p] # "unborn" /\ \A q \in Dirs : q # p => pc'[q] = pc[q]
  BY DEF Typing, TypeOK, Goto, Alive
<1>2. status[p] = None
  BY DEF Typing, TypeOK, Alive
<1>3. ASSUME NEW q \in Dirs PROVE TreeAt(q)'
  <2>1. CASE q # p
    BY <1>1, <2>1 DEF TreeKept, TreeAt, Passed, Blocked, Children
  <2>2. CASE q = p
    BY <1>1, <1>2, <2>2 DEF TreeAt, Passed, Blocked
  <2> QED
    BY <2>1, <2>2
<1> QED
  BY <1>1, <1>3 DEF TreeKept, TreeAt

LEMMA TreeRuns ==
    ASSUME Typing, TreeKept, NEW p \in Dirs, Runs(p)
    PROVE  TreeKept'
<1>1. CASE LogDir(p)
  BY <1>1, TreeGoto DEF LogDir, At, Alive, tree
<1>2. CASE SignalDir(p)
  BY <1>2, TreeGoto DEF SignalDir, At, Alive, tree
<1>3. CASE Open(p)
  <2>1. CASE Exit(p, 4)
    BY <1>3, <2>1, TreeExit DEF Open, At, Alive, Codes
  <2> QED
    BY <1>3, <2>1, TreeGoto DEF Open, At, Alive, tree
<1>4. CASE ChangeDir(p)
  <2>1. CASE Exit(p, 4)
    BY <1>4, <2>1, TreeExit DEF ChangeDir, At, Alive, Codes
  <2> QED
    BY <1>4, <2>1, TreeGoto DEF ChangeDir, At, Alive, tree
<1>5. ASSUME NEW c \in Dirs, Fork(p, c) PROVE TreeKept'
  <2>1. ASSUME NEW code \in {3, 4}, Exit(p, code) PROVE TreeKept'
    BY <1>5, <2>1, TreeExit DEF Fork, At, Alive, Codes
  <2>2. CASE ~\E code \in {3, 4} : Exit(p, code)
    <3>1. /\ pc[p] = "scan" /\ pc' = [pc EXCEPT ![c] = Begin]
          /\ subdirsLeft' = [subdirsLeft EXCEPT ![p] = @ \ {c}]
          /\ UNCHANGED <<status, filesLeft, reaped>>
      BY <1>5, <2>2 DEF Fork, At
    <3>2. c \in Subdirs[p] /\ pc[c] = "unborn" /\ c # p
      BY <1>5, <3>1 DEF Fork, Typing, Left
    <3>3. pc'[c] \in {"logDir", "open"} /\ \A q \in Dirs : q # c => pc'[q] = pc[q]
      BY <3>1 DEF Begin, Typing, TypeOK
    <3>4. /\ subdirsLeft'[p] = subdirsLeft[p] \ {c}
          /\ \A q \in Dirs : q # p => subdirsLeft'[q] = subdirsLeft[q]
      BY <3>1 DEF Typing, TypeOK
    <3>5. status[p] = None /\ status[c] = None
      BY <3>1, <3>2 DEF Typing, TypeOK
    <3>6. \A q, e \in Dirs : e \in Subdirs[q] /\ pc'[e] = "unborn" => e \in subdirsLeft'[q]
      BY <3>3, <3>4 DEF TreeKept
    <3>7. ASSUME NEW q \in Dirs PROVE TreeAt(q)'
      <4>1. CASE q = p \/ q = c
        BY <3>1, <3>2, <3>3, <3>5, <4>1 DEF TreeAt, Passed, Blocked
      <4>2. CASE q # p /\ q # c
        <5>1. c \notin Subdirs[q]
          BY <3>2, <4>2
        <5> QED
          BY <3>1, <3>3, <3>4, <4>2, <5>1, TreeElsewhere
      <4> QED
        BY <4>1, <4>2
    <3> QED
      BY <3>1, <3>6, <3>7 DEF TreeKept, TreeAt
  <2> QED
    BY <2>1, <2>2
<1>6. ASSUME NEW c \in Dirs, Wait(p, c) PROVE TreeKept'
  <2>1. CASE Exit(p, 4)
    BY <1>6, <2>1, TreeExit DEF Wait, At, Alive, Codes
  <2>2. CASE ~Exit(p, 4)
    <3>1. /\ pc[c] = "ended" /\ ExitStatus(c) = 0 /\ reaped' = reaped \cup {c}
          /\ UNCHANGED <<pc, status, subdirsLeft, filesLeft>>
      BY <1>6, <2>2 DEF Wait
    <3>2. status[c] \in {0, KILLED}
      BY <3>1 DEF ExitStatus
    <3> QED
      BY <3>1, <3>2 DEF TreeKept, Passed, Blocked, Children
  <2> QED
    BY <2>1, <2>2
<1>7. ASSUME NEW f \in Files, BeginFile(p, f) PROVE TreeKept'
  <2>1. CASE Exit(p, 3)
    BY <1>7, <2>1, TreeExit DEF BeginFile, At, Alive, Codes
  <2>2. CASE ~Exit(p, 3)
    <3>1. /\ pc[p] = "files" /\ Goto(p, IF OUT THEN "signalFile" ELSE "write")
          /\ filesLeft' = [filesLeft EXCEPT ![p] = @ \ {f}]
          /\ UNCHANGED <<status, subdirsLeft, reaped>>
      BY <1>7, <2>2 DEF BeginFile, At
    <3>2. subdirsLeft[p] = {} /\ \A q \in Dirs : filesLeft'[q] \subseteq filesLeft[q]
      BY <3>1 DEF TreeKept, Typing, TypeOK
    <3> QED
      BY <3>1, <3>2, TreeGoto DEF Alive
  <2> QED
    BY <2>1, <2>2
<1>8. CASE SignalFile(p)
  BY <1>8, TreeGoto DEF SignalFile, At, Alive, Blocked, TreeKept, tree
<1>9. CASE WriteLine(p)
  <2>1. CASE Exit(p, 3)
    BY <1>9, <2>1, TreeExit DEF WriteLine, At, Alive, Codes
  <2> QED
    BY <1>9, <2>1, TreeGoto DEF WriteLine, At, Alive, Blocked, TreeKept, tree
<1>10. CASE LogFile(p)
  BY <1>10, TreeGoto DEF LogFile, At, Alive, Blocked, TreeKept, tree
<1>11. CASE Finish(p)
  <2>1. subdirsLeft[p] = {} /\ filesLeft[p] = {} /\ Children(p) = {} /\ pc[p] = "files"
    BY <1>11 DEF Finish, At, TreeKept
  <2>2. CASE Exit(p, 0)
    BY <2>1, <2>2, TreeExit DEF Alive, Codes
  <2>3. CASE ~Exit(p, 0)
    <3>1. p = Root /\ pc' = [pc EXCEPT ![p] = "report"] /\ UNCHANGED <<status, subdirsLeft, filesLeft, reaped>>
      BY <1>11, <2>3 DEF Finish, Goto, tree
    <3>2. pc'[p] = "report" /\ \A q \in Dirs : q # p => pc'[q] = pc[q]
      BY <3>1 DEF Typing, TypeOK
    <3>3. Children(p)' = Children(p)
      BY <2>1, <3>1, <3>2 DEF Children
    <3>4. ASSUME NEW q \in Dirs PROVE TreeAt(q)'
      <4>1. CASE q # p
        BY <2>1, <3>1, <3>2, <4>1, TreeElsewhere
      <4>2. CASE q = p
        BY <2>1, <3>1, <3>3, <4>2 DEF TreeAt
      <4> QED
        BY <4>1, <4>2
    <3> QED
      BY <2>1, <3>1, <3>2, <3>4 DEF TreeKept, TreeAt
  <2> QED
    BY <2>2, <2>3
<1> QED
  BY <1>1, <1>2, <1>3, <1>4, <1>5, <1>6, <1>7, <1>8, <1>9, <1>10, <1>11 DEF Runs

LEMMA TreeStep == Typing /\ TreeKept /\ [Next]_vars => TreeKept'
<1> SUFFICES ASSUME Typing, TreeKept, [Next]_vars PROVE TreeKept'
  OBVIOUS
<1>1. ASSUME NEW p \in Dirs, HandleInterrupt(p) PROVE TreeKept'
  BY <1>1, TreeExit DEF HandleInterrupt, Codes
<1>2. ASSUME NEW p \in Dirs, Killed(p) PROVE TreeKept'
  BY <1>2, TreeExit DEF Killed, Codes, KILLED
<1>3. CASE Report
  <2>1. /\ pc[Root] = "report" /\ pc'[Root] = "leave"
        /\ \A q \in Dirs : q # Root => pc'[q] = pc[q]
        /\ UNCHANGED <<status, subdirsLeft, filesLeft, reaped>>
    BY <1>3 DEF Report, At, Goto, Typing, TypeOK, tree
  <2> QED
    BY <2>1 DEF TreeKept, Passed, Blocked, Children
<1>4. CASE Leave
  <2>1. pc[Root] = "leave" /\ Exit(Root, 0)
    BY <1>4 DEF Leave, At
  <2> QED
    BY <2>1, TreeExit DEF Alive, Codes, TreeKept, Passed
<1>5. CASE Interrupt \/ (\E s \in usr : Count(s)) \/ UNCHANGED vars
  BY <1>5 DEF Interrupt, Count, vars, TreeKept, Passed, Blocked, Children, tree
<1> QED
  BY <1>1, <1>2, <1>3, <1>4, <1>5, TreeRuns DEF Next, MainRuns

(* Exit statuses are final. *)
LEMMA StatusFinal ==
    ASSUME Typing, [Next]_vars, NEW q \in Dirs, status[q] # None
    PROVE  status'[q] = status[q]
<1>1. ASSUME NEW p \in Dirs, NEW code, Alive(p), Exit(p, code)
      PROVE  status'[q] = status[q]
  <2>1. q # p
    BY <1>1 DEF Typing, TypeOK, Alive
  <2> QED
    BY <1>1, <2>1 DEF Exit, Typing, TypeOK
<1>2. ASSUME NEW p \in Dirs, Runs(p) PROVE status'[q] = status[q]
  <2>1. CASE LogDir(p) \/ SignalDir(p) \/ SignalFile(p) \/ LogFile(p)
    BY <2>1 DEF LogDir, SignalDir, SignalFile, LogFile
  <2>2. CASE Open(p) \/ ChangeDir(p) \/ WriteLine(p) \/ Finish(p)
    BY <1>1, <2>2 DEF Open, ChangeDir, WriteLine, Finish, At, Alive
  <2>3. ASSUME NEW c \in Dirs, Fork(p, c) \/ Wait(p, c) PROVE status'[q] = status[q]
    BY <1>1, <2>3 DEF Fork, Wait, At, Alive
  <2>4. ASSUME NEW f \in Files, BeginFile(p, f) PROVE status'[q] = status[q]
    BY <1>1, <2>4 DEF BeginFile, At, Alive
  <2> QED
    BY <1>2, <2>1, <2>2, <2>3, <2>4 DEF Runs
<1>3. ASSUME NEW p \in Dirs, HandleInterrupt(p) \/ Killed(p) PROVE status'[q] = status[q]
  BY <1>1, <1>3 DEF HandleInterrupt, Killed
<1>4. CASE Leave
  BY <1>1, <1>4 DEF Leave, At, Alive
<1>5. CASE Report \/ Interrupt \/ (\E s \in usr : Count(s)) \/ UNCHANGED vars
  BY <1>5 DEF Report, Interrupt, Count, vars
<1> QED
  BY <1>2, <1>3, <1>4, <1>5 DEF Next, MainRuns

(* A process becomes through with its part of the tree in Finish only. *)
LEMMA PassedByFinish ==
    ASSUME Typing, [Next]_vars, NEW q \in Dirs, Passed(q)', ~Passed(q)
    PROVE  Finish(q)
<1>1. ASSUME NEW p \in Dirs, NEW code \in Codes \ {0}, Alive(p), Exit(p, code)
      PROVE  FALSE
  BY <1>1 DEF Exit, Goto, Passed, Codes, Typing, TypeOK
<1>2. ASSUME NEW p \in Dirs, Runs(p) PROVE Finish(q)
  <2> USE DEF Goto, At, Alive, Codes, KILLED
  <2>1. CASE LogDir(p) \/ SignalDir(p) \/ SignalFile(p) \/ LogFile(p)
    BY <2>1 DEF LogDir, SignalDir, SignalFile, LogFile, Passed, Typing, TypeOK
  <2>1a. CASE ChangeDir(p)
    <3>1. CASE Exit(p, 4)
      BY <1>1, <2>1a, <3>1 DEF ChangeDir
    <3> QED
      BY <2>1a, <3>1 DEF ChangeDir, Passed, Typing, TypeOK
  <2>2. CASE Open(p)
    <3>1. CASE Exit(p, 4)
      BY <1>1, <2>2, <3>1 DEF Open
    <3> QED
      BY <2>2, <3>1 DEF Open, Passed, Typing, TypeOK
  <2>3. CASE WriteLine(p)
    <3>1. CASE Exit(p, 3)
      BY <1>1, <2>3, <3>1 DEF WriteLine
    <3> QED
      BY <2>3, <3>1 DEF WriteLine, Passed, Typing, TypeOK
  <2>4. ASSUME NEW c \in Dirs, Fork(p, c) PROVE FALSE
    <3>1. ~\E code \in {3, 4} : Exit(p, code)
      BY <1>1, <2>4 DEF Fork
    <3>2. UNCHANGED status /\ pc' = [pc EXCEPT ![c] = Begin]
      BY <2>4, <3>1 DEF Fork
    <3> QED
      BY <3>2 DEF Begin, Passed, Typing, TypeOK
  <2>5. ASSUME NEW c \in Dirs, Wait(p, c) PROVE FALSE
    BY <1>1, <2>5 DEF Wait, Passed
  <2>6. ASSUME NEW f \in Files, BeginFile(p, f) PROVE FALSE
    <3>1. ~Exit(p, 3)
      BY <1>1, <2>6 DEF BeginFile
    <3>2. UNCHANGED status /\ pc' = [pc EXCEPT ![p] = IF OUT THEN "signalFile" ELSE "write"]
      BY <2>6, <3>1 DEF BeginFile
    <3> QED
      BY <3>2 DEF Passed, Typing, TypeOK
  <2>7. CASE Finish(p)
    <3>1. p = q
      BY <2>7 DEF Finish, Exit, Passed, Typing, TypeOK
    <3> QED
      BY <2>7, <3>1
  <2> QED
    BY <1>2, <2>1, <2>1a, <2>2, <2>3, <2>4, <2>5, <2>6, <2>7 DEF Runs
<1>3. ASSUME NEW p \in Dirs, HandleInterrupt(p) \/ Killed(p) PROVE FALSE
  BY <1>1, <1>3 DEF HandleInterrupt, Killed, Codes, KILLED
<1>4. CASE Report \/ Leave
  BY <1>4 DEF Report, Leave, At, Goto, Exit, Passed, Typing, TypeOK
<1>5. CASE Interrupt \/ (\E s \in usr : Count(s)) \/ UNCHANGED vars
  BY <1>5 DEF Interrupt, Count, vars, Passed
<1> QED
  BY <1>2, <1>3, <1>4, <1>5 DEF Next, MainRuns

(* Nobody comes back to life, killed or not. *)
LEMMA SurvivedBefore == Typing /\ [Next]_vars /\ Survived' => Survived
BY StatusFinal DEF Survived, KILLED

(* A process that is through stays so. *)
LEMMA DeepStep == Typing /\ TreeKept /\ Deep /\ [Next]_vars => Deep'
<1> SUFFICES ASSUME Typing, TreeKept, Deep, [Next]_vars, Survived',
                    NEW p \in Dirs, Passed(p)', NEW q \in Below[p]
             PROVE  status'[q] = 0
  BY DEF Deep
<1>1. Survived /\ q \in Dirs
  BY SurvivedBefore
<1>2. CASE Passed(p)
  BY <1>1, <1>2, StatusFinal DEF Deep
<1>3. CASE ~Passed(p)
  <2>1. Finish(p)
    BY <1>3, PassedByFinish
  <2>2. subdirsLeft[p] = {} /\ Children(p) = {}
    BY <2>1 DEF Finish, At, TreeKept
  <2>3. \A c \in Subdirs[p] : c \in reaped
    BY <2>2 DEF TreeKept, Children
  <2>4. \A c \in Subdirs[p] : status[c] = 0
    BY <1>1, <2>3 DEF TreeKept, Survived
  <2>5. \A c \in Subdirs[p] : \A e \in Below[c] : status[e] = 0
    BY <1>1, <2>4 DEF Deep, Passed
  <2>6. status[q] = 0
    BY <2>4, <2>5
  <2> QED
    BY <1>1, <2>6, StatusFinal
<1> QED
  BY <1>2, <1>3

LEMMA TreeCorrect == Spec => [](Typing /\ TreeKept /\ Deep)
<1>1. Init => TreeKept /\ Deep
  <2> SUFFICES ASSUME Init PROVE TreeKept /\ Deep
    OBVIOUS
  <2>1. \A p \in Dirs : ~Passed(p) /\ ~Blocked(p) /\ pc[p] # "files"
    BY DEF Init, Passed, Blocked, Begin
  <2> QED
    BY <2>1 DEF Init, TreeKept, Deep
<1> QED
  BY <1>1, TypingInit, TypingStep, TreeStep, DeepStep, PTL DEF Spec

(* An exit with 0 of the first process means, whatever the shape of the     *)
(* tree, that every file of it was analysed and has its line in the output, *)
(* but for those whose write() failed, when nobody kills the processes.     *)
THEOREM EndIsComplete == Spec => []CompleteAtEnd
<1>1. Typing /\ FilesKept /\ TreeKept /\ Deep => CompleteAtEnd
  <2> SUFFICES ASSUME Typing, FilesKept, TreeKept, Deep, status[Root] = 0, Survived
               PROVE  /\ analyzed = Files /\ written \cup unwritten = Files
                      /\ \A p \in Dirs : status[p] = 0
    BY DEF CompleteAtEnd
  <2>1. \A p \in Dirs : status[p] = 0
    BY DEF Deep, Passed
  <2>2. \A p \in Dirs : pc[p] = "ended" /\ filesLeft[p] = {}
    BY <2>1 DEF TreeKept, Passed, Typing, TypeOK
  <2>3. ASSUME NEW f \in Files PROVE f \in written \cup unwritten /\ f \in analyzed
    <3>1. Place[f] \in Dirs /\ f \in FilesIn(Place[f])
      BY DEF FilesIn
    <3> QED
      BY <2>1, <2>2, <3>1 DEF FilesKept, Blocked, KILLED
  <2> QED
    BY <2>1, <2>3 DEF Typing, TypeOK
<1> QED
  BY <1>1, FilesCorrect, TreeCorrect, PTL

(* From the first process's last look at its children on, nobody is there   *)
(* to send it a signal.                                                     *)
LEMMA SilentStep == Typing /\ TreeKept /\ Deep /\ Silent /\ [Next]_vars => Silent'
<1> SUFFICES ASSUME Typing, TreeKept, Deep, Silent, [Next]_vars, Survived',
                    pc'[Root] \in {"report", "leave"}
             PROVE  usr' = {}
  BY DEF Silent
<1>1. Survived /\ status[Root] = None
  <2>1. status'[Root] = None
    BY TypingStep DEF Typing, TypeOK
  <2> QED
    BY <2>1, SurvivedBefore, StatusFinal
<1>2. CASE ~Passed(Root)
  <2>1. Finish(Root)
    BY <1>2, PassedByFinish DEF Passed
  <2>2. usr = {}
    BY <2>1 DEF Finish, At, Undisturbed
  <2> QED
    BY <2>1, <2>2 DEF Finish, Exit
<1>3. CASE Passed(Root)
  <2>1. pc[Root] \in {"report", "leave"} /\ usr = {}
    BY <1>1, <1>3 DEF Passed, Silent
  <2>2. \A p \in Dirs : p # Root => pc[p] = "ended"
    BY <1>1, <1>3 DEF Deep, Typing, TypeOK
  <2>3. \A p \in Dirs : ~Runs(p)
    BY <2>1, <2>2 DEF Runs, LogDir, SignalDir, Open, ChangeDir, Fork, Wait, BeginFile, SignalFile,
                      WriteLine, LogFile, Finish, At
  <2>4. ASSUME NEW p \in Dirs, HandleInterrupt(p) \/ Killed(p) PROVE usr' = {}
    BY <2>1, <2>4 DEF HandleInterrupt, Killed, Exit
  <2>5. CASE Report \/ Leave \/ Interrupt \/ UNCHANGED vars
    BY <2>1, <2>5 DEF Report, Leave, Exit, Interrupt, vars
  <2> QED
    BY <2>1, <2>3, <2>4, <2>5 DEF Next, MainRuns
<1> QED
  BY <1>2, <1>3

(* When the sums are printed, no signal is pending and no process is left   *)
(* to send one, for any tree.                                               *)
THEOREM ReportIsQuiet == Spec => []QuietAtReport
<1>1. Init => Silent
  BY DEF Init, Silent
<1>2. Typing /\ Deep /\ Silent => QuietAtReport
  BY DEF Typing, TypeOK, Deep, Passed, Silent, QuietAtReport
<1> QED
  BY <1>1, <1>2, TreeCorrect, SilentStep, PTL DEF Spec

-----------------------------------------------------------------------------
(* The sums.                                                               *)

LEMMA AnnouncingExit ==
    ASSUME Typing, Announcing, NEW p \in Dirs, NEW code, Exit(p, code)
    PROVE  Announcing'
BY DEF Announcing, Exit, Goto, Typing, TypeOK, tree, lines

LEMMA AnnouncingRuns ==
    ASSUME Typing, Announcing, NEW p \in Dirs, Runs(p)
    PROVE  Announcing'
<1> USE DEF At, Goto, ctrlC, counters, lines, tree
<1>1. CASE LogDir(p)
  BY <1>1 DEF LogDir, Announcing, Typing, TypeOK, Left, FilesIn
<1>2. CASE SignalDir(p)
  BY <1>2 DEF SignalDir, Announcing, Typing, TypeOK
<1>3. CASE Open(p)
  <2>1. CASE Exit(p, 4)
    BY <2>1, AnnouncingExit
  <2> QED
    BY <1>3, <2>1 DEF Open, Announcing, Typing, TypeOK
<1>4. CASE ChangeDir(p)
  <2>1. CASE Exit(p, 4)
    BY <2>1, AnnouncingExit
  <2> QED
    BY <1>4, <2>1 DEF ChangeDir, Announcing, Typing, TypeOK
<1>5. ASSUME NEW c \in Dirs, Fork(p, c) PROVE Announcing'
  <2>1. ASSUME NEW code \in {3, 4}, Exit(p, code) PROVE Announcing'
    BY <2>1, AnnouncingExit
  <2>2. CASE ~\E code \in {3, 4} : Exit(p, code)
    <3>1. /\ pc[p] = "scan" /\ c \in subdirsLeft[p] /\ pc' = [pc EXCEPT ![c] = Begin]
          /\ UNCHANGED <<filesLeft, file, sent>>
      BY <1>5, <2>2 DEF Fork
    <3>2. c \notin sent /\ pc'[c] \in {"logDir", "open"} /\ \A q \in Dirs : q # c => pc'[q] = pc[q]
      BY <3>1 DEF Begin, Announcing, Typing, TypeOK, Left
    <3> QED
      BY <3>1, <3>2 DEF Announcing
  <2> QED
    BY <2>1, <2>2
<1>6. ASSUME NEW c \in Dirs, Wait(p, c) PROVE Announcing'
  <2>1. CASE Exit(p, 4)
    BY <2>1, AnnouncingExit
  <2> QED
    BY <1>6, <2>1 DEF Wait, Announcing
<1>7. ASSUME NEW f \in Files, BeginFile(p, f) PROVE Announcing'
  <2>1. CASE Exit(p, 3)
    BY <2>1, AnnouncingExit
  <2>2. CASE ~Exit(p, 3)
    <3>1. /\ pc[p] = "files" /\ f \in filesLeft[p]
          /\ filesLeft' = [filesLeft EXCEPT ![p] = @ \ {f}]
          /\ file' = [file EXCEPT ![p] = f]
          /\ pc' = [pc EXCEPT ![p] = IF OUT THEN "signalFile" ELSE "write"]
          /\ sent' = IF OUT THEN sent \cup {f} ELSE sent
      BY <1>7, <2>2 DEF BeginFile
    <3>2. /\ file'[p] = f /\ \A q \in Dirs : q # p => file'[q] = file[q] /\ pc'[q] = pc[q]
          /\ pc'[p] = (IF OUT THEN "signalFile" ELSE "write")
      BY <3>1 DEF Typing, TypeOK
    <3>3. /\ filesLeft'[p] = filesLeft[p] \ {f}
          /\ \A q \in Dirs : q # p => filesLeft'[q] = filesLeft[q] /\ f \notin filesLeft[q]
      BY <3>1 DEF Typing, TypeOK, Left, FilesIn
    <3>4. sent \subseteq sent' /\ sent' \subseteq sent \cup {f} /\ (OUT => f \in sent')
      BY <3>1
    <3> QED
      BY <3>1, <3>2, <3>3, <3>4 DEF Announcing
  <2> QED
    BY <2>1, <2>2
<1>8. CASE SignalFile(p)
  BY <1>8 DEF SignalFile, Announcing, Typing, TypeOK
<1>9. CASE WriteLine(p)
  <2>1. CASE Exit(p, 3)
    BY <2>1, AnnouncingExit
  <2> QED
    BY <1>9, <2>1 DEF WriteLine, Announcing, Typing, TypeOK
<1>10. CASE LogFile(p)
  BY <1>10 DEF LogFile, Announcing, Typing, TypeOK
<1>11. CASE Finish(p)
  <2>1. CASE Exit(p, 0)
    BY <2>1, AnnouncingExit
  <2> QED
    BY <1>11, <2>1 DEF Finish, Announcing, Typing, TypeOK
<1> QED
  BY <1>1, <1>2, <1>3, <1>4, <1>5, <1>6, <1>7, <1>8, <1>9, <1>10, <1>11 DEF Runs

LEMMA AnnouncingStep == Typing /\ Announcing /\ [Next]_vars => Announcing'
<1> SUFFICES ASSUME Typing, Announcing, [Next]_vars PROVE Announcing'
  OBVIOUS
<1>1. CASE Report
  BY <1>1 DEF Report, At, Goto, Announcing, Typing, TypeOK, tree, lines
<1>2. ASSUME NEW p \in Dirs, HandleInterrupt(p) \/ Killed(p) PROVE Announcing'
  BY <1>2, AnnouncingExit DEF HandleInterrupt, Killed
<1>3. CASE Leave
  BY <1>3, AnnouncingExit DEF Leave
<1>4. CASE Interrupt \/ (\E s \in usr : Count(s)) \/ UNCHANGED vars
  BY <1>4 DEF Interrupt, Count, vars, Announcing, tree, lines
<1> QED
  BY <1>1, <1>2, <1>3, <1>4, AnnouncingRuns DEF Next, MainRuns

(* What can be announced is finite. *)
LEMMA AnnouncedFinite ==
    ASSUME Typing
    PROVE  /\ IsFiniteSet(AnnouncedDirs) /\ Cardinality(AnnouncedDirs) \in Nat
           /\ IsFiniteSet(AnnouncedFiles) /\ Cardinality(AnnouncedFiles) \in Nat
<1>1. AnnouncedDirs \subseteq Dirs /\ AnnouncedFiles \subseteq Files
  BY DEF AnnouncedDirs, AnnouncedFiles
<1> QED
  BY <1>1, FS_Subset, FS_CardinalityType

(* A step that announces nothing anew, or that announces without a signal.  *)
LEMMA SumsGrow ==
    ASSUME Typing, Typing', Sums, UNCHANGED counters, usr' \subseteq usr,
           AnnouncedDirs \subseteq AnnouncedDirs', AnnouncedFiles \subseteq AnnouncedFiles'
    PROVE  Sums'
<1>1. /\ IsFiniteSet(AnnouncedDirs') /\ Cardinality(AnnouncedDirs') \in Nat
      /\ IsFiniteSet(AnnouncedFiles') /\ Cardinality(AnnouncedFiles') \in Nat
  <2>1. AnnouncedDirs' \subseteq Dirs /\ AnnouncedFiles' \subseteq Files
    BY DEF AnnouncedDirs, AnnouncedFiles
  <2> QED
    BY <2>1, FS_Subset, FS_CardinalityType
<1>2. /\ Cardinality(AnnouncedDirs) <= Cardinality(AnnouncedDirs')
      /\ Cardinality(AnnouncedFiles) <= Cardinality(AnnouncedFiles')
  BY <1>1, FS_Subset
<1> QED
  BY <1>1, <1>2, AnnouncedFinite DEF Sums, Typing, TypeOK, counters

LEMMA SumsExit ==
    ASSUME Typing, Typing', Sums, NEW p \in Dirs, NEW code, Exit(p, code)
    PROVE  Sums'
<1>1. /\ UNCHANGED <<counters, sent, file>> /\ usr' \subseteq usr
      /\ \A q \in Dirs : pc'[q] = pc[q] \/ pc'[q] = "ended"
  BY DEF Exit, Goto, Typing, TypeOK, lines
<1>2. AnnouncedDirs \subseteq AnnouncedDirs' /\ AnnouncedFiles \subseteq AnnouncedFiles'
  BY <1>1 DEF AnnouncedDirs, AnnouncedFiles
<1> QED
  BY <1>1, <1>2, SumsGrow

(* A step to a label that is not between a line SENT SIGNAL and its signal. *)
LEMMA SumsGoto ==
    ASSUME Typing, Typing', Sums, NEW p \in Dirs, NEW label, Goto(p, label),
           label \notin {"signalDir", "signalFile"}, UNCHANGED <<counters, sent, usr>>,
           \A q \in Dirs : q # p => file'[q] = file[q]
    PROVE  Sums'
<1>1. \A q \in Dirs : q # p => pc'[q] = pc[q]
  BY DEF Goto, Typing, TypeOK
<1>2. pc'[p] = label
  BY DEF Goto, Typing, TypeOK
<1>3. AnnouncedDirs \subseteq AnnouncedDirs'
  BY <1>1, <1>2 DEF AnnouncedDirs
<1>4. AnnouncedFiles \subseteq AnnouncedFiles'
  BY <1>1, <1>2 DEF AnnouncedFiles
<1> QED
  BY <1>3, <1>4, SumsGrow

LEMMA SumsSignalDir ==
    ASSUME Typing, Typing', Announcing, Sums, NEW p \in Dirs, SignalDir(p)
    PROVE  Sums'
<1>1. /\ pc[p] = "signalDir" /\ pc' = [pc EXCEPT ![p] = "open"]
      /\ UNCHANGED <<counters, sent, file>> /\ usr' \subseteq usr \cup {"SIGUSR1"}
  BY DEF SignalDir, At, Goto, Signal, lines
<1>2. p \in sent /\ pc'[p] = "open" /\ \A q \in Dirs : q # p => pc'[q] = pc[q]
  BY <1>1 DEF Announcing, Typing, TypeOK
<1>3. p \notin AnnouncedDirs
  BY <1>1 DEF AnnouncedDirs
<1>4. AnnouncedDirs' = AnnouncedDirs \cup {p}
  BY <1>1, <1>2 DEF AnnouncedDirs
<1>5. AnnouncedFiles' = AnnouncedFiles
  BY <1>1, <1>2 DEF AnnouncedFiles
<1>6. Cardinality(AnnouncedDirs') = Cardinality(AnnouncedDirs) + 1
  BY <1>3, <1>4, AnnouncedFinite, FS_AddElement
<1>7. "SIGUSR2" \in usr' => "SIGUSR2" \in usr
  BY <1>1
<1> QED
  BY <1>1, <1>5, <1>6, <1>7, AnnouncedFinite DEF Sums, Typing, TypeOK, counters

LEMMA SumsSignalFile ==
    ASSUME Typing, Typing', Announcing, Sums, NEW p \in Dirs, SignalFile(p)
    PROVE  Sums'
<1>1. /\ pc[p] = "signalFile" /\ pc' = [pc EXCEPT ![p] = "write"]
      /\ UNCHANGED <<counters, sent, file>> /\ usr' \subseteq usr \cup {"SIGUSR2"}
  BY DEF SignalFile, At, Goto, Signal, lines
<1>2. /\ file[p] \in sent \cap Files /\ Place[file[p]] = p
      /\ pc'[p] = "write" /\ \A q \in Dirs : q # p => pc'[q] = pc[q]
  BY <1>1 DEF Announcing, Typing, TypeOK, FilesIn
<1>3. file[p] \notin AnnouncedFiles
  BY <1>1, <1>2 DEF AnnouncedFiles
<1>4. AnnouncedFiles' = AnnouncedFiles \cup {file[p]}
  BY <1>1, <1>2 DEF AnnouncedFiles
<1>5. AnnouncedDirs' = AnnouncedDirs
  BY <1>1, <1>2 DEF AnnouncedDirs
<1>6. Cardinality(AnnouncedFiles') = Cardinality(AnnouncedFiles) + 1
  BY <1>3, <1>4, AnnouncedFinite, FS_AddElement
<1>7. "SIGUSR1" \in usr' => "SIGUSR1" \in usr
  BY <1>1
<1> QED
  BY <1>1, <1>5, <1>6, <1>7, AnnouncedFinite DEF Sums, Typing, TypeOK, counters

LEMMA SumsRuns ==
    ASSUME Typing, Typing', Announcing, Sums, NEW p \in Dirs, Runs(p)
    PROVE  Sums'
<1>1. CASE LogDir(p)
  <2>1. /\ pc[p] = "logDir" /\ pc' = [pc EXCEPT ![p] = "signalDir"] /\ sent' = sent \cup {p}
        /\ UNCHANGED <<counters, file, usr>>
    BY <1>1 DEF LogDir, At, Goto
  <2>2. p \notin AnnouncedDirs /\ \A q \in Dirs : q # p => pc'[q] = pc[q]
    BY <2>1 DEF AnnouncedDirs, Announcing, Typing, TypeOK
  <2>3. AnnouncedDirs \subseteq AnnouncedDirs'
    BY <2>1, <2>2 DEF AnnouncedDirs
  <2>4. AnnouncedFiles \subseteq AnnouncedFiles'
    BY <2>1, <2>2 DEF AnnouncedFiles, Typing, TypeOK
  <2> QED
    BY <2>1, <2>3, <2>4, SumsGrow
<1>2. CASE ChangeDir(p)
  BY <1>2, SumsGoto, SumsExit DEF ChangeDir, lines
<1>3. CASE Open(p)
  BY <1>3, SumsGoto, SumsExit DEF Open, lines
<1>4. ASSUME NEW c \in Dirs, Fork(p, c) PROVE Sums'
  <2>1. ASSUME NEW code \in {3, 4}, Exit(p, code) PROVE Sums'
    BY <2>1, SumsExit
  <2>2. CASE ~\E code \in {3, 4} : Exit(p, code)
    <3>1. Goto(c, Begin) /\ UNCHANGED <<counters, sent, file, usr>>
      BY <1>4, <2>2 DEF Fork, Goto, lines
    <3>2. Begin \notin {"signalDir", "signalFile"}
      BY DEF Begin
    <3> QED
      BY <3>1, <3>2, SumsGoto
  <2> QED
    BY <2>1, <2>2
<1>5. ASSUME NEW c \in Dirs, Wait(p, c) PROVE Sums'
  <2>1. CASE Exit(p, 4)
    BY <2>1, SumsExit
  <2>2. CASE ~Exit(p, 4)
    <3>1. UNCHANGED <<pc, file, sent, usr, counters>>
      BY <1>5, <2>2 DEF Wait, lines
    <3>2. AnnouncedDirs' = AnnouncedDirs /\ AnnouncedFiles' = AnnouncedFiles
      BY <3>1 DEF AnnouncedDirs, AnnouncedFiles
    <3> QED
      BY <3>1, <3>2, SumsGrow
  <2> QED
    BY <2>1, <2>2
<1>6. ASSUME NEW f \in Files, BeginFile(p, f) PROVE Sums'
  <2>1. CASE Exit(p, 3)
    BY <2>1, SumsExit
  <2>2. CASE ~Exit(p, 3)
    <3>1. /\ pc[p] = "files" /\ f \in filesLeft[p] /\ file' = [file EXCEPT ![p] = f]
          /\ pc' = [pc EXCEPT ![p] = IF OUT THEN "signalFile" ELSE "write"]
          /\ sent' = (IF OUT THEN sent \cup {f} ELSE sent) /\ UNCHANGED <<counters, usr>>
      BY <1>6, <2>2 DEF BeginFile, At, Goto
    <3>2. /\ f \notin sent /\ sent \subseteq sent'
          /\ file'[p] = f /\ \A q \in Dirs : q # p => file'[q] = file[q] /\ pc'[q] = pc[q]
          /\ pc'[p] # "signalDir"
      BY <3>1 DEF Announcing, Typing, TypeOK
    <3>3. AnnouncedDirs \subseteq AnnouncedDirs'
      BY <3>2 DEF AnnouncedDirs
    <3>4. AnnouncedFiles \subseteq AnnouncedFiles'
      BY <3>2 DEF AnnouncedFiles
    <3> QED
      BY <3>1, <3>3, <3>4, SumsGrow
  <2> QED
    BY <2>1, <2>2
<1>7. CASE WriteLine(p)
  <2>1. CASE Exit(p, 3)
    BY <2>1, SumsExit
  <2> QED
    BY <1>7, <2>1, SumsGoto DEF WriteLine
<1>8. CASE LogFile(p)
  <2>1. Goto(p, "files") /\ UNCHANGED <<counters, sent, usr>> /\ file' = [file EXCEPT ![p] = NoFile]
    BY <1>8 DEF LogFile
  <2>2. \A q \in Dirs : q # p => file'[q] = file[q]
    BY <2>1 DEF Typing, TypeOK
  <2> QED
    BY <2>1, <2>2, SumsGoto
<1>9. CASE Finish(p)
  BY <1>9, SumsGoto, SumsExit DEF Finish, lines
<1> QED
  BY <1>1, <1>2, <1>3, <1>4, <1>5, <1>6, <1>7, <1>8, <1>9, SumsSignalDir, SumsSignalFile DEF Runs

LEMMA SumsStep == Typing /\ Announcing /\ Sums /\ [Next]_vars => Sums'
<1> SUFFICES ASSUME Typing, Announcing, Sums, [Next]_vars PROVE Sums'
  OBVIOUS
<1>0. Typing'
  BY TypingStep
<1>1. CASE Report
  <2>1. Goto(Root, "leave") /\ UNCHANGED <<counters, sent, usr, file>>
    BY <1>1 DEF Report, lines
  <2> QED
    BY <1>0, <2>1, SumsGoto
<1>2. ASSUME NEW p \in Dirs, HandleInterrupt(p) \/ Killed(p) PROVE Sums'
  BY <1>0, <1>2, SumsExit DEF HandleInterrupt, Killed
<1>3. CASE Leave
  BY <1>0, <1>3, SumsExit DEF Leave
<1>4. ASSUME NEW s \in usr, Count(s) PROVE Sums'
  <2>1. AnnouncedDirs' = AnnouncedDirs /\ AnnouncedFiles' = AnnouncedFiles
    BY <1>4 DEF Count, AnnouncedDirs, AnnouncedFiles, lines
  <2>2. CASE s = "SIGUSR1"
    BY <1>4, <2>1, <2>2, AnnouncedFinite DEF Count, Sums, Typing, TypeOK
  <2>3. CASE s = "SIGUSR2"
    BY <1>4, <2>1, <2>3, AnnouncedFinite DEF Count, Sums, Typing, TypeOK
  <2> QED
    BY <2>2, <2>3 DEF Typing, TypeOK
<1>5. CASE Interrupt \/ UNCHANGED vars
  BY <1>5 DEF Interrupt, vars, Sums, AnnouncedDirs, AnnouncedFiles, counters, lines
<1> QED
  BY <1>0, <1>1, <1>2, <1>3, <1>4, <1>5, SumsRuns DEF Next, MainRuns

(* The sums never get ahead of what was announced in the log, in any tree   *)
(* and although signals merge and get lost.                                 *)
THEOREM SentComesFirst == Spec => []SentBeforeReceived
<1>1. Init => Announcing /\ Sums
  <2> SUFFICES ASSUME Init PROVE Announcing /\ Sums
    OBVIOUS
  <2>1. AnnouncedDirs = {} /\ AnnouncedFiles = {}
    BY DEF Init, AnnouncedDirs, AnnouncedFiles
  <2> QED
    BY <2>1, FS_EmptySet DEF Init, Announcing, Sums, Begin
<1>2. Typing /\ Sums => SentBeforeReceived
  <2> SUFFICES ASSUME Typing, Sums PROVE SentBeforeReceived
    OBVIOUS
  <2>1. sent \cap Dirs \subseteq Dirs /\ sent \cap Files \subseteq Files
    OBVIOUS
  <2>2. /\ IsFiniteSet(sent \cap Dirs) /\ Cardinality(sent \cap Dirs) \in Nat
        /\ IsFiniteSet(sent \cap Files) /\ Cardinality(sent \cap Files) \in Nat
    BY <2>1, FS_Subset, FS_CardinalityType
  <2>3. AnnouncedDirs \subseteq sent \cap Dirs /\ AnnouncedFiles \subseteq sent \cap Files
    BY DEF AnnouncedDirs, AnnouncedFiles
  <2>4. /\ Cardinality(AnnouncedDirs) <= Cardinality(sent \cap Dirs)
        /\ Cardinality(AnnouncedFiles) <= Cardinality(sent \cap Files)
    BY <2>2, <2>3, FS_Subset
  <2> QED
    BY <2>2, <2>4, AnnouncedFinite DEF Sums, SentBeforeReceived, Typing, TypeOK
<1> QED
  BY <1>1, <1>2, TypingInit, TypingStep, AnnouncingStep, SumsStep, PTL DEF Spec

-----------------------------------------------------------------------------
(* Standstill: what the processes can wait for, for ever.                  *)

(* A process that is alive has a signal to handle, or work other than the   *)
(* wait for its children, or a child that wait() returns, or none at all.   *)
GoesOn(p) ==
    /\ Alive(p)
    /\ \/ p \in sigint /\ ~Blocked(p)
       \/ p = Root /\ usr # {}
       \/ pc[p] # "files" \/ filesLeft[p] # {} \/ Children(p) = {}
       \/ \E c \in Children(p) : pc[c] = "ended"

(* When no process can go on, none is left: neither an orphan whose parent  *)
(* gave up, nor a parent that waits for a child that will not end.          *)
StopsEnded == (\A p \in Dirs : ~GoesOn(p)) => \A p \in Dirs : ~Alive(p)

Born == {p \in Dirs : pc[p] # "unborn"}

(* Processes descend from the first one: every other has a parent that was  *)
(* born, and among any of them there is one that none of the others forked. *)
Rooted ==
    /\ \A p, c \in Dirs : c \in Subdirs[p] /\ c \in Born => p \in Born
    /\ \A S \in SUBSET (Born \ {Root}) : S # {} => \E c \in S : \A p \in S : c \notin Subdirs[p]

(* Only fork() makes a process, which runs in a subdirectory of its parent. *)
LEMMA BirthsAreForks ==
    ASSUME Typing, [Next]_vars
    PROVE  \/ Born' = Born
           \/ \E p \in Born, c \in Dirs \ Born : c \in Subdirs[p] /\ Born' = Born \cup {c}
<1> DEFINE Kept == Born' = Born
<1>1. ASSUME NEW p \in Dirs, Alive(p), NEW label, label # "unborn", Goto(p, label) PROVE Kept
  BY <1>1 DEF Typing, TypeOK, Goto, Alive, Born
<1>2. ASSUME NEW p \in Dirs, Alive(p), NEW code, Exit(p, code) PROVE Kept
  BY <1>1, <1>2, ExitGoes
<1>3. ASSUME NEW p \in Dirs, Runs(p), \A c \in Dirs : ~Fork(p, c) PROVE Kept
  <2>1. Alive(p)
    BY <1>3 DEF Runs, LogDir, SignalDir, Open, ChangeDir, Wait, BeginFile, SignalFile,
                WriteLine, LogFile, Finish, At, Alive
  <2>2. CASE LogDir(p) \/ SignalDir(p) \/ SignalFile(p) \/ LogFile(p)
    BY <1>1, <2>1, <2>2 DEF LogDir, SignalDir, SignalFile, LogFile
  <2>3. CASE Open(p) \/ ChangeDir(p) \/ WriteLine(p) \/ Finish(p)
    BY <1>1, <1>2, <2>1, <2>3 DEF Open, ChangeDir, WriteLine, Finish
  <2>4. ASSUME NEW c \in Dirs, Wait(p, c) PROVE Kept
    BY <1>2, <2>1, <2>4 DEF Wait, Born
  <2>5. ASSUME NEW f \in Files, BeginFile(p, f) PROVE Kept
    <3>1. (IF OUT THEN "signalFile" ELSE "write") # "unborn"
      OBVIOUS
    <3> QED
      BY <1>1, <1>2, <2>1, <2>5, <3>1 DEF BeginFile
  <2> QED
    BY <1>3, <2>2, <2>3, <2>4, <2>5 DEF Runs
<1>4. ASSUME NEW p \in Dirs, NEW e \in Dirs, Fork(p, e)
      PROVE  Kept \/ \E q \in Born, c \in Dirs \ Born : c \in Subdirs[q] /\ Born' = Born \cup {c}
  <2>1. Alive(p) /\ p \in Born /\ e \in Subdirs[p] /\ e \notin Born
    BY <1>4 DEF Fork, At, Alive, Born, Typing, Left
  <2>2. CASE pc' = [pc EXCEPT ![e] = Begin]
    <3>1. Born' = Born \cup {e}
      BY <2>2 DEF Typing, TypeOK, Born, Begin
    <3> QED
      BY <2>1, <3>1
  <2> QED
    BY <1>2, <1>4, <2>1, <2>2 DEF Fork
<1>5. ASSUME NEW p \in Dirs, HandleInterrupt(p) \/ Killed(p) PROVE Kept
  BY <1>2, <1>5 DEF HandleInterrupt, Killed
<1>6. CASE Report \/ Leave
  BY <1>1, <1>2, <1>6 DEF Report, Leave, At, Alive
<1>7. CASE UNCHANGED vars \/ Interrupt \/ \E s \in usr : Count(s)
  BY <1>7 DEF Count, Interrupt, vars, Born
<1> QED
  BY <1>3, <1>4, <1>5, <1>6, <1>7 DEF Next, MainRuns

LEMMA RootedStep == Typing /\ Rooted /\ [Next]_vars => Rooted'
<1> SUFFICES ASSUME Typing, Rooted, [Next]_vars PROVE Rooted'
  OBVIOUS
<1>1. CASE Born' = Born
  BY <1>1 DEF Rooted
<1>2. ASSUME NEW p \in Born, NEW c \in Dirs \ Born, c \in Subdirs[p], Born' = Born \cup {c}
      PROVE  Rooted'
  <2>1. p \in Dirs /\ \A q \in Dirs : c \in Subdirs[q] => q = p
    BY <1>2 DEF Born
  <2>2. \A q, e \in Dirs : e \in Subdirs[q] /\ e \in Born' => q \in Born'
    BY <1>2, <2>1 DEF Rooted
  <2>3. ASSUME NEW S \in SUBSET (Born' \ {Root}), S # {}
        PROVE  \E e \in S : \A q \in S : e \notin Subdirs[q]
    <3>1. CASE S \subseteq Born
      BY <2>3, <3>1 DEF Rooted
    <3>2. CASE S = {c}
      BY <1>2, <2>1, <3>2
    <3>3. CASE ~(S \subseteq Born) /\ S # {c}
      <4>1. c \in S /\ S \ {c} \in SUBSET (Born \ {Root}) /\ S \ {c} # {}
        BY <1>2, <2>3, <3>3
      <4>2. PICK e \in S \ {c} : \A q \in S \ {c} : e \notin Subdirs[q]
        BY <4>1 DEF Rooted
      <4>3. e \notin Subdirs[c]
        BY <1>2, <4>1, <4>2 DEF Rooted, Born
      <4> QED
        BY <4>2, <4>3
    <3> QED
      BY <3>1, <3>2, <3>3
  <2> QED
    BY <2>2, <2>3 DEF Rooted
<1> QED
  BY <1>1, <1>2, BirthsAreForks

(* There is no way for the program to hang: whatever fails, is interrupted  *)
(* or killed, a process that waits for its children waits for one that can  *)
(* go on in the end, because the processes form a finite tree.              *)
THEOREM NoProcessHangs == Spec => []StopsEnded
<1>1. Init => Rooted
  <2> SUFFICES ASSUME Init PROVE Rooted
    OBVIOUS
  <2>1. Born = {Root}
    BY DEF Init, Born, Begin
  <2> QED
    BY <2>1 DEF Rooted
<1>2. Typing /\ Rooted => StopsEnded
  <2> SUFFICES ASSUME Typing, Rooted, \A p \in Dirs : ~GoesOn(p),
                      NEW first \in Dirs, Alive(first)
               PROVE  FALSE
    BY DEF StopsEnded
  <2> DEFINE Waiting == {p \in Dirs : Alive(p)}
             awaited == [p \in Waiting |-> CHOOSE c \in Children(p) : Alive(c)]
  <2>1. \A p \in Waiting : \E c \in Children(p) : Alive(c)
    <3> SUFFICES ASSUME NEW p \in Waiting PROVE \E c \in Children(p) : Alive(c)
      OBVIOUS
    <3>1. Children(p) # {} /\ \A c \in Children(p) : pc[c] # "ended" /\ pc[c] # "unborn"
      BY DEF GoesOn, Children
    <3> QED
      BY <3>1 DEF Alive
  <2>2. \A p \in Waiting : awaited[p] \in Waiting /\ awaited[p] \in Subdirs[p]
    BY <2>1 DEF Children
  <2>3. awaited \in Injection(Waiting, Waiting)
    <3>1. \A p, q \in Waiting : awaited[p] = awaited[q] => p = q
      BY <2>2
    <3> QED
      BY <2>2, <3>1 DEF Injection, IsInjective
  <2>4. IsFiniteSet(Waiting)
    BY FS_Subset
  <2>5. awaited \in Surjection(Waiting, Waiting)
    BY <2>3, <2>4, FS_Injection
  <2>6. \A c \in Waiting : \E p \in Waiting : c \in Subdirs[p]
    <3> SUFFICES ASSUME NEW c \in Waiting PROVE \E p \in Waiting : c \in Subdirs[p]
      OBVIOUS
    <3>1. PICK p \in Waiting : awaited[p] = c
      BY <2>5 DEF Surjection
    <3> QED
      BY <2>2, <3>1
  <2>7. Waiting \subseteq Born \ {Root} /\ Waiting # {}
    BY <2>6 DEF Alive, Born
  <2>8. \E c \in Waiting : \A p \in Waiting : c \notin Subdirs[p]
    <3> HIDE DEF Waiting
    <3> QED
      BY <2>7 DEF Rooted
  <2> QED
    BY <2>6, <2>8
<1>3. Spec => []Rooted
  BY <1>1, TypingCorrect, RootedStep, PTL DEF Spec
<1> QED
  BY <1>2, <1>3, TypingCorrect, PTL

=============================================================================
