------------------------------ MODULE Forensic ------------------------------
(***************************************************************************)
(* The program forensic (Trabalho_1/forensic.c, forensicAux.c), called     *)
(* with -r and -v: one process per directory, which forks one child for    *)
(* every subdirectory, analyses the regular files of its own directory and *)
(* waits for its children.  With -o every process tells the first one, by  *)
(* SIGUSR1 and SIGUSR2, which directories and files are begun, and that    *)
(* one counts.  Ctrl-C sends SIGINT to all processes; the analysis of a    *)
(* file blocks it.                                                         *)
(*                                                                         *)
(* A process is named after its directory, and a step is a system call     *)
(* with what follows up to the next.  A signal that is not blocked is      *)
(* handled before its process's next step (Undisturbed): one that comes    *)
(* between two calls cannot be told from one that comes during the first.  *)
(* Standard signals do not queue: a process has a set of them pending.     *)
(* The result of write() is looked at nowhere: a line may be lost without  *)
(* anybody's noticing.  For the output, `unwritten' says which ones are;   *)
(* for the log, `sent' and `analyzed' are the lines handed to write().     *)
(* Without -r the tree is Root alone.  The options are in ForensicOptions; *)
(* what a line says about a file is left out.                              *)
(***************************************************************************)
EXTENDS Naturals, FiniteSets

CONSTANTS
    Dirs, Root,   \* the directories, and the one named in the command
    Subdirs,      \* the subdirectories of each
    Below,        \* all directories below each
    Files, Place, \* the regular files, and the directory each is in
    Failing,      \* where a system call or a command may fail
    OUT,          \* option -o
    Mortal,       \* processes may be killed from outside, as by SIGKILL
    NoFile, None

(* The directories form a tree. *)
ASSUME ForensicAssumption ==
    /\ Root \in Dirs /\ IsFiniteSet(Dirs) /\ IsFiniteSet(Files)
    /\ Subdirs \in [Dirs -> SUBSET (Dirs \ {Root})]
    /\ \A d, e \in Dirs : d # e => Subdirs[d] \cap Subdirs[e] = {}
    /\ Below \in [Dirs -> SUBSET Dirs]
    /\ \A d \in Dirs : Below[d] = Subdirs[d] \cup UNION {Below[c] : c \in Subdirs[d]}
    /\ Below[Root] = Dirs \ {Root}
    /\ Place \in [Files -> Dirs]
    /\ Dirs \cap Files = {} /\ NoFile \notin Files /\ None \notin Nat
    /\ Failing \subseteq Dirs \cup Files
    /\ OUT \in BOOLEAN /\ Mortal \in BOOLEAN

VARIABLES
    pc, status,   \* process: control, exit status
    atBase,       \* process: the working directory is baseDir
    subdirsLeft, filesLeft,  \* process: what readdir has still to return
    file,         \* process: the file it analyses
    reaped,       \* the children that their parents have waited for
    usr,          \* SIGUSR1 and SIGUSR2 pending at Root
    sigint,       \* the processes with SIGINT pending
    interrupted,  \* Ctrl-C has been pressed
    numDirs, numFiles,
    sent,         \* directories and files with a line SENT SIGNAL for the log
    written,      \* files with a line in the output
    unwritten,    \* files whose line write() failed to put there
    analyzed      \* files with a line ANALYZED for the log

counters == <<numDirs, numFiles>>
tree == <<subdirsLeft, filesLeft, reaped>>
lines == <<sent, written, unwritten, analyzed>>
ctrlC == <<sigint, interrupted>>
vars == <<pc, status, atBase, tree, file, usr, ctrlC, counters, lines>>

KILLED == 137  \* stands for the status of a process that a signal killed

Goto(p, label) == pc' = [pc EXCEPT ![p] = label]

Alive(p) == pc[p] \notin {"unborn", "ended"}

(* Mutation of Blocked: SIGINT is let in before the line in the log. *)
Blocked_Shorter(p) == pc[p] \in {"signalFile", "write"}

(* Mutation of Blocked: analiseDir keeps SIGINT out as well. *)
Blocked_Longer(p) == pc[p] \in {"scan", "files", "signalFile", "write", "log"}

(* blocksigint ... unblocksigint, in analiseFile. *)
Blocked(p) == pc[p] \in {"signalFile", "write", "log"}

Undisturbed(p) == (p \in sigint => Blocked(p)) /\ (p = Root => usr = {})

At(p, label) == pc[p] = label /\ Undisturbed(p)

Begin == IF OUT THEN "logDir" ELSE "open"

FilesIn(d) == {f \in Files : Place[f] = d}

Init ==
    /\ pc = [p \in Dirs |-> IF p = Root THEN Begin ELSE "unborn"]
    /\ status = [p \in Dirs |-> None] /\ atBase = [p \in Dirs |-> FALSE]
    /\ subdirsLeft = Subdirs /\ filesLeft = [p \in Dirs |-> FilesIn(p)]
    /\ file = [p \in Dirs |-> NoFile]
    /\ reaped = {} /\ usr = {} /\ sigint = {} /\ interrupted = FALSE
    /\ numDirs = 0 /\ numFiles = 0
    /\ sent = {} /\ written = {} /\ unwritten = {} /\ analyzed = {}

(* exit().  What was pending at the process is gone. *)
Exit(p, code) ==
    /\ Goto(p, "ended") /\ status' = [status EXCEPT ![p] = code]
    /\ sigint' = sigint \ {p}
    /\ usr' = IF p = Root THEN {} ELSE usr
    /\ UNCHANGED <<atBase, tree, file, interrupted, counters, lines>>

(* kill(parentPid, s), which is in vain when the first process has ended. *)
Signal(p, s) == usr' = IF Alive(Root) THEN usr \cup {s} ELSE usr

-----------------------------------------------------------------------------
(* analiseDir, first part.                                                 *)

(* Mutation of LogDir: the line is left out. *)
LogDir_Silent(p) ==
    /\ At(p, "logDir") /\ Goto(p, "signalDir")
    /\ UNCHANGED <<status, atBase, tree, file, usr, ctrlC, counters, lines>>

LogDir(p) ==
    /\ At(p, "logDir") /\ Goto(p, "signalDir")
    /\ sent' = sent \cup {p}
    /\ UNCHANGED <<status, atBase, tree, file, usr, ctrlC, counters, written, unwritten, analyzed>>

SignalDir(p) ==
    /\ At(p, "signalDir") /\ Goto(p, "open")
    /\ Signal(p, "SIGUSR1")
    /\ UNCHANGED <<status, atBase, tree, file, ctrlC, counters, lines>>

(* opendir with a path that starts at the first working directory. *)
Open(p) ==
    /\ At(p, "open")
    /\ \/ /\ ~atBase[p] /\ Goto(p, "scan")
          /\ UNCHANGED <<status, atBase, tree, file, usr, ctrlC, counters, lines>>
       \/ (atBase[p] \/ p \in Failing) /\ Exit(p, 4)

(* lstat and fork.  The child has its parent's working directory, and its   *)
(* own part of the tree to work on.                                         *)
Fork(p, c) ==
    /\ At(p, "scan") /\ c \in subdirsLeft[p]
    /\ \/ /\ pc' = [pc EXCEPT ![c] = Begin]
          /\ subdirsLeft' = [subdirsLeft EXCEPT ![p] = @ \ {c}]
          /\ atBase' = [atBase EXCEPT ![c] = atBase[p]]
          /\ UNCHANGED <<status, filesLeft, reaped, file, usr, ctrlC, counters, lines>>
       \/ c \in Failing /\ \E code \in {3, 4} : Exit(p, code)

(* Mutation of ChangeDir: it comes before the subdirectories. *)
ChangeDir_Early(p) ==
    /\ At(p, "scan") /\ Goto(p, IF subdirsLeft[p] = {} THEN "files" ELSE "scan")
    /\ atBase' = [atBase EXCEPT ![p] = TRUE]
    /\ UNCHANGED <<status, tree, file, usr, ctrlC, counters, lines>>

(* rewinddir and chdir(baseDir). *)
ChangeDir(p) ==
    /\ At(p, "scan") /\ subdirsLeft[p] = {}
    /\ \/ /\ Goto(p, "files") /\ atBase' = [atBase EXCEPT ![p] = TRUE]
          /\ UNCHANGED <<status, tree, file, usr, ctrlC, counters, lines>>
       \/ p \in Failing /\ Exit(p, 4)

-----------------------------------------------------------------------------
(* analiseFile, for every regular file of the directory.                   *)

(* blocksigint, lstat and, with -o, the line SENT SIGNAL. *)
BeginFile(p, f) ==
    /\ At(p, "files") /\ f \in filesLeft[p]
    /\ \/ /\ filesLeft' = [filesLeft EXCEPT ![p] = @ \ {f}]
          /\ file' = [file EXCEPT ![p] = f]
          /\ Goto(p, IF OUT THEN "signalFile" ELSE "write")
          /\ sent' = IF OUT THEN sent \cup {f} ELSE sent
          /\ UNCHANGED <<status, atBase, subdirsLeft, reaped, usr, ctrlC, counters,
                         written, unwritten, analyzed>>
       \/ f \in Failing /\ Exit(p, 3)

SignalFile(p) ==
    /\ At(p, "signalFile") /\ Goto(p, "write")
    /\ Signal(p, "SIGUSR2")
    /\ UNCHANGED <<status, atBase, tree, file, ctrlC, counters, lines>>

(* The commands, each of which may fail, and one write() of the whole line: *)
(* when that one fails the process goes on as if the line were there.       *)
WriteLine(p) ==
    /\ At(p, "write")
    /\ \/ /\ Goto(p, "log")
          /\ \/ written' = written \cup {file[p]} /\ UNCHANGED unwritten
             \/ /\ file[p] \in Failing
                /\ unwritten' = unwritten \cup {file[p]} /\ UNCHANGED written
          /\ UNCHANGED <<status, atBase, tree, file, usr, ctrlC, counters, sent, analyzed>>
       \/ file[p] \in Failing /\ Exit(p, 3)

(* The line ANALYZED, and unblocksigint. *)
LogFile(p) ==
    /\ At(p, "log") /\ Goto(p, "files")
    /\ analyzed' = analyzed \cup {file[p]}
    /\ file' = [file EXCEPT ![p] = NoFile]
    /\ UNCHANGED <<status, atBase, tree, usr, ctrlC, counters, sent, written, unwritten>>

-----------------------------------------------------------------------------
(* The wait for the children, and the end.                                 *)

Children(p) == {c \in Subdirs[p] : pc[c] # "unborn" /\ c \notin reaped}

(* Mutation of ExitStatus: nobody looks at it. *)
ExitStatus_Ignored(c) == 0

(* WEXITSTATUS: 0 for a process that was killed. *)
ExitStatus(c) == IF status[c] = KILLED THEN 0 ELSE status[c]

Wait(p, c) ==
    /\ At(p, "files") /\ filesLeft[p] = {} /\ c \in Children(p) /\ pc[c] = "ended"
    /\ \/ /\ ExitStatus(c) = 0 /\ reaped' = reaped \cup {c}
          /\ UNCHANGED <<pc, status, atBase, subdirsLeft, filesLeft, file, usr, ctrlC, counters, lines>>
       \/ ExitStatus(c) # 0 /\ Exit(p, 4)

(* Mutation of Finish: nobody waits for the children. *)
Finish_NoWait(p) ==
    /\ At(p, "files") /\ filesLeft[p] = {}
    /\ \/ p # Root /\ Exit(p, 0)
       \/ /\ p = Root /\ Goto(p, "report")
          /\ UNCHANGED <<status, atBase, tree, file, usr, ctrlC, counters, lines>>

(* Mutation of Finish: a process without children waits for one for ever. *)
Finish_WithChildren(p) ==
    /\ At(p, "files") /\ filesLeft[p] = {} /\ Children(p) = {} /\ reaped \cap Subdirs[p] # {}
    /\ \/ p # Root /\ Exit(p, 0)
       \/ /\ p = Root /\ Goto(p, "report")
          /\ UNCHANGED <<status, atBase, tree, file, usr, ctrlC, counters, lines>>

(* wait() returns -1: there is no child any more.  A child ends here. *)
Finish(p) ==
    /\ At(p, "files") /\ filesLeft[p] = {} /\ Children(p) = {}
    /\ \/ p # Root /\ Exit(p, 0)
       \/ /\ p = Root /\ Goto(p, "report")
          /\ UNCHANGED <<status, atBase, tree, file, usr, ctrlC, counters, lines>>

(* main: End: numDirs/numFiles, and close of both files. *)
Report ==
    /\ At(Root, "report") /\ Goto(Root, "leave")
    /\ UNCHANGED <<status, atBase, tree, file, usr, ctrlC, counters, lines>>

Leave == At(Root, "leave") /\ Exit(Root, 0)

-----------------------------------------------------------------------------
(* Signals.                                                                *)

(* sigusr1Handler and sigusr2Handler: the line RECEIVED SIGNAL and the sum. *)
Count(s) ==
    /\ Alive(Root) /\ s \in usr /\ usr' = usr \ {s}
    /\ numDirs' = IF s = "SIGUSR1" THEN numDirs + 1 ELSE numDirs
    /\ numFiles' = IF s = "SIGUSR2" THEN numFiles + 1 ELSE numFiles
    /\ UNCHANGED <<pc, status, atBase, tree, file, ctrlC, lines>>

(* Ctrl-C. *)
Interrupt ==
    /\ ~interrupted /\ Alive(Root)
    /\ interrupted' = TRUE /\ sigint' = {p \in Dirs : Alive(p)}
    /\ UNCHANGED <<pc, status, atBase, tree, file, usr, counters, lines>>

(* sigintHandler, which fails when main has closed the files already. *)
HandleInterrupt(p) ==
    /\ Alive(p) /\ p \in sigint /\ ~Blocked(p)
    /\ Exit(p, IF pc[p] = "leave" THEN 5 ELSE 7)

Killed(p) == Mortal /\ p # Root /\ Alive(p) /\ Exit(p, KILLED)

Runs(p) ==
    \/ LogDir(p) \/ SignalDir(p) \/ Open(p) \/ ChangeDir(p)
    \/ \E c \in Dirs : Fork(p, c) \/ Wait(p, c)
    \/ \E f \in Files : BeginFile(p, f)
    \/ SignalFile(p) \/ WriteLine(p) \/ LogFile(p) \/ Finish(p)

MainRuns == Report \/ Leave \/ \E s \in usr : Count(s)

Next ==
    \/ \E p \in Dirs : Runs(p) \/ HandleInterrupt(p) \/ Killed(p)
    \/ MainRuns \/ Interrupt

Spec == Init /\ [][Next]_vars

(* A process that can go on does, and handles its signals. *)
Fairness ==
    /\ WF_vars(MainRuns)
    /\ \A p \in Dirs : WF_vars(Runs(p) \/ HandleInterrupt(p))

FairSpec == Spec /\ Fairness

-----------------------------------------------------------------------------
(* Properties.                                                             *)

Labels == {"unborn", "logDir", "signalDir", "open", "scan", "files", "signalFile",
           "write", "log", "report", "leave", "ended"}

(* Every variable keeps its type; only the first process counts and ends    *)
(* the program, and a process has a file in hands while SIGINT is blocked.  *)
TypeOK ==
    /\ pc \in [Dirs -> Labels] /\ status \in [Dirs -> {None, 0, 3, 4, 5, 7, KILLED}]
    /\ \A p \in Dirs : /\ pc[p] = "ended" <=> status[p] # None
                       /\ pc[p] \in {"report", "leave"} => p = Root
                       /\ pc[p] \in {"signalFile", "write", "log"} => file[p] \in FilesIn(p)
    /\ atBase \in [Dirs -> BOOLEAN] /\ file \in [Dirs -> Files \cup {NoFile}]
    /\ subdirsLeft \in [Dirs -> SUBSET Dirs] /\ filesLeft \in [Dirs -> SUBSET Files]
    /\ reaped \subseteq Dirs /\ usr \subseteq {"SIGUSR1", "SIGUSR2"} /\ sigint \subseteq Dirs
    /\ interrupted \in BOOLEAN /\ numDirs \in Nat /\ numFiles \in Nat
    /\ sent \subseteq Dirs \cup Files /\ written \subseteq Files /\ analyzed \subseteq Files
    /\ unwritten \subseteq Failing \cap Files

Survived == \A p \in Dirs : status[p] # KILLED

(* When the program ends well, every file of the tree was analysed to the   *)
(* end, each has its line in the output or is one whose write() failed, and *)
(* no process is left behind: the exit statuses carry every other failure   *)
(* in a subtree, and every interrupt, up to the first process.  A failed    *)
(* write() is the one failure that a good end hides (forensic.c:90).        *)
CompleteAtEnd ==
    status[Root] = 0 /\ Survived =>
        /\ analyzed = Files /\ written \cup unwritten = Files
        /\ \A p \in Dirs : status[p] = 0

(* Ctrl-C never cuts the analysis of a file short: what was begun is also   *)
(* handed to write(), for the output and for the log.                       *)
WholeAnalyses ==
    \A p \in Dirs : status[p] \in {5, 7} =>
        \A f \in FilesIn(p) :
            f \in filesLeft[p] \/ (f \in written \cup unwritten /\ f \in analyzed)

(* A process reports a failure only when there was one in its part of the   *)
(* tree: it never takes a child that Ctrl-C ended for one that failed, and  *)
(* never looks for a path in the wrong working directory.                   *)
FailureHasCause ==
    \A p \in Dirs : status[p] \in {3, 4} =>
        \E d \in {p} \cup Below[p] : ({d} \cup FilesIn(d)) \cap Failing # {}

(* When the sums are printed no signal is pending and nobody is left to     *)
(* send one, so that no handler runs, or prints, from then on.              *)
QuietAtReport ==
    pc[Root] \in {"report", "leave"} /\ Survived =>
        usr = {} /\ \A p \in Dirs \ {Root} : pc[p] = "ended"

(* No line RECEIVED SIGNAL, which comes with every step of the sums, is     *)
(* handed to the log without a line SENT SIGNAL of its own before it.       *)
SentBeforeReceived ==
    /\ numDirs <= Cardinality(sent \cap Dirs)
    /\ numFiles <= Cardinality(sent \cap Files)

(* After Ctrl-C no process is forked and no other file is begun. *)
NothingNewAfterInterrupt ==
    [][interrupted => \A p \in Dirs : /\ pc[p] = "unborn" => pc'[p] = "unborn"
                                      /\ filesLeft'[p] = filesLeft[p]]_vars

(* The program ends in any case, and all of its processes with it. *)
AllEnd == <>(\A p \in Dirs : ~Alive(p))

(* A good end means a complete output. *)
OutputIsComplete == status[Root] = 0 /\ Survived => written = Files

(* The sums printed at the end are right. *)
SumsAreRight ==
    OUT /\ pc[Root] = "leave" /\ Survived => numDirs = Cardinality(Dirs) /\ numFiles = Cardinality(Files)

(* A child that did not end properly is noticed. *)
DeathIsNoticed == status[Root] = 0 => Survived

(* A process that Ctrl-C ends has the exit code of its own. *)
InterruptHasItsCode == \A p \in Dirs : status[p] # 5

=============================================================================
