----------------------------- MODULE Coprocess -----------------------------
(***************************************************************************)
(* generateHash of Trabalho_2/src/aux.c, called by several bank offices at *)
(* a time.  A call makes two pipes, forks a child that becomes sha256sum,  *)
(* writes the password and the salt to the first pipe, closes it and reads *)
(* the hash from the second one.  The child hashes its input up to the end *)
(* of file, which comes when no process has the write end of its pipe open *)
(* any more.  The pipes are descriptors of the whole server, and without   *)
(* O_CLOEXEC: a child inherits the write ends of all the calls that are    *)
(* under way, and keeps them until it exits.                               *)
(*                                                                         *)
(* The second pipe is left out: its reader takes what the child writes and *)
(* does not wait for an end of file.  That a call of the system fails is   *)
(* left out as well; the server exits then.                                *)
(***************************************************************************)
EXTENDS Naturals, FiniteSets

CONSTANTS
    Offices,    \* the bank office threads
    MaxCalls    \* bound: how often an office calls generateHash

ASSUME CoprocessAssumption == MaxCalls \in Nat \ {0}

Calls == Offices \X (1 .. MaxCalls)

VARIABLES
    pc,         \* office: what generateHash does next
    round,      \* office: the number of its call
    child,      \* call: what its child does next
    inherited,  \* call: the calls whose write ends its child has open
    input       \* the calls whose password was written

vars == <<pc, round, child, inherited, input>>

Call(o) == <<o, round[o]>>

(* Mutation of OpenEnds: the server closes its write end along with the     *)
(* ends it does not use, before it writes.                                  *)
OpenEnds_Early == {Call(o) : o \in {p \in Offices : pc[p] = "fork"}}

(* The write ends the server itself has open. *)
OpenEnds == {Call(o) : o \in {p \in Offices : pc[p] \in {"fork", "write", "close"}}}

HasWriter(c) == c \in OpenEnds \/ \E d \in Calls : c \in inherited[d]

Init ==
    /\ pc = [o \in Offices |-> "pipe"]
    /\ round = [o \in Offices |-> 1]
    /\ child = [c \in Calls |-> "none"]
    /\ inherited = [c \in Calls |-> {}]
    /\ input = {}

Pipe(o) ==
    /\ pc[o] = "pipe" /\ pc' = [pc EXCEPT ![o] = "fork"]
    /\ UNCHANGED <<round, child, inherited, input>>

Fork(o) ==
    /\ pc[o] = "fork" /\ pc' = [pc EXCEPT ![o] = "write"]
    /\ child' = [child EXCEPT ![Call(o)] = "setup"]
    /\ inherited' = [inherited EXCEPT ![Call(o)] = OpenEnds]
    /\ UNCHANGED <<round, input>>

(* A pipe takes a password at once. *)
Write(o) ==
    /\ pc[o] = "write" /\ pc' = [pc EXCEPT ![o] = "close"]
    /\ input' = input \cup {Call(o)}
    /\ UNCHANGED <<round, child, inherited>>

Close(o) ==
    /\ pc[o] = "close" /\ pc' = [pc EXCEPT ![o] = "read"]
    /\ UNCHANGED <<round, child, inherited, input>>

ReadHash(o) ==
    /\ pc[o] = "read" /\ child[Call(o)] \in {"exit", "gone"}
    /\ IF round[o] < MaxCalls
       THEN round' = [round EXCEPT ![o] = @ + 1] /\ pc' = [pc EXCEPT ![o] = "pipe"]
       ELSE UNCHANGED round /\ pc' = [pc EXCEPT ![o] = "done"]
    /\ UNCHANGED <<child, inherited, input>>

(* Mutation of SetUp: the child keeps the write end of its own pipe. *)
SetUp_KeepsEnd(c) ==
    /\ child[c] = "setup" /\ child' = [child EXCEPT ![c] = "hash"]
    /\ UNCHANGED <<pc, round, inherited, input>>

(* The child closes the write end of its own pipe and becomes sha256sum. *)
SetUp(c) ==
    /\ child[c] = "setup" /\ child' = [child EXCEPT ![c] = "hash"]
    /\ inherited' = [inherited EXCEPT ![c] = @ \ {c}]
    /\ UNCHANGED <<pc, round, input>>

(* sha256sum gets the end of file, and prints the hash. *)
Hash(c) ==
    /\ child[c] = "hash" /\ ~HasWriter(c) /\ child' = [child EXCEPT ![c] = "exit"]
    /\ UNCHANGED <<pc, round, inherited, input>>

(* Nobody waits for the child. *)
Exit(c) ==
    /\ child[c] = "exit" /\ child' = [child EXCEPT ![c] = "gone"]
    /\ inherited' = [inherited EXCEPT ![c] = {}]
    /\ UNCHANGED <<pc, round, input>>

Office(o) == Pipe(o) \/ Fork(o) \/ Write(o) \/ Close(o) \/ ReadHash(o)
Child(c) == SetUp(c) \/ Hash(c) \/ Exit(c)

Next == (\E o \in Offices : Office(o)) \/ (\E c \in Calls : Child(c))

Spec == Init /\ [][Next]_vars

(* A thread, or a process, that can go on does. *)
FairSpec ==
    /\ Spec
    /\ \A o \in Offices : WF_vars(Office(o))
    /\ \A c \in Calls : WF_vars(Child(c))

-----------------------------------------------------------------------------
(* Properties.                                                             *)

(* Every variable keeps its type; a child has write ends only while it     *)
(* lives, and its own one no more when it hashes.                          *)
TypeOK ==
    /\ pc \in [Offices -> {"pipe", "fork", "write", "close", "read", "done"}]
    /\ round \in [Offices -> 1 .. MaxCalls]
    /\ child \in [Calls -> {"none", "setup", "hash", "exit", "gone"}]
    /\ inherited \in [Calls -> SUBSET Calls]
    /\ \A c \in Calls : child[c] \in {"none", "gone"} => inherited[c] = {}
    /\ \A c \in Calls : child[c] \in {"hash", "exit"} => c \notin inherited[c]
    /\ input \subseteq Calls

(* A hash is that of a password that was written, whatever ends the other  *)
(* children have open: the end of file never comes too early.              *)
HashOfInput == \A c \in Calls : child[c] \in {"exit", "gone"} => c \in input

(* Coprocesses that wait for each other: the pipe of each is kept open by  *)
(* another one of them.                                                    *)
Ring ==
    \E R \in (SUBSET Calls) \ {{}} :
        \A c \in R : child[c] = "hash" /\ \E d \in R \ {c} : c \in inherited[d]

(* No office, and no coprocess, can go on: whoever is left waits for a hash *)
(* or for an end of file.                                                   *)
Standstill ==
    /\ \A o \in Offices :
         pc[o] = "done" \/ (pc[o] = "read" /\ child[Call(o)] \notin {"exit", "gone"})
    /\ \A c \in Calls :
         child[c] \in {"none", "gone"} \/ (child[c] = "hash" /\ HasWriter(c))

(* Offices and coprocesses come to a standstill only when every call has    *)
(* returned or such a ring holds calls up: inherited write ends that belong *)
(* to no ring, and those of coprocesses that outlive their call, only delay. *)
StopsOnlyInRings ==
    Standstill => Ring \/ \A o \in Offices : pc[o] = "done"

(* generateHash generates a hash: a call of it returns. *)
HashIsGenerated == \A o \in Offices : pc[o] = "fork" ~> pc[o] \in {"pipe", "done"}

=============================================================================
