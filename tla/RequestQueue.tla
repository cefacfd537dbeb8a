---------------------------- MODULE RequestQueue ----------------------------
(***************************************************************************)
(* The request queue of the home-banking server (Trabalho_2/src/server.c): *)
(* the main thread reads requests from the server FIFO and stores them in  *)
(* the circular array `requests'; the bank offices (threads) fetch and     *)
(* serve them.  Producer and consumers synchronise with the counters       *)
(* `slots' and `items', each a monitor of a mutex and a condition          *)
(* variable, and with `buffer_lock' around the array itself.               *)
(*                                                                         *)
(* An office that serves the administrator's shutdown request closes the   *)
(* server's own write end of the FIFO, so that the main thread reads an    *)
(* end of file, sets `fifoClosed', wakes the offices and joins them.       *)
(*                                                                         *)
(* What the handlers do to the accounts, and what becomes of the users, is *)
(* the business of other modules: here a request is opaque except for      *)
(* being a shutdown that the server accepts (Shutdowns) or not, and every  *)
(* outcome of the reply is possible at every request.  Two of them cost an *)
(* office for good: generateHash that never returns, in a ring of          *)
(* coprocesses (module Coprocess), and open() of a FIFO whose user is gone *)
(* (module Session).                                                       *)
(*                                                                         *)
(* slots_lock and items_lock protect nothing but their own counter and     *)
(* wait set, so a critical section is one step, except where items_lock is *)
(* held across a read of `fifoClosed', which the main thread writes        *)
(* without any lock: there the section is split and the owner kept.        *)
(***************************************************************************)
EXTENDS Naturals, FiniteSets

CONSTANTS
    Offices,       \* the bank office threads
    MAX_REQUESTS,  \* the size of the array `requests'
    Requests,      \* the requests that users may send
    Shutdowns,     \* those that handleShutdown accepts (administrator, right password)
    NoRequest,     \* an empty cell or hand
    Main, Nobody   \* the main thread, and the owner of a mutex that is free

ASSUME QueueAssumption ==
    /\ IsFiniteSet(Offices)
    /\ MAX_REQUESTS \in Nat \ {0}
    /\ Shutdowns \subseteq Requests
    /\ NoRequest \notin Requests
    /\ Main \notin Offices
    /\ Nobody \notin Offices
    /\ Main # Nobody

VARIABLES
    requests, bufferIn, bufferOut, bufferLock,  \* the circular array and buffer_lock
    slots,                                      \* free cells the main thread may claim
    items, itemsLock,                           \* stored requests an office may claim
    fifoClosed,                                 \* the main thread has read an end of file
    workingThreads,                             \* offices in operation
    dummyOpen,                                  \* fdFifoServerDummy is open
    unsent,                                     \* requests no user has written so far
    mainPc, mainRequest,                        \* main thread: control and currentRequest
    pc, request,                                \* office: control and currentRequest
    robbed,                                     \* offices one of whose descriptors was closed by another
    up                                          \* the server process runs

vars == <<requests, bufferIn, bufferOut, bufferLock, slots, items, itemsLock,
          fifoClosed, workingThreads, dummyOpen, unsent, mainPc, mainRequest,
          pc, request, robbed, up>>

buffer == <<requests, bufferIn, bufferOut, bufferLock>>
closing == <<fifoClosed, dummyOpen, robbed, up>>
main == <<mainPc, mainRequest>>
office == <<pc, request>>

Indices == 0 .. MAX_REQUESTS - 1

MainStates == {"slots", "slotsWait", "read", "store", "advance", "post",
               "broadcast", "join", "done"}

OfficeStates == {"items", "itemsHeld", "itemsWait", "fetch", "fetched",
                 "release", "serve", "hung", "reply", "stuck", "write", "finish", "closed"}

(* The states of an office that counts in workingThreads. *)
Working == {"fetched", "release", "serve", "hung", "reply", "stuck", "write", "finish"}

At(states) == {o \in Offices : pc[o] \in states}

(* Offices that never come back, from generateHash or from open(). *)
Lost == At({"hung", "stuck"})

Goto(o, state) == pc' = [pc EXCEPT ![o] = state]

(* Mutation of Successor: the last cell is left out. *)
Successor_TooSoon(i) == IF i + 2 >= MAX_REQUESTS THEN 0 ELSE i + 1

Free(mutex) == mutex = Nobody

Successor(i) == (i + 1) % MAX_REQUESTS

Init ==
    /\ requests = [i \in Indices |-> NoRequest]
    /\ bufferIn = 0 /\ bufferOut = 0 /\ bufferLock = Nobody
    /\ slots = MAX_REQUESTS
    /\ items = 0 /\ itemsLock = Nobody
    /\ fifoClosed = FALSE /\ dummyOpen = TRUE
    /\ workingThreads = 0
    /\ unsent = Requests
    /\ mainPc = "slots" /\ mainRequest = NoRequest
    /\ pc = [o \in Offices |-> "items"]
    /\ request = [o \in Offices |-> NoRequest]
    /\ robbed = {} /\ up = TRUE

-----------------------------------------------------------------------------
(* The main thread.                                                        *)

(* Mutation of SlotsTake: the wait for a slot is left out. *)
SlotsTake_NoWait ==
    /\ mainPc = "slots" /\ mainPc' = "read"
    /\ slots' = IF slots > 0 THEN slots - 1 ELSE 0
    /\ UNCHANGED <<buffer, items, itemsLock, workingThreads, unsent, mainRequest, office, closing>>

(* syncSlotsMainThread with a slot available. *)
SlotsTake ==
    /\ mainPc = "slots" /\ slots > 0
    /\ slots' = slots - 1
    /\ mainPc' = "read"
    /\ UNCHANGED <<buffer, items, itemsLock, workingThreads, unsent, mainRequest, office, closing>>

(* syncSlotsMainThread with none: pthread_cond_wait gives the mutex up.  A  *)
(* wake-up sends the thread back to the test of the while loop.             *)
SlotsSleep ==
    /\ mainPc = "slots" /\ slots = 0
    /\ mainPc' = "slotsWait"
    /\ UNCHANGED <<buffer, slots, items, itemsLock, workingThreads, unsent, mainRequest, office, closing>>

(* readRequest returns 0: a whole request was read from the server FIFO.    *)
ReadRequest ==
    /\ mainPc = "read"
    /\ \E r \in unsent : mainRequest' = r /\ unsent' = unsent \ {r}
    /\ mainPc' = "store"
    /\ UNCHANGED <<buffer, slots, items, itemsLock, workingThreads, office, closing>>

(* readRequest returns 1: the FIFO is empty and nobody has it open for      *)
(* writing, which the server's own descriptor rules out while it is open.   *)
ReadEof ==
    /\ mainPc = "read" /\ ~dummyOpen
    /\ fifoClosed' = TRUE
    /\ mainPc' = "broadcast"
    /\ UNCHANGED <<buffer, slots, items, itemsLock, workingThreads, unsent, mainRequest,
                   office, dummyOpen, robbed, up>>

Store ==
    /\ mainPc = "store" /\ Free(bufferLock)
    /\ bufferLock' = Main
    /\ requests' = [requests EXCEPT ![bufferIn] = mainRequest]
    /\ mainPc' = "advance"
    /\ UNCHANGED <<bufferIn, bufferOut, slots, items, itemsLock, workingThreads, unsent,
                   mainRequest, office, closing>>

AdvanceIn ==
    /\ mainPc = "advance"
    /\ bufferIn' = Successor(bufferIn)
    /\ bufferLock' = Nobody
    /\ mainPc' = "post" /\ mainRequest' = NoRequest
    /\ UNCHANGED <<requests, bufferOut, slots, items, itemsLock, workingThreads, unsent, office, closing>>

(* pthread_cond_signal wakes one thread of the wait set, if there is any.   *)
SignalItems ==
    IF At({"itemsWait"}) = {} THEN UNCHANGED pc
    ELSE \E o \in At({"itemsWait"}) : Goto(o, "items")

(* Mutation of Post: the signal is sent only when the queue was empty. *)
Post_SignalOnce ==
    /\ mainPc = "post" /\ Free(itemsLock)
    /\ items' = items + 1
    /\ IF items = 0 THEN SignalItems ELSE UNCHANGED pc
    /\ mainPc' = "slots"
    /\ UNCHANGED <<buffer, slots, itemsLock, workingThreads, unsent, mainRequest, request, closing>>

(* syncItemsMainThread. *)
Post ==
    /\ mainPc = "post" /\ Free(itemsLock)
    /\ items' = items + 1
    /\ SignalItems
    /\ mainPc' = "slots"
    /\ UNCHANGED <<buffer, slots, itemsLock, workingThreads, unsent, mainRequest, request, closing>>

(* Mutation of Broadcast: only one of the waiting offices is woken. *)
Broadcast_One ==
    /\ mainPc = "broadcast"
    /\ SignalItems
    /\ mainPc' = "join"
    /\ UNCHANGED <<buffer, slots, items, itemsLock, workingThreads, unsent, mainRequest, request, closing>>

(* pthread_cond_broadcast, called without items_lock. *)
Broadcast ==
    /\ mainPc = "broadcast"
    /\ pc' = [o \in Offices |-> IF pc[o] = "itemsWait" THEN "items" ELSE pc[o]]
    /\ mainPc' = "join"
    /\ UNCHANGED <<buffer, slots, items, itemsLock, workingThreads, unsent, mainRequest, request, closing>>

(* closeBankOffices has joined every office; the FIFO is closed and removed *)
(* and the process ends.                                                    *)
Join ==
    /\ mainPc = "join" /\ At({"closed"}) = Offices
    /\ mainPc' = "done"
    /\ UNCHANGED <<buffer, slots, items, itemsLock, workingThreads, unsent, mainRequest, office, closing>>

-----------------------------------------------------------------------------
(* A bank office.                                                          *)

(* Mutation of ItemsTest: an office ends although requests are stored. *)
ItemsTest_Hasty(o) ==
    /\ pc[o] = "items" /\ Free(itemsLock)
    /\ IF fifoClosed
       THEN Goto(o, "closed") /\ UNCHANGED itemsLock
       ELSE Goto(o, "itemsHeld") /\ itemsLock' = o
    /\ UNCHANGED <<buffer, slots, items, workingThreads, unsent, main, request, closing>>

(* syncItemsBankOffice, from the lock of items_lock (also the one at the    *)
(* end of pthread_cond_wait) to the test whether the thread should end.     *)
ItemsTest(o) ==
    /\ pc[o] = "items" /\ Free(itemsLock)
    /\ IF fifoClosed /\ items = 0
       THEN Goto(o, "closed") /\ UNCHANGED itemsLock
       ELSE Goto(o, "itemsHeld") /\ itemsLock' = o
    /\ UNCHANGED <<buffer, slots, items, workingThreads, unsent, main, request, closing>>

ItemsSleep(o) ==
    /\ pc[o] = "itemsHeld" /\ items = 0
    /\ Goto(o, "itemsWait") /\ itemsLock' = Nobody
    /\ UNCHANGED <<buffer, slots, items, workingThreads, unsent, main, request, closing>>

ItemsTake(o) ==
    /\ pc[o] = "itemsHeld" /\ items > 0
    /\ items' = items - 1
    /\ Goto(o, "fetch") /\ itemsLock' = Nobody
    /\ UNCHANGED <<buffer, slots, workingThreads, unsent, main, request, closing>>

(* Mutation of Fetch: buffer_lock is not taken. *)
Fetch_Unlocked(o) ==
    /\ pc[o] = "fetch" /\ Goto(o, "fetched")
    /\ workingThreads' = workingThreads + 1
    /\ request' = [request EXCEPT ![o] = requests[bufferOut]]
    /\ UNCHANGED <<buffer, slots, items, itemsLock, unsent, main, closing>>

(* Under buffer_lock: workingThreads is incremented, the request is copied. *)
Fetch(o) ==
    /\ pc[o] = "fetch" /\ Free(bufferLock)
    /\ bufferLock' = o
    /\ workingThreads' = workingThreads + 1
    /\ request' = [request EXCEPT ![o] = requests[bufferOut]]
    /\ Goto(o, "fetched")
    /\ UNCHANGED <<requests, bufferIn, bufferOut, slots, items, itemsLock, unsent, main, closing>>

AdvanceOut(o) ==
    /\ pc[o] = "fetched"
    /\ bufferOut' = Successor(bufferOut)
    /\ bufferLock' = Nobody
    /\ Goto(o, "release")
    /\ UNCHANGED <<requests, bufferIn, slots, items, itemsLock, workingThreads, unsent, main,
                   request, closing>>

(* Mutation of ReleaseSlot: the slot comes back, the main thread is not told. *)
ReleaseSlot_Silent(o) ==
    /\ pc[o] = "release" /\ Goto(o, "serve")
    /\ slots' = slots + 1
    /\ UNCHANGED <<buffer, items, itemsLock, workingThreads, unsent, main, request, closing>>

(* syncSlotsBankOffice: only the main thread ever waits for slots_cond. *)
ReleaseSlot(o) ==
    /\ pc[o] = "release" /\ Goto(o, "serve")
    /\ slots' = slots + 1
    /\ mainPc' = IF mainPc = "slotsWait" THEN "slots" ELSE mainPc
    /\ UNCHANGED <<buffer, items, itemsLock, workingThreads, unsent, mainRequest, request, closing>>

(* handleRequest for everything but an accepted shutdown; the pipes of      *)
(* generateHash are closed at its end.                                      *)
Serve(o) ==
    /\ pc[o] = "serve" /\ request[o] \notin Shutdowns
    /\ Goto(o, "reply")
    /\ robbed' = robbed \ {o}
    /\ UNCHANGED <<buffer, slots, items, itemsLock, workingThreads, unsent, main, request,
                   fifoClosed, dummyOpen, up>>

(* Offices that are in generateHash at the same time may wait there for     *)
(* each other's coprocesses for ever, and with them those that need an      *)
(* account mutex, or the end of a pipe, which the hanging ones keep.        *)
RingOfCoprocesses ==
    /\ \E caught \in SUBSET At({"serve"}) \ {{}} :
           /\ Cardinality(caught \cup At({"hung"})) > 1
           /\ pc' = [o \in Offices |-> IF o \in caught THEN "hung" ELSE pc[o]]
    /\ UNCHANGED <<buffer, slots, items, itemsLock, workingThreads, unsent, main, request, closing>>

(* handleShutdown, accepted for the first time. *)
Shutdown(o) ==
    /\ pc[o] = "serve" /\ request[o] \in Shutdowns /\ dummyOpen
    /\ dummyOpen' = FALSE
    /\ Goto(o, "reply")
    /\ UNCHANGED <<buffer, slots, items, itemsLock, workingThreads, unsent, main, request,
                   fifoClosed, robbed, up>>

(* handleShutdown, accepted again: fdFifoServerDummy is a stale descriptor  *)
(* number.  close() fails and the office exits the process ...              *)
ShutdownFails(o) ==
    /\ pc[o] = "serve" /\ request[o] \in Shutdowns /\ ~dummyOpen
    /\ up' = FALSE
    /\ UNCHANGED <<buffer, slots, items, itemsLock, workingThreads, unsent, main, office,
                   fifoClosed, dummyOpen, robbed>>

(* ... unless another office has the number in use by now, for a pipe of    *)
(* generateHash or for a user FIFO it has opened, closed under its feet.    *)
ShutdownRobs(o) ==
    /\ pc[o] = "serve" /\ request[o] \in Shutdowns /\ ~dummyOpen
    /\ \E other \in At({"serve", "write"}) \ {o} : robbed' = robbed \cup {other}
    /\ Goto(o, "reply")
    /\ UNCHANGED <<buffer, slots, items, itemsLock, workingThreads, unsent, main, request,
                   fifoClosed, dummyOpen, up>>

(* An office whose descriptor is gone may fail to use or close it and exit  *)
(* the process.                                                             *)
RobbedFails(o) ==
    /\ o \in robbed /\ pc[o] \in {"serve", "write"}
    /\ up' = FALSE
    /\ UNCHANGED <<buffer, slots, items, itemsLock, workingThreads, unsent, main, office,
                   fifoClosed, dummyOpen, robbed>>

(* open() of the user FIFO fails when it is gone (RC_USR_DOWN) ...          *)
UserDown(o) ==
    /\ pc[o] = "reply" /\ Goto(o, "finish")
    /\ UNCHANGED <<buffer, slots, items, itemsLock, workingThreads, unsent, main, request, closing>>

(* ... returns when the user has opened it to read ...                      *)
MeetUser(o) ==
    /\ pc[o] = "reply" /\ Goto(o, "write")
    /\ UNCHANGED <<buffer, slots, items, itemsLock, workingThreads, unsent, main, request, closing>>

(* ... and never returns when it was found and the user's alarm, or a kill, *)
(* has ended the user before it opened it.                                  *)
UserGone(o) ==
    /\ pc[o] = "reply" /\ Goto(o, "stuck")
    /\ UNCHANGED <<buffer, slots, items, itemsLock, workingThreads, unsent, main, request, closing>>

(* The reply is written and the user FIFO closed ... *)
WriteReply(o) ==
    /\ pc[o] = "write" /\ Goto(o, "finish")
    /\ robbed' = robbed \ {o}
    /\ UNCHANGED <<buffer, slots, items, itemsLock, workingThreads, unsent, main, request,
                   fifoClosed, dummyOpen, up>>

(* ... unless the user is gone since the open(): SIGPIPE ends the process.  *)
BrokenPipe(o) ==
    /\ pc[o] = "write" /\ up' = FALSE
    /\ UNCHANGED <<buffer, slots, items, itemsLock, workingThreads, unsent, main, office,
                   fifoClosed, dummyOpen, robbed>>

(* Mutation of Finish: the office does not leave workingThreads. *)
Finish_StillCounted(o) ==
    /\ pc[o] = "finish" /\ Goto(o, "items")
    /\ request' = [request EXCEPT ![o] = NoRequest]
    /\ UNCHANGED <<buffer, slots, items, itemsLock, workingThreads, unsent, main, closing>>

Finish(o) ==
    /\ pc[o] = "finish" /\ Goto(o, "items")
    /\ workingThreads' = workingThreads - 1
    /\ request' = [request EXCEPT ![o] = NoRequest]
    /\ UNCHANGED <<buffer, slots, items, itemsLock, unsent, main, closing>>

-----------------------------------------------------------------------------
(* POSIX lets pthread_cond_wait return without a signal. *)
SpuriousWakeup ==
    \/ /\ mainPc = "slotsWait" /\ mainPc' = "slots"
       /\ UNCHANGED office
    \/ /\ \E o \in At({"itemsWait"}) : Goto(o, "items")
       /\ UNCHANGED <<mainPc, request>>

MainRuns ==
    SlotsTake \/ SlotsSleep \/ ReadEof \/ Store \/ AdvanceIn \/ Post \/ Broadcast \/ Join

OfficeRuns(o) ==
    \/ ItemsTest(o) \/ ItemsSleep(o) \/ ItemsTake(o)
    \/ Fetch(o) \/ AdvanceOut(o) \/ ReleaseSlot(o)
    \/ Serve(o) \/ Shutdown(o) \/ ShutdownFails(o) \/ ShutdownRobs(o)
    \/ RobbedFails(o) \/ UserDown(o) \/ MeetUser(o) \/ UserGone(o)
    \/ WriteReply(o) \/ BrokenPipe(o) \/ Finish(o)

Spurious ==
    /\ SpuriousWakeup
    /\ UNCHANGED <<buffer, slots, items, itemsLock, workingThreads, unsent, mainRequest, closing>>

Next ==
    /\ up
    /\ \/ MainRuns
       \/ ReadRequest
       \/ \E o \in Offices : OfficeRuns(o)
       \/ Spurious
       \/ RingOfCoprocesses

Spec == Init /\ [][Next]_vars

(* Every thread that can run does run in the end, and so do the threads     *)
(* that wait for a mutex, which its owners give back after a few steps.     *)
(* Reading a request is up to the users; the end of file is not, for the    *)
(* users that still have the FIFO open end by themselves.  An open() of a   *)
(* user FIFO is decided in the end, by the user or by its alarm, but        *)
(* nothing says in whose favour: an office may be lost, and the process may *)
(* die.  A run in which the system wakes a thread without reason for ever   *)
(* is left out.                                                             *)
Fairness ==
    /\ WF_vars(up /\ MainRuns)
    /\ \A o \in Offices : WF_vars(up /\ OfficeRuns(o))
    /\ <>[][~Spurious]_vars

FairSpec == Spec /\ Fairness

-----------------------------------------------------------------------------
(* Properties.                                                             *)

Count(states) == Cardinality(At(states))

MainAt(states) == IF mainPc \in states THEN 1 ELSE 0

(* Cells between bufferOut and bufferIn: requests that are stored and not   *)
(* past the office that claimed them.                                       *)
Occupied == items + Count({"fetch", "fetched"}) + MainAt({"post"})

(* Every variable keeps its type: in particular both indices stay inside    *)
(* the array and neither counter, an int in the code, goes below zero.      *)
TypeOK ==
    /\ requests \in [Indices -> Requests \cup {NoRequest}]
    /\ bufferIn \in Indices /\ bufferOut \in Indices
    /\ bufferLock \in Offices \cup {Main, Nobody}
    /\ slots \in Nat /\ items \in Nat
    /\ itemsLock \in Offices \cup {Nobody}
    /\ fifoClosed \in BOOLEAN /\ dummyOpen \in BOOLEAN /\ up \in BOOLEAN
    /\ workingThreads \in Nat
    /\ unsent \subseteq Requests
    /\ mainPc \in MainStates
    /\ mainRequest \in Requests \cup {NoRequest}
    /\ pc \in [Offices -> OfficeStates]
    /\ request \in [Offices -> Requests \cup {NoRequest}]
    /\ robbed \subseteq Offices

(* A mutex is owned by exactly the thread that is inside its section.       *)
LockOwners ==
    /\ bufferLock = Main <=> mainPc = "advance"
    /\ \A o \in Offices : bufferLock = o <=> pc[o] = "fetched"
    /\ \A o \in Offices : itemsLock = o <=> pc[o] = "itemsHeld"

(* Each of the MAX_REQUESTS cells is in one place: free for the main        *)
(* thread, claimed by it, filled, or emptied by an office that has not yet  *)
(* said so.  slots and items, which are guarded by different mutexes and    *)
(* changed at different times, never disagree with the array.               *)
SlotAccounting ==
    slots + Occupied + Count({"release"})
          + MainAt({"read", "store", "advance", "broadcast", "join", "done"})
        = MAX_REQUESTS

(* bufferIn and bufferOut, moved by different threads, enclose exactly the  *)
(* cells that the counters say are filled.                                  *)
BufferAccounting ==
    (bufferOut + Occupied) % MAX_REQUESTS = bufferIn

(* The i-th oldest request that is stored. *)
Stored(i) == requests[(bufferOut + i) % MAX_REQUESTS]

(* No request is overwritten before it is fetched: when the main thread is  *)
(* about to store, the cell at bufferIn is not one of the filled ones.      *)
NoCellOverwritten ==
    mainPc \in {"store", "advance"} =>
        /\ Occupied < MAX_REQUESTS
        /\ \A i \in 0 .. Occupied - 1 : (bufferOut + i) % MAX_REQUESTS # bufferIn

(* workingThreads is the number of offices between the fetch of a request   *)
(* and the end of its reply, lost ones included, so that the answer to a    *)
(* shutdown, workingThreads - 1, is the number of the other offices that    *)
(* are in operation.                                                        *)
WorkingThreadsExact ==
    workingThreads = Count(Working)

(* No wake-up for a stored request is lost: while an office sleeps, every   *)
(* item has an office of its own that is awake and about to test `items'.   *)
NoLostSignal ==
    At({"itemsWait"}) # {} => items <= Count({"items", "itemsHeld"})

(* No office ends while a request may still come: the FIFO is closed, no    *)
(* request is stored and the main thread has none in its hands.             *)
ClosedOfficeSawEmpty ==
    At({"closed"}) # {} =>
        /\ fifoClosed /\ items = 0
        /\ mainPc \in {"broadcast", "join", "done"}

(* The server ends, one way or the other, only after every request that it  *)
(* accepted is answered; the end by SIGPIPE, while an office writes its     *)
(* reply, is left to the module Session.                                    *)
EndsOnlyWhenIdle ==
    (mainPc = "done" \/ (~up /\ At({"write"}) = {})) =>
        Occupied = 0 /\ \A o \in Offices : request[o] = NoRequest

(* The queue as its users see it. *)
StoredRequests == [i \in 1 .. Occupied |-> Stored(i - 1)]

Unqueued == IF mainPc \in {"store", "advance"} THEN unsent \cup {mainRequest} ELSE unsent

Holding ==
    [o \in Offices |-> IF pc[o] \in Working \ {"fetched"} THEN request[o] ELSE NoRequest]

Fifo == INSTANCE RequestFifo WITH unsent <- Unqueued, queue <- StoredRequests, holding <- Holding

(* The array, its indices and its counters are a bounded queue: requests    *)
(* are fetched in the order they were read, none twice and none never.      *)
IsFifo == Fifo!Spec

(* Every request that the main thread read is handled to its end, unless    *)
(* the process dies (a second shutdown, SIGPIPE), the office that has       *)
(* fetched it is lost with it, or all offices are lost: losing some of them *)
(* keeps no request from the others.                                        *)
EveryRequestServed ==
    \A r \in Requests :
        (mainPc = "store" /\ mainRequest = r)
            ~> \/ \E o \in Offices : request[o] = r /\ pc[o] \in {"finish", "hung", "stuck"}
               \/ ~up \/ Lost = Offices

(* The main thread does not sleep for ever on a full queue of a server that *)
(* runs and has an office left that is not lost.                            *)
SlotComesBack == mainPc = "slotsWait" ~> (mainPc = "read" \/ ~up \/ Lost = Offices)

(* The broadcast reaches every office that sleeps when it is sent: each of  *)
(* them ends, after it has served what is left, unless it is lost over one  *)
(* of those requests or the process dies.                                   *)
SleepersAreDismissed ==
    \A o \in Offices :
        (mainPc = "broadcast" /\ pc[o] = "itemsWait") ~> (pc[o] = "closed" \/ o \in Lost \/ ~up)

(* Once the end of file is read, every office ends and the server with it,  *)
(* unless it has died or lost an office by then.                            *)
ShutdownCompletes == fifoClosed ~> (mainPc = "done" \/ ~up \/ Lost # {})

=============================================================================
