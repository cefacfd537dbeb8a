------------------------ MODULE RequestQueue_proofs ------------------------
(***************************************************************************)
(* The invariants of RequestQueue, proved for any number of offices, cells *)
(* and requests.  Each is inductive relative to those proved before it.    *)
(***************************************************************************)
EXTENDS RequestQueue, Integers, Sequences, SequenceTheorems, FiniteSetTheorems, TLAPS

-----------------------------------------------------------------------------
(* Counting the offices that are in one of some states.                    *)

(* The offices in a set of states are finitely many. *)
LEMMA CountIsNat ==
  ASSUME NEW states
  PROVE  IsFiniteSet(At(states)) /\ Count(states) \in Nat
<1>1. At(states) \in SUBSET Offices
  BY DEF At
<1>2. IsFiniteSet(Offices)
  BY QueueAssumption
<1> QED
  BY <1>1, <1>2, FS_Subset, FS_CardinalityType DEF Count

(* The same after a step. *)
LEMMA CountIsNatPrime ==
  ASSUME NEW states
  PROVE  IsFiniteSet(At(states)') /\ Count(states)' \in Nat
<1>1. At(states)' \in SUBSET Offices
  BY DEF At
<1>2. IsFiniteSet(Offices)
  BY QueueAssumption
<1> QED
  BY <1>1, <1>2, FS_Subset, FS_CardinalityType DEF Count

(* A count does not change when no office enters or leaves the states. *)
LEMMA CountSame ==
  ASSUME NEW states,
         \A o \in Offices : pc'[o] \in states <=> pc[o] \in states
  PROVE  At(states)' = At(states) /\ Count(states)' = Count(states)
  BY DEF At, Count

(* An office that goes from one state to another leaves every other office *)
(* where it is, and changes a count by at most one.                        *)
LEMMA CountMoves ==
  ASSUME TypeOK, NEW states, NEW o \in Offices, NEW s, Goto(o, s)
  PROVE  /\ (s \in states <=> pc[o] \in states) => Count(states)' = Count(states)
         /\ (s \in states /\ pc[o] \notin states) => Count(states)' = Count(states) + 1
         /\ (s \notin states /\ pc[o] \in states) => Count(states)' = Count(states) - 1
<1>1. pc' = [pc EXCEPT ![o] = s] /\ pc \in [Offices -> OfficeStates]
  BY DEF Goto, TypeOK
<1>2. IsFiniteSet(At(states))
  BY CountIsNat
<1>3. CASE s \in states <=> pc[o] \in states
  BY <1>1, <1>3, CountSame
<1>4. CASE s \in states /\ pc[o] \notin states
  <2>1. At(states)' = At(states) \cup {o} /\ o \notin At(states)
    BY <1>1, <1>4 DEF At
  <2> QED
    BY <2>1, <1>2, <1>4, FS_AddElement DEF Count
<1>5. CASE s \notin states /\ pc[o] \in states
  <2>1. At(states)' = At(states) \ {o} /\ o \in At(states)
    BY <1>1, <1>5 DEF At
  <2> QED
    BY <2>1, <1>2, <1>5, FS_RemoveElement DEF Count
<1> QED
  BY <1>3, <1>4, <1>5

(* The three cases, each on its own. *)
LEMMA CountStays ==
  ASSUME TypeOK, NEW states, NEW o \in Offices, NEW s, Goto(o, s), s \in states <=> pc[o] \in states
  PROVE  Count(states)' = Count(states)
  BY CountMoves

(* One enters the states. *)
LEMMA CountGains ==
  ASSUME TypeOK, NEW states, NEW o \in Offices, NEW s, Goto(o, s), s \in states, pc[o] \notin states
  PROVE  Count(states)' = Count(states) + 1
  BY CountMoves

(* One leaves the states. *)
LEMMA CountLoses ==
  ASSUME TypeOK, NEW states, NEW o \in Offices, NEW s, Goto(o, s), s \notin states, pc[o] \in states
  PROVE  Count(states)' = Count(states) - 1
  BY CountMoves

(* The states of an office are pairwise different strings: a signal moves   *)
(* one sleeping office, if there is one, and nobody else.                   *)
LEMMA SignalMoves ==
  ASSUME TypeOK, SignalItems
  PROVE  \/ At({"itemsWait"}) = {} /\ pc' = pc
         \/ \E o \in Offices : pc[o] = "itemsWait" /\ Goto(o, "items")
  BY DEF SignalItems, At

(* Post, Broadcast and a spurious wake-up only move offices that sleep, to  *)
(* the test, and a ring of coprocesses only those that it keeps.            *)
LEMMA WakersKeepOffices ==
  ASSUME TypeOK, Post \/ Broadcast \/ Spurious \/ RingOfCoprocesses
  PROVE  /\ pc' \in [Offices -> OfficeStates]
         /\ \A o \in Offices : \/ pc'[o] = pc[o]
                               \/ pc[o] = "itemsWait" /\ pc'[o] = "items"
                               \/ pc[o] = "serve" /\ pc'[o] = "hung"
<1>0. pc \in [Offices -> OfficeStates] /\ {"items", "hung"} \subseteq OfficeStates
  BY DEF TypeOK, OfficeStates
<1>1. CASE Post \/ Broadcast \/ Spurious
  <2>1. CASE Broadcast
    BY <1>0, <2>1 DEF Broadcast
  <2>2. CASE Post \/ Spurious
    <3>1. \/ pc' = pc
          \/ \E o \in Offices : pc[o] = "itemsWait" /\ pc' = [pc EXCEPT ![o] = "items"]
      BY <2>2 DEF Post, Spurious, SpuriousWakeup, SignalItems, Goto, At, office
    <3> QED
      BY <1>0, <3>1
  <2> QED
    BY <1>1, <2>1, <2>2
<1>2. CASE RingOfCoprocesses
  <2>1. PICK caught \in SUBSET At({"serve"}) :
          pc' = [o \in Offices |-> IF o \in caught THEN "hung" ELSE pc[o]]
    BY <1>2 DEF RingOfCoprocesses
  <2>2. \A o \in caught : o \in Offices /\ pc[o] = "serve"
    BY DEF At
  <2> QED
    BY <1>0, <2>1, <2>2
<1> QED
  BY <1>1, <1>2

-----------------------------------------------------------------------------
(* Types, and the number of working threads.                               *)

Typing == TypeOK /\ WorkingThreadsExact

(* The types, and that workingThreads counts, hold at the start. *)
LEMMA TypingInit == Init => Typing
<1> SUFFICES ASSUME Init PROVE Typing
  OBVIOUS
<1>0. 0 \in Indices
  BY QueueAssumption DEF Indices
<1>1. TypeOK
  BY <1>0, QueueAssumption DEF Init, TypeOK, MainStates, OfficeStates
<1>2. At(Working) = {}
  BY DEF Init, At, Working
<1>3. WorkingThreadsExact
  BY <1>2, FS_EmptySet DEF Init, WorkingThreadsExact, Count, Working
<1> QED
  BY <1>1, <1>3 DEF Typing

(* workingThreads follows the count in every step of an office. *)
LEMMA WorkingStep ==
  ASSUME Typing, NEW o \in Offices, OfficeRuns(o)
  PROVE  WorkingThreadsExact' /\ workingThreads' \in Nat
<1> DEFINE W == Count(Working)
<1>0. TypeOK /\ workingThreads = W /\ W \in Nat /\ W' \in Nat
  BY CountIsNat, CountIsNatPrime DEF Typing, WorkingThreadsExact
<1>1. CASE Fetch(o)
  <2>1. Goto(o, "fetched") /\ pc[o] = "fetch" /\ workingThreads' = workingThreads + 1
    BY <1>1 DEF Fetch
  <2>2. W' = W + 1
    BY <1>0, <2>1, CountMoves DEF Working
  <2> QED
    BY <1>0, <2>1, <2>2 DEF WorkingThreadsExact
<1>2. CASE Finish(o)
  <2>1. Goto(o, "items") /\ pc[o] = "finish" /\ workingThreads' = workingThreads - 1
    BY <1>2 DEF Finish
  <2>3. "items" \notin Working /\ pc[o] \in Working
    BY <2>1 DEF Working
  <2>2. W' = W - 1
    BY <1>0, <2>1, <2>3, CountLoses
  <2> QED
    BY <1>0, <2>1, <2>2 DEF WorkingThreadsExact
<1>3. CASE ShutdownFails(o) \/ RobbedFails(o) \/ BrokenPipe(o)
  <2>1. UNCHANGED <<pc, workingThreads>>
    BY <1>3 DEF ShutdownFails, RobbedFails, BrokenPipe, office
  <2>2. W' = W
    BY <2>1, CountSame
  <2> QED
    BY <1>0, <2>1, <2>2 DEF WorkingThreadsExact
<1>4. CASE \/ ItemsTest(o) \/ ItemsSleep(o) \/ ItemsTake(o)
           \/ AdvanceOut(o) \/ ReleaseSlot(o)
           \/ Serve(o) \/ Shutdown(o) \/ ShutdownRobs(o) \/ UserDown(o) \/ MeetUser(o)
           \/ UserGone(o) \/ WriteReply(o)
  <2>1. /\ workingThreads' = workingThreads
        /\ \E s \in OfficeStates : Goto(o, s) /\ (s \in Working <=> pc[o] \in Working)
    BY <1>4 DEF ItemsTest, ItemsSleep, ItemsTake, AdvanceOut, ReleaseSlot, Serve,
                Shutdown, ShutdownRobs, UserDown,
         MeetUser, UserGone, WriteReply, Working, OfficeStates
  <2>2. W' = W
    BY <1>0, <2>1, CountMoves
  <2> QED
    BY <1>0, <2>1, <2>2 DEF WorkingThreadsExact
<1> QED
  BY <1>1, <1>2, <1>3, <1>4 DEF OfficeRuns

(* The types are kept by the main thread ... *)
LEMMA TypingMain ==
  ASSUME Typing, MainRuns \/ ReadRequest \/ Spurious \/ RingOfCoprocesses
  PROVE  Typing'
<1> USE DEF Typing
<1>0. TypeOK /\ MAX_REQUESTS \in Nat \ {0}
  BY QueueAssumption
<1>1. CASE Post \/ Broadcast \/ Spurious \/ RingOfCoprocesses
  <2>1. pc' \in [Offices -> OfficeStates]
    BY <1>0, <1>1, WakersKeepOffices
  <2>2. TypeOK'
    BY <1>0, <1>1, <2>1 DEF TypeOK, Post, Broadcast, RingOfCoprocesses, Spurious,
         SpuriousWakeup, buffer, closing,
                            main, office, MainStates
  <2>3. \A o \in Offices : pc'[o] \in Working <=> pc[o] \in Working
    BY <1>0, <1>1, WakersKeepOffices DEF Working
  <2>4. Count(Working)' = Count(Working) /\ workingThreads' = workingThreads
    BY <1>1, <2>3, CountSame DEF Post, Broadcast, RingOfCoprocesses, Spurious
  <2> QED
    BY <2>2, <2>4 DEF WorkingThreadsExact
<1>2. CASE SlotsTake \/ SlotsSleep \/ ReadEof \/ Store \/ AdvanceIn \/ Join \/ ReadRequest
  <2>1. UNCHANGED <<pc, workingThreads>>
    BY <1>2 DEF SlotsTake, SlotsSleep, ReadEof, Store, AdvanceIn, Join, ReadRequest, office
  <2>2. WorkingThreadsExact'
    BY <2>1, CountSame DEF WorkingThreadsExact
  <2>3. CASE SlotsTake
    BY <1>0, <2>2, <2>3 DEF TypeOK, SlotsTake, buffer, closing, office, MainStates
  <2>6. CASE SlotsSleep \/ ReadEof \/ Join
    BY <1>0, <2>2, <2>6 DEF TypeOK, SlotsSleep, ReadEof, Join, buffer, closing, office, MainStates
  <2>7. CASE ReadRequest
    BY <1>0, <2>2, <2>7 DEF TypeOK, ReadRequest, buffer, closing, office, MainStates
  <2>4. CASE Store
    BY <1>0, <2>2, <2>4, Zenon DEF TypeOK, Store, closing, office, MainStates
  <2>5. CASE AdvanceIn
    <3>1. Successor(bufferIn) \in Indices
      BY <1>0 DEF TypeOK, Successor, Indices
    <3> QED
      BY <1>0, <2>2, <2>5, <3>1 DEF TypeOK, AdvanceIn, closing, office, MainStates
  <2> QED
    BY <1>2, <2>3, <2>4, <2>5, <2>6, <2>7
<1> QED
  BY <1>1, <1>2 DEF MainRuns

(* ... and by an office. *)
LEMMA TypingOffice ==
  ASSUME Typing, NEW o \in Offices, OfficeRuns(o)
  PROVE  Typing'
<1>0. /\ TypeOK /\ MAX_REQUESTS \in Nat \ {0}
      /\ WorkingThreadsExact' /\ workingThreads' \in Nat
  BY QueueAssumption, WorkingStep DEF Typing
<1>1. CASE \/ ItemsTest(o) \/ ItemsSleep(o) \/ ItemsTake(o)
           \/ Serve(o) \/ Shutdown(o) \/ ShutdownFails(o)
           \/ ShutdownRobs(o) \/ RobbedFails(o) \/ BrokenPipe(o) \/ UserDown(o) \/ MeetUser(o)
           \/ UserGone(o) \/ WriteReply(o)
  <2>1. CASE ItemsTest(o) \/ ItemsSleep(o) \/ ItemsTake(o)
    BY <1>0, <2>1 DEF Typing, TypeOK, ItemsTest, ItemsSleep, ItemsTake, Goto, buffer, main,
                      closing, OfficeStates
  <2>2. CASE Serve(o) \/ Shutdown(o) \/ ShutdownFails(o)
    BY <1>0, <2>2 DEF Typing, TypeOK, Serve, Shutdown, ShutdownFails, Goto, buffer, main, office,
                      closing, OfficeStates
  <2>3. CASE ShutdownRobs(o) \/ RobbedFails(o) \/ BrokenPipe(o) \/ UserDown(o) \/ MeetUser(o)
           \/ UserGone(o) \/ WriteReply(o)
    BY <1>0, <2>3 DEF Typing, TypeOK, ShutdownRobs, RobbedFails, BrokenPipe, UserDown,
         MeetUser, UserGone, WriteReply, Goto, At, buffer, main,
                      office, closing, OfficeStates
  <2> QED
    BY <1>1, <2>1, <2>2, <2>3
<1>2. CASE Fetch(o) \/ ReleaseSlot(o) \/ Finish(o)
  <2>1. TypeOK'
    BY <1>0, <1>2 DEF TypeOK, Fetch, ReleaseSlot, Finish, Goto, buffer, main, closing,
                      OfficeStates, MainStates, Indices
  <2> QED
    BY <1>0, <2>1 DEF Typing
<1>3. CASE AdvanceOut(o)
  <2>1. Successor(bufferOut) \in Indices
    BY <1>0 DEF TypeOK, Successor, Indices
  <2>2. TypeOK'
    BY <1>0, <1>3, <2>1 DEF TypeOK, AdvanceOut, Goto, main, closing, OfficeStates
  <2> QED
    BY <1>0, <2>2 DEF Typing
<1> QED
  BY <1>1, <1>2, <1>3 DEF OfficeRuns

(* A step that changes nothing keeps every state predicate; stated for the  *)
(* parts that count offices, whose primes the provers must see through.     *)
LEMMA TypingStep == Typing /\ [Next]_vars => Typing'
<1> SUFFICES ASSUME Typing, [Next]_vars PROVE Typing'
  OBVIOUS
<1>1. CASE UNCHANGED vars
  BY <1>1 DEF Typing, TypeOK, WorkingThreadsExact, Count, At, vars
<1>2. CASE Next
  BY <1>2, TypingMain, TypingOffice DEF Next
<1> QED
  BY <1>1, <1>2

(* Every variable keeps its type: the indices stay inside the array and no  *)
(* counter goes below zero.                                                 *)
THEOREM TypeCorrect == Spec => []TypeOK
<1>1. Typing => TypeOK
  BY DEF Typing
<1> QED
  BY <1>1, TypingInit, TypingStep, PTL DEF Spec

(* workingThreads counts the offices between the fetch of a request and the *)
(* end of its reply, so the answer to a shutdown counts the other ones.     *)
THEOREM WorkingThreadsCorrect == Spec => []WorkingThreadsExact
<1>1. Typing => WorkingThreadsExact
  BY DEF Typing
<1> QED
  BY <1>1, TypingInit, TypingStep, PTL DEF Spec

-----------------------------------------------------------------------------
(* Where each of the MAX_REQUESTS cells is.                                *)

(* Cells claimed by the main thread, which has no request for them yet, or *)
(* has it in hand.                                                         *)
MainClaims == MainAt({"read", "store", "advance", "broadcast", "join", "done"})

Fetching == Count({"fetch", "fetched"})
Releasing == Count({"release"})

(* Membership in the two sets of states, for the provers. *)
LEMMA CellStates ==
  /\ \A s : s \in {"release"} <=> s = "release"
  /\ \A s : s \in {"fetch", "fetched"} <=> s = "fetch" \/ s = "fetched"
  OBVIOUS

(* The two counts of offices are numbers. *)
LEMMA CellCountsAreNat ==
  /\ Fetching \in Nat /\ Releasing \in Nat /\ Fetching' \in Nat /\ Releasing' \in Nat
  /\ MainClaims \in {0, 1} /\ MainClaims' \in {0, 1}
  /\ MainAt({"post"}) \in {0, 1} /\ MainAt({"post"})' \in {0, 1}
  BY CountIsNat, CountIsNatPrime DEF Fetching, Releasing, MainClaims, MainAt

(* The accounting with its sums spelt out. *)
LEMMA SlotSum ==
  SlotAccounting <=>
    slots + (items + Fetching + MainAt({"post"})) + Releasing + MainClaims = MAX_REQUESTS
  BY DEF SlotAccounting, Occupied, Fetching, Releasing, MainClaims

(* All cells are free at the start. *)
LEMMA SlotInit == Init => SlotAccounting
<1> SUFFICES ASSUME Init PROVE SlotAccounting
  OBVIOUS
<1>1. At({"fetch", "fetched"}) = {} /\ At({"release"}) = {}
  BY DEF Init, At
<1>2. Fetching = 0 /\ Releasing = 0
  BY <1>1, FS_EmptySet DEF Fetching, Releasing, Count
<1>3. MainAt({"post"}) = 0 /\ MainClaims = 0
  BY DEF Init, MainAt, MainClaims
<1> QED
  BY <1>2, <1>3, SlotSum, QueueAssumption DEF Init

(* The main thread: it claims a cell, fills it, says so. *)
LEMMA SlotMain ==
  ASSUME TypeOK, SlotAccounting, MainRuns \/ ReadRequest \/ Spurious \/ RingOfCoprocesses
  PROVE  SlotAccounting'
<1>1. Fetching' = Fetching /\ Releasing' = Releasing
  <2>1. CASE Post \/ Broadcast \/ Spurious \/ RingOfCoprocesses
    <3>1. /\ \A o \in Offices : pc'[o] \in {"fetch", "fetched"} <=> pc[o] \in {"fetch", "fetched"}
          /\ \A o \in Offices : pc'[o] \in {"release"} <=> pc[o] \in {"release"}
      BY <2>1, WakersKeepOffices
    <3> QED
      BY <3>1, CountSame DEF Fetching, Releasing
  <2>2. CASE SlotsTake \/ SlotsSleep \/ ReadEof \/ Store \/ AdvanceIn \/ Join \/ ReadRequest
    <3>1. pc' = pc
      BY <2>2 DEF SlotsTake, SlotsSleep, ReadEof, Store, AdvanceIn, Join, ReadRequest, office
    <3> QED
      BY <3>1, CountSame DEF Fetching, Releasing
  <2> QED
    BY <2>1, <2>2 DEF MainRuns
<1>2. slots \in Nat /\ items \in Nat /\ mainPc \in MainStates /\ MAX_REQUESTS \in Nat
  BY QueueAssumption DEF TypeOK
<1>3. slots + (items + Fetching + MainAt({"post"})) + Releasing + MainClaims = MAX_REQUESTS
  BY SlotSum
<1>4. slots' + (items' + Fetching' + MainAt({"post"})') + Releasing' + MainClaims' = MAX_REQUESTS
  <2>1. CASE SlotsTake \/ SlotsSleep \/ ReadRequest \/ ReadEof \/ Store
    BY <2>1, <1>1, <1>2, <1>3, CellCountsAreNat DEF SlotsTake, SlotsSleep, ReadRequest, ReadEof,
         Store, MainAt, MainClaims
  <2>2. CASE AdvanceIn \/ Post \/ Broadcast \/ Join
    BY <2>2, <1>1, <1>2, <1>3, CellCountsAreNat DEF AdvanceIn, Post, Broadcast, Join, MainAt,
         MainClaims
  <2>3. CASE Spurious \/ RingOfCoprocesses
    BY <2>3, <1>1, <1>2, <1>3, CellCountsAreNat DEF RingOfCoprocesses, Spurious,
         SpuriousWakeup, main, MainAt, MainClaims
  <2> QED
    BY <2>1, <2>2, <2>3 DEF MainRuns
<1> QED
  BY <1>4 DEF SlotAccounting, Occupied, Fetching, Releasing, MainClaims

(* An office: an item becomes a claimed cell, that one a cell to give back,  *)
(* and that one a slot.                                                      *)
LEMMA SlotOffice ==
  ASSUME TypeOK, SlotAccounting, NEW o \in Offices, OfficeRuns(o)
  PROVE  SlotAccounting'
<1>1. slots \in Nat /\ items \in Nat /\ mainPc \in MainStates /\ MAX_REQUESTS \in Nat
  BY QueueAssumption DEF TypeOK
<1>2. slots + (items + Fetching + MainAt({"post"})) + Releasing + MainClaims = MAX_REQUESTS
  BY SlotSum
<1>3. slots' + (items' + Fetching' + MainAt({"post"})') + Releasing' + MainClaims' = MAX_REQUESTS
  <2>1. CASE ItemsTake(o)
    <3>1. pc[o] = "itemsHeld" /\ Goto(o, "fetch") /\ items' = items - 1 /\ slots' = slots /\ mainPc' = mainPc
      BY <2>1 DEF ItemsTake, main
    <3>2. Fetching' = Fetching + 1
      BY <3>1, CellStates, CountGains DEF Fetching
    <3>3. Releasing' = Releasing
      BY <3>1, CellStates, CountStays DEF Releasing
    <3> QED
      BY <3>1, <3>2, <3>3, <1>1, <1>2, CellCountsAreNat DEF MainAt, MainClaims
  <2>2. CASE AdvanceOut(o)
    <3>1. pc[o] = "fetched" /\ Goto(o, "release") /\ items' = items /\ slots' = slots /\ mainPc' = mainPc
      BY <2>2 DEF AdvanceOut, main
    <3>2. Fetching' = Fetching - 1
      BY <3>1, CellStates, CountLoses DEF Fetching
    <3>3. Releasing' = Releasing + 1
      BY <3>1, CellStates, CountGains DEF Releasing
    <3> QED
      BY <3>1, <3>2, <3>3, <1>1, <1>2, CellCountsAreNat DEF MainAt, MainClaims
  <2>3. CASE ReleaseSlot(o)
    <3>1. /\ pc[o] = "release" /\ Goto(o, "serve") /\ items' = items /\ slots' = slots + 1
          /\ mainPc' = IF mainPc = "slotsWait" THEN "slots" ELSE mainPc
      BY <2>3 DEF ReleaseSlot
    <3>2. Fetching' = Fetching
      BY <3>1, CellStates, CountStays DEF Fetching
    <3>3. Releasing' = Releasing - 1
      BY <3>1, CellStates, CountLoses DEF Releasing
    <3>4. MainClaims' = MainClaims /\ MainAt({"post"})' = MainAt({"post"})
      BY <3>1 DEF MainAt, MainClaims
    <3> QED
      BY <3>1, <3>2, <3>3, <3>4, <1>1, <1>2, CellCountsAreNat
  <2>4. CASE ShutdownFails(o) \/ RobbedFails(o) \/ BrokenPipe(o)
    <3>1. UNCHANGED <<pc, slots, items, mainPc>>
      BY <2>4 DEF ShutdownFails, RobbedFails, BrokenPipe, office, main
    <3>2. Fetching' = Fetching /\ Releasing' = Releasing
      BY <3>1, CountSame DEF Fetching, Releasing
    <3> QED
      BY <3>1, <3>2, <1>2 DEF MainAt, MainClaims
  <2>5. CASE \/ ItemsTest(o) \/ ItemsSleep(o) \/ Fetch(o) \/ Serve(o)
             \/ Shutdown(o) \/ ShutdownRobs(o) \/ UserDown(o) \/ MeetUser(o)
           \/ UserGone(o) \/ WriteReply(o) \/ Finish(o)
    <3>1. /\ UNCHANGED <<slots, items, mainPc>>
          /\ \E t \in OfficeStates :
               /\ Goto(o, t)
               /\ t \in {"fetch", "fetched"} <=> pc[o] \in {"fetch", "fetched"}
               /\ t \in {"release"} <=> pc[o] \in {"release"}
      BY <2>5 DEF ItemsTest, ItemsSleep, Fetch, Serve, Shutdown, ShutdownRobs, UserDown,
         MeetUser, UserGone, WriteReply, Finish, main,
                  OfficeStates
    <3>2. Fetching' = Fetching
      BY <3>1, CellStates, CountStays DEF Fetching
    <3>3. Releasing' = Releasing
      BY <3>1, CellStates, CountStays DEF Releasing
    <3> QED
      BY <3>1, <3>2, <3>3, <1>2 DEF MainAt, MainClaims
  <2> QED
    BY <2>1, <2>2, <2>3, <2>4, <2>5 DEF OfficeRuns
<1> QED
  BY <1>3 DEF SlotAccounting, Occupied, Fetching, Releasing, MainClaims

(* The accounting of the cells is kept by every step. *)
LEMMA SlotStep == TypeOK /\ SlotAccounting /\ [Next]_vars => SlotAccounting'
<1> SUFFICES ASSUME TypeOK, SlotAccounting, [Next]_vars PROVE SlotAccounting'
  OBVIOUS
<1>1. CASE UNCHANGED vars
  BY <1>1 DEF SlotAccounting, Occupied, MainAt, Count, At, vars
<1>2. CASE Next
  BY <1>2, SlotMain, SlotOffice DEF Next
<1> QED
  BY <1>1, <1>2

(* slots, items and the threads in between account for every cell of the    *)
(* array at every moment.                                                   *)
THEOREM SlotsCorrect == Spec => []SlotAccounting
  BY TypeCorrect, SlotInit, SlotStep, PTL DEF Spec

-----------------------------------------------------------------------------
(* Wake-ups.                                                               *)

Awake == Count({"items", "itemsHeld"})

(* The states of an office that is awake, or sleeps, one by one. *)
LEMMA AwakeStates ==
  /\ \A s : s \in {"items", "itemsHeld"} <=> s = "items" \/ s = "itemsHeld"
  /\ \A s : s \in {"itemsWait"} <=> s = "itemsWait"
  OBVIOUS

(* A step of an office only adds sleepers when there is no item. *)
LEMMA SignalOffice ==
  ASSUME TypeOK, NoLostSignal, NEW o \in Offices, OfficeRuns(o)
  PROVE  NoLostSignal'
<1>1. items \in Nat /\ Awake \in Nat /\ Awake' \in Nat
  BY CountIsNat, CountIsNatPrime DEF TypeOK, Awake
<1>2. At({"itemsWait"}) # {} => items <= Awake
  BY DEF NoLostSignal, Awake
<1>3. At({"itemsWait"})' # {} => items' <= Awake'
  <2>1. CASE ItemsSleep(o)
    BY <2>1, <1>1 DEF ItemsSleep
  <2>2. CASE ItemsTest(o) /\ fifoClosed /\ items = 0
    BY <2>2, <1>1 DEF ItemsTest
  <2>3. CASE ItemsTest(o) /\ ~(fifoClosed /\ items = 0)
    <3>1. pc[o] = "items" /\ Goto(o, "itemsHeld") /\ items' = items
      BY <2>3 DEF ItemsTest
    <3>2. Awake' = Awake
      BY <3>1, AwakeStates, CountStays DEF Awake
    <3>3. At({"itemsWait"})' = At({"itemsWait"})
      BY <3>1 DEF At, Goto, TypeOK
    <3> QED
      BY <3>1, <3>2, <3>3, <1>2
  <2>4. CASE ItemsTake(o)
    <3>1. pc[o] = "itemsHeld" /\ Goto(o, "fetch") /\ items' = items - 1
      BY <2>4 DEF ItemsTake
    <3>2. Awake' = Awake - 1
      BY <3>1, AwakeStates, CountLoses DEF Awake
    <3>3. At({"itemsWait"})' = At({"itemsWait"})
      BY <3>1 DEF At, Goto, TypeOK
    <3> QED
      BY <3>1, <3>2, <3>3, <1>1, <1>2
  <2>5. CASE Finish(o)
    <3>1. pc[o] = "finish" /\ Goto(o, "items") /\ items' = items
      BY <2>5 DEF Finish
    <3>2. Awake' = Awake + 1
      BY <3>1, AwakeStates, CountGains DEF Awake
    <3>3. At({"itemsWait"})' = At({"itemsWait"})
      BY <3>1 DEF At, Goto, TypeOK
    <3> QED
      BY <3>1, <3>2, <3>3, <1>1, <1>2
  <2>6. CASE ShutdownFails(o) \/ RobbedFails(o) \/ BrokenPipe(o)
    <3>1. UNCHANGED <<pc, items>>
      BY <2>6 DEF ShutdownFails, RobbedFails, BrokenPipe, office
    <3>2. Awake' = Awake /\ At({"itemsWait"})' = At({"itemsWait"})
      BY <3>1, CountSame DEF Awake
    <3> QED
      BY <3>1, <3>2, <1>2
  <2>7. CASE \/ Fetch(o) \/ AdvanceOut(o) \/ ReleaseSlot(o) \/ Serve(o)
             \/ Shutdown(o) \/ ShutdownRobs(o) \/ UserDown(o) \/ MeetUser(o)
           \/ UserGone(o) \/ WriteReply(o)
    <3>1. /\ items' = items
          /\ pc[o] \in {"fetch", "fetched", "release", "serve", "reply", "write"}
          /\ \E t \in Working : Goto(o, t)
      BY <2>7 DEF Fetch, AdvanceOut, ReleaseSlot, Serve, Shutdown, ShutdownRobs, UserDown,
         MeetUser, UserGone, WriteReply, Working
    <3>2. PICK t \in Working : Goto(o, t)
      BY <3>1
    <3>3. Awake' = Awake
      BY <3>1, <3>2, AwakeStates, CountStays DEF Awake, Working
    <3>4. At({"itemsWait"})' = At({"itemsWait"})
      BY <3>1, <3>2 DEF At, Goto, TypeOK, Working
    <3> QED
      BY <3>1, <3>3, <3>4, <1>2
  <2> QED
    BY <2>1, <2>2, <2>3, <2>4, <2>5, <2>6, <2>7 DEF OfficeRuns
<1> QED
  BY <1>3 DEF NoLostSignal, Awake

(* The main thread adds an item and a waker together. *)
LEMMA SignalMain ==
  ASSUME TypeOK, NoLostSignal, MainRuns \/ ReadRequest \/ Spurious \/ RingOfCoprocesses
  PROVE  NoLostSignal'
<1>1. items \in Nat /\ Awake \in Nat /\ Awake' \in Nat
  BY CountIsNat, CountIsNatPrime DEF TypeOK, Awake
<1>2. At({"itemsWait"}) # {} => items <= Awake
  BY DEF NoLostSignal, Awake
<1>3. At({"itemsWait"})' # {} => items' <= Awake'
  <2>1. CASE Post
    <3>1. items' = items + 1 /\ SignalItems
      BY <2>1 DEF Post
    <3>2. CASE At({"itemsWait"}) = {} /\ pc' = pc
      BY <3>2 DEF At
    <3>3. ASSUME NEW o \in Offices, pc[o] = "itemsWait", Goto(o, "items")
          PROVE  At({"itemsWait"})' # {} => items' <= Awake'
      <4>1. Awake' = Awake + 1
        BY <3>3, AwakeStates, CountGains DEF Awake
      <4>2. At({"itemsWait"}) # {}
        BY <3>3 DEF At
      <4> QED
        BY <3>1, <4>1, <4>2, <1>1, <1>2
    <3> QED
      BY <3>1, <3>2, <3>3, SignalMoves
  <2>2. CASE Broadcast
    BY <2>2 DEF Broadcast, At
  <2>3. CASE Spurious
    <3>1. items' = items
      BY <2>3 DEF Spurious
    <3>2. CASE pc' = pc
      BY <3>1, <3>2, <1>2, CountSame DEF Awake
    <3>3. ASSUME NEW o \in At({"itemsWait"}), Goto(o, "items")
          PROVE  At({"itemsWait"})' # {} => items' <= Awake'
      <4>1. o \in Offices /\ pc[o] = "itemsWait" /\ At({"itemsWait"}) # {}
        BY <3>3 DEF At
      <4>2. Awake' = Awake + 1
        BY <3>3, <4>1, AwakeStates, CountGains DEF Awake
      <4> QED
        BY <3>1, <4>1, <4>2, <1>1, <1>2
    <3> QED
      BY <2>3, <3>2, <3>3 DEF Spurious, SpuriousWakeup, office
  <2>5. CASE RingOfCoprocesses
    <3>1. items' = items
      BY <2>5 DEF RingOfCoprocesses
    <3>2. /\ \A o \in Offices : pc'[o] \in {"items", "itemsHeld"} <=> pc[o] \in {"items", "itemsHeld"}
          /\ \A o \in Offices : pc'[o] \in {"itemsWait"} <=> pc[o] \in {"itemsWait"}
      BY <2>5 DEF RingOfCoprocesses, At
    <3>3. Awake' = Awake /\ At({"itemsWait"})' = At({"itemsWait"})
      BY <3>2, CountSame DEF Awake
    <3> QED
      BY <3>1, <3>3, <1>2
  <2>4. CASE SlotsTake \/ SlotsSleep \/ ReadEof \/ Store \/ AdvanceIn \/ Join \/ ReadRequest
    <3>1. UNCHANGED <<pc, items>>
      BY <2>4 DEF SlotsTake, SlotsSleep, ReadEof, Store, AdvanceIn, Join, ReadRequest, office
    <3>2. Awake' = Awake /\ At({"itemsWait"})' = At({"itemsWait"})
      BY <3>1, CountSame DEF Awake
    <3> QED
      BY <3>1, <3>2, <1>2
  <2> QED
    BY <2>1, <2>2, <2>3, <2>4, <2>5 DEF MainRuns
<1> QED
  BY <1>3 DEF NoLostSignal, Awake

(* No signal is lost in any step. *)
LEMMA SignalStep == TypeOK /\ NoLostSignal /\ [Next]_vars => NoLostSignal'
<1> SUFFICES ASSUME TypeOK, NoLostSignal, [Next]_vars PROVE NoLostSignal'
  OBVIOUS
<1>1. CASE UNCHANGED vars
  BY <1>1 DEF NoLostSignal, Count, At, vars
<1>2. CASE Next
  BY <1>2, SignalMain, SignalOffice DEF Next
<1> QED
  BY <1>1, <1>2

(* Before the FIFO is closed no wake-up is lost: while an office sleeps,    *)
(* every stored request has an awake office on its way to it.               *)
THEOREM SignalsCorrect == Spec => []NoLostSignal
<1>1. Init => NoLostSignal
  BY DEF Init, NoLostSignal, At
<1> QED
  BY <1>1, TypeCorrect, SignalStep, PTL DEF Spec

-----------------------------------------------------------------------------
(* Closing.                                                                *)

(* The main thread sets fifoClosed and stops reading in the same step. *)
ClosedIsLast == fifoClosed <=> mainPc \in {"broadcast", "join", "done"}

Closing == ClosedIsLast /\ ClosedOfficeSawEmpty

(* An office ends only after the end of file, in every step. *)
LEMMA ClosingStep == TypeOK /\ Closing /\ [Next]_vars => Closing'
<1> SUFFICES ASSUME TypeOK, Closing, [Next]_vars PROVE Closing'
  OBVIOUS
<1> USE DEF Closing
<1>1. CASE UNCHANGED vars
  BY <1>1 DEF ClosedIsLast, ClosedOfficeSawEmpty, At, vars
<1>2. CASE MainRuns \/ ReadRequest \/ Spurious \/ RingOfCoprocesses
  <2>1. ClosedIsLast'
    BY <1>2 DEF ClosedIsLast, MainRuns, SlotsTake, SlotsSleep, ReadEof, Store, AdvanceIn, Post,
                Broadcast, Join, ReadRequest, RingOfCoprocesses, Spurious, SpuriousWakeup,
                main, closing
  <2>2. At({"closed"})' = At({"closed"})
    <3>1. CASE Post \/ Broadcast \/ Spurious \/ RingOfCoprocesses
      BY <3>1, WakersKeepOffices DEF At
    <3>2. CASE SlotsTake \/ SlotsSleep \/ ReadEof \/ Store \/ AdvanceIn \/ Join \/ ReadRequest
      BY <3>2 DEF SlotsTake, SlotsSleep, ReadEof, Store, AdvanceIn, Join, ReadRequest, office, At
    <3> QED
      BY <1>2, <3>1, <3>2 DEF MainRuns
  <2>3. ClosedOfficeSawEmpty'
    BY <1>2, <2>1, <2>2 DEF ClosedIsLast, ClosedOfficeSawEmpty, MainRuns, SlotsTake, SlotsSleep,
         ReadEof, Store, AdvanceIn, Post, Broadcast, Join, ReadRequest, RingOfCoprocesses,
         Spurious, SpuriousWakeup,
         main, closing
  <2> QED
    BY <2>1, <2>3
<1>3. ASSUME NEW o \in Offices, OfficeRuns(o)
      PROVE  Closing'
  <2>1. ClosedIsLast'
    BY <1>3 DEF ClosedIsLast, OfficeRuns, ItemsTest, ItemsSleep, ItemsTake, Fetch, AdvanceOut,
         ReleaseSlot, Serve, Shutdown, ShutdownFails, ShutdownRobs, RobbedFails, UserDown,
         MeetUser, UserGone,
         WriteReply, BrokenPipe, Finish,
         closing, main
  <2>2. CASE ItemsTest(o)
    BY <2>2, <2>1 DEF ItemsTest, ClosedIsLast, ClosedOfficeSawEmpty, At, Goto, TypeOK, main,
         closing
  <2>3. CASE ItemsTake(o)
    BY <2>3, <2>1 DEF ItemsTake, ClosedOfficeSawEmpty, At, Goto, TypeOK, main, closing
  <2>4. CASE ~ItemsTest(o) /\ ~ItemsTake(o)
    <3>1. items' = items /\ fifoClosed' = fifoClosed
      BY <1>3, <2>4 DEF OfficeRuns, ItemsSleep, Fetch, AdvanceOut, ReleaseSlot, Serve, Shutdown,
           ShutdownFails, ShutdownRobs, RobbedFails, UserDown, MeetUser, UserGone,
         WriteReply, BrokenPipe, Finish, closing
    <3>2. \A p \in Offices : pc'[p] = "closed" => pc[p] = "closed"
      BY <1>3, <2>4 DEF OfficeRuns, ItemsSleep, Fetch, AdvanceOut, ReleaseSlot, Serve, Shutdown,
           ShutdownFails, ShutdownRobs, RobbedFails, UserDown, MeetUser, UserGone,
         WriteReply, BrokenPipe, Finish, Goto, TypeOK, office
    <3>3. At({"closed"})' # {} => At({"closed"}) # {}
      BY <3>2 DEF At
    <3> QED
      BY <2>1, <3>1, <3>3 DEF ClosedIsLast, ClosedOfficeSawEmpty
  <2> QED
    BY <2>2, <2>3, <2>4
<1> QED
  BY <1>1, <1>2, <1>3 DEF Next

(* No office ends before the end of file is read and every request that was *)
(* stored is claimed: nothing a user got accepted is left without an office.*)
THEOREM ClosingCorrect == Spec => []ClosedOfficeSawEmpty
<1>1. Init => Closing
  BY DEF Init, Closing, ClosedIsLast, ClosedOfficeSawEmpty, At
<1>2. Closing => ClosedOfficeSawEmpty
  BY DEF Closing
<1> QED
  BY <1>1, <1>2, TypeCorrect, ClosingStep, PTL DEF Spec

-----------------------------------------------------------------------------
(* Mutual exclusion.                                                       *)

(* Both mutexes are free at the start. *)
LEMMA LockInit == Init => LockOwners
<1> SUFFICES ASSUME Init PROVE LockOwners
  OBVIOUS
<1>1. bufferLock = Nobody /\ itemsLock = Nobody /\ mainPc = "slots" /\ \A o \in Offices : pc[o] = "items"
  BY DEF Init
<1> QED
  BY <1>1, QueueAssumption DEF LockOwners

(* The main thread takes and gives back its own mutex only ... *)
LEMMA LockMain ==
  ASSUME TypeOK, LockOwners, MainRuns \/ ReadRequest \/ Spurious \/ RingOfCoprocesses
  PROVE  LockOwners'
<1>1. CASE Post \/ Broadcast \/ Spurious \/ RingOfCoprocesses
  <2>1. UNCHANGED <<bufferLock, itemsLock>> /\ (mainPc' = "advance" <=> mainPc = "advance")
    BY <1>1 DEF Post, Broadcast, RingOfCoprocesses, Spurious, SpuriousWakeup, main, buffer
  <2>2. \A o \in Offices : /\ pc'[o] = "fetched" <=> pc[o] = "fetched"
                           /\ pc'[o] = "itemsHeld" <=> pc[o] = "itemsHeld"
    BY <1>1, WakersKeepOffices
  <2> QED
    BY <2>1, <2>2 DEF LockOwners
<1>2. CASE SlotsTake \/ SlotsSleep \/ ReadEof \/ Join \/ ReadRequest
  BY <1>2 DEF LockOwners, SlotsTake, SlotsSleep, ReadEof, Join, ReadRequest, office, buffer
<1>3. CASE Store
  BY <1>3, QueueAssumption DEF LockOwners, Store, office, Free
<1>4. CASE AdvanceIn
  BY <1>4, QueueAssumption DEF LockOwners, AdvanceIn, office
<1> QED
  BY <1>1, <1>2, <1>3, <1>4 DEF MainRuns

(* ... and so does an office. *)
LEMMA LockOffice ==
  ASSUME TypeOK, LockOwners, NEW o \in Offices, OfficeRuns(o)
  PROVE  LockOwners'
<1>0. o # Nobody /\ o # Main /\ Main # Nobody
  BY QueueAssumption
<1>1. CASE ItemsTest(o)
  BY <1>0, <1>1, QueueAssumption DEF LockOwners, ItemsTest, TypeOK, Goto, buffer, main, Free
<1>2. CASE ItemsSleep(o) \/ ItemsTake(o)
  BY <1>0, <1>2, QueueAssumption DEF LockOwners, ItemsSleep, ItemsTake, TypeOK, Goto, buffer, main
<1>3. CASE Fetch(o)
  BY <1>0, <1>3, QueueAssumption DEF LockOwners, Fetch, TypeOK, Goto, main, Free, OfficeStates
<1>4. CASE AdvanceOut(o)
  BY <1>0, <1>4, QueueAssumption DEF LockOwners, AdvanceOut, TypeOK, Goto, main
<1>5. CASE ReleaseSlot(o)
  BY <1>5 DEF LockOwners, ReleaseSlot, TypeOK, Goto, buffer
<1>6. CASE ShutdownFails(o) \/ RobbedFails(o) \/ BrokenPipe(o)
  BY <1>6 DEF LockOwners, ShutdownFails, RobbedFails, BrokenPipe, main, office, buffer
<1>7. CASE Serve(o) \/ Shutdown(o) \/ ShutdownRobs(o) \/ UserDown(o) \/ MeetUser(o)
           \/ UserGone(o) \/ WriteReply(o) \/ Finish(o)
  BY <1>7 DEF LockOwners, Serve, Shutdown, ShutdownRobs, UserDown,
         MeetUser, UserGone, WriteReply, Finish, TypeOK, Goto, main, buffer
<1> QED
  BY <1>1, <1>2, <1>3, <1>4, <1>5, <1>6, <1>7 DEF OfficeRuns

(* Owners and critical sections agree after every step. *)
LEMMA LockStep == TypeOK /\ LockOwners /\ [Next]_vars => LockOwners'
<1> SUFFICES ASSUME TypeOK, LockOwners, [Next]_vars PROVE LockOwners'
  OBVIOUS
<1>1. CASE UNCHANGED vars
  BY <1>1 DEF LockOwners, vars
<1> QED
  BY <1>1, LockMain, LockOffice DEF Next

(* A mutex belongs to exactly the thread that is in its critical section,   *)
(* so buffer_lock keeps the main thread and the offices apart.              *)
THEOREM LocksCorrect == Spec => []LockOwners
  BY TypeCorrect, LockInit, LockStep, PTL DEF Spec

-----------------------------------------------------------------------------
(* The filled cells are those between bufferOut and bufferIn.              *)

(* The filled cells, before and after a step, with its count named. *)
LEMMA OccupiedSum ==
  /\ Occupied = items + Fetching + MainAt({"post"})
  /\ Occupied' = items' + Fetching' + MainAt({"post"})'
  BY DEF Occupied, Fetching

(* There is a cell for every filled one, and one more while the main thread *)
(* has a request in its hands.                                              *)
LEMMA OccupiedBound ==
  ASSUME TypeOK, SlotAccounting
  PROVE  /\ Occupied \in 0 .. MAX_REQUESTS
         /\ mainPc \in {"store", "advance"} => Occupied < MAX_REQUESTS
<1>1. slots \in Nat /\ items \in Nat /\ MAX_REQUESTS \in Nat
  BY QueueAssumption DEF TypeOK
<1>2. slots + (items + Fetching + MainAt({"post"})) + Releasing + MainClaims = MAX_REQUESTS
  BY SlotSum
<1>3. mainPc \in {"store", "advance"} => MainClaims = 1
  BY DEF MainClaims, MainAt
<1> QED
  BY <1>1, <1>2, <1>3, OccupiedSum, CellCountsAreNat

(* Only AdvanceIn and AdvanceOut change the number of filled cells: Post    *)
(* and ItemsTake only say the same thing in another way.                    *)
LEMMA OccupiedSteps ==
  ASSUME TypeOK, Next
  PROVE  /\ AdvanceIn => Occupied' = Occupied + 1
         /\ \A o \in Offices : AdvanceOut(o) => Occupied' = Occupied - 1
         /\ (~AdvanceIn /\ \A o \in Offices : ~AdvanceOut(o)) => Occupied' = Occupied
<1>0. items \in Nat /\ mainPc \in MainStates
  BY DEF TypeOK
<1>1. ASSUME MainRuns \/ ReadRequest \/ Spurious \/ RingOfCoprocesses
      PROVE  Occupied' = IF AdvanceIn THEN Occupied + 1 ELSE Occupied
  <2>1. Fetching' = Fetching
    <3>1. CASE Post \/ Broadcast \/ Spurious \/ RingOfCoprocesses
      <4>1. \A o \in Offices : pc'[o] \in {"fetch", "fetched"} <=> pc[o] \in {"fetch", "fetched"}
        BY <3>1, WakersKeepOffices
      <4> QED
        BY <4>1, CountSame DEF Fetching
    <3>2. CASE SlotsTake \/ SlotsSleep \/ ReadEof \/ Store \/ AdvanceIn \/ Join \/ ReadRequest
      <4>1. pc' = pc
        BY <3>2 DEF SlotsTake, SlotsSleep, ReadEof, Store, AdvanceIn, Join, ReadRequest, office
      <4> QED
        BY <4>1, CountSame DEF Fetching
    <3> QED
      BY <1>1, <3>1, <3>2 DEF MainRuns
  <2>2. CASE AdvanceIn
    BY <1>0, <2>1, <2>2, OccupiedSum, CellCountsAreNat DEF AdvanceIn, MainAt
  <2>3. CASE ~AdvanceIn
    <3>1. CASE SlotsTake \/ SlotsSleep \/ ReadEof \/ Store \/ Join \/ ReadRequest
      BY <1>0, <2>1, <2>3, <3>1, OccupiedSum, CellCountsAreNat DEF SlotsTake, SlotsSleep, ReadEof,
           Store, Join, ReadRequest, MainAt
    <3>2. CASE Post \/ Broadcast \/ Spurious \/ RingOfCoprocesses
      BY <1>0, <2>1, <2>3, <3>2, OccupiedSum, CellCountsAreNat DEF Post, Broadcast,
           RingOfCoprocesses, Spurious,
           SpuriousWakeup, main, MainAt
    <3> QED
      BY <1>1, <2>3, <3>1, <3>2 DEF MainRuns
  <2> QED
    BY <2>2, <2>3
<1>2. ASSUME NEW o \in Offices, OfficeRuns(o)
      PROVE  Occupied' = IF AdvanceOut(o) THEN Occupied - 1 ELSE Occupied
  <2>0. AdvanceOut(o) => pc[o] = "fetched"
    BY DEF AdvanceOut
  <2>1. MainAt({"post"})' = MainAt({"post"})
    BY <1>2 DEF OfficeRuns, ItemsTest, ItemsSleep, ItemsTake, Fetch, AdvanceOut, ReleaseSlot,
         Serve,
         Shutdown, ShutdownFails, ShutdownRobs, RobbedFails, UserDown, MeetUser, UserGone,
         WriteReply, BrokenPipe, Finish, main, MainAt
  <2>2. CASE ItemsTake(o)
    <3>1. pc[o] = "itemsHeld" /\ Goto(o, "fetch") /\ items' = items - 1
      BY <2>2 DEF ItemsTake
    <3>2. Fetching' = Fetching + 1
      BY <3>1, CellStates, CountGains DEF Fetching
    <3> QED
      BY <1>0, <2>0, <2>1, <3>1, <3>2, OccupiedSum, CellCountsAreNat
  <2>3. CASE AdvanceOut(o)
    <3>1. pc[o] = "fetched" /\ Goto(o, "release") /\ items' = items
      BY <2>3 DEF AdvanceOut
    <3>2. Fetching' = Fetching - 1
      BY <3>1, CellStates, CountLoses DEF Fetching
    <3> QED
      BY <1>0, <2>1, <2>3, <3>1, <3>2, OccupiedSum, CellCountsAreNat
  <2>4. CASE ShutdownFails(o) \/ RobbedFails(o) \/ BrokenPipe(o)
    <3>1. UNCHANGED <<pc, items>> /\ pc[o] # "fetched"
      BY <2>4 DEF ShutdownFails, RobbedFails, BrokenPipe, office
    <3>2. Fetching' = Fetching
      BY <3>1, CountSame DEF Fetching
    <3> QED
      BY <2>0, <2>1, <3>1, <3>2, OccupiedSum
  <2>5. CASE \/ ItemsTest(o) \/ ItemsSleep(o) \/ Fetch(o) \/ ReleaseSlot(o) \/ Serve(o)
             \/ Shutdown(o) \/ ShutdownRobs(o) \/ UserDown(o) \/ MeetUser(o)
           \/ UserGone(o) \/ WriteReply(o) \/ Finish(o)
    <3>1. /\ items' = items /\ pc[o] # "fetched"
          /\ \E t \in OfficeStates :
               /\ Goto(o, t)
               /\ t \in {"fetch", "fetched"} <=> pc[o] \in {"fetch", "fetched"}
      BY <2>5 DEF ItemsTest, ItemsSleep, Fetch, ReleaseSlot, Serve, Shutdown, ShutdownRobs,
           UserDown,
         MeetUser, UserGone, WriteReply,
                  Finish, OfficeStates
    <3>2. Fetching' = Fetching
      BY <3>1, CountStays DEF Fetching
    <3> QED
      BY <2>0, <2>1, <3>1, <3>2, OccupiedSum
  <2> QED
    BY <1>2, <2>2, <2>3, <2>4, <2>5 DEF OfficeRuns
<1>3. AdvanceIn => MainRuns
  BY DEF MainRuns
<1>4. \A o \in Offices : AdvanceOut(o) => OfficeRuns(o)
  BY DEF OfficeRuns
<1>5. CASE AdvanceIn
  <2>1. \A o \in Offices : ~AdvanceOut(o)
    BY <1>5 DEF AdvanceIn, AdvanceOut, main
  <2> QED
    BY <1>1, <1>3, <1>5, <2>1
<1>6. ASSUME NEW o \in Offices, AdvanceOut(o)
      PROVE  ~AdvanceIn /\ Occupied' = Occupied - 1
  <2>1. ~AdvanceIn
    BY <1>6 DEF AdvanceIn, AdvanceOut, main
  <2> QED
    BY <1>2, <1>4, <1>6, <2>1
<1>7. (~AdvanceIn /\ \A o \in Offices : ~AdvanceOut(o)) => Occupied' = Occupied
  BY <1>1, <1>2 DEF Next
<1> QED
  BY <1>5, <1>6, <1>7

(* Once around the array at most, `%' subtracts its length or nothing. *)
LEMMA Wrap ==
  ASSUME NEW x \in 0 .. 2 * MAX_REQUESTS - 1
  PROVE  x % MAX_REQUESTS = IF x < MAX_REQUESTS THEN x ELSE x - MAX_REQUESTS
<1>1. MAX_REQUESTS \in Nat \ {0}
  BY QueueAssumption
<1> QED
  BY <1>1, SMTT(30)

(* Counting from the cell after a is counting one further from a. *)
LEMMA WrapSuccessor ==
  ASSUME NEW a \in Indices, NEW i \in 0 .. MAX_REQUESTS - 1
  PROVE  /\ Successor(a) \in Indices
         /\ (Successor(a) + i) % MAX_REQUESTS = (a + (i + 1)) % MAX_REQUESTS
         /\ (a + i) % MAX_REQUESTS \in Indices
<1>1. MAX_REQUESTS \in Nat \ {0}
  BY QueueAssumption
<1>2. Successor(a) = IF a + 1 < MAX_REQUESTS THEN a + 1 ELSE 0
  BY <1>1, Wrap DEF Successor, Indices
<1>3. (a + (i + 1)) % MAX_REQUESTS
        = IF a + (i + 1) < MAX_REQUESTS THEN a + (i + 1) ELSE a + (i + 1) - MAX_REQUESTS
  BY <1>1, Wrap DEF Indices
<1>4. (Successor(a) + i) % MAX_REQUESTS
        = IF Successor(a) + i < MAX_REQUESTS THEN Successor(a) + i
                                             ELSE Successor(a) + i - MAX_REQUESTS
  BY <1>1, <1>2, Wrap DEF Indices
<1>5. (a + i) % MAX_REQUESTS = IF a + i < MAX_REQUESTS THEN a + i ELSE a + i - MAX_REQUESTS
  BY <1>1, Wrap DEF Indices
<1> QED
  BY <1>1, <1>2, <1>3, <1>4, <1>5 DEF Indices

(* Fewer than MAX_REQUESTS steps never come back to the same cell. *)
LEMMA WrapDistinct ==
  ASSUME NEW a \in Indices, NEW i \in 0 .. MAX_REQUESTS - 1, NEW j \in 0 .. MAX_REQUESTS - 1, i # j
  PROVE  (a + i) % MAX_REQUESTS # (a + j) % MAX_REQUESTS
<1>1. MAX_REQUESTS \in Nat \ {0}
  BY QueueAssumption
<1>2. (a + i) % MAX_REQUESTS = IF a + i < MAX_REQUESTS THEN a + i ELSE a + i - MAX_REQUESTS
  BY <1>1, Wrap DEF Indices
<1>3. (a + j) % MAX_REQUESTS = IF a + j < MAX_REQUESTS THEN a + j ELSE a + j - MAX_REQUESTS
  BY <1>1, Wrap DEF Indices
<1> QED
  BY <1>1, <1>2, <1>3 DEF Indices

(* The indices meet when the array is empty. *)
LEMMA BufferInit == Init => BufferAccounting
<1> SUFFICES ASSUME Init PROVE BufferAccounting
  OBVIOUS
<1>1. At({"fetch", "fetched"}) = {}
  BY DEF Init, At
<1>2. Occupied = 0
  BY <1>1, FS_EmptySet DEF Init, Occupied, Count, MainAt
<1>3. 0 % MAX_REQUESTS = 0
  BY QueueAssumption, Wrap
<1> QED
  BY <1>2, <1>3 DEF Init, BufferAccounting

(* The indices enclose the filled cells after every step. *)
LEMMA BufferStep == TypeOK /\ SlotAccounting /\ BufferAccounting /\ [Next]_vars => BufferAccounting'
<1> SUFFICES ASSUME TypeOK, SlotAccounting, BufferAccounting, [Next]_vars
             PROVE  BufferAccounting'
  OBVIOUS
<1>0. /\ bufferIn \in Indices /\ bufferOut \in Indices /\ MAX_REQUESTS \in Nat \ {0}
      /\ Occupied \in 0 .. MAX_REQUESTS
      /\ (bufferOut + Occupied) % MAX_REQUESTS = bufferIn
  BY QueueAssumption, OccupiedBound DEF TypeOK, BufferAccounting
<1>1. CASE AdvanceIn /\ Next
  <2>1. bufferIn' = Successor(bufferIn) /\ bufferOut' = bufferOut /\ Occupied' = Occupied + 1
    BY <1>1, OccupiedSteps DEF AdvanceIn
  <2>2. Occupied < MAX_REQUESTS
    BY <1>1, OccupiedBound DEF AdvanceIn
  <2>3. bufferIn = IF bufferOut + Occupied < MAX_REQUESTS THEN bufferOut + Occupied
                                                          ELSE bufferOut + Occupied - MAX_REQUESTS
    BY <1>0, <2>2, Wrap DEF Indices
  <2>4. (bufferOut + (Occupied + 1)) % MAX_REQUESTS
          = IF bufferOut + (Occupied + 1) < MAX_REQUESTS
            THEN bufferOut + (Occupied + 1) ELSE bufferOut + (Occupied + 1) - MAX_REQUESTS
    BY <1>0, <2>2, Wrap DEF Indices
  <2>5. Successor(bufferIn) = IF bufferIn + 1 < MAX_REQUESTS THEN bufferIn + 1 ELSE 0
    BY <1>0, Wrap DEF Successor, Indices
  <2>6. (bufferOut + (Occupied + 1)) % MAX_REQUESTS = Successor(bufferIn)
    BY <1>0, <2>2, <2>3, <2>4, <2>5 DEF Indices
  <2> QED
    BY <2>1, <2>6 DEF BufferAccounting
<1>2. ASSUME NEW o \in Offices, AdvanceOut(o), Next
      PROVE  BufferAccounting'
  <2>1. bufferIn' = bufferIn /\ bufferOut' = Successor(bufferOut) /\ Occupied' = Occupied - 1
    BY <1>2, OccupiedSteps DEF AdvanceOut
  <2>2. Occupied' \in Nat
    BY CountIsNatPrime, <1>0, <1>2, <2>1, OccupiedSum, CellCountsAreNat DEF AdvanceOut, TypeOK
  <2>3. Occupied - 1 \in 0 .. MAX_REQUESTS - 1
    BY <1>0, <2>1, <2>2
  <2>4. (Successor(bufferOut) + (Occupied - 1)) % MAX_REQUESTS
          = (bufferOut + ((Occupied - 1) + 1)) % MAX_REQUESTS
    BY <1>0, <2>3, WrapSuccessor
  <2>5. (Occupied - 1) + 1 = Occupied
    BY <1>0
  <2> QED
    BY <1>0, <2>1, <2>4, <2>5 DEF BufferAccounting
<1>3. CASE Next /\ ~AdvanceIn /\ \A o \in Offices : ~AdvanceOut(o)
  <2>1. Occupied' = Occupied
    BY <1>3, OccupiedSteps
  <2>2. CASE MainRuns \/ ReadRequest \/ Spurious \/ RingOfCoprocesses
    <3>1. bufferIn' = bufferIn /\ bufferOut' = bufferOut
      BY <1>3, <2>2 DEF MainRuns, SlotsTake, SlotsSleep, ReadEof, Store, Post, Broadcast, Join,
           ReadRequest, RingOfCoprocesses, Spurious, buffer
    <3> QED
      BY <2>1, <3>1 DEF BufferAccounting
  <2>3. ASSUME NEW o \in Offices, OfficeRuns(o)
        PROVE  BufferAccounting'
    <3>1. bufferIn' = bufferIn /\ bufferOut' = bufferOut
      BY <1>3, <2>3 DEF OfficeRuns, ItemsTest, ItemsSleep, ItemsTake, Fetch, ReleaseSlot, Serve,
           Shutdown, ShutdownFails, ShutdownRobs, RobbedFails, UserDown, MeetUser, UserGone,
         WriteReply, BrokenPipe, Finish, buffer
    <3> QED
      BY <2>1, <3>1 DEF BufferAccounting
  <2> QED
    BY <1>3, <2>2, <2>3 DEF Next
<1>4. CASE UNCHANGED vars
  BY <1>4 DEF BufferAccounting, Occupied, MainAt, Count, At, vars
<1> QED
  BY <1>1, <1>2, <1>3, <1>4

(* bufferIn is bufferOut plus the number of filled cells, around the array. *)
THEOREM BufferCorrect == Spec => []BufferAccounting
  BY TypeCorrect, SlotsCorrect, BufferInit, BufferStep, PTL DEF Spec

(* No request is overwritten before an office has fetched it. *)
THEOREM CellsCorrect == Spec => []NoCellOverwritten
<1>1. TypeOK /\ SlotAccounting /\ BufferAccounting => NoCellOverwritten
  <2> SUFFICES ASSUME TypeOK, SlotAccounting, BufferAccounting, mainPc \in {"store", "advance"}
               PROVE  /\ Occupied < MAX_REQUESTS
                      /\ \A i \in 0 .. Occupied - 1 : (bufferOut + i) % MAX_REQUESTS # bufferIn
    BY DEF NoCellOverwritten
  <2>1. /\ Occupied \in 0 .. MAX_REQUESTS - 1 /\ bufferOut \in Indices
        /\ MAX_REQUESTS \in Nat \ {0}
    BY OccupiedBound, QueueAssumption DEF TypeOK
  <2>2. ASSUME NEW i \in 0 .. Occupied - 1
        PROVE  (bufferOut + i) % MAX_REQUESTS # bufferIn
    <3>1. i \in 0 .. MAX_REQUESTS - 1 /\ i # Occupied
      BY <2>1
    <3> QED
      BY <2>1, <3>1, WrapDistinct DEF BufferAccounting
  <2> QED
    BY <2>1, <2>2
<1> QED
  BY <1>1, TypeCorrect, SlotsCorrect, BufferCorrect, PTL

-----------------------------------------------------------------------------
(* The refinement: StoredRequests behaves as the queue of RequestFifo.     *)

Contents ==
    /\ mainPc \in {"store", "advance"} => mainRequest \in Requests \ unsent
    /\ mainPc = "advance" => requests[bufferIn] = mainRequest
    /\ StoredRequests \in Seq(Requests)
    /\ \A o \in Offices : pc[o] = "fetched" => request[o] = requests[bufferOut]
    /\ \A o \in Offices : pc[o] \in Working => request[o] \in Requests

Bookkeeping == TypeOK /\ LockOwners /\ SlotAccounting /\ BufferAccounting /\ NoCellOverwritten

(* An office that has claimed a request finds one at bufferOut. *)
LEMMA ClaimedIsStored ==
  ASSUME Bookkeeping, NEW o \in Offices, pc[o] \in {"fetch", "fetched"}
  PROVE  /\ Occupied \in 1 .. MAX_REQUESTS
         /\ Stored(0) = requests[bufferOut]
<1>1. o \in At({"fetch", "fetched"})
  BY DEF At
<1>2. Fetching # 0
  BY <1>1, CountIsNat, FS_EmptySet DEF Fetching, Count
<1>3. Occupied \in 1 .. MAX_REQUESTS
  BY <1>2, OccupiedSum, OccupiedBound, CellCountsAreNat DEF Bookkeeping, TypeOK
<1>4. bufferOut \in Indices /\ MAX_REQUESTS \in Nat \ {0}
  BY QueueAssumption DEF Bookkeeping, TypeOK
<1>5. (bufferOut + 0) % MAX_REQUESTS = bufferOut
  BY <1>4, Wrap DEF Indices
<1> QED
  BY <1>3, <1>5 DEF Stored

(* Storing a request appends it to the sequence of the stored ones. *)
LEMMA StoredAppends ==
  ASSUME Bookkeeping, Contents, Next, AdvanceIn
  PROVE  StoredRequests' = Append(StoredRequests, mainRequest)
<1>1. /\ requests' = requests /\ bufferOut' = bufferOut /\ mainPc = "advance"
      /\ Occupied' = Occupied + 1
  BY OccupiedSteps DEF AdvanceIn, Bookkeeping
<1>2. Occupied \in Nat /\ Occupied' \in Nat
  BY <1>1, OccupiedBound DEF Bookkeeping
<1>3. Stored(Occupied) = mainRequest
  BY <1>1 DEF Bookkeeping, BufferAccounting, Contents, Stored
<1>4. StoredRequests' = [i \in 1 .. Occupied + 1 |-> Stored(i - 1)]
  BY <1>1 DEF StoredRequests, Stored
<1>5. Append(StoredRequests, mainRequest)
        = [i \in 1 .. Occupied + 1 |-> IF i = Occupied + 1 THEN mainRequest ELSE StoredRequests[i]]
  BY <1>2 DEF StoredRequests, Contents
<1>6. ASSUME NEW i \in 1 .. Occupied + 1
      PROVE  Stored(i - 1) = IF i = Occupied + 1 THEN mainRequest ELSE StoredRequests[i]
  BY <1>2, <1>3, <1>6 DEF StoredRequests
<1> QED
  BY <1>4, <1>5, <1>6

(* Fetching one takes the first of the sequence away. *)
LEMMA StoredLoses ==
  ASSUME Bookkeeping, Contents, Next, NEW o \in Offices, AdvanceOut(o)
  PROVE  /\ StoredRequests # <<>> /\ Head(StoredRequests) = request[o]
         /\ StoredRequests' = Tail(StoredRequests)
<1>1. /\ requests' = requests /\ bufferOut' = Successor(bufferOut) /\ pc[o] = "fetched"
      /\ Occupied' = Occupied - 1
  BY OccupiedSteps DEF AdvanceOut, Bookkeeping
<1>2. /\ Occupied \in 1 .. MAX_REQUESTS /\ Stored(0) = requests[bufferOut]
      /\ bufferOut \in Indices /\ MAX_REQUESTS \in Nat \ {0}
  BY <1>1, ClaimedIsStored, QueueAssumption DEF Bookkeeping, TypeOK
<1>3. StoredRequests \in Seq(Requests) /\ Len(StoredRequests) = Occupied
  BY <1>2 DEF Contents, StoredRequests
<1>4. StoredRequests # <<>> /\ Head(StoredRequests) = request[o]
  <2>1. StoredRequests[1] = Stored(0)
    BY <1>2 DEF StoredRequests
  <2> QED
    BY <1>1, <1>2, <1>3, <2>1 DEF Contents
<1>5. StoredRequests' = [i \in 1 .. Occupied - 1 |-> requests[(Successor(bufferOut) + (i - 1)) % MAX_REQUESTS]]
  BY <1>1 DEF StoredRequests, Stored
<1>6. Tail(StoredRequests) = [i \in 1 .. Occupied - 1 |-> StoredRequests[i + 1]]
  <2>1. /\ Tail(StoredRequests) \in Seq(Requests)
        /\ Len(Tail(StoredRequests)) = Occupied - 1
        /\ \A i \in 1 .. Len(Tail(StoredRequests)) : Tail(StoredRequests)[i] = StoredRequests[i + 1]
    BY <1>3, <1>4, HeadTailProperties
  <2>2. Tail(StoredRequests)
          = [i \in 1 .. Len(Tail(StoredRequests)) |-> Tail(StoredRequests)[i]]
    BY <2>1, LenProperties
  <2> QED
    BY <2>1, <2>2
<1>7. ASSUME NEW i \in 1 .. Occupied - 1
      PROVE  requests[(Successor(bufferOut) + (i - 1)) % MAX_REQUESTS] = StoredRequests[i + 1]
  <2>1. i - 1 \in 0 .. MAX_REQUESTS - 1 /\ (i - 1) + 1 = i /\ (i + 1) - 1 = i
    BY <1>2
  <2>2. (Successor(bufferOut) + (i - 1)) % MAX_REQUESTS = (bufferOut + i) % MAX_REQUESTS
    BY <1>2, <2>1, WrapSuccessor
  <2>3. StoredRequests[i + 1] = Stored(i)
    BY <1>2, <2>1 DEF StoredRequests
  <2> QED
    BY <2>2, <2>3 DEF Stored
<1> QED
  BY <1>4, <1>5, <1>6, <1>7

(* Otherwise the sequence stays. *)
LEMMA StoredStays ==
  ASSUME Bookkeeping, Next, ~AdvanceIn, \A o \in Offices : ~AdvanceOut(o)
  PROVE  StoredRequests' = StoredRequests
<1>1. Occupied' = Occupied
  BY OccupiedSteps DEF Bookkeeping
<1>2. CASE Store
  <2>1. /\ requests' = [requests EXCEPT ![bufferIn] = mainRequest] /\ bufferOut' = bufferOut
        /\ mainPc = "store"
    BY <1>2 DEF Store
  <2>2. Occupied \in Nat /\ requests \in [Indices -> Requests \cup {NoRequest}]
    BY OccupiedBound DEF Bookkeeping, TypeOK
  <2>3. ASSUME NEW i \in 1 .. Occupied
        PROVE  requests'[(bufferOut + (i - 1)) % MAX_REQUESTS] = Stored(i - 1)
    <3>1. i - 1 \in 0 .. Occupied - 1
      BY <2>2
    <3>2. (bufferOut + (i - 1)) % MAX_REQUESTS # bufferIn
      BY <2>1, <3>1 DEF Bookkeeping, NoCellOverwritten
    <3>3. (bufferOut + (i - 1)) % MAX_REQUESTS \in Indices
      <4>1. i - 1 \in 0 .. MAX_REQUESTS - 1 /\ bufferOut \in Indices
        BY <2>1, <3>1, OccupiedBound, QueueAssumption DEF Bookkeeping, TypeOK
      <4> QED
        BY <4>1, WrapSuccessor
    <3> QED
      BY <2>1, <2>2, <3>2, <3>3 DEF Stored
  <2>4. StoredRequests' = [i \in 1 .. Occupied |-> requests'[(bufferOut + (i - 1)) % MAX_REQUESTS]]
    BY <1>1, <2>1 DEF StoredRequests, Stored
  <2> QED
    BY <2>3, <2>4 DEF StoredRequests
<1>3. CASE ~Store
  <2>1. UNCHANGED <<requests, bufferOut>>
    BY <1>3 DEF Next, MainRuns, SlotsTake, SlotsSleep, ReadEof, Post, Broadcast, Join,
         ReadRequest,
         RingOfCoprocesses, Spurious, OfficeRuns, ItemsTest, ItemsSleep, ItemsTake, Fetch,
         ReleaseSlot, Serve,
         Shutdown, ShutdownFails, ShutdownRobs, RobbedFails, UserDown, MeetUser, UserGone,
         WriteReply, BrokenPipe, Finish, buffer
  <2> QED
    BY <1>1, <2>1 DEF StoredRequests, Stored
<1> QED
  BY <1>2, <1>3

(* Nothing is stored and nobody holds a request at the start. *)
LEMMA ContentsInit == Init => Contents
<1> SUFFICES ASSUME Init PROVE Contents
  OBVIOUS
<1>1. At({"fetch", "fetched"}) = {}
  BY DEF Init, At
<1>2. Occupied = 0
  BY <1>1, FS_EmptySet DEF Init, Occupied, Count, MainAt
<1>3. StoredRequests = <<>>
  BY <1>2 DEF StoredRequests
<1> QED
  BY <1>3 DEF Init, Contents, Working

(* Stated for the next-state relation; stuttering is in ContentsStep. *)
LEMMA ContentsMain ==
  ASSUME Bookkeeping, Contents, up, MainRuns \/ ReadRequest \/ Spurious \/ RingOfCoprocesses
  PROVE  Contents'
<1>0. Next
  BY DEF Next
<1>1. StoredRequests' \in Seq(Requests)
  <2>1. CASE AdvanceIn
    <3>1. mainRequest \in Requests
      BY <2>1 DEF AdvanceIn, Contents
    <3> QED
      BY <1>0, <2>1, <3>1, StoredAppends, AppendProperties DEF Contents
  <2>2. CASE ~AdvanceIn
    <3>1. \A o \in Offices : AdvanceOut(o) => FALSE
      <4>1. SUFFICES ASSUME NEW o \in Offices, AdvanceOut(o) PROVE FALSE
        OBVIOUS
      <4>2. Occupied' = Occupied - 1
        BY <1>0, <4>1, OccupiedSteps DEF Bookkeeping
      <4>3. pc[o] = "fetched" /\ pc'[o] = "release"
        BY <4>1 DEF AdvanceOut, Goto, Bookkeeping, TypeOK
      <4>4. CASE Post \/ Broadcast \/ Spurious \/ RingOfCoprocesses
        BY <4>3, <4>4, WakersKeepOffices DEF Bookkeeping
      <4>5. CASE SlotsTake \/ SlotsSleep \/ ReadEof \/ Store \/ Join \/ ReadRequest
        BY <4>3, <4>5 DEF SlotsTake, SlotsSleep, ReadEof, Store, Join, ReadRequest, office
      <4> QED
        BY <2>2, <4>4, <4>5 DEF MainRuns
    <3> QED
      BY <1>0, <2>2, <3>1, StoredStays DEF Contents
  <2> QED
    BY <2>1, <2>2
<1>2. /\ mainPc' \in {"store", "advance"} => mainRequest' \in Requests \ unsent'
      /\ mainPc' = "advance" => requests'[bufferIn'] = mainRequest'
  <2>1. CASE Store
    BY <2>1 DEF Store, Contents, Bookkeeping, TypeOK
  <2>2. CASE ReadRequest
    BY <2>2 DEF ReadRequest, Bookkeeping, TypeOK
  <2>3. CASE SlotsTake \/ SlotsSleep \/ ReadEof \/ AdvanceIn \/ Post \/ Broadcast \/ Join
    BY <2>3 DEF SlotsTake, SlotsSleep, ReadEof, AdvanceIn, Post, Broadcast, Join
  <2>4. CASE Spurious \/ RingOfCoprocesses
    BY <2>4 DEF RingOfCoprocesses, Spurious, SpuriousWakeup, main, Contents, buffer
  <2> QED
    BY <2>1, <2>2, <2>3, <2>4 DEF MainRuns
<1>3. /\ \A o \in Offices : pc'[o] = "fetched" => pc[o] = "fetched"
      /\ \A o \in Offices : pc'[o] \in Working => pc[o] \in Working
      /\ request' = request
  <2>1. CASE Post \/ Broadcast \/ Spurious \/ RingOfCoprocesses
    <3>1. request' = request
      BY <2>1 DEF Post, Broadcast, RingOfCoprocesses, Spurious, SpuriousWakeup, office, main
    <3> QED
      BY <2>1, <3>1, WakersKeepOffices DEF Bookkeeping, Working
  <2>2. CASE SlotsTake \/ SlotsSleep \/ ReadEof \/ Store \/ AdvanceIn \/ Join \/ ReadRequest
    BY <2>2 DEF SlotsTake, SlotsSleep, ReadEof, Store, AdvanceIn, Join, ReadRequest, office
  <2> QED
    BY <2>1, <2>2 DEF MainRuns
<1>4. ASSUME NEW o \in Offices, pc'[o] = "fetched"
      PROVE  request'[o] = requests'[bufferOut']
  <2>1. pc[o] = "fetched" /\ bufferLock = o /\ request[o] = requests[bufferOut]
    BY <1>3, <1>4 DEF Bookkeeping, LockOwners, Contents
  <2>2. ~Store
    BY <2>1, QueueAssumption DEF Store, Free
  <2>3. UNCHANGED <<requests, bufferOut>>
    BY <2>2 DEF MainRuns, SlotsTake, SlotsSleep, ReadEof, AdvanceIn, Post, Broadcast, Join,
         ReadRequest, RingOfCoprocesses, Spurious, buffer
  <2> QED
    BY <1>3, <2>1, <2>3
<1> QED
  BY <1>1, <1>2, <1>3, <1>4 DEF Contents

(* Stored requests and full hands are requests after a step of an office. *)
LEMMA ContentsOffice ==
  ASSUME Bookkeeping, Contents, up, NEW o \in Offices, OfficeRuns(o)
  PROVE  Contents'
<1>0. Next /\ UNCHANGED <<requests, bufferIn, mainRequest, unsent>>
  BY DEF Next, OfficeRuns, ItemsTest, ItemsSleep, ItemsTake, Fetch, AdvanceOut, ReleaseSlot,
       Serve,
         Shutdown, ShutdownFails, ShutdownRobs, RobbedFails, UserDown, MeetUser, UserGone,
         WriteReply, BrokenPipe, Finish, buffer, main
<1>1. mainPc' = mainPc \/ (mainPc = "slotsWait" /\ mainPc' = "slots")
  BY DEF OfficeRuns, ItemsTest, ItemsSleep, ItemsTake, Fetch, AdvanceOut, ReleaseSlot, Serve,
         Shutdown, ShutdownFails, ShutdownRobs, RobbedFails, UserDown, MeetUser, UserGone,
         WriteReply, BrokenPipe, Finish, main
<1>2. CASE AdvanceOut(o)
  <2>1. StoredRequests' \in Seq(Requests)
    BY <1>0, <1>2, StoredLoses, HeadTailProperties DEF Contents
  <2>2. /\ pc' = [pc EXCEPT ![o] = "release"] /\ request' = request /\ bufferLock = o
        /\ pc[o] = "fetched"
    BY <1>2 DEF AdvanceOut, Goto, Bookkeeping, LockOwners
  <2>3. \A p \in Offices : pc'[p] # "fetched"
    BY <2>2 DEF Bookkeeping, LockOwners, TypeOK
  <2>4. \A p \in Offices : pc'[p] \in Working => request'[p] \in Requests
    BY <2>2 DEF Contents, Bookkeeping, TypeOK, Working
  <2> QED
    BY <1>0, <1>1, <2>1, <2>3, <2>4 DEF Contents
<1>3. CASE ~AdvanceOut(o)
  <2>1. StoredRequests' \in Seq(Requests)
    <3>1. bufferOut' = bufferOut
      BY <1>3 DEF OfficeRuns, ItemsTest, ItemsSleep, ItemsTake, Fetch, ReleaseSlot, Serve,
         Shutdown, ShutdownFails, ShutdownRobs, RobbedFails, UserDown, MeetUser, UserGone,
         WriteReply, BrokenPipe, Finish, buffer
    <3>2. ~AdvanceIn
      BY <1>1 DEF AdvanceIn
    <3>3. ASSUME NEW p \in Offices, AdvanceOut(p)
          PROVE  FALSE
      <4>1. pc[p] = "fetched" /\ pc'[p] = "release" /\ p # o
        BY <1>3, <3>3 DEF AdvanceOut, Goto, Bookkeeping, TypeOK
      <4>2. pc'[p] = pc[p]
        BY <4>1 DEF OfficeRuns, ItemsTest, ItemsSleep, ItemsTake, Fetch, AdvanceOut, ReleaseSlot,
             Serve, Shutdown, ShutdownFails, ShutdownRobs, RobbedFails, UserDown, MeetUser,
             UserGone,
         WriteReply, BrokenPipe, Finish, Goto, office,
             Bookkeeping, TypeOK
      <4> QED
        BY <4>1, <4>2
    <3> QED
      BY <1>0, <3>2, <3>3, StoredStays DEF Contents
  <2>2. bufferOut' = bufferOut
    BY <1>3 DEF OfficeRuns, ItemsTest, ItemsSleep, ItemsTake, Fetch, ReleaseSlot, Serve,
         Shutdown, ShutdownFails, ShutdownRobs, RobbedFails, UserDown, MeetUser, UserGone,
         WriteReply, BrokenPipe, Finish, buffer
  <2>3. CASE Fetch(o)
    <3>1. /\ pc' = [pc EXCEPT ![o] = "fetched"] /\ pc[o] = "fetch"
          /\ request' = [request EXCEPT ![o] = requests[bufferOut]]
      BY <2>3 DEF Fetch, Goto
    <3>2. requests[bufferOut] \in Requests
      <4>1. Occupied \in 1 .. MAX_REQUESTS /\ Stored(0) = requests[bufferOut]
        BY <3>1, ClaimedIsStored
      <4>2. StoredRequests[1] = Stored(0) /\ Len(StoredRequests) = Occupied
        BY <4>1 DEF StoredRequests
      <4> QED
        BY <4>1, <4>2, LenProperties DEF Contents
    <3>3. \A p \in Offices : pc'[p] = "fetched" => request'[p] = requests'[bufferOut']
      BY <1>0, <2>2, <3>1 DEF Contents, Bookkeeping, TypeOK
    <3>4. \A p \in Offices : pc'[p] \in Working => request'[p] \in Requests
      BY <3>1, <3>2 DEF Contents, Bookkeeping, TypeOK, Working
    <3> QED
      BY <1>0, <1>1, <2>1, <3>3, <3>4 DEF Contents
  <2>4. CASE ~Fetch(o)
    <3>1. \A p \in Offices : /\ pc'[p] = "fetched" => pc[p] = "fetched" /\ request'[p] = request[p]
                             /\ pc'[p] \in Working => pc[p] \in Working /\ request'[p] = request[p]
      BY <1>3, <2>4 DEF OfficeRuns, ItemsTest, ItemsSleep, ItemsTake, ReleaseSlot, Serve,
           Shutdown,
           ShutdownFails, ShutdownRobs, RobbedFails, UserDown, MeetUser, UserGone,
         WriteReply, BrokenPipe, Finish, Goto, office, Bookkeeping,
           TypeOK, Working
    <3> QED
      BY <1>0, <1>1, <2>1, <2>2, <3>1 DEF Contents
  <2> QED
    BY <2>3, <2>4
<1> QED
  BY <1>2, <1>3

(* They are after every step. *)
LEMMA ContentsStep == Bookkeeping /\ Contents /\ [Next]_vars => Contents'
<1> SUFFICES ASSUME Bookkeeping, Contents, [Next]_vars PROVE Contents'
  OBVIOUS
<1>1. CASE UNCHANGED vars
  BY <1>1 DEF Contents, StoredRequests, Stored, Occupied, MainAt, Count, At, vars
<1> QED
  BY <1>1, ContentsMain, ContentsOffice DEF Next

Implementing == Bookkeeping /\ Contents

(* A step that is neither AdvanceIn, AdvanceOut nor Finish is invisible. *)
LEMMA FifoStutters ==
  ASSUME Implementing, Next, ~AdvanceIn, \A o \in Offices : ~AdvanceOut(o) /\ ~Finish(o)
  PROVE  UNCHANGED <<Unqueued, StoredRequests, Holding>>
<1> USE DEF Implementing
<1>1. StoredRequests' = StoredRequests
  BY StoredStays
<1>2. CASE MainRuns \/ ReadRequest \/ Spurious \/ RingOfCoprocesses
  <2>1. Unqueued' = Unqueued
    <3>1. CASE ReadRequest
      BY <3>1 DEF ReadRequest, Unqueued, Bookkeeping, TypeOK
    <3>2. CASE MainRuns
      BY <3>2 DEF MainRuns, SlotsTake, SlotsSleep, ReadEof, Store, Post, Broadcast, Join, Unqueued
    <3>3. CASE Spurious \/ RingOfCoprocesses
      BY <3>3 DEF RingOfCoprocesses, Spurious, SpuriousWakeup, main, Unqueued
    <3> QED
      BY <1>2, <3>1, <3>2, <3>3
  <2>2. Holding' = Holding
    <3>1. CASE Post \/ Broadcast \/ Spurious \/ RingOfCoprocesses
      <4>1. request' = request
        BY <3>1 DEF Post, Broadcast, RingOfCoprocesses, Spurious, SpuriousWakeup, office, main
      <4> QED
        BY <3>1, <4>1, WakersKeepOffices DEF Holding, Bookkeeping, Working
    <3>2. CASE SlotsTake \/ SlotsSleep \/ ReadEof \/ Store \/ Join \/ ReadRequest
      BY <3>2 DEF SlotsTake, SlotsSleep, ReadEof, Store, Join, ReadRequest, office, Holding
    <3> QED
      BY <1>2, <3>1, <3>2 DEF MainRuns
  <2> QED
    BY <1>1, <2>1, <2>2
<1>3. ASSUME NEW o \in Offices, OfficeRuns(o)
      PROVE  UNCHANGED <<Unqueued, StoredRequests, Holding>>
  <2>1. /\ unsent' = unsent /\ mainRequest' = mainRequest
        /\ mainPc' = mainPc \/ (mainPc = "slotsWait" /\ mainPc' = "slots")
    BY <1>3 DEF OfficeRuns, ItemsTest, ItemsSleep, ItemsTake, Fetch, AdvanceOut, ReleaseSlot,
         Serve, Shutdown, ShutdownFails, ShutdownRobs, RobbedFails, UserDown, MeetUser, UserGone,
         WriteReply, BrokenPipe, Finish, main
  <2>2. Unqueued' = Unqueued
    BY <2>1 DEF Unqueued
  <2>3. CASE ItemsTest(o) \/ ItemsSleep(o) \/ ItemsTake(o) \/ Fetch(o)
    <3>1. \A p \in Offices :
            \/ pc'[p] = pc[p] /\ request'[p] = request[p]
            \/ /\ pc[p] \notin Working \ {"fetched"}
               /\ pc'[p] \notin Working \ {"fetched"}
      BY <2>3 DEF ItemsTest, ItemsSleep, ItemsTake, Fetch, Goto, Bookkeeping, TypeOK, Working
    <3> QED
      BY <1>1, <2>2, <3>1 DEF Holding
  <2>4. CASE \/ ReleaseSlot(o) \/ Serve(o) \/ Shutdown(o) \/ ShutdownFails(o)
             \/ ShutdownRobs(o) \/ RobbedFails(o) \/ BrokenPipe(o) \/ UserDown(o) \/ MeetUser(o)
           \/ UserGone(o) \/ WriteReply(o)
    <3>1. /\ request' = request
          /\ \A p \in Offices : pc'[p] \in Working \ {"fetched"}
                                  <=> pc[p] \in Working \ {"fetched"}
      BY <2>4 DEF ReleaseSlot, Serve, Shutdown, ShutdownFails, ShutdownRobs, RobbedFails,
           BrokenPipe, UserDown,
         MeetUser, UserGone, WriteReply,
                  Goto, office, Bookkeeping, TypeOK, Working
    <3> QED
      BY <1>1, <2>2, <3>1 DEF Holding
  <2> QED
    BY <1>3, <2>3, <2>4 DEF OfficeRuns
<1> QED
  BY <1>2, <1>3 DEF Next

(* AdvanceIn is the Put of the abstract queue ... *)
LEMMA FifoPut ==
  ASSUME Implementing, Next, AdvanceIn
  PROVE  Fifo!Put
<1> USE DEF Implementing
<1>1. StoredRequests' = Append(StoredRequests, mainRequest)
  BY StoredAppends
<1>2. Len(StoredRequests) < MAX_REQUESTS
  <2>1. Occupied \in Nat /\ Occupied < MAX_REQUESTS
    BY OccupiedBound DEF AdvanceIn, Bookkeeping
  <2> QED
    BY <2>1 DEF StoredRequests
<1>3. mainRequest \in Unqueued /\ Unqueued' = Unqueued \ {mainRequest}
  BY DEF AdvanceIn, Unqueued, Contents
<1>4. Holding' = Holding
  BY DEF AdvanceIn, Holding, office
<1> QED
  BY <1>1, <1>2, <1>3, <1>4 DEF Fifo!Put

(* ... AdvanceOut its Get ... *)
LEMMA FifoGet ==
  ASSUME Implementing, Next, NEW o \in Offices, AdvanceOut(o)
  PROVE  Fifo!Get(o)
<1> USE DEF Implementing
<1>1. /\ StoredRequests # <<>> /\ Head(StoredRequests) = request[o]
      /\ StoredRequests' = Tail(StoredRequests)
  BY StoredLoses
<1>2. /\ pc[o] = "fetched" /\ pc' = [pc EXCEPT ![o] = "release"] /\ request' = request
      /\ pc \in [Offices -> OfficeStates]
  BY DEF AdvanceOut, Goto, Bookkeeping, TypeOK
<1>3. Holding[o] = NoRequest
  BY <1>2 DEF Holding
<1>4. Holding' = [Holding EXCEPT ![o] = request[o]]
  BY <1>2 DEF Holding, Working
<1>5. Unqueued' = Unqueued
  BY DEF AdvanceOut, Unqueued, main
<1> QED
  BY <1>1, <1>3, <1>4, <1>5 DEF Fifo!Get

(* ... and Finish its Done. *)
LEMMA FifoDone ==
  ASSUME Implementing, Next, NEW o \in Offices, Finish(o)
  PROVE  Fifo!Done(o)
<1> USE DEF Implementing
<1>1. /\ pc[o] = "finish" /\ pc' = [pc EXCEPT ![o] = "items"]
      /\ request' = [request EXCEPT ![o] = NoRequest]
      /\ pc \in [Offices -> OfficeStates] /\ request \in [Offices -> Requests \cup {NoRequest}]
  BY DEF Finish, Goto, Bookkeeping, TypeOK
<1>2. Holding[o] # NoRequest
  BY <1>1, QueueAssumption DEF Holding, Contents, Working
<1>3. Holding' = [Holding EXCEPT ![o] = NoRequest]
  BY <1>1 DEF Holding, Working
<1>4. StoredRequests' = StoredRequests
  <2>1. ~AdvanceIn /\ \A p \in Offices : ~AdvanceOut(p)
    <3>1. ~AdvanceIn
      BY DEF Finish, AdvanceIn, main
    <3>2. ASSUME NEW p \in Offices, AdvanceOut(p)
          PROVE  FALSE
      BY <1>1, <3>2 DEF AdvanceOut, Goto
    <3> QED
      BY <3>1, <3>2
  <2> QED
    BY <2>1, StoredStays
<1>5. Unqueued' = Unqueued
  BY DEF Finish, Unqueued, main
<1> QED
  BY <1>2, <1>3, <1>4, <1>5 DEF Fifo!Done

(* The circular array with its two indices, two counters and three mutexes  *)
(* is a bounded first-in first-out queue: each request the main thread read *)
(* is handed to one office, once, in the order of arrival.                  *)
THEOREM QueueImplementsFifo == Spec => IsFifo
<1>1. Init => Fifo!Init
  <2> SUFFICES ASSUME Init PROVE Fifo!Init
    OBVIOUS
  <2>1. At({"fetch", "fetched"}) = {}
    BY DEF Init, At
  <2>2. Occupied = 0
    BY <2>1, FS_EmptySet DEF Init, Occupied, Count, MainAt
  <2>3. StoredRequests = <<>>
    BY <2>2 DEF StoredRequests
  <2>4. Unqueued = Requests /\ Holding = [o \in Offices |-> NoRequest]
    BY DEF Init, Unqueued, Holding
  <2> QED
    BY <2>3, <2>4 DEF Fifo!Init
<1>2. Implementing /\ [Next]_vars => [Fifo!Next]_(Fifo!fifoVars)
  <2> SUFFICES ASSUME Implementing, [Next]_vars PROVE [Fifo!Next]_(Fifo!fifoVars)
    OBVIOUS
  <2>1. CASE UNCHANGED vars
    <3>1. UNCHANGED <<Unqueued, StoredRequests, Holding>>
      BY <2>1 DEF Unqueued, StoredRequests, Stored, Holding, Occupied, MainAt, Count, At, vars
    <3> QED
      BY <3>1 DEF Fifo!fifoVars
  <2>2. CASE Next
    <3>1. CASE AdvanceIn
      BY <2>2, <3>1, FifoPut DEF Fifo!Next
    <3>2. ASSUME NEW o \in Offices, AdvanceOut(o) PROVE Fifo!Next
      BY <2>2, <3>2, FifoGet DEF Fifo!Next
    <3>3. ASSUME NEW o \in Offices, Finish(o) PROVE Fifo!Next
      BY <2>2, <3>3, FifoDone DEF Fifo!Next
    <3>4. CASE ~AdvanceIn /\ \A o \in Offices : ~AdvanceOut(o) /\ ~Finish(o)
      <4>1. UNCHANGED <<Unqueued, StoredRequests, Holding>>
        BY <2>2, <3>4, FifoStutters
      <4> QED
        BY <4>1 DEF Fifo!fifoVars
    <3> QED
      BY <3>1, <3>2, <3>3, <3>4
  <2> QED
    BY <2>1, <2>2
<1>3. Spec => []Bookkeeping
  BY TypeCorrect, LocksCorrect, SlotsCorrect, BufferCorrect, CellsCorrect, PTL DEF Bookkeeping
<1>4. Spec => []Contents
  BY <1>3, ContentsInit, ContentsStep, PTL DEF Spec
<1>5. Spec => []Implementing
  BY <1>3, <1>4, PTL DEF Implementing
<1> QED
  BY <1>1, <1>2, <1>5, PTL DEF Spec, IsFifo, Fifo!Spec

-----------------------------------------------------------------------------
(* Standstill: what the threads can wait for, for ever.                    *)

(* The main thread finds the mutex free, the end of file or the offices     *)
(* ended that its next step needs; a read() waits for the users otherwise.  *)
MainGoesOn ==
    \/ mainPc \in {"slots", "advance", "broadcast"}
    \/ mainPc = "read" /\ ~dummyOpen
    \/ mainPc = "store" /\ Free(bufferLock)
    \/ mainPc = "post" /\ Free(itemsLock)
    \/ mainPc = "join" /\ At({"closed"}) = Offices

(* An office that neither sleeps, nor is lost, nor has ended, nor waits for *)
(* a mutex; at "reply" it is the user or its alarm that goes on.            *)
OfficeGoesOn(o) ==
    \/ pc[o] \in {"itemsHeld", "fetched", "release", "serve", "reply", "write", "finish"}
    \/ pc[o] = "items" /\ Free(itemsLock)
    \/ pc[o] = "fetch" /\ Free(bufferLock)

Standstill == up /\ ~MainGoesOn /\ \A o \in Offices : ~OfficeGoesOn(o)

(* A server that stands still has lost all its offices, or else no request  *)
(* that it has read is anywhere but with the lost ones: it waits for users, *)
(* or has ended, or joins an office that the broadcast missed or a lost one.*)
StopsServed ==
    Standstill =>
        \/ Lost = Offices
        \/ /\ Occupied = 0 /\ \A o \in Offices \ Lost : request[o] = NoRequest
           /\ \/ mainPc = "read" /\ dummyOpen /\ At({"itemsWait"}) \cup Lost = Offices
              \/ /\ mainPc = "join" /\ At({"itemsWait"}) \cup Lost # {}
                 /\ At({"itemsWait", "closed"}) \cup Lost = Offices
              \/ mainPc = "done" /\ At({"closed"}) = Offices

(* The main thread sleeps only without a slot, and has joined every office  *)
(* when it ends; an office that has fetched nothing holds no request.       *)
Resting ==
    /\ mainPc = "slotsWait" => slots = 0
    /\ mainPc = "done" => At({"closed"}) = Offices
    /\ \A o \in Offices : pc[o] \notin Working => request[o] = NoRequest

(* The main thread keeps this ... *)
LEMMA RestingMain ==
  ASSUME TypeOK, Resting, MainRuns \/ ReadRequest \/ Spurious \/ RingOfCoprocesses
  PROVE  Resting'
<1>1. CASE Post \/ Broadcast \/ Spurious \/ RingOfCoprocesses
  <2>1. /\ UNCHANGED <<slots, request>>
        /\ mainPc' = "slotsWait" => mainPc = "slotsWait"
        /\ mainPc' = "done" => mainPc = "done"
    BY <1>1 DEF Post, Broadcast, RingOfCoprocesses, Spurious, SpuriousWakeup, office, main
  <2>2. \A o \in Offices : \/ pc'[o] = pc[o]
                           \/ pc[o] = "itemsWait" /\ pc'[o] = "items"
                           \/ pc[o] = "serve" /\ pc'[o] = "hung"
    BY <1>1, WakersKeepOffices
  <2>3. At({"closed"})' = At({"closed"})
    BY <2>2 DEF At
  <2> QED
    BY <2>1, <2>2, <2>3 DEF Resting, Working
<1>2. CASE SlotsTake \/ SlotsSleep \/ ReadEof \/ Store \/ AdvanceIn \/ Join \/ ReadRequest
  BY <1>2 DEF Resting, At, SlotsTake, SlotsSleep, ReadEof, Store, AdvanceIn, Join, ReadRequest,
       office
<1> QED
  BY <1>1, <1>2 DEF MainRuns

(* ... and so does an office. *)
LEMMA RestingOffice ==
  ASSUME TypeOK, Resting, NEW o \in Offices, OfficeRuns(o)
  PROVE  Resting'
<1>1. mainPc' = "slotsWait" => slots' = 0
  BY DEF Resting, OfficeRuns, ItemsTest, ItemsSleep, ItemsTake, Fetch, AdvanceOut, ReleaseSlot,
         Serve, Shutdown, ShutdownFails, ShutdownRobs, RobbedFails, UserDown, MeetUser, UserGone,
         WriteReply, BrokenPipe, Finish, main
<1>2. mainPc' = "done" => At({"closed"})' = Offices
  <2>1. mainPc' = "done" => mainPc = "done"
    BY DEF OfficeRuns, ItemsTest, ItemsSleep, ItemsTake, Fetch, AdvanceOut, ReleaseSlot,
           Serve, Shutdown, ShutdownFails, ShutdownRobs, RobbedFails, UserDown, MeetUser,
           UserGone,
         WriteReply, BrokenPipe, Finish, main
  <2>2. CASE pc[o] # "closed"
    BY <2>1, <2>2 DEF Resting, At
  <2>3. CASE pc[o] = "closed"
    BY <2>3 DEF OfficeRuns, ItemsTest, ItemsSleep, ItemsTake, Fetch, AdvanceOut, ReleaseSlot,
           Serve, Shutdown, ShutdownFails, ShutdownRobs, RobbedFails, UserDown, MeetUser,
           UserGone,
         WriteReply, BrokenPipe, Finish, At
  <2> QED
    BY <2>2, <2>3
<1>3. \A p \in Offices : pc'[p] \notin Working => request'[p] = NoRequest
  <2>1. CASE Fetch(o) \/ Finish(o)
    BY <2>1 DEF Resting, Fetch, Finish, Goto, Working, TypeOK
  <2>2. CASE ShutdownFails(o) \/ RobbedFails(o) \/ BrokenPipe(o)
    BY <2>2 DEF Resting, ShutdownFails, RobbedFails, BrokenPipe, office
  <2>3. CASE \/ ItemsTest(o) \/ ItemsSleep(o) \/ ItemsTake(o)
             \/ AdvanceOut(o) \/ ReleaseSlot(o)
             \/ Serve(o) \/ Shutdown(o) \/ ShutdownRobs(o) \/ UserDown(o) \/ MeetUser(o)
           \/ UserGone(o) \/ WriteReply(o)
    <3>1. /\ request' = request
          /\ \E s \in OfficeStates : Goto(o, s) /\ (pc[o] \in Working => s \in Working)
      BY <2>3 DEF ItemsTest, ItemsSleep, ItemsTake, AdvanceOut, ReleaseSlot, Serve,
                  Shutdown, ShutdownRobs, UserDown,
         MeetUser, UserGone, WriteReply, Working, OfficeStates
    <3> QED
      BY <3>1 DEF Resting, Goto, TypeOK
  <2> QED
    BY <2>1, <2>2, <2>3 DEF OfficeRuns
<1> QED
  BY <1>1, <1>2, <1>3 DEF Resting

LEMMA RestingStep == TypeOK /\ Resting /\ [Next]_vars => Resting'
<1> SUFFICES ASSUME TypeOK, Resting, [Next]_vars PROVE Resting'
  OBVIOUS
<1>1. CASE UNCHANGED vars
  BY <1>1 DEF Resting, At, vars
<1> QED
  BY <1>1, RestingMain, RestingOffice DEF Next

(* When nobody goes on, every office sleeps, has ended or is lost: a mutex  *)
(* that one of them waited for would have an owner, and an owner goes on.   *)
LEMMA StandstillOffices ==
  ASSUME TypeOK, LockOwners, Standstill
  PROVE  /\ Free(itemsLock) /\ Free(bufferLock)
         /\ \A o \in Offices \ Lost : pc[o] \in {"itemsWait", "closed"}
         /\ mainPc \in {"slotsWait", "read", "join", "done"}
<1>1. \A o \in Offices : pc[o] \notin {"itemsHeld", "fetched"}
  BY DEF Standstill, OfficeGoesOn
<1>2. Free(itemsLock) /\ Free(bufferLock)
  <2>1. mainPc # "advance"
    BY DEF Standstill, MainGoesOn
  <2> QED
    BY <1>1, <2>1 DEF TypeOK, LockOwners, Free
<1>3. \A o \in Offices \ Lost : pc[o] \in {"itemsWait", "closed"}
  BY <1>2 DEF Standstill, OfficeGoesOn, TypeOK, OfficeStates, Lost, At
<1>4. mainPc \in {"slotsWait", "read", "join", "done"}
  BY <1>2 DEF Standstill, MainGoesOn, TypeOK, MainStates
<1> QED
  BY <1>2, <1>3, <1>4

(* The threads of a server never bring one another to a standstill over the *)
(* three mutexes and the two counters: while one office is left that is not *)
(* lost in generateHash or in the open() of a user FIFO, the only thread    *)
(* that waits in vain is an office that the broadcast of the end missed,    *)
(* and no request is left behind but with the lost offices.                 *)
THEOREM QueueStopsServed == Spec => []StopsServed
<1>1. Init => Resting
  BY DEF Init, Resting
<1>2. /\ TypeOK /\ LockOwners /\ SlotAccounting /\ NoLostSignal
      /\ ClosedOfficeSawEmpty /\ Resting
      => StopsServed
  <2> SUFFICES ASSUME TypeOK, LockOwners, SlotAccounting, NoLostSignal, ClosedOfficeSawEmpty,
                      Resting, Standstill, Lost # Offices
               PROVE  /\ Occupied = 0 /\ \A o \in Offices \ Lost : request[o] = NoRequest
                      /\ \/ /\ mainPc = "read" /\ dummyOpen
                            /\ At({"itemsWait"}) \cup Lost = Offices
                         \/ /\ mainPc = "join" /\ At({"itemsWait"}) \cup Lost # {}
                            /\ At({"itemsWait", "closed"}) \cup Lost = Offices
                         \/ mainPc = "done" /\ At({"closed"}) = Offices
    BY DEF StopsServed
  <2>1. /\ \A o \in Offices \ Lost : pc[o] \in {"itemsWait", "closed"}
        /\ mainPc \in {"slotsWait", "read", "join", "done"}
    BY StandstillOffices
  <2>2. Fetching = 0 /\ Releasing = 0 /\ Count({"items", "itemsHeld"}) = 0
    <3>1. /\ At({"fetch", "fetched"}) = {} /\ At({"release"}) = {}
          /\ At({"items", "itemsHeld"}) = {}
      BY <2>1 DEF At, Lost
    <3> QED
      BY <3>1, FS_EmptySet DEF Count, Fetching, Releasing
  <2>3. items = 0
    <3>1. CASE At({"itemsWait"}) # {}
      BY <2>2, <3>1 DEF NoLostSignal, TypeOK
    <3>2. CASE At({"itemsWait"}) = {}
      <4>1. PICK o \in Offices : o \notin Lost
        BY DEF Lost, At
      <4>2. At({"closed"}) # {}
        BY <2>1, <3>2, <4>1 DEF At
      <4> QED
        BY <4>2 DEF ClosedOfficeSawEmpty
    <3> QED
      BY <3>1, <3>2
  <2>4. Occupied = 0
    <3>1. MainAt({"post"}) = 0
      BY <2>1 DEF MainAt
    <3> QED
      BY <2>2, <2>3, <3>1, OccupiedSum
  <2>5. mainPc # "slotsWait"
    <3> SUFFICES ASSUME mainPc = "slotsWait" PROVE FALSE
      OBVIOUS
    <3>1. slots = 0 /\ MainClaims = 0 /\ MainAt({"post"}) = 0
      BY DEF Resting, MainClaims, MainAt
    <3> QED
      BY <2>2, <2>3, <3>1, SlotSum, QueueAssumption
  <2>6. \A o \in Offices \ Lost : request[o] = NoRequest
    BY <2>1 DEF Resting, Working
  <2>7. At({"itemsWait", "closed"}) \cup Lost = Offices
    BY <2>1 DEF At, Lost
  <2>8. CASE mainPc = "read"
    <3>1. At({"closed"}) = {}
      BY <2>8 DEF ClosedOfficeSawEmpty
    <3>2. At({"itemsWait"}) \cup Lost = Offices
      BY <2>1, <3>1 DEF At, Lost
    <3> QED
      BY <2>4, <2>6, <2>8, <3>2 DEF Standstill, MainGoesOn
  <2>9. CASE mainPc = "join"
    <3>1. At({"itemsWait"}) \cup Lost # {}
      BY <2>7, <2>9 DEF Standstill, MainGoesOn, At, Lost
    <3> QED
      BY <2>4, <2>6, <2>7, <2>9, <3>1
  <2>10. CASE mainPc = "done"
    BY <2>4, <2>6, <2>10 DEF Resting
  <2> QED
    BY <2>1, <2>5, <2>8, <2>9, <2>10
<1>3. Spec => []Resting
  BY <1>1, TypeCorrect, RestingStep, PTL DEF Spec
<1> QED
  BY <1>2, <1>3, TypeCorrect, LocksCorrect, SlotsCorrect, SignalsCorrect, ClosingCorrect, PTL

=============================================================================
