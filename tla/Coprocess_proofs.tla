-------------------------- MODULE Coprocess_proofs --------------------------
(***************************************************************************)
(* Proofs about Coprocess, for any set of offices and number of calls.     *)
(***************************************************************************)
EXTENDS Coprocess, TLAPS

USE CoprocessAssumption

(* The call c has come past the labels before those in L. *)
Beyond(c, L) == c[2] < round[c[1]] \/ (c[2] = round[c[1]] /\ pc[c[1]] \in L)

(* A call has a child from fork on, and input from write on. *)
Order ==
    \A c \in Calls :
        /\ child[c] # "none" <=> Beyond(c, {"write", "close", "read", "done"})
        /\ Beyond(c, {"close", "read", "done"}) => c \in input

Inv == TypeOK /\ Order /\ HashOfInput

(* The current call of an office is a call, and an old one keeps its number. *)
LEMMA CallIsCall ==
    ASSUME TypeOK, NEW o \in Offices
    PROVE  Call(o) \in Calls /\ Call(o)[1] = o /\ Call(o)[2] = round[o]
BY DEF TypeOK, Call, Calls

(* Types are kept by every step. *)
LEMMA TypeStep == TypeOK /\ [Next]_vars => TypeOK'
<1> SUFFICES ASSUME TypeOK, [Next]_vars PROVE TypeOK'
  OBVIOUS
<1>1. ASSUME NEW o \in Offices, Office(o) PROVE TypeOK'
  <2>1. Call(o) \in Calls
    BY CallIsCall
  <2>2. OpenEnds \subseteq Calls
    BY CallIsCall DEF OpenEnds
  <2>3. CASE Pipe(o)
    BY <2>3 DEF Pipe, TypeOK
  <2>4. CASE Fork(o)
    BY <2>1, <2>2, <2>4 DEF Fork, TypeOK
  <2>5. CASE Write(o)
    BY <2>1, <2>5 DEF Write, TypeOK
  <2>6. CASE Close(o)
    BY <2>6 DEF Close, TypeOK
  <2>7. CASE ReadHash(o)
    BY <2>7 DEF ReadHash, TypeOK
  <2> QED
    BY <1>1, <2>3, <2>4, <2>5, <2>6, <2>7 DEF Office
<1>2. ASSUME NEW c \in Calls, Child(c) PROVE TypeOK'
  <2>1. CASE SetUp(c)
    BY <2>1 DEF SetUp, TypeOK
  <2>2. CASE Hash(c)
    BY <2>2 DEF Hash, TypeOK
  <2>3. CASE Exit(c)
    BY <2>3 DEF Exit, TypeOK
  <2> QED
    BY <1>2, <2>1, <2>2, <2>3 DEF Child
<1>3. CASE UNCHANGED vars
  BY <1>3 DEF vars, TypeOK
<1> QED
  BY <1>1, <1>2, <1>3 DEF Next

(* The order of a call's steps is kept by every step. *)
LEMMA OrderStep == TypeOK /\ Order /\ [Next]_vars => Order'
<1> SUFFICES ASSUME TypeOK, Order, [Next]_vars PROVE Order'
  OBVIOUS
<1>1. ASSUME NEW o \in Offices, Office(o) PROVE Order'
  <2>1. Call(o) \in Calls /\ Call(o)[1] = o /\ Call(o)[2] = round[o]
    BY CallIsCall
  <2>2. \A c \in Calls : c[1] = o /\ c[2] = round[o] => c = Call(o)
    BY DEF Calls, Call
  <2>3. \A c \in Calls : c[1] \in Offices /\ c[2] \in Nat /\ round[c[1]] \in Nat
    BY DEF Calls, TypeOK
  <2>4. CASE Pipe(o)
    BY <2>1, <2>3, <2>4 DEF Pipe, TypeOK, Order, Beyond
  <2>5. CASE Fork(o)
    BY <2>1, <2>2, <2>3, <2>5 DEF Fork, TypeOK, Order, Beyond
  <2>6. CASE Write(o)
    BY <2>1, <2>2, <2>3, <2>6 DEF Write, TypeOK, Order, Beyond
  <2>7. CASE Close(o)
    BY <2>1, <2>3, <2>7 DEF Close, TypeOK, Order, Beyond
  <2>8. CASE ReadHash(o)
    BY <2>1, <2>3, <2>8 DEF ReadHash, TypeOK, Order, Beyond
  <2> QED
    BY <1>1, <2>4, <2>5, <2>6, <2>7, <2>8 DEF Office
<1>2. ASSUME NEW c \in Calls, Child(c) PROVE Order'
  <2>1. child[c] # "none" /\ UNCHANGED <<pc, round, input>>
    BY <1>2 DEF Child, SetUp, Hash, Exit
  <2>2. \A d \in Calls : child'[d] # "none" <=> child[d] # "none"
    BY <1>2 DEF Child, SetUp, Hash, Exit, TypeOK
  <2> QED
    BY <2>1, <2>2 DEF Order, Beyond
<1>3. CASE UNCHANGED vars
  BY <1>3 DEF vars, Order, Beyond
<1> QED
  BY <1>1, <1>2, <1>3 DEF Next

(* A coprocess that has its end of file has the whole of its input. *)
LEMMA InputStep == TypeOK /\ Order /\ HashOfInput /\ [Next]_vars => HashOfInput'
<1> SUFFICES ASSUME TypeOK, Order, HashOfInput, [Next]_vars PROVE HashOfInput'
  OBVIOUS
<1>1. input \subseteq input'
  BY DEF Next, Office, Pipe, Fork, Write, Close, ReadHash, Child, SetUp, Hash, Exit, vars
<1>2. ASSUME NEW o \in Offices, Office(o) PROVE HashOfInput'
  <2>1. \A c \in Calls : child'[c] \in {"exit", "gone"} => child[c] \in {"exit", "gone"}
    BY <1>2 DEF Office, Pipe, Fork, Write, Close, ReadHash, TypeOK
  <2> QED
    BY <1>1, <2>1 DEF HashOfInput
<1>3. ASSUME NEW c \in Calls, Child(c) PROVE HashOfInput'
  <2>1. CASE Hash(c)
    <3>1. c \in input
      <4> SUFFICES ASSUME c \notin input PROVE FALSE
        OBVIOUS
      <4>1. c[1] \in Offices /\ c = <<c[1], c[2]>>
        BY DEF Calls
      <4>2. c[2] = round[c[1]] /\ pc[c[1]] = "write"
        BY <2>1 DEF Hash, Order, Beyond
      <4>3. c = Call(c[1])
        BY <4>1, <4>2 DEF Call
      <4>4. c \in OpenEnds
        BY <4>1, <4>2, <4>3 DEF OpenEnds
      <4> QED
        BY <2>1, <4>4 DEF Hash, HasWriter
    <3> QED
      BY <1>1, <2>1, <3>1 DEF Hash, TypeOK, HashOfInput
  <2>2. CASE SetUp(c) \/ Exit(c)
    <3>1. \A d \in Calls : child'[d] \in {"exit", "gone"} => child[d] \in {"exit", "gone"}
      BY <2>2 DEF SetUp, Exit, TypeOK
    <3> QED
      BY <1>1, <3>1 DEF HashOfInput
  <2> QED
    BY <1>3, <2>1, <2>2 DEF Child
<1>4. CASE UNCHANGED vars
  BY <1>4 DEF vars, HashOfInput
<1> QED
  BY <1>2, <1>3, <1>4 DEF Next

(* The inductive invariant. *)
THEOREM CoprocessInvariant == Spec => []Inv
<1>1. Init => Inv
  BY DEF Init, Inv, TypeOK, Order, Beyond, HashOfInput, Calls
<1>2. Inv /\ [Next]_vars => Inv'
  BY TypeStep, OrderStep, InputStep DEF Inv
<1> QED
  BY <1>1, <1>2, PTL DEF Spec

(* Every variable keeps its type, and only a live child has write ends. *)
THEOREM CoprocessTyped == Spec => []TypeOK
<1>1. Inv => TypeOK
  BY DEF Inv
<1> QED
  BY <1>1, CoprocessInvariant, PTL

(* No coprocess hashes a part of its input only, whichever descriptors the  *)
(* coprocesses of other calls inherit, and how many calls there are.        *)
THEOREM HashesAreOfInput == Spec => []HashOfInput
<1>1. Inv => HashOfInput
  BY DEF Inv
<1> QED
  BY <1>1, CoprocessInvariant, PTL

(* Calls stop in rings only: at a standstill nobody but a coprocess that    *)
(* waits has write ends open, so that those that wait hold up one another.  *)
THEOREM StopsAreRings == Spec => []StopsOnlyInRings
<1>1. Inv => StopsOnlyInRings
  <2> SUFFICES ASSUME Inv, Standstill, NEW o \in Offices, pc[o] # "done" PROVE Ring
    BY DEF StopsOnlyInRings
  <2> DEFINE R == {c \in Calls : child[c] = "hash"}
  <2>1. Call(o) \in R
    <3>1. Call(o) \in Calls /\ Beyond(Call(o), {"write", "close", "read", "done"})
      BY CallIsCall DEF Inv, Standstill, Beyond
    <3> QED
      BY <3>1 DEF Inv, Order, Standstill
  <2>2. ASSUME NEW c \in R PROVE \E d \in R \ {c} : c \in inherited[d]
    <3>1. HasWriter(c) /\ OpenEnds = {}
      BY DEF Standstill, OpenEnds
    <3>2. PICK d \in Calls : c \in inherited[d]
      BY <3>1 DEF HasWriter
    <3>3. child[d] = "hash" /\ d # c
      BY <3>2 DEF Inv, TypeOK, Standstill
    <3> QED
      BY <3>2, <3>3
  <2>3. R \in (SUBSET Calls) \ {{}} /\ \A c \in R : child[c] = "hash"
    BY <2>1
  <2> QED
    BY <2>2, <2>3 DEF Ring
<1> QED
  BY <1>1, CoprocessInvariant, PTL

=============================================================================
