-------------------------- MODULE Accounts_proofs --------------------------
(***************************************************************************)
(* Accounts, proved for any offices, ids and requests, in three parts.     *)
(* Creations one at a time or side by side: typing, the account mutexes,   *)
(* the absence of circular waits and the account of the administrator.     *)
(* One at a time (SerialCreates): no balance leaves its range, what a      *)
(* transfer decided still holds when it moves the money, and an account is *)
(* created as it was asked for.  And then the handlers implement Ledger:   *)
(* every request takes effect at one moment and is answered OK or with the *)
(* first error of types.h that applies at that moment, but for NO_FUNDS,   *)
(* which the server overlooks between MIN_BALANCE and zero.                *)
(***************************************************************************)
EXTENDS Accounts, WellFoundedInduction, FiniteSetTheorems, TLAPS

-----------------------------------------------------------------------------
(* What getBankAccount returns.                                            *)

(* A set of natural numbers that is not empty has a least element. *)
LEMMA LeastExists ==
  ASSUME NEW T, T \subseteq Nat, T # {}
  PROVE  \E x \in T : \A y \in T : x <= y
<1> DEFINE R == OpToRel(<, Nat)
<1>1. IsWellFoundedOn(R, Nat)
  BY NatLessThanWellFounded
<1>2. PICK x \in T : \A y \in T : ~ (<<y, x>> \in R)
  <2> HIDE DEF R
  <2> QED
    BY <1>1, WFMin
<1>3. \A y \in T : ~ (y < x)
  BY <1>2 DEF OpToRel
<1> QED
  BY <1>3

(* The look-up returns a cell with the id, or no cell when there is none. *)
LEMMA FindIsHolder ==
  ASSUME NEW id
  PROVE  /\ Find(id) \in 0 .. NoIndex
         /\ Find(id) # NoIndex => Find(id) \in Indices /\ accounts[Find(id)].id = id
         /\ Find(id) = NoIndex => Holders(id) = {}
<1>1. Holders(id) \subseteq Indices /\ Indices \subseteq Nat
      /\ Indices \subseteq 0 .. NoIndex /\ NoIndex \in 0 .. NoIndex
  BY AccountsAssumption DEF Holders, Indices, Ids, NoIndex
<1>2. CASE Holders(id) = {}
  BY <1>1, <1>2 DEF Find
<1>3. CASE Holders(id) # {}
  <2>1. \E i \in Holders(id) : \A j \in Holders(id) : i <= j
    BY <1>1, <1>3, LeastExists
  <2>2. Find(id) \in Holders(id)
    BY <1>3, <2>1 DEF Find
  <2>3. NoIndex \notin Indices
    BY AccountsAssumption DEF Indices, Ids, NoIndex
  <2> QED
    BY <1>1, <2>2, <2>3 DEF Holders
<1> QED
  BY <1>2, <1>3

(* The arithmetic of a balance stays in its word. *)
LEMMA WordArithmetic ==
  ASSUME NEW a \in 0 .. WORD - 1, NEW b \in 0 .. WORD - 1
  PROVE  Add(a, b) \in 0 .. WORD - 1 /\ Sub(a, b) \in 0 .. WORD - 1
<1>1. WORD \in Nat /\ WORD > 0
  BY AccountsAssumption
<1>2. a + b \in Nat /\ a + WORD - b \in Nat
  BY <1>1
<1>3. \A n \in Nat : n % WORD \in 0 .. WORD - 1
  BY <1>1
<1> QED
  BY <1>2, <1>3 DEF Add, Sub

-----------------------------------------------------------------------------
(* Typing, and what an office's control says of its request.               *)

(* An office with a request in hands has one that user.c lets through, at a *)
(* place of the code where such a request gets to.                          *)
Stage(o) ==
  LET r == request[o]
  IN  /\ pc[o] # "idle" => r \in Requests
      /\ pc[o] \in {"capacity", "exists", "setId", "setBalance", "setSalt", "setHash",
                    "load", "store", "verify"} => r.op = "create"
      /\ pc[o] = "read" => r.op = "balance"
      /\ pc[o] \in {"decide", "debit", "credit", "readBack"} => r.op = "transfer" /\ r.id # Admin
      /\ pc[o] \in {"debit", "credit", "readBack"} => r.id # r.target
      /\ pc[o] \in {"debit", "credit"} => source[o] \in Indices \ {0} /\ dest[o] \in Indices \ {0}
      /\ pc[o] \in {"lockSecond", "unlockSecond"} => First(r) # Second(r)

(* The first cell keeps the administrator, and numAccounts stays past it. *)
AdminFirst ==
  /\ AdminUntouched
  /\ numAccounts > 0

Inv ==
  /\ TypeOK
  /\ \A o \in Offices : Stage(o)
  /\ AdminFirst

(* The fields of a request, and the mutexes it needs. *)
LEMMA RequestFields ==
  ASSUME NEW r \in Requests
  PROVE  /\ r.op \in {"create", "balance", "transfer"}
         /\ r.id \in Ids /\ r.target \in Ids
         /\ r.amount \in 0 .. WORD - 1
         /\ r.password \in Passwords /\ r.newPassword \in Passwords
         /\ r.op # "balance" => r.target # Admin
         /\ First(r) \in Ids /\ Second(r) \in Ids /\ First(r) <= Second(r)
         /\ First(r) # Second(r) => r.op = "transfer" /\ r.id # r.target
         /\ r.op = "transfer" /\ r.id # r.target => First(r) # Second(r)
<1>1. /\ r.op \in {"create", "balance", "transfer"}
      /\ r.id \in Ids /\ r.target \in Ids /\ r.amount \in 0 .. MAX_BALANCE
      /\ r.password \in Passwords /\ r.newPassword \in Passwords
      /\ r.op # "balance" => r.target # Admin
  BY AccountsAssumption
<1>2. MAX_BALANCE < WORD /\ MAX_BALANCE \in Nat /\ WORD \in Nat
  BY AccountsAssumption
<1>3. r.id \in Int /\ r.target \in Int
  BY <1>1, AccountsAssumption DEF Ids
<1>4. CASE r.op = "create"
  BY <1>1, <1>2, <1>3, <1>4 DEF First, Second, LockOrder
<1>5. CASE r.op = "balance"
  BY <1>1, <1>2, <1>3, <1>5 DEF First, Second, LockOrder
<1>6. CASE r.op = "transfer"
  BY <1>1, <1>2, <1>3, <1>6 DEF First, Second, LockOrder
<1> QED
  BY <1>1, <1>4, <1>5, <1>6

(* The server starts well. *)
LEMMA InvInit == Init => Inv
<1> SUFFICES ASSUME Init PROVE Inv
  OBVIOUS
<1>1. TypeOK
  BY AccountsAssumption
  DEF Init, TypeOK, AccountRecords, ZeroAccount, Indices, Ids, NoIndex, Salts, Admin, Labels
<1>2. \A o \in Offices : Stage(o)
  BY DEF Init, Stage
<1>3. AdminFirst
  BY AccountsAssumption DEF Init, AdminFirst, AdminUntouched, Indices, Ids, Admin
<1> QED
  BY <1>1, <1>2, <1>3 DEF Inv

-----------------------------------------------------------------------------
(* Inv is inductive: one lemma per kind of action.                         *)

(* Taking and giving back mutexes, and the return to the queue. *)
LEMMA InvLocks ==
  ASSUME Inv, NEW o \in Offices, LockStep(o) \/ Return(o)
  PROVE  Inv'
<1> DEFINE r == request[o]
<1>1. TypeOK /\ (\A p \in Offices : Stage(p)) /\ AdminFirst
  BY DEF Inv
<1>2. r \in Requests /\ First(r) \in Ids /\ Second(r) \in Ids
  BY <1>1, RequestFields DEF Stage, LockStep, LockFirst, LockSecond, UnlockSecond, UnlockFirst, Return
<1>3. First(r) # Second(r) => r.op = "transfer"
  BY <1>2, RequestFields
<1>4. AdminFirst'
  BY <1>1 DEF AdminFirst, AdminUntouched, LockStep, LockFirst, LockSecond, UnlockSecond, UnlockFirst, Return
<1>5. CASE LockFirst(o)
  <2>1. TypeOK'
    BY <1>1, <1>2, <1>5 DEF TypeOK, LockFirst, Goto, Labels, handler
  <2>2. \A p \in Offices : Stage(p)'
    BY <1>1, <1>2, <1>3, <1>5 DEF TypeOK, LockFirst, Goto, Labels, handler, Stage
  <2> QED
    BY <1>4, <2>1, <2>2 DEF Inv
<1>6. CASE LockSecond(o)
  <2>1. TypeOK'
    BY <1>1, <1>2, <1>6 DEF TypeOK, LockSecond, Goto, Labels, handler
  <2>2. \A p \in Offices : Stage(p)'
    BY <1>1, <1>2, <1>6 DEF TypeOK, LockSecond, Goto, Labels, handler, Stage
  <2> QED
    BY <1>4, <2>1, <2>2 DEF Inv
<1>7. CASE UnlockSecond(o)
  <2>1. TypeOK'
    BY <1>1, <1>2, <1>7 DEF TypeOK, UnlockSecond, Goto, Labels, handler
  <2>2. \A p \in Offices : Stage(p)'
    BY <1>1, <1>2, <1>7 DEF TypeOK, UnlockSecond, Goto, Labels, handler, Stage
  <2> QED
    BY <1>4, <2>1, <2>2 DEF Inv
<1>8. CASE UnlockFirst(o)
  <2>1. TypeOK'
    BY <1>1, <1>2, <1>8 DEF TypeOK, UnlockFirst, Goto, Labels, handler
  <2>2. \A p \in Offices : Stage(p)'
    BY <1>1, <1>2, <1>8 DEF TypeOK, UnlockFirst, Goto, Labels, handler, Stage
  <2> QED
    BY <1>4, <2>1, <2>2 DEF Inv
<1>9. CASE Return(o)
  <2>1. TypeOK'
    BY <1>1, <1>9, AccountsAssumption DEF TypeOK, Return, Goto, Labels, NoIndex
  <2>2. \A p \in Offices : Stage(p)'
    BY <1>1, <1>9 DEF TypeOK, Return, Goto, Labels, Stage
  <2> QED
    BY <1>4, <2>1, <2>2 DEF Inv
<1> QED
  BY <1>5, <1>6, <1>7, <1>8, <1>9 DEF LockStep

(* The arrival of a request and its authentication. *)
LEMMA InvArrival ==
  ASSUME Inv, NEW o \in Offices, Receive(o) \/ Authenticate(o)
  PROVE  Inv'
<1> DEFINE r == request[o]
<1>1. TypeOK /\ (\A p \in Offices : Stage(p)) /\ AdminFirst
  BY DEF Inv
<1>2. 0 \in 0 .. WORD - 1
  BY AccountsAssumption
<1>3. AdminFirst'
  BY <1>1 DEF AdminFirst, AdminUntouched, Receive, Authenticate
<1>4. CASE Receive(o)
  <2>1. PICK q \in Requests : /\ request' = [request EXCEPT ![o] = q]
                              /\ Goto(o, IF q.op = "create" THEN "authenticate" ELSE "lockFirst")
    BY <1>4 DEF Receive
  <2>2. TypeOK'
    BY <1>1, <1>4, <2>1 DEF TypeOK, Receive, Goto, Labels
  <2>3. \A p \in Offices : Stage(p)'
    BY <1>1, <1>4, <2>1 DEF TypeOK, Receive, Goto, Labels, Stage
  <2> QED
    BY <1>3, <2>2, <2>3 DEF Inv
<1>5. CASE Authenticate(o)
  <2>1. r \in Requests
    BY <1>1, <1>5 DEF Stage, Authenticate
  <2>2. r.amount \in 0 .. WORD - 1 /\ r.op \in {"create", "balance", "transfer"}
    BY <2>1, RequestFields
  <2>3. Unlocking(r) \in {"unlockFirst", "unlockSecond"}
        /\ (Unlocking(r) = "unlockSecond" => First(r) # Second(r))
    BY DEF Unlocking
  <2>4. /\ pc' \in [Offices -> Labels] /\ \A p \in Offices \ {o} : pc'[p] = pc[p]
        /\ \/ pc'[o] \in {"reply", Unlocking(r)}
           \/ pc'[o] = "capacity" /\ r.op = "create"
           \/ pc'[o] = "read" /\ r.op = "balance"
           \/ pc'[o] = "decide" /\ r.op = "transfer" /\ r.id # Admin
    BY <1>1, <1>5, <2>2, <2>3 DEF TypeOK, Authenticate, Goto, Labels
  <2>5. reply' \in [Offices -> {NoReply} \cup [code : ReturnCodes, balance : 0 .. WORD - 1]]
    BY <1>1, <1>2, <1>5, <2>2 DEF TypeOK, Authenticate, SetReply, ReturnCodes
  <2>6. TypeOK'
    BY <1>1, <1>5, <2>4, <2>5 DEF TypeOK, Authenticate
  <2>7. \A p \in Offices : Stage(p)'
    BY <1>1, <1>5, <2>1, <2>3, <2>4 DEF Authenticate, Stage
  <2> QED
    BY <1>3, <2>6, <2>7 DEF Inv
<1> QED
  BY <1>4, <1>5

(* The steps of handleCreateAccount and createAccount. *)
LEMMA InvCreate ==
  ASSUME Inv, NEW o \in Offices, CreateStep(o)
  PROVE  Inv'
<1> DEFINE r == request[o]
<1>1. TypeOK /\ (\A p \in Offices : Stage(p)) /\ AdminFirst
  BY DEF Inv
<1>2. r \in Requests /\ r.op = "create"
  BY <1>1 DEF Stage, CreateStep, Capacity, Exists, SetId, SetBalance, SetSalt, SetHash, Assign,
              Load, Store, Verify
<1>3. /\ r.target \in Ids /\ r.amount \in 0 .. WORD - 1 /\ r.newPassword \in Passwords
      /\ 0 \in 0 .. WORD - 1
  BY <1>2, RequestFields, AccountsAssumption
<1>4. ASSUME Capacity(o) \/ Exists(o) \/ Verify(o) PROVE Inv'
  <2>1. AdminFirst'
    BY <1>1, <1>4 DEF AdminFirst, AdminUntouched, Capacity, Exists, Verify
  <2>2. TypeOK'
    BY <1>1, <1>3, <1>4
    DEF TypeOK, Capacity, Exists, Verify, Goto, SetReply, Labels, ReturnCodes
  <2>3. \A p \in Offices : Stage(p)'
    BY <1>1, <1>2, <1>4 DEF TypeOK, Capacity, Exists, Verify, Goto, Labels, Stage
  <2> QED
    BY <2>1, <2>2, <2>3 DEF Inv
<1>5. ASSUME NEW from \in {"setId", "setBalance", "setSalt", "setHash"},
             NEW to \in {"setBalance", "setSalt", "setHash", "load"},
             NEW cell,
             numAccounts \in Indices => cell \in AccountRecords,
             Assign(o, from, to, cell)
      PROVE  Inv'
  <2>1. AdminFirst'
    <3>1. 0 \in Indices
      BY AccountsAssumption DEF Indices, Ids
    <3>2. accounts'[0] = accounts[0]
      BY <1>1, <1>5, <3>1 DEF AdminFirst, Assign, TypeOK
    <3> QED
      BY <1>1, <1>5, <3>2 DEF AdminFirst, AdminUntouched, Assign
  <2>2. TypeOK'
    BY <1>1, <1>5 DEF TypeOK, Assign, Goto, Labels, handler
  <2>3. \A p \in Offices : Stage(p)'
    BY <1>1, <1>2, <1>5 DEF TypeOK, Assign, Goto, handler, Stage
  <2> QED
    BY <2>1, <2>2, <2>3 DEF Inv
<1>6. numAccounts \in Indices => Cell \in AccountRecords
  BY <1>1 DEF TypeOK, Cell
<1>7. CASE SetId(o)
  <2>1. numAccounts \in Indices => [Cell EXCEPT !.id = r.target] \in AccountRecords
    BY <1>3, <1>6 DEF AccountRecords
  <2> QED
    BY <1>5, <1>7, <2>1 DEF SetId
<1>8. CASE SetBalance(o)
  <2>1. numAccounts \in Indices => [Cell EXCEPT !.balance = r.amount] \in AccountRecords
    BY <1>3, <1>6 DEF AccountRecords
  <2> QED
    BY <1>5, <1>8, <2>1 DEF SetBalance
<1>9. CASE SetSalt(o)
  <2>1. numAccounts \in Indices => [Cell EXCEPT !.salt = r] \in AccountRecords
    BY <1>2, <1>6 DEF AccountRecords, Salts
  <2> QED
    BY <1>5, <1>9, <2>1 DEF SetSalt
<1>10. CASE SetHash(o)
  <2>1. numAccounts \in Indices => [Cell EXCEPT !.hash = <<r.newPassword, r>>] \in AccountRecords
    BY <1>2, <1>3, <1>6 DEF AccountRecords, Salts
  <2> QED
    BY <1>5, <1>10, <2>1 DEF SetHash
<1>11. ASSUME Load(o) \/ Store(o) PROVE Inv'
  <2>1. AdminFirst'
    BY <1>1, <1>11 DEF AdminFirst, AdminUntouched, Load, Store, TypeOK
  <2>2. TypeOK'
    BY <1>1, <1>11 DEF TypeOK, Load, Store, Goto, Labels, handler
  <2>3. \A p \in Offices : Stage(p)'
    BY <1>1, <1>2, <1>11 DEF TypeOK, Load, Store, Goto, handler, Stage
  <2> QED
    BY <2>1, <2>2, <2>3 DEF Inv
<1> QED
  BY <1>4, <1>7, <1>8, <1>9, <1>10, <1>11 DEF CreateStep

(* The balance that a handler reads is a word. *)
LEMMA BalanceIsWord ==
  ASSUME TypeOK, NEW id, NEW b \in BalanceOf(id)
  PROVE  b \in 0 .. WORD - 1
<1>1. CASE Find(id) = NoIndex
  BY <1>1 DEF BalanceOf
<1>2. CASE Find(id) # NoIndex
  BY <1>2, FindIsHolder DEF BalanceOf, TypeOK, AccountRecords
<1> QED
  BY <1>1, <1>2

(* A look-up for anyone but the administrator passes the first cell by. *)
LEMMA ClientsAreFurther ==
  ASSUME Inv, NEW id, id # Admin, Find(id) # NoIndex
  PROVE  Find(id) \in Indices \ {0}
  BY FindIsHolder DEF Inv, AdminFirst, AdminUntouched

(* handleCheckBalance and handleTransfer after the authentication. *)
LEMMA InvTransfer ==
  ASSUME Inv, NEW o \in Offices, Read(o) \/ TransferStep(o)
  PROVE  Inv'
<1> DEFINE r == request[o]
<1>1. TypeOK /\ (\A p \in Offices : Stage(p)) /\ AdminFirst
  BY DEF Inv
<1>2. r \in Requests
  BY <1>1 DEF Stage, Read, TransferStep, Decide, Debit, Credit, ReadBack
<1>3. /\ r.amount \in 0 .. WORD - 1 /\ (r.op = "transfer" => r.target # Admin)
      /\ (r.op = "transfer" /\ r.id # r.target => First(r) # Second(r))
  BY <1>2, RequestFields
<1>4. /\ Unlocking(r) \in {"unlockFirst", "unlockSecond"}
      /\ (Unlocking(r) = "unlockSecond" => First(r) # Second(r))
  BY DEF Unlocking
<1>5. CASE Read(o)
  <2>1. PICK b \in BalanceOf(r.id) : SetReply(o, "OK", b)
    BY <1>5 DEF Read
  <2>2. b \in 0 .. WORD - 1
    BY <1>1, BalanceIsWord
  <2>3. TypeOK'
    BY <1>1, <1>4, <1>5, <2>1, <2>2 DEF TypeOK, Read, Goto, SetReply, Labels, ReturnCodes
  <2>4. \A p \in Offices : Stage(p)'
    BY <1>1, <1>2, <1>4, <1>5 DEF TypeOK, Read, Goto, Stage
  <2>5. AdminFirst'
    BY <1>1, <1>5 DEF AdminFirst, AdminUntouched, Read
  <2> QED
    BY <2>3, <2>4, <2>5 DEF Inv
<1>6. CASE ReadBack(o)
  <2>1. PICK b \in BalanceOf(r.id) : SetReply(o, "OK", b)
    BY <1>6 DEF ReadBack
  <2>2. b \in 0 .. WORD - 1
    BY <1>1, BalanceIsWord
  <2>3. TypeOK'
    BY <1>1, <1>6, <2>1, <2>2 DEF TypeOK, ReadBack, Goto, SetReply, Labels, ReturnCodes
  <2>4. \A p \in Offices : Stage(p)'
    BY <1>1, <1>2, <1>3, <1>6 DEF TypeOK, ReadBack, Goto, Stage
  <2>5. AdminFirst'
    BY <1>1, <1>6 DEF AdminFirst, AdminUntouched, ReadBack
  <2> QED
    BY <2>3, <2>4, <2>5 DEF Inv
<1>7. CASE Decide(o)
  <2> DEFINE s == Find(r.id)
             d == Find(r.target)
  <2>1. r.op = "transfer" /\ r.id # Admin /\ r.target # Admin
    BY <1>1, <1>3, <1>7 DEF Stage, Decide
  <2>2. /\ s \in 0 .. NoIndex /\ d \in 0 .. NoIndex
        /\ s # NoIndex => s \in Indices \ {0}
        /\ d # NoIndex => d \in Indices \ {0}
    BY <2>1, FindIsHolder, ClientsAreFurther
  <2>3. /\ source' = [source EXCEPT ![o] = s] /\ dest' = [dest EXCEPT ![o] = d]
        /\ UNCHANGED <<accounts, numAccounts, accountMutexes, request, loaded>>
    BY <1>7 DEF Decide
  <2>4. \/ up' = FALSE /\ UNCHANGED <<pc, reply>>
        \/ (\E code \in ReturnCodes : Refused(o, code)) /\ UNCHANGED up
        \/ /\ Goto(o, "debit") /\ UNCHANGED <<reply, up>>
           /\ r.id # r.target /\ s # NoIndex /\ d # NoIndex
    <3> HIDE DEF s, d
    <3> QED
      BY <1>7 DEF Decide, ReturnCodes, s, d
  <2>5. /\ pc' \in [Offices -> Labels] /\ up' \in BOOLEAN
        /\ reply' \in [Offices -> {NoReply} \cup [code : ReturnCodes, balance : 0 .. WORD - 1]]
    <3> HIDE DEF s, d
    <3>1. up' = FALSE \/ UNCHANGED up
      BY <2>4
    <3>2. \/ UNCHANGED <<pc, reply>>
          \/ UNCHANGED reply /\ pc' = [pc EXCEPT ![o] = "debit"]
          \/ \E code \in ReturnCodes : /\ pc' = [pc EXCEPT ![o] = Unlocking(r)]
                                       /\ reply' = [reply EXCEPT ![o] = [code |-> code, balance |-> r.amount]]
      BY <2>4 DEF Refused, Goto, SetReply
    <3>3. "debit" \in Labels /\ Unlocking(r) \in Labels
      BY <1>4 DEF Labels
    <3>4. pc \in [Offices -> Labels] /\ up \in BOOLEAN
          /\ reply \in [Offices -> {NoReply} \cup [code : ReturnCodes, balance : 0 .. WORD - 1]]
      BY <1>1 DEF TypeOK
    <3>5. \A code \in ReturnCodes :
            [code |-> code, balance |-> r.amount] \in [code : ReturnCodes, balance : 0 .. WORD - 1]
      BY <1>3
    <3> HIDE DEF r
    <3> QED
      BY <3>1, <3>2, <3>3, <3>4, <3>5
  <2>6. TypeOK'
    BY <1>1, <2>2, <2>3, <2>5 DEF TypeOK
  <2>7. \A p \in Offices : Stage(p)'
    <3>1. /\ \A p \in Offices \ {o} : pc'[p] = pc[p]
          /\ \/ pc'[o] = pc[o]
             \/ pc'[o] = Unlocking(r)
             \/ pc'[o] = "debit" /\ r.id # r.target /\ s # NoIndex /\ d # NoIndex
      BY <1>1, <2>4 DEF TypeOK, Refused, Goto
    <3>2. pc[o] = "decide"
      BY <1>7 DEF Decide
    <3>3. source'[o] = s /\ dest'[o] = d
          /\ \A p \in Offices \ {o} : source'[p] = source[p] /\ dest'[p] = dest[p]
      BY <1>1, <2>3 DEF TypeOK
    <3> HIDE DEF s, d
    <3> QED
      BY <1>1, <1>2, <1>4, <2>1, <2>2, <2>3, <3>1, <3>2, <3>3 DEF Stage
  <2>8. AdminFirst'
    BY <1>1, <2>3 DEF AdminFirst, AdminUntouched
  <2> QED
    BY <2>6, <2>7, <2>8 DEF Inv
<1>8. ASSUME NEW i \in Indices \ {0}, NEW b \in 0 .. WORD - 1, NEW to \in {"credit", "readBack"},
             pc[o] \in {"debit", "credit"}, Goto(o, to),
             accounts' = [accounts EXCEPT ![i].balance = b],
             UNCHANGED <<numAccounts, accountMutexes, up, handler>>
      PROVE  Inv'
  <2>1. TypeOK'
    <3> DEFINE cell == [accounts[i] EXCEPT !.balance = b]
    <3>1. cell \in AccountRecords
      <4>1. accounts[i] \in AccountRecords
        BY <1>1, <1>8 DEF TypeOK
      <4> QED
        BY <1>8, <4>1 DEF AccountRecords
    <3>2. accounts' = [accounts EXCEPT ![i] = cell]
      BY <1>8
    <3>3. to \in Labels /\ i \in Indices
      BY <1>8 DEF Labels
    <3> HIDE DEF cell
    <3>4. accounts' \in [Indices -> AccountRecords] /\ pc' \in [Offices -> Labels]
      BY <1>1, <1>8, <3>1, <3>2, <3>3 DEF TypeOK, Goto
    <3> QED
      BY <1>1, <1>8, <3>4 DEF TypeOK, handler
  <2>2. \A p \in Offices : Stage(p)'
    BY <1>1, <1>2, <1>8 DEF TypeOK, Goto, handler, Stage
  <2>3. AdminFirst'
    BY <1>1, <1>8 DEF AdminFirst, AdminUntouched, TypeOK
  <2> QED
    BY <2>1, <2>2, <2>3 DEF Inv
<1>9. CASE Debit(o)
  <2>1. source[o] \in Indices \ {0}
    BY <1>1, <1>9 DEF Debit, Stage
  <2>2. Sub(accounts[source[o]].balance, r.amount) \in 0 .. WORD - 1
    BY <1>1, <1>3, <2>1, WordArithmetic DEF TypeOK, AccountRecords
  <2>3. accounts' = [accounts EXCEPT ![source[o]].balance = Sub(accounts[source[o]].balance, r.amount)]
    BY <1>9 DEF Debit
  <2> QED
    BY <1>8, <1>9, <2>1, <2>2, <2>3 DEF Debit
<1>10. CASE Credit(o)
  <2>1. dest[o] \in Indices \ {0}
    BY <1>1, <1>10 DEF Credit, Stage
  <2>2. Add(accounts[dest[o]].balance, r.amount) \in 0 .. WORD - 1
    BY <1>1, <1>3, <2>1, WordArithmetic DEF TypeOK, AccountRecords
  <2>3. accounts' = [accounts EXCEPT ![dest[o]].balance = Add(accounts[dest[o]].balance, r.amount)]
    BY <1>10 DEF Credit
  <2> QED
    BY <1>8, <1>10, <2>1, <2>2, <2>3 DEF Credit
<1> QED
  BY <1>5, <1>6, <1>7, <1>9, <1>10 DEF TransferStep

(* Every step keeps Inv. *)
LEMMA InvStep == Inv /\ [Next]_vars => Inv'
<1> SUFFICES ASSUME Inv, [Next]_vars PROVE Inv'
  OBVIOUS
<1>1. ASSUME NEW o \in Offices, Receive(o) \/ Handle(o) PROVE Inv'
  BY <1>1, InvLocks, InvArrival, InvCreate, InvTransfer DEF Handle
<1>2. CASE UNCHANGED vars
  BY <1>2 DEF vars, Inv, TypeOK, Stage, AdminFirst, AdminUntouched
<1> QED
  BY <1>1, <1>2 DEF Next

(* Whatever the offices do, every variable keeps its type: no index leaves  *)
(* the array, no balance its word, and a handler is where its request may   *)
(* lead it.                                                                 *)
THEOREM AccountsInvariant == Spec => []Inv
  BY InvInit, InvStep, PTL DEF Spec

(* TypeOK holds, with creations side by side as well. *)
THEOREM AccountsTyped == Spec => []TypeOK
<1>1. Inv => TypeOK
  BY DEF Inv
<1> QED
  BY <1>1, AccountsInvariant, PTL

(* The administrator's account never changes after the start, which is why  *)
(* handleCreateAccount may authenticate without its mutex.                  *)
THEOREM AdminNeverChanges == Spec => []AdminUntouched
<1>1. Inv => AdminUntouched
  BY DEF Inv, AdminFirst
<1> QED
  BY <1>1, AccountsInvariant, PTL

-----------------------------------------------------------------------------
(* The account mutexes.                                                    *)

(* What a handler at a label holds on behalf of a request. *)
AtFirst(label, r) ==
  \/ label \in {"lockSecond", "exists", "setId", "setBalance", "setSalt", "setHash", "load", "store",
                "verify", "read", "decide", "debit", "credit", "readBack", "unlockSecond", "unlockFirst"}
  \/ label = "authenticate" /\ r.op # "create"

AtSecond(label, r) ==
  \/ label \in {"exists", "setId", "setBalance", "setSalt", "setHash", "load", "store",
                "verify", "read", "decide", "debit", "credit", "readBack", "unlockSecond"}
  \/ label = "authenticate" /\ r.op # "create"
  \/ label = "unlockFirst" /\ First(r) = Second(r)

HeldAt(label, r) == {id \in {First(r), Second(r)} :
                       \/ id = First(r) /\ AtFirst(label, r)
                       \/ id = Second(r) /\ AtSecond(label, r)}

(* Held in terms of the label and the request, before and after a step. *)
LEMMA HeldIsHeldAt ==
  ASSUME NEW o
  PROVE  Held(o) = HeldAt(pc[o], request[o]) /\ Held(o)' = HeldAt(pc'[o], request'[o])
<1>1. Held(o) = HeldAt(pc[o], request[o])
  BY DEF Held, HeldAt, HoldsFirst, HoldsSecond, AtFirst, AtSecond
<1>2. Held(o)' = HeldAt(pc'[o], request'[o])
  BY DEF Held, HeldAt, HoldsFirst, HoldsSecond, AtFirst, AtSecond
<1> QED
  BY <1>1, <1>2

(* A step of an office concerns the labels and requests of no other.       *)
LEMMA OthersStay ==
  ASSUME TypeOK, NEW o \in Offices, Receive(o) \/ Handle(o), NEW p \in Offices, p # o
  PROVE  pc'[p] = pc[p] /\ request'[p] = request[p]
<1>1. CASE Receive(o)
  BY <1>1 DEF Receive, Goto, TypeOK
<1>2. CASE LockStep(o)
  BY <1>2 DEF LockStep, LockFirst, LockSecond, UnlockFirst, UnlockSecond, Goto, TypeOK, handler
<1>3. CASE Authenticate(o)
  BY <1>3 DEF Authenticate, Goto, TypeOK
<1>4. CASE CreateStep(o)
  BY <1>4 DEF CreateStep, Capacity, Exists, SetId, SetBalance, SetSalt, SetHash, Assign, Load, Store,
              Verify, Goto, TypeOK, handler
<1>5. CASE Read(o)
  BY <1>5 DEF Read, Goto, TypeOK
<1>6. CASE TransferStep(o)
  BY <1>6 DEF TransferStep, Decide, Refused, Debit, Credit, ReadBack, Goto, TypeOK, handler
<1>7. CASE Return(o)
  BY <1>7 DEF Return, Goto, TypeOK
<1> QED
  BY <1>1, <1>2, <1>3, <1>4, <1>5, <1>6, <1>7 DEF Handle

(* Between locks and unlocks, no mutex changes hands and no handler leaves  *)
(* or enters the sections of those it holds.                                *)
LEMMA HeldStays ==
  ASSUME Inv, NEW o \in Offices,
         Receive(o) \/ Authenticate(o) \/ CreateStep(o) \/ Read(o) \/ TransferStep(o) \/ Return(o)
  PROVE  accountMutexes' = accountMutexes /\ Held(o)' = Held(o)
<1> DEFINE r == request[o]
<1>1. TypeOK /\ Stage(o)
  BY DEF Inv
<1>2. pc[o] # "idle" => r \in Requests
  BY <1>1 DEF Stage
<1>3. pc[o] # "idle" /\ First(r) # Second(r) => r.op = "transfer" /\ r.id # r.target
  BY <1>2, RequestFields
<1>4. pc[o] # "idle" /\ r.op = "transfer" /\ r.id # r.target => First(r) # Second(r)
  BY <1>2, RequestFields
<1>5. CASE Receive(o)
  <2>1. PICK q \in Requests : /\ request' = [request EXCEPT ![o] = q]
                              /\ Goto(o, IF q.op = "create" THEN "authenticate" ELSE "lockFirst")
    BY <1>5 DEF Receive
  <2>2. HeldAt(pc[o], request[o]) = {} /\ HeldAt(pc'[o], request'[o]) = {}
    BY <1>1, <1>5, <2>1 DEF Receive, Goto, TypeOK, HeldAt, AtFirst, AtSecond
  <2> QED
    BY <1>5, <2>2, HeldIsHeldAt DEF Receive
<1>6. CASE Authenticate(o)
  <2>1. r \in Requests /\ r.op \in {"create", "balance", "transfer"}
    BY <1>2, <1>6, RequestFields DEF Authenticate
  <2>2. /\ pc[o] = "authenticate" /\ request'[o] = r
        /\ r.op = "create" => pc'[o] \in {"reply", "capacity"}
        /\ r.op # "create" => pc'[o] \in {Unlocking(r), "read", "decide"}
    BY <1>1, <1>6, <2>1 DEF Authenticate, Goto, TypeOK
  <2>3. HeldAt(pc'[o], r) = HeldAt("authenticate", r)
    <3>1. CASE r.op = "create"
      BY <2>2, <3>1 DEF HeldAt, AtFirst, AtSecond
    <3>2. CASE r.op # "create"
      <4>1. CASE pc'[o] \in {"read", "decide"}
        BY <3>2, <4>1 DEF HeldAt, AtFirst, AtSecond
      <4>2. CASE pc'[o] = Unlocking(r)
        BY <3>2, <4>2 DEF HeldAt, AtFirst, AtSecond, Unlocking
      <4> QED
        BY <2>2, <3>2, <4>1, <4>2
    <3> QED
      BY <3>1, <3>2
  <2> QED
    BY <1>6, <2>2, <2>3, HeldIsHeldAt DEF Authenticate
<1>7. CASE CreateStep(o)
  <2>1. /\ r.op = "create" /\ First(r) = Second(r)
    BY <1>1, <1>3, <1>7
    DEF Stage, CreateStep, Capacity, Exists, SetId, SetBalance, SetSalt, SetHash, Assign, Load, Store, Verify
  <2>2. request'[o] = r /\ accountMutexes' = accountMutexes
    BY <1>1, <1>7
    DEF TypeOK, CreateStep, Capacity, Exists, SetId, SetBalance, SetSalt, SetHash, Assign, Load, Store,
        Verify, handler
  <2>3. \/ pc[o] = "capacity" /\ pc'[o] \in {"reply", "lockFirst"}
        \/ /\ pc[o] \in {"exists", "setId", "setBalance", "setSalt", "setHash", "load", "store", "verify"}
           /\ pc'[o] \in {"setId", "setBalance", "setSalt", "setHash", "load", "store", "verify", "unlockFirst"}
    BY <1>1, <1>7
    DEF TypeOK, CreateStep, Capacity, Exists, SetId, SetBalance, SetSalt, SetHash, Assign, Load, Store,
        Verify, Goto
  <2>4. HeldAt(pc[o], r) = HeldAt(pc'[o], r)
    BY <2>1, <2>3 DEF HeldAt, AtFirst, AtSecond
  <2> QED
    BY <2>2, <2>4, HeldIsHeldAt
<1>8. CASE Read(o) \/ TransferStep(o)
  <2>1. request'[o] = r /\ accountMutexes' = accountMutexes
    BY <1>1, <1>8 DEF TypeOK, Read, TransferStep, Decide, Debit, Credit, ReadBack, handler
  <2>2. /\ pc[o] \in {"read", "decide", "debit", "credit", "readBack"}
        /\ \/ pc'[o] \in {"decide", "debit", "credit", "readBack"}
           \/ pc'[o] = Unlocking(r)
           \/ pc'[o] = "unlockSecond" /\ pc[o] = "readBack"
    BY <1>1, <1>8 DEF TypeOK, Read, TransferStep, Decide, Refused, Debit, Credit, ReadBack, Goto
  <2>3. pc[o] = "readBack" => First(r) # Second(r)
    BY <1>1, <1>4 DEF Stage
  <2>4. HeldAt(pc[o], r) = HeldAt(pc'[o], r)
    BY <2>2, <2>3 DEF HeldAt, AtFirst, AtSecond, Unlocking
  <2> QED
    BY <2>1, <2>4, HeldIsHeldAt
<1>9. CASE Return(o)
  <2>1. HeldAt(pc[o], request[o]) = {} /\ HeldAt(pc'[o], request'[o]) = {}
    BY <1>1, <1>9 DEF Return, Goto, TypeOK, HeldAt, AtFirst, AtSecond
  <2> QED
    BY <1>9, <2>1, HeldIsHeldAt DEF Return
<1> QED
  BY <1>5, <1>6, <1>7, <1>8, <1>9

(* A lock step moves one mutex between Nobody and the office, and in or out *)
(* of what the office holds.                                                *)
LEMMA HeldMoves ==
  ASSUME Inv, MutexOwners, NEW o \in Offices, LockStep(o)
  PROVE  \E m \in Ids :
           \/ /\ accountMutexes[m] = Nobody /\ accountMutexes' = [accountMutexes EXCEPT ![m] = o]
              /\ Held(o)' = Held(o) \cup {m}
           \/ /\ accountMutexes[m] = o /\ accountMutexes' = [accountMutexes EXCEPT ![m] = Nobody]
              /\ Held(o)' = Held(o) \ {m}
<1> DEFINE r == request[o]
<1>1. TypeOK /\ Stage(o)
  BY DEF Inv
<1>2. r \in Requests
  BY <1>1 DEF Stage, LockStep, LockFirst, LockSecond, UnlockSecond, UnlockFirst
<1>3. /\ First(r) \in Ids /\ Second(r) \in Ids
      /\ First(r) # Second(r) => r.op = "transfer"
      /\ r.op \in {"create", "balance", "transfer"}
  BY <1>2, RequestFields
<1>4. request'[o] = r
  BY DEF LockStep, LockFirst, LockSecond, UnlockSecond, UnlockFirst, handler
<1>5. Held(o) = HeldAt(pc[o], r) /\ Held(o)' = HeldAt(pc'[o], r)
  BY <1>4, HeldIsHeldAt
<1>6. CASE LockFirst(o)
  <2>1. /\ accountMutexes[First(r)] = Nobody
        /\ accountMutexes' = [accountMutexes EXCEPT ![First(r)] = o]
    BY <1>6 DEF LockFirst
  <2>2. /\ pc[o] = "lockFirst"
        /\ pc'[o] = IF Second(r) # First(r) THEN "lockSecond"
                    ELSE IF r.op = "create" THEN "exists" ELSE "authenticate"
    BY <1>1, <1>6 DEF LockFirst, Goto, TypeOK
  <2>3. HeldAt(pc[o], r) = {}
    BY <2>2 DEF HeldAt, AtFirst, AtSecond
  <2>4. HeldAt(pc'[o], r) = {First(r)}
    BY <2>2 DEF HeldAt, AtFirst, AtSecond
  <2>5. Held(o)' = Held(o) \cup {First(r)}
    BY <1>5, <2>3, <2>4
  <2> QED
    BY <1>3, <2>1, <2>5
<1>7. CASE LockSecond(o)
  <2>1. /\ accountMutexes[Second(r)] = Nobody
        /\ accountMutexes' = [accountMutexes EXCEPT ![Second(r)] = o]
    BY <1>7 DEF LockSecond
  <2>2. /\ pc[o] = "lockSecond" /\ pc'[o] = "authenticate" /\ First(r) # Second(r)
    BY <1>1, <1>7 DEF LockSecond, Goto, TypeOK, Stage
  <2>3. HeldAt(pc[o], r) = {First(r)}
    BY <2>2 DEF HeldAt, AtFirst, AtSecond
  <2>4. HeldAt(pc'[o], r) = {First(r), Second(r)}
    BY <1>3, <2>2 DEF HeldAt, AtFirst, AtSecond
  <2>5. Held(o)' = Held(o) \cup {Second(r)}
    BY <1>5, <2>3, <2>4
  <2> QED
    BY <1>3, <2>1, <2>5
<1>8. CASE UnlockSecond(o)
  <2>1. /\ accountMutexes' = [accountMutexes EXCEPT ![Second(r)] = Nobody]
        /\ pc[o] = "unlockSecond" /\ pc'[o] = "unlockFirst" /\ First(r) # Second(r)
    BY <1>1, <1>8 DEF UnlockSecond, Goto, TypeOK, Stage
  <2>2. HeldAt(pc[o], r) = {First(r), Second(r)} /\ HeldAt(pc'[o], r) = {First(r)}
    BY <2>1 DEF HeldAt, AtFirst, AtSecond
  <2>3. accountMutexes[Second(r)] = o
    BY <1>3, <1>5, <2>2 DEF MutexOwners
  <2>4. Held(o)' = Held(o) \ {Second(r)}
    BY <1>5, <2>1, <2>2
  <2> QED
    BY <1>3, <2>1, <2>3, <2>4
<1>9. CASE UnlockFirst(o)
  <2>1. /\ accountMutexes' = [accountMutexes EXCEPT ![First(r)] = Nobody]
        /\ pc[o] = "unlockFirst" /\ pc'[o] = "reply"
    BY <1>1, <1>9 DEF UnlockFirst, Goto, TypeOK
  <2>2. HeldAt(pc[o], r) = {First(r)} /\ HeldAt(pc'[o], r) = {}
    BY <2>1 DEF HeldAt, AtFirst, AtSecond
  <2>3. accountMutexes[First(r)] = o
    BY <1>3, <1>5, <2>2 DEF MutexOwners
  <2> QED
    BY <1>3, <1>5, <2>1, <2>2, <2>3
<1> QED
  BY <1>6, <1>7, <1>8, <1>9 DEF LockStep

(* Every step keeps the owners of the mutexes right. *)
LEMMA OwnersStep == Inv /\ MutexOwners /\ [Next]_vars => MutexOwners'
<1> SUFFICES ASSUME Inv, MutexOwners, [Next]_vars PROVE MutexOwners'
  OBVIOUS
<1>1. ASSUME NEW o \in Offices, Receive(o) \/ Handle(o) PROVE MutexOwners'
  <2>1. \A p \in Offices \ {o} : Held(p)' = Held(p)
    BY <1>1, OthersStay, HeldIsHeldAt DEF Inv
  <2>2. accountMutexes \in [Ids -> Offices \cup {Nobody}] /\ Nobody \notin Offices
    BY AccountsAssumption DEF Inv, TypeOK
  <2>3. CASE LockStep(o)
    BY <2>1, <2>2, <2>3, HeldMoves DEF MutexOwners
  <2>4. CASE ~ LockStep(o)
    <3>1. accountMutexes' = accountMutexes /\ Held(o)' = Held(o)
      BY <1>1, <2>4, HeldStays DEF Handle
    <3> QED
      BY <2>1, <3>1 DEF MutexOwners
  <2> QED
    BY <2>3, <2>4
<1>2. CASE UNCHANGED vars
  <2>1. \A o : Held(o)' = Held(o)
    BY <1>2, HeldIsHeldAt DEF vars
  <2> QED
    BY <1>2, <2>1 DEF vars, MutexOwners
<1> QED
  BY <1>1, <1>2 DEF Next

(* A mutex is owned by exactly the handler that is between its lock and its *)
(* unlock, on every path, those of the refusals included.                   *)
THEOREM MutexesCorrect == Spec => []MutexOwners
<1>1. Init => MutexOwners
  BY AccountsAssumption, HeldIsHeldAt DEF Init, MutexOwners, HeldAt, AtFirst, AtSecond
<1> QED
  BY <1>1, OwnersStep, AccountsInvariant, PTL DEF Spec

(* An office that waits holds the lower of its two mutexes at most.         *)
LEMMA WaitsUpwards == Inv /\ MutexOwners => NoCircularWait
<1> SUFFICES ASSUME Inv, MutexOwners, NEW o \in Offices, pc[o] \in {"lockFirst", "lockSecond"},
                    NEW id \in Ids, accountMutexes[id] = o
             PROVE  id < Wanted(o)
  BY DEF NoCircularWait
<1> DEFINE r == request[o]
<1>1. id \in HeldAt(pc[o], r)
  BY HeldIsHeldAt DEF MutexOwners
<1>2. pc[o] = "lockSecond" /\ id = First(r) /\ Wanted(o) = Second(r)
  BY <1>1 DEF HeldAt, AtFirst, AtSecond, Wanted
<1>3. r \in Requests /\ First(r) # Second(r)
  BY <1>2 DEF Inv, Stage
<1>4. First(r) \in Ids /\ Second(r) \in Ids /\ First(r) <= Second(r)
  BY <1>3, RequestFields
<1> QED
  BY <1>2, <1>3, <1>4, AccountsAssumption DEF Ids

(* An office that waits for a mutex holds only mutexes of smaller ids, so   *)
(* no ring of offices can wait for each other: the comment of               *)
(* handleTransfer on the order of the locks is right.                       *)
THEOREM NoOfficesInARing == Spec => []NoCircularWait
<1> QED
  BY WaitsUpwards, MutexesCorrect, AccountsInvariant, PTL

(* An office at a mutex that somebody owns; every other place of a handler *)
(* lets it go on.                                                          *)
Waits(o) == pc[o] \in {"lockFirst", "lockSecond"} /\ accountMutexes[Wanted(o)] # Nobody

SomeoneRuns == (\E o \in Offices : Waits(o)) => \E p \in Offices : pc[p] # "idle" /\ ~Waits(p)

(* The handlers never stop one another: while some office waits, there is  *)
(* one in a handler that does not, and it owns the highest mutex that is   *)
(* waited for.                                                             *)
THEOREM HandlersGoOn == Spec => []SomeoneRuns
<1>1. Inv /\ MutexOwners => SomeoneRuns
  <2> SUFFICES ASSUME Inv, MutexOwners, NEW o \in Offices, Waits(o)
               PROVE  \E p \in Offices : pc[p] # "idle" /\ ~Waits(p)
    BY DEF SomeoneRuns
  <2>1. \A p \in Offices : Waits(p) => Wanted(p) \in Ids
    <3> SUFFICES ASSUME NEW p \in Offices, Waits(p) PROVE Wanted(p) \in Ids
      OBVIOUS
    <3>1. request[p] \in Requests
      BY DEF Inv, Stage, Waits
    <3> QED
      BY <3>1, RequestFields DEF Wanted
  <2> DEFINE Depths == {MAX_BANK_ACCOUNTS - Wanted(p) : p \in {q \in Offices : Waits(q)}}
  <2>2. Depths \subseteq Nat /\ Depths # {}
    BY <2>1, AccountsAssumption DEF Ids
  <2>3. PICK least \in Depths : \A d \in Depths : least <= d
    <3> HIDE DEF Depths
    <3> QED
      BY <2>2, LeastExists
  <2>4. PICK p \in Offices : Waits(p) /\ least = MAX_BANK_ACCOUNTS - Wanted(p)
    BY <2>3
  <2>5. \A q \in Offices : Waits(q) => Wanted(q) <= Wanted(p)
    <3> SUFFICES ASSUME NEW q \in Offices, Waits(q) PROVE Wanted(q) <= Wanted(p)
      OBVIOUS
    <3>1. least <= MAX_BANK_ACCOUNTS - Wanted(q)
      BY <2>3
    <3> QED
      BY <2>1, <2>4, <3>1, AccountsAssumption DEF Ids
  <2>6. PICK q \in Offices : accountMutexes[Wanted(p)] = q
    BY <2>1, <2>4 DEF Inv, TypeOK, Waits
  <2>7. pc[q] # "idle"
    BY <2>1, <2>4, <2>6 DEF MutexOwners, Held, HoldsFirst, HoldsSecond
  <2>8. ~Waits(q)
    <3> SUFFICES ASSUME Waits(q) PROVE FALSE
      OBVIOUS
    <3>1. Wanted(p) < Wanted(q)
      BY <2>1, <2>4, <2>6, WaitsUpwards DEF NoCircularWait, Waits
    <3> QED
      BY <2>1, <2>4, <2>5, <3>1, AccountsAssumption DEF Ids
  <2> QED
    BY <2>7, <2>8
<1> QED
  BY <1>1, MutexesCorrect, AccountsInvariant, PTL

-----------------------------------------------------------------------------
(* Creations one at a time.                                                *)

(* createAccount between its first statement and the end of numAccounts++. *)
Making == {"setBalance", "setSalt", "setHash", "load", "store"}

(* Only one office creates an account. *)
Solo == \A o, p \in Offices : Creating(o) /\ Creating(p) => o = p

(* The cells before numAccounts have clients, those behind it nobody, and   *)
(* the one at numAccounts has somebody while an account is being made.      *)
Array ==
  /\ numAccounts \in 1 .. MAX_BANK_ACCOUNTS
  /\ \A i \in Indices : i > numAccounts => accounts[i].id = Admin
  /\ (\A o \in Offices : pc[o] \notin Making) =>
       \A i \in Indices : i = numAccounts => accounts[i].id = Admin
  /\ \A i \in 1 .. numAccounts - 1 : accounts[i].id # Admin
  /\ \A i, j \in Indices : accounts[i].id = accounts[j].id /\ accounts[i].id # Admin => i = j

(* An office that passed the test of numAccounts has a cell left. *)
Room(o) ==
  Creating(o) /\ pc[o] \in {"lockFirst", "exists", "setId"} \cup Making =>
    numAccounts < MAX_BANK_ACCOUNTS

Made(r) ==
  \E i \in 1 .. numAccounts - 1 :
    /\ accounts[i].id = r.target /\ accounts[i].balance = r.amount
    /\ accounts[i].hash = <<r.newPassword, accounts[i].salt>>

(* What createAccount has done so far. *)
Progress(o) ==
  LET r == request[o]
  IN  /\ pc[o] = "setId" => Holders(r.target) = {}
      /\ pc[o] \in Making => accounts[numAccounts].id = r.target
      /\ pc[o] \in {"setSalt", "setHash", "load", "store"} => accounts[numAccounts].balance = r.amount
      /\ pc[o] \in {"setHash", "load", "store"} => accounts[numAccounts].salt = r
      /\ pc[o] \in {"load", "store"} => accounts[numAccounts].hash = <<r.newPassword, r>>
      /\ pc[o] = "store" => loaded[o] = numAccounts
      /\ pc[o] = "verify" => Made(r)
      /\ pc[o] = "unlockFirst" /\ r.op = "create" /\ reply[o].code = "OK" => Made(r)

(* What a transfer has decided. *)
Working(o) ==
  LET r == request[o]
  IN  /\ pc[o] \in {"debit", "credit"} =>
           /\ accounts[source[o]].id = r.id /\ accounts[dest[o]].id = r.target
           /\ accounts[dest[o]].balance + r.amount <= MAX_BALANCE
      /\ pc[o] = "debit" => accounts[source[o]].balance >= r.amount

Own(o) == Room(o) /\ Progress(o) /\ Working(o)

SerialInv == Solo /\ Array /\ BalancesInRange /\ \A o \in Offices : Own(o)

(* The bank opens with the administrator alone. *)
LEMMA SerialInit == Init => SerialInv
<1> SUFFICES ASSUME Init PROVE SerialInv
  OBVIOUS
<1>1. MAX_BANK_ACCOUNTS \in Nat \ {0} /\ MAX_BALANCE \in Nat
  BY AccountsAssumption
<1>2. Solo /\ \A o \in Offices : Own(o)
  BY DEF Init, Solo, Own, Room, Progress, Working, Creating, Making
<1>3. \A i \in Indices : accounts[i].id = Admin /\ accounts[i].balance = 0
  BY DEF Init, ZeroAccount, Admin
<1>4. Array
  <2>1. numAccounts = 1
    BY DEF Init
  <2>2. \A i \in 1 .. numAccounts - 1 : accounts[i].id # Admin
    BY <2>1
  <2> QED
    BY <1>1, <1>3, <2>1, <2>2 DEF Array
<1>5. BalancesInRange
  BY <1>1, <1>3 DEF BalancesInRange
<1> QED
  BY <1>2, <1>4, <1>5 DEF SerialInv

-----------------------------------------------------------------------------
(* What one office does to the others.                                     *)

(* An office holds the mutexes of the accounts it works on. *)
LEMMA HoldsItsAccounts ==
  ASSUME Inv, NEW o \in Offices
  PROVE  /\ pc[o] \in {"setId", "verify"} \cup Making => request[o].target \in Held(o)
         /\ pc[o] = "unlockFirst" /\ request[o].op = "create" => request[o].target \in Held(o)
         /\ pc[o] \in {"debit", "credit"} => request[o].id \in Held(o) /\ request[o].target \in Held(o)
<1> DEFINE r == request[o]
<1>1. Stage(o)
  BY DEF Inv
<1>2. ASSUME pc[o] \in {"setId", "verify"} \cup Making PROVE r.target \in Held(o)
  <2>1. r.op = "create"
    BY <1>1, <1>2 DEF Stage, Making
  <2>2. First(r) = r.target
    BY <2>1 DEF First, LockOrder
  <2> QED
    BY <1>2, <2>2 DEF Held, HoldsFirst, Making
<1>3. ASSUME pc[o] = "unlockFirst", r.op = "create" PROVE r.target \in Held(o)
  <2>1. First(r) = r.target
    BY <1>3 DEF First, LockOrder
  <2> QED
    BY <1>3, <2>1 DEF Held, HoldsFirst
<1>4. ASSUME pc[o] \in {"debit", "credit"} PROVE r.id \in Held(o) /\ r.target \in Held(o)
  <2>1. r.op = "transfer"
    BY <1>1, <1>4 DEF Stage
  <2>2. {First(r), Second(r)} = {r.id, r.target}
    BY <2>1 DEF First, Second, LockOrder
  <2> QED
    BY <1>4, <2>2 DEF Held, HoldsFirst, HoldsSecond
<1> QED
  BY <1>2, <1>3, <1>4

(* No account is in the hands of two offices. *)
LEMMA HoldersApart ==
  ASSUME Inv, MutexOwners, NEW o \in Offices, NEW q \in Offices, o # q
  PROVE  Held(o) \cap Held(q) = {}
<1> SUFFICES ASSUME NEW id \in Held(o), id \in Held(q) PROVE FALSE
  OBVIOUS
<1>1. id \in Ids
  <2>1. pc[o] # "idle"
    BY DEF Held, HoldsFirst, HoldsSecond
  <2>2. request[o] \in Requests
    BY <2>1 DEF Inv, Stage
  <2> QED
    BY <2>2, RequestFields DEF Held
<1> QED
  BY <1>1 DEF MutexOwners

(* A step of an office leaves what the others know as it is. *)
LEMMA OthersKeep ==
  ASSUME TypeOK, NEW o \in Offices, Receive(o) \/ Handle(o), NEW q \in Offices, q # o
  PROVE  /\ pc'[q] = pc[q] /\ request'[q] = request[q] /\ reply'[q] = reply[q]
         /\ source'[q] = source[q] /\ dest'[q] = dest[q] /\ loaded'[q] = loaded[q]
<1>1. pc'[q] = pc[q] /\ request'[q] = request[q]
  BY OthersStay
<1>2. CASE Receive(o)
  BY <1>1, <1>2 DEF Receive
<1>3. CASE LockStep(o)
  BY <1>1, <1>3 DEF LockStep, LockFirst, LockSecond, UnlockFirst, UnlockSecond, handler
<1>4. CASE Authenticate(o)
  BY <1>1, <1>4 DEF Authenticate, SetReply, TypeOK
<1>5. CASE CreateStep(o)
  BY <1>1, <1>5 DEF CreateStep, Capacity, Exists, SetId, SetBalance, SetSalt, SetHash, Assign, Load,
                    Store, Verify, SetReply, TypeOK, handler
<1>6. CASE Read(o)
  BY <1>1, <1>6 DEF Read, SetReply, TypeOK
<1>7. CASE TransferStep(o)
  <2>1. CASE Decide(o)
    BY <1>1, <2>1 DEF Decide, Refused, SetReply, TypeOK
  <2>2. CASE Debit(o) \/ Credit(o) \/ ReadBack(o)
    BY <1>1, <2>2 DEF Debit, Credit, ReadBack, SetReply, TypeOK, handler
  <2> QED
    BY <1>7, <2>1, <2>2 DEF TransferStep
<1>8. CASE Return(o)
  BY <1>1, <1>8 DEF Return, TypeOK
<1> QED
  BY <1>2, <1>3, <1>4, <1>5, <1>6, <1>7, <1>8 DEF Handle

(* A step may write accounts whose mutex its office holds, and free cells.  *)
Careful(o) ==
  /\ \A i \in Indices : accounts'[i] = accounts[i] \/ accounts[i].id \in Held(o) \cup {Admin}
  /\ ~ Creating(o) => /\ numAccounts' = numAccounts
                      /\ \A i \in Indices : accounts'[i].id = accounts[i].id

(* The cell that createAccount fills is free, or has the new id already.    *)
LEMMA NewCell ==
  ASSUME Inv, SerialInv, NEW o \in Offices, pc[o] \in {"setId"} \cup Making
  PROVE  /\ Creating(o) /\ request[o] \in Requests /\ request[o].target \in Held(o)
         /\ request[o].target # Admin
         /\ numAccounts \in Indices \ {0} /\ numAccounts \in Nat
         /\ pc[o] = "setId" => accounts[numAccounts].id = Admin
         /\ pc[o] # "setId" => accounts[numAccounts].id = request[o].target
<1>1. Stage(o) /\ Own(o)
  BY DEF SerialInv, Inv
<1>2. /\ Creating(o) /\ request[o] \in Requests /\ request[o].target \in Held(o)
      /\ request[o].target # Admin
  BY <1>1, RequestFields, HoldsItsAccounts DEF Stage, Creating, Making
<1>3. numAccounts \in Indices \ {0} /\ numAccounts \in Nat
  BY <1>1, <1>2, AccountsAssumption DEF Own, Room, Making, SerialInv, Array, Indices, Ids
<1>4. \A p \in Offices \ {o} : pc[p] \notin Making
  BY <1>2 DEF SerialInv, Solo, Inv, Stage, Creating, Making
<1>5. CASE pc[o] = "setId"
  BY <1>2, <1>3, <1>4, <1>5 DEF SerialInv, Array, Making
<1>6. CASE pc[o] # "setId"
  BY <1>1, <1>2, <1>3, <1>6 DEF Own, Progress, Making
<1> QED
  BY <1>5, <1>6

(* A step writes accounts whose mutex its office holds, and free cells.     *)
LEMMA CarefulStep ==
  ASSUME Inv, SerialInv, NEW o \in Offices, Receive(o) \/ Handle(o)
  PROVE  Careful(o)
<1>1. TypeOK
  BY DEF Inv
<1>2. CASE Receive(o) \/ LockStep(o) \/ Authenticate(o) \/ Read(o) \/ Return(o)
  BY <1>2 DEF Careful, Receive, LockStep, LockFirst, LockSecond, UnlockFirst, UnlockSecond,
              Authenticate, Read, Return
<1>3. CASE Capacity(o) \/ Exists(o) \/ Load(o) \/ Verify(o) \/ Decide(o) \/ ReadBack(o)
  BY <1>3 DEF Careful, Capacity, Exists, Load, Verify, Decide, ReadBack
<1>4. CASE SetId(o) \/ SetBalance(o) \/ SetSalt(o) \/ SetHash(o)
  <2>1. pc[o] \in {"setId", "setBalance", "setSalt", "setHash"}
    BY <1>4 DEF SetId, SetBalance, SetSalt, SetHash, Assign
  <2>2. \A i \in Indices \ {numAccounts} : accounts'[i] = accounts[i]
    BY <1>1, <1>4 DEF SetId, SetBalance, SetSalt, SetHash, Assign, TypeOK
  <2>3. Creating(o) /\ accounts[numAccounts].id \in Held(o) \cup {Admin}
    BY <2>1, NewCell DEF Making
  <2> QED
    BY <2>2, <2>3 DEF Careful
<1>5. CASE Store(o)
  <2>1. Creating(o)
    BY <1>5, NewCell DEF Store, Making
  <2> QED
    BY <1>5, <2>1 DEF Store, Careful
<1>6. CASE Debit(o) \/ Credit(o)
  <2>1. pc[o] \in {"debit", "credit"} /\ Stage(o) /\ Own(o)
    BY <1>6 DEF Debit, Credit, SerialInv, Inv
  <2>2. /\ source[o] \in Indices /\ accounts[source[o]].id \in Held(o)
        /\ dest[o] \in Indices /\ accounts[dest[o]].id \in Held(o)
    BY <2>1, HoldsItsAccounts DEF Own, Working, Stage
  <2>3. numAccounts' = numAccounts
    BY <1>6 DEF Debit, Credit
  <2>4. \E b : \E i \in {source[o], dest[o]} :
          accounts' = [accounts EXCEPT ![i] = [@ EXCEPT !.balance = b]]
    BY <1>6 DEF Debit, Credit
  <2>5. \A i \in Indices : accounts'[i] = accounts[i] \/ accounts[i].id \in Held(o) \cup {Admin}
    BY <1>1, <2>2, <2>4 DEF TypeOK
  <2>6. \A i \in Indices : accounts'[i].id = accounts[i].id
    BY <1>1, <2>2, <2>4 DEF TypeOK, AccountRecords
  <2> QED
    BY <2>3, <2>5, <2>6 DEF Careful
<1> QED
  BY <1>2, <1>3, <1>4, <1>5, <1>6 DEF Handle, CreateStep, TransferStep

(* Then the others find everything as they left it. *)
LEMMA OthersUndisturbed ==
  ASSUME Inv, MutexOwners, SerialInv, NEW o \in Offices, Receive(o) \/ Handle(o),
         NEW q \in Offices, q # o
  PROVE  Own(q)'
<1> DEFINE r == request[q]
<1>1. /\ pc'[q] = pc[q] /\ request'[q] = r /\ reply'[q] = reply[q]
      /\ source'[q] = source[q] /\ dest'[q] = dest[q] /\ loaded'[q] = loaded[q]
  BY OthersKeep DEF Inv
<1>2. Own(q) /\ Stage(q) /\ Held(o) \cap Held(q) = {} /\ Careful(o)
  BY HoldersApart, CarefulStep DEF SerialInv, Inv
<1>3. \A i \in Indices : accounts[i].id \in Held(q) /\ accounts[i].id # Admin => accounts'[i] = accounts[i]
  BY <1>2 DEF Careful
<1>4. Working(q)'
  <2>1. CASE pc[q] \notin {"debit", "credit"}
    BY <1>1, <2>1 DEF Working
  <2>2. CASE pc[q] \in {"debit", "credit"}
    <3>1. /\ source[q] \in Indices /\ dest[q] \in Indices
          /\ accounts[source[q]].id = r.id /\ accounts[dest[q]].id = r.target /\ r.id # Admin
          /\ r.id \in Held(q) /\ r.target \in Held(q)
      BY <1>2, <2>2, HoldsItsAccounts DEF Own, Working, Stage
    <3>2. r.target # Admin
      BY <1>2, <2>2, RequestFields DEF Stage
    <3>3. accounts'[source[q]] = accounts[source[q]] /\ accounts'[dest[q]] = accounts[dest[q]]
      BY <1>3, <3>1, <3>2
    <3> QED
      BY <1>1, <1>2, <3>3 DEF Own, Working
  <2> QED
    BY <2>1, <2>2
<1>5. CASE ~ Creating(q)
  <2>1. Room(q)'
    BY <1>1, <1>5 DEF Room, Creating
  <2>2. pc[q] \notin {"setId", "verify"} \cup Making /\ ~ (pc[q] = "unlockFirst" /\ r.op = "create")
    BY <1>2, <1>5 DEF Stage, Creating, Making
  <2>3. Progress(q)'
    BY <1>1, <2>2 DEF Progress, Making
  <2> QED
    BY <1>4, <2>1, <2>3 DEF Own
<1>6. CASE Creating(q)
  <2>1. numAccounts' = numAccounts /\ \A i \in Indices : accounts'[i].id = accounts[i].id
    BY <1>2, <1>6 DEF SerialInv, Solo, Careful
  <2>2. Room(q)'
    BY <1>1, <1>2, <2>1 DEF Own, Room, Creating, Making
  <2>3. r.target # Admin
    BY <1>2, <1>6, RequestFields DEF Stage, Creating
  <2>4. ASSUME pc[q] \in Making PROVE accounts'[numAccounts] = accounts[numAccounts]
    <3>1. accounts[numAccounts].id = r.target /\ r.target \in Held(q)
      BY <1>2, <2>4, HoldsItsAccounts DEF Own, Progress
    <3>2. numAccounts \in Indices
      BY <1>2, <1>6, <2>4, AccountsAssumption DEF Own, Room, SerialInv, Array, Indices, Ids
    <3> QED
      BY <1>3, <2>3, <3>1, <3>2
  <2>5. ASSUME Made(r), r.target \in Held(q) PROVE Made(r)'
    <3>1. PICK i \in 1 .. numAccounts - 1 :
              /\ accounts[i].id = r.target /\ accounts[i].balance = r.amount
              /\ accounts[i].hash = <<r.newPassword, accounts[i].salt>>
      BY <2>5 DEF Made
    <3>2. i \in Indices
      BY AccountsAssumption DEF SerialInv, Array, Indices, Ids
    <3>3. accounts'[i] = accounts[i]
      BY <1>3, <2>3, <2>5, <3>1, <3>2
    <3> QED
      BY <1>1, <2>1, <3>1, <3>3 DEF Made
  <2>6. pc[q] = "setId" => Holders(r.target)' = {}
    BY <1>1, <1>2, <2>1 DEF Own, Progress, Holders
  <2>7. pc[q] = "verify" \/ (pc[q] = "unlockFirst" /\ r.op = "create") => r.target \in Held(q)
    BY HoldsItsAccounts
  <2>8. Progress(q)'
    BY <1>1, <1>2, <2>1, <2>4, <2>5, <2>6, <2>7 DEF Own, Progress, Making
  <2> QED
    BY <1>4, <2>2, <2>8 DEF Own
<1> QED
  BY <1>5, <1>6

(* The parts of SerialInv make the whole.                                  *)
LEMMA Assembled ==
  ASSUME Inv, MutexOwners, SerialInv, NEW o \in Offices, Receive(o) \/ Handle(o),
         Solo', Array', BalancesInRange', Own(o)'
  PROVE  SerialInv'
<1>1. \A q \in Offices : Own(q)'
  BY OthersUndisturbed
<1> QED
  BY <1>1 DEF SerialInv

-----------------------------------------------------------------------------
(* SerialInv is inductive: one lemma per kind of step.                     *)

(* Only a creation that arrives makes another office create.               *)
LEMMA StaysSolo ==
  ASSUME Inv, SerialInv, NEW o \in Offices, Receive(o) \/ Handle(o),
         Creating(o)' => Creating(o)
  PROVE  Solo'
<1>1. \A q \in Offices : Creating(q)' => Creating(q)
  BY OthersKeep DEF Inv, Creating
<1> QED
  BY <1>1 DEF SerialInv, Solo

(* Steps that leave the array alone. *)
LEMMA QuietStep ==
  ASSUME Inv, MutexOwners, SerialInv, NEW o \in Offices, Receive(o) \/ Handle(o),
         UNCHANGED <<accounts, numAccounts>>, pc'[o] \in Making <=> pc[o] \in Making,
         Solo', Own(o)'
  PROVE  SerialInv'
<1>1. BalancesInRange'
  BY DEF SerialInv, BalancesInRange
<1>2. \A q \in Offices : pc'[q] \in Making <=> pc[q] \in Making
  BY OthersKeep DEF Inv
<1>3. Array'
  BY <1>2 DEF SerialInv, Array
<1> QED
  BY <1>1, <1>3, Assembled

(* The arrival of a request, the mutexes, and the return to the queue. *)
LEMMA SerialArrival ==
  ASSUME SerialCreates, Inv, MutexOwners, SerialInv, NEW o \in Offices, Receive(o)
  PROVE  SerialInv'
<1>1. PICK r \in Requests :
          /\ r.op = "create" => \A p \in Offices : ~ Creating(p)
          /\ request' = [request EXCEPT ![o] = r]
          /\ pc' = [pc EXCEPT ![o] = IF r.op = "create" THEN "authenticate" ELSE "lockFirst"]
  BY DEF Receive, Goto
<1>2. pc'[o] \in {"authenticate", "lockFirst"} /\ request'[o] = r /\ pc[o] = "idle"
      /\ (pc'[o] = "lockFirst" => r.op # "create")
  BY <1>1 DEF Inv, TypeOK, Receive
<1>3. \A q \in Offices \ {o} : Creating(q)' <=> Creating(q)
  BY OthersKeep DEF Inv, Creating
<1>4. Creating(o)' => \A p \in Offices : ~ Creating(p)
  BY <1>1, <1>2 DEF Creating
<1>5. Solo'
  BY <1>3, <1>4 DEF SerialInv, Solo
<1>6. Own(o)'
  BY <1>2 DEF Own, Room, Progress, Working, Creating, Making
<1> QED
  BY <1>2, <1>5, <1>6, QuietStep DEF Receive, Making

LEMMA SerialLocks ==
  ASSUME Inv, MutexOwners, SerialInv, NEW o \in Offices, LockStep(o) \/ Return(o)
  PROVE  SerialInv'
<1> DEFINE r == request[o]
<1>1. Stage(o) /\ Own(o) /\ TypeOK /\ r \in Requests
  BY DEF SerialInv, Inv, Stage, LockStep, LockFirst, LockSecond, UnlockFirst, UnlockSecond, Return
<1>2. UNCHANGED <<accounts, numAccounts>>
  BY DEF LockStep, LockFirst, LockSecond, UnlockFirst, UnlockSecond, Return
<1>3. Handle(o)
  BY DEF Handle
<1>4. CASE LockFirst(o)
  <2>1. /\ pc[o] = "lockFirst" /\ request' = request
        /\ pc'[o] \in {"lockSecond", "exists", "authenticate"} /\ (pc'[o] = "exists" => r.op = "create")
    BY <1>1, <1>4 DEF LockFirst, Goto, handler, TypeOK
  <2>2. Creating(o)' => Creating(o)
    BY <2>1 DEF Creating
  <2>3. Own(o)'
    BY <1>1, <1>2, <2>1 DEF Own, Room, Progress, Working, Creating, Making
  <2> QED
    BY <1>2, <1>3, <2>1, <2>2, <2>3, QuietStep, StaysSolo DEF Making
<1>5. CASE LockSecond(o)
  <2>1. pc[o] = "lockSecond" /\ request' = request /\ pc'[o] = "authenticate"
    BY <1>1, <1>5 DEF LockSecond, Goto, handler, TypeOK
  <2>2. Creating(o)' => Creating(o)
    BY <2>1 DEF Creating
  <2>3. Own(o)'
    BY <2>1 DEF Own, Room, Progress, Working, Making
  <2> QED
    BY <1>2, <1>3, <2>1, <2>2, <2>3, QuietStep, StaysSolo DEF Making
<1>6. CASE UnlockSecond(o)
  <2>1. pc[o] = "unlockSecond" /\ request' = request /\ pc'[o] = "unlockFirst" /\ r.op = "transfer"
    BY <1>1, <1>6, RequestFields DEF UnlockSecond, Goto, handler, TypeOK, Stage
  <2>2. Creating(o)' => Creating(o)
    BY <2>1 DEF Creating
  <2>3. Own(o)'
    BY <2>1 DEF Own, Room, Progress, Working, Making
  <2> QED
    BY <1>2, <1>3, <2>1, <2>2, <2>3, QuietStep, StaysSolo DEF Making
<1>7. CASE UnlockFirst(o)
  <2>1. pc[o] = "unlockFirst" /\ request' = request /\ pc'[o] = "reply"
    BY <1>1, <1>7 DEF UnlockFirst, Goto, handler, TypeOK
  <2>2. Creating(o)' => Creating(o)
    BY <2>1 DEF Creating
  <2>3. Own(o)'
    BY <2>1 DEF Own, Room, Progress, Working, Making
  <2> QED
    BY <1>2, <1>3, <2>1, <2>2, <2>3, QuietStep, StaysSolo DEF Making
<1>8. CASE Return(o)
  <2>1. pc[o] = "reply" /\ pc'[o] = "idle"
    BY <1>1, <1>8 DEF Return, Goto, TypeOK
  <2>2. Creating(o)' => Creating(o)
    BY <2>1 DEF Creating
  <2>3. Own(o)'
    BY <2>1 DEF Own, Room, Progress, Working, Making
  <2> QED
    BY <1>2, <1>3, <2>1, <2>2, <2>3, QuietStep, StaysSolo DEF Making
<1> QED
  BY <1>4, <1>5, <1>6, <1>7, <1>8 DEF LockStep

(* Authentication and the look at a balance. *)
LEMMA SerialReading ==
  ASSUME Inv, MutexOwners, SerialInv, NEW o \in Offices, Authenticate(o) \/ Read(o) \/ ReadBack(o)
  PROVE  SerialInv'
<1> DEFINE r == request[o]
<1>1. Stage(o) /\ Own(o) /\ TypeOK /\ r \in Requests
  BY DEF SerialInv, Inv, Stage, Authenticate, Read, ReadBack
<1>2. UNCHANGED <<accounts, numAccounts, request>> /\ pc[o] \in {"authenticate", "read", "readBack"}
  BY DEF Authenticate, Read, ReadBack
<1>3. Handle(o)
  BY DEF Handle, TransferStep
<1>4. Unlocking(r) \in {"unlockFirst", "unlockSecond"}
  BY DEF Unlocking
<1>5. /\ pc'[o] \in {"reply", "capacity", "read", "decide", "unlockFirst", "unlockSecond"}
      /\ pc'[o] = "unlockFirst" => r.op # "create"
  <2>1. CASE Authenticate(o)
    BY <1>1, <1>4, <2>1, RequestFields DEF Authenticate, Goto, TypeOK
  <2>2. CASE Read(o)
    BY <1>1, <1>4, <2>2 DEF Read, Goto, TypeOK, Stage
  <2>3. CASE ReadBack(o)
    BY <1>1, <2>3 DEF ReadBack, Goto, TypeOK
  <2> QED
    BY <2>1, <2>2, <2>3
<1>6. Creating(o)' => Creating(o)
  BY <1>2 DEF Creating
<1>7. Own(o)'
  BY <1>2, <1>5 DEF Own, Room, Progress, Working, Making
<1> QED
  BY <1>2, <1>3, <1>5, <1>6, <1>7, QuietStep, StaysSolo DEF Making

(* The steps of a creation that leave the array alone. *)
LEMMA SerialChecks ==
  ASSUME Inv, MutexOwners, SerialInv, NEW o \in Offices,
         Capacity(o) \/ Exists(o) \/ Load(o) \/ Verify(o)
  PROVE  SerialInv'
<1> DEFINE r == request[o]
<1>1. Stage(o) /\ Own(o) /\ TypeOK /\ r \in Requests /\ r.op = "create"
  BY DEF SerialInv, Inv, Stage, Capacity, Exists, Load, Verify
<1>2. /\ UNCHANGED <<accounts, numAccounts, request>>
      /\ pc[o] \in {"capacity", "exists", "load", "verify"}
  BY DEF Capacity, Exists, Load, Verify
<1>3. Handle(o)
  BY DEF Handle, CreateStep
<1>4. Creating(o)' => Creating(o)
  BY <1>2 DEF Creating
<1>5. Creating(o)
  BY <1>1, <1>2 DEF Creating
<1>6. Working(o)' /\ Room(o)' /\ (pc'[o] \in Making <=> pc[o] \in Making)
  <2>1. CASE Capacity(o)
    <3>1. pc'[o] \in {"reply", "lockFirst"} /\ (pc'[o] = "lockFirst" => ~ (numAccounts >= MAX_BANK_ACCOUNTS))
      BY <1>1, <2>1 DEF Capacity, Goto, TypeOK
    <3>2. pc'[o] = "lockFirst" => numAccounts < MAX_BANK_ACCOUNTS
      BY <3>1, AccountsAssumption DEF SerialInv, Array
    <3> QED
      BY <1>2, <2>1, <3>1, <3>2 DEF Working, Room, Making, Capacity
  <2>2. CASE Exists(o) \/ Load(o) \/ Verify(o)
    <3>1. \/ pc[o] = "exists" /\ pc'[o] \in {"setId", "unlockFirst"}
          \/ pc[o] = "load" /\ pc'[o] = "store"
          \/ pc[o] = "verify" /\ pc'[o] = "unlockFirst"
      BY <1>1, <2>2 DEF Exists, Load, Verify, Goto, TypeOK
    <3> QED
      BY <1>1, <1>2, <1>5, <3>1 DEF Own, Working, Room, Making
  <2> QED
    BY <2>1, <2>2
<1>7. Progress(o)'
  <2>1. CASE Capacity(o)
    <3>1. pc'[o] \in {"reply", "lockFirst"}
      BY <1>1, <2>1 DEF Capacity, Goto, TypeOK
    <3> QED
      BY <3>1 DEF Progress, Making
  <2>2. CASE Exists(o)
    <3>1. CASE Find(r.target) # NoIndex
      <4>1. pc'[o] = "unlockFirst" /\ reply'[o].code = "ID_IN_USE"
        BY <1>1, <2>2, <3>1 DEF Exists, Goto, SetReply, TypeOK
      <4> QED
        BY <4>1 DEF Progress, Making
    <3>2. CASE Find(r.target) = NoIndex
      <4>1. pc'[o] = "setId" /\ Holders(r.target) = {}
        BY <1>1, <2>2, <3>2, FindIsHolder DEF Exists, Goto, TypeOK
      <4>2. Holders(r.target)' = {}
        BY <1>2, <4>1 DEF Holders
      <4> QED
        BY <1>2, <4>1, <4>2 DEF Progress, Making
    <3> QED
      BY <3>1, <3>2
  <2>3. CASE Load(o)
    <3>1. pc[o] = "load" /\ pc'[o] = "store" /\ loaded'[o] = numAccounts
      BY <1>1, <2>3 DEF Load, Goto, TypeOK
    <3> QED
      BY <1>1, <1>2, <3>1 DEF Own, Progress, Making
  <2>4. CASE Verify(o)
    <3>1. pc[o] = "verify" /\ pc'[o] = "unlockFirst"
      BY <1>1, <2>4 DEF Verify, Goto, TypeOK
    <3>2. Made(r)'
      BY <1>1, <1>2, <3>1 DEF Own, Progress, Made
    <3> QED
      BY <1>2, <3>1, <3>2 DEF Progress, Making
  <2> QED
    BY <2>1, <2>2, <2>3, <2>4
<1> QED
  BY <1>2, <1>3, <1>4, <1>6, <1>7, QuietStep, StaysSolo DEF Own

(* What the statements of createAccount assign.                            *)
LEMMA CellWritten ==
  ASSUME Inv, SerialInv, NEW o \in Offices, SetId(o) \/ SetBalance(o) \/ SetSalt(o) \/ SetHash(o)
  PROVE  LET r == request[o]
             k == numAccounts
         IN  /\ UNCHANGED <<numAccounts, request, reply, source, dest, loaded>>
             /\ \A i \in Indices \ {k} : accounts'[i] = accounts[i]
             /\ accounts'[k].id = r.target
             /\ accounts'[k].balance \in {accounts[k].balance, r.amount}
             /\ \/ pc[o] = "setId" /\ pc'[o] = "setBalance"
                \/ pc[o] = "setBalance" /\ pc'[o] = "setSalt" /\ accounts'[k].balance = r.amount
                \/ /\ pc[o] = "setSalt" /\ pc'[o] = "setHash"
                   /\ accounts'[k].balance = accounts[k].balance /\ accounts'[k].salt = r
                \/ /\ pc[o] = "setHash" /\ pc'[o] = "load"
                   /\ accounts'[k].balance = accounts[k].balance /\ accounts'[k].salt = accounts[k].salt
                   /\ accounts'[k].hash = <<r.newPassword, r>>
<1> DEFINE r == request[o]
           k == numAccounts
<1>1. TypeOK /\ pc[o] \in {"setId", "setBalance", "setSalt", "setHash"}
  BY DEF SetId, SetBalance, SetSalt, SetHash, Assign, Inv
<1>2. k \in Indices /\ (pc[o] # "setId" => accounts[k].id = r.target)
  BY <1>1, NewCell DEF Making
<1>3. accounts[k] \in AccountRecords
  BY <1>1, <1>2 DEF TypeOK
<1>4. CASE SetId(o)
  BY <1>1, <1>2, <1>3, <1>4 DEF SetId, Assign, Cell, Goto, TypeOK, handler, AccountRecords
<1>5. CASE SetBalance(o)
  BY <1>1, <1>2, <1>3, <1>5 DEF SetBalance, Assign, Cell, Goto, TypeOK, handler, AccountRecords
<1>6. CASE SetSalt(o)
  BY <1>1, <1>2, <1>3, <1>6 DEF SetSalt, Assign, Cell, Goto, TypeOK, handler, AccountRecords
<1>7. CASE SetHash(o)
  BY <1>1, <1>2, <1>3, <1>7 DEF SetHash, Assign, Cell, Goto, TypeOK, handler, AccountRecords
<1> QED
  BY <1>4, <1>5, <1>6, <1>7

(* They keep the invariant. *)
LEMMA SerialAssign ==
  ASSUME Inv, MutexOwners, SerialInv, NEW o \in Offices,
         SetId(o) \/ SetBalance(o) \/ SetSalt(o) \/ SetHash(o)
  PROVE  SerialInv'
<1> DEFINE r == request[o]
           k == numAccounts
<1>1. Stage(o) /\ Own(o) /\ TypeOK /\ r \in Requests /\ r.op = "create"
  BY DEF SerialInv, Inv, Stage, SetId, SetBalance, SetSalt, SetHash, Assign
<1>2. Handle(o)
  BY DEF Handle, CreateStep
<1>3. pc[o] \in {"setId", "setBalance", "setSalt", "setHash"}
  BY DEF SetId, SetBalance, SetSalt, SetHash, Assign
<1>4. /\ Creating(o) /\ r.target # Admin /\ r.amount \in 0 .. MAX_BALANCE
      /\ k \in Indices \ {0} /\ k \in Nat
      /\ pc[o] = "setId" => accounts[k].id = Admin
      /\ pc[o] # "setId" => accounts[k].id = r.target
  BY <1>1, <1>3, NewCell, AccountsAssumption DEF Making
<1>5. k > 0
  BY <1>4
<1>6. \A p \in Offices \ {o} : pc[p] \notin Making
  BY <1>4 DEF SerialInv, Solo, Inv, Stage, Creating, Making
<1>7. /\ UNCHANGED <<numAccounts, request, reply, source, dest, loaded>>
      /\ \A i \in Indices \ {k} : accounts'[i] = accounts[i]
      /\ accounts'[k].id = r.target
      /\ accounts'[k].balance \in {accounts[k].balance, r.amount}
      /\ \/ pc[o] = "setId" /\ pc'[o] = "setBalance"
         \/ pc[o] = "setBalance" /\ pc'[o] = "setSalt" /\ accounts'[k].balance = r.amount
         \/ /\ pc[o] = "setSalt" /\ pc'[o] = "setHash"
            /\ accounts'[k].balance = accounts[k].balance /\ accounts'[k].salt = r
         \/ /\ pc[o] = "setHash" /\ pc'[o] = "load"
            /\ accounts'[k].balance = accounts[k].balance /\ accounts'[k].salt = accounts[k].salt
            /\ accounts'[k].hash = <<r.newPassword, r>>
  BY CellWritten
<1>8. Solo'
  BY <1>2, <1>4, StaysSolo
<1>9. BalancesInRange'
  BY <1>4, <1>7 DEF SerialInv, BalancesInRange
<1>10. pc'[o] \in Making
  BY <1>7 DEF Making
<1>11. Array'
  <2>1. \A i, j \in Indices : accounts'[i].id = accounts'[j].id /\ accounts'[i].id # Admin => i = j
    <3>1. \A i \in Indices \ {k} : accounts[i].id # r.target
      <4>1. CASE pc[o] = "setId"
        BY <1>1, <4>1 DEF Own, Progress, Holders
      <4>2. CASE pc[o] # "setId"
        BY <1>4, <4>2 DEF SerialInv, Array
      <4> QED
        BY <4>1, <4>2
    <3> QED
      BY <1>7, <3>1 DEF SerialInv, Array
  <2>2. \A i \in Indices : i > k => accounts'[i].id = Admin
    BY <1>5, <1>7 DEF SerialInv, Array
  <2>3. \A i \in 1 .. k - 1 : accounts'[i].id # Admin
    BY <1>5, <1>7, AccountsAssumption DEF SerialInv, Array, Indices, Ids
  <2> QED
    BY <1>7, <1>10, <2>1, <2>2, <2>3 DEF SerialInv, Array
<1>12. Own(o)'
  BY <1>1, <1>3, <1>4, <1>7 DEF Own, Room, Progress, Working, Making, Creating
<1> QED
  BY <1>2, <1>8, <1>9, <1>11, <1>12, Assembled

(* The new account counts. *)
LEMMA SerialStore ==
  ASSUME Inv, MutexOwners, SerialInv, NEW o \in Offices, Store(o)
  PROVE  SerialInv'
<1> DEFINE r == request[o]
           k == numAccounts
<1>1. Stage(o) /\ Own(o) /\ TypeOK /\ r \in Requests /\ r.op = "create" /\ pc[o] = "store"
  BY DEF SerialInv, Inv, Stage, Store
<1>2. Handle(o) /\ Creating(o) /\ r.target # Admin
  BY <1>1, RequestFields DEF Handle, CreateStep, Creating
<1>3. k \in 1 .. MAX_BANK_ACCOUNTS - 1 /\ k \in Indices
  BY <1>1, <1>2, AccountsAssumption DEF Own, Room, Making, SerialInv, Array, Indices, Ids
<1>4. /\ UNCHANGED <<accounts, request, reply, source, dest, loaded>>
      /\ numAccounts' = k + 1 /\ pc'[o] = "verify"
  BY <1>1 DEF Store, Goto, Own, Progress, TypeOK, handler
<1>5. /\ accounts[k].id = r.target /\ accounts[k].balance = r.amount
      /\ accounts[k].hash = <<r.newPassword, accounts[k].salt>>
  BY <1>1 DEF Own, Progress, Making
<1>6. Solo'
  BY <1>2, StaysSolo
<1>7. BalancesInRange'
  BY <1>4 DEF SerialInv, BalancesInRange
<1>8. Array'
  <2>1. MAX_BANK_ACCOUNTS \in Nat
    BY AccountsAssumption
  <2>2. \A i \in Indices : i >= k + 1 => accounts[i].id = Admin
    BY <1>3 DEF SerialInv, Array, Indices, Ids
  <2>3. \A i \in 1 .. k + 1 - 1 : accounts[i].id # Admin
    <3> SUFFICES ASSUME NEW i \in 1 .. k + 1 - 1 PROVE accounts[i].id # Admin
      OBVIOUS
    <3>1. i = k \/ i \in 1 .. k - 1
      BY <1>3
    <3> QED
      BY <1>2, <1>5, <3>1 DEF SerialInv, Array
  <2>4. k + 1 \in 1 .. MAX_BANK_ACCOUNTS
    BY <1>3, <2>1
  <2> QED
    BY <1>3, <1>4, <2>2, <2>3, <2>4 DEF SerialInv, Array, Indices, Ids
<1>9. Made(r)'
  <2>1. k \in 1 .. numAccounts' - 1
    BY <1>3, <1>4
  <2> QED
    BY <1>4, <1>5, <2>1 DEF Made
<1>10. Own(o)'
  BY <1>4, <1>9 DEF Own, Room, Progress, Working, Making
<1> QED
  BY <1>2, <1>6, <1>7, <1>8, <1>10, Assembled

(* Within the limits, sums and differences of balances do not wrap.        *)
LEMMA SumFits ==
  ASSUME NEW a \in 0 .. MAX_BALANCE, NEW b \in 0 .. MAX_BALANCE
  PROVE  Add(a, b) = a + b
<1>1. WORD \in Nat /\ MAX_BALANCE \in Nat /\ 2 * MAX_BALANCE < WORD
  BY AccountsAssumption
<1>2. a + b \in 0 .. WORD - 1
  BY <1>1
<1> QED
  BY <1>1, <1>2 DEF Add

LEMMA DifferenceFits ==
  ASSUME NEW a \in 0 .. MAX_BALANCE, NEW b \in 0 .. MAX_BALANCE, a >= b
  PROVE  Sub(a, b) = a - b /\ Sub(a, b) \in 0 .. MAX_BALANCE
<1>1. WORD \in Nat /\ MAX_BALANCE \in Nat /\ 2 * MAX_BALANCE < WORD
  BY AccountsAssumption
<1>2. a - b \in 0 .. MAX_BALANCE /\ a - b < WORD /\ a + WORD - b = (a - b) + WORD
  BY <1>1
<1>3. ((a - b) + WORD) % WORD = a - b
  BY <1>1, <1>2
<1> QED
  BY <1>2, <1>3 DEF Sub

(* What a transfer decides on is so. *)
LEMMA SerialDecide ==
  ASSUME Inv, MutexOwners, SerialInv, NEW o \in Offices, Decide(o)
  PROVE  SerialInv'
<1> DEFINE r == request[o]
           s == Find(r.id)
           d == Find(r.target)
<1>1. Stage(o) /\ Own(o) /\ TypeOK /\ r \in Requests /\ r.op = "transfer" /\ pc[o] = "decide"
  BY DEF SerialInv, Inv, Stage, Decide
<1>2. Handle(o)
  BY DEF Handle, TransferStep
<1>3. UNCHANGED <<accounts, numAccounts, request>>
  BY DEF Decide
<1>4. r.amount \in 0 .. MAX_BALANCE /\ MAX_BALANCE \in Nat /\ WORD \in Nat /\ 2 * MAX_BALANCE < WORD
  BY <1>1, AccountsAssumption
<1>5. Unlocking(r) \in {"unlockFirst", "unlockSecond"}
  BY DEF Unlocking
<1>6. CASE pc'[o] # "debit"
  <2>1. pc'[o] \in {"decide", "unlockFirst", "unlockSecond"}
    BY <1>1, <1>5, <1>6 DEF Decide, Refused, Goto, TypeOK
  <2>2. Own(o)'
    BY <1>1, <1>3, <2>1 DEF Own, Room, Progress, Working, Making
  <2> QED
    BY <1>1, <1>2, <1>3, <2>1, <2>2, QuietStep, StaysSolo DEF Making, Creating
<1>7. CASE pc'[o] = "debit"
  <2>1. d # NoIndex /\ s # NoIndex
    BY <1>1, <1>5, <1>7 DEF Decide, Refused, Goto, TypeOK
  <2>2. /\ d \in Indices /\ s \in Indices /\ accounts[d].id = r.target /\ accounts[s].id = r.id
    BY <2>1, FindIsHolder
  <2>3. source'[o] = s /\ dest'[o] = d
    BY <1>1 DEF Decide, TypeOK
  <2>4. ~ (accounts[s].balance < r.amount) /\ ~ TooHigh(d, r.amount)
    BY <1>1, <1>5, <1>7, <2>1 DEF Decide, Refused, Goto, TypeOK
  <2>5. accounts[d].balance \in 0 .. MAX_BALANCE /\ accounts[s].balance \in 0 .. MAX_BALANCE
    BY <2>2 DEF SerialInv, BalancesInRange
  <2>6. Add(accounts[d].balance, r.amount) = accounts[d].balance + r.amount
    BY <1>4, <2>5, SumFits
  <2>7. accounts[d].balance + r.amount <= MAX_BALANCE
    BY <1>4, <2>4, <2>5, <2>6 DEF TooHigh
  <2>8. accounts[s].balance >= r.amount
    BY <1>4, <2>4, <2>5
  <2>9. Own(o)'
    BY <1>1, <1>3, <1>7, <2>2, <2>3, <2>7, <2>8 DEF Own, Room, Progress, Working, Making, Creating
  <2> QED
    BY <1>1, <1>2, <1>3, <1>7, <2>9, QuietStep, StaysSolo DEF Making, Creating
<1> QED
  BY <1>6, <1>7

(* The money moves, from one account to another. *)
LEMMA MoneyMoves ==
  ASSUME Inv, SerialInv, NEW o \in Offices, Debit(o) \/ Credit(o)
  PROVE  LET r == request[o]
             s == source[o]
             d == dest[o]
             Moved(i, balance) ==
               /\ accounts'[i].id = accounts[i].id /\ accounts'[i].salt = accounts[i].salt
               /\ accounts'[i].hash = accounts[i].hash
               /\ accounts'[i].balance = balance /\ balance \in 0 .. MAX_BALANCE
               /\ \A k \in Indices \ {i} : accounts'[k] = accounts[k]
         IN  /\ UNCHANGED <<numAccounts, request, reply, source, dest, loaded>>
             /\ s \in Indices /\ d \in Indices /\ s # d
             /\ accounts[s].id = r.id /\ accounts[d].id = r.target
             /\ \/ /\ pc[o] = "debit" /\ pc'[o] = "credit"
                   /\ Moved(s, accounts[s].balance - r.amount)
                \/ /\ pc[o] = "credit" /\ pc'[o] = "readBack"
                   /\ Moved(d, accounts[d].balance + r.amount)
<1> DEFINE r == request[o]
           s == source[o]
           d == dest[o]
<1>1. Stage(o) /\ Own(o) /\ TypeOK /\ r \in Requests /\ r.id # r.target /\ pc[o] \in {"debit", "credit"}
  BY DEF SerialInv, Inv, Stage, Debit, Credit
<1>2. r.amount \in 0 .. MAX_BALANCE /\ MAX_BALANCE \in Nat
  BY <1>1, AccountsAssumption
<1>3. /\ s \in Indices /\ d \in Indices /\ s # d /\ accounts[s].id = r.id /\ accounts[d].id = r.target
      /\ accounts[d].balance + r.amount <= MAX_BALANCE
      /\ pc[o] = "debit" => accounts[s].balance >= r.amount
  BY <1>1 DEF Own, Working, Stage
<1>4. accounts[s].balance \in 0 .. MAX_BALANCE /\ accounts[d].balance \in 0 .. MAX_BALANCE
      /\ accounts[s] \in AccountRecords /\ accounts[d] \in AccountRecords
  BY <1>1, <1>3 DEF SerialInv, BalancesInRange, TypeOK
<1>5. UNCHANGED <<numAccounts, request, reply, source, dest, loaded>>
  BY DEF Debit, Credit, handler
<1>6. CASE Debit(o)
  <2>1. pc[o] = "debit" /\ pc'[o] = "credit"
    BY <1>1, <1>6 DEF Debit, Goto, TypeOK
  <2>2. Sub(accounts[s].balance, r.amount) = accounts[s].balance - r.amount
        /\ accounts[s].balance - r.amount \in 0 .. MAX_BALANCE
    BY <1>2, <1>3, <1>4, <2>1, DifferenceFits
  <2>3. accounts' = [accounts EXCEPT ![s] = [@ EXCEPT !.balance = Sub(accounts[s].balance, r.amount)]]
    BY <1>6 DEF Debit
  <2>4. accounts'[s] = [accounts[s] EXCEPT !.balance = accounts[s].balance - r.amount]
        /\ \A k \in Indices \ {s} : accounts'[k] = accounts[k]
    BY <1>1, <1>3, <2>2, <2>3 DEF TypeOK
  <2>5. /\ accounts'[s].id = accounts[s].id /\ accounts'[s].salt = accounts[s].salt
        /\ accounts'[s].hash = accounts[s].hash /\ accounts'[s].balance = accounts[s].balance - r.amount
    BY <1>4, <2>4 DEF AccountRecords
  <2> QED
    BY <1>3, <1>5, <2>1, <2>2, <2>4, <2>5
<1>7. CASE Credit(o)
  <2>1. pc[o] = "credit" /\ pc'[o] = "readBack"
    BY <1>1, <1>7 DEF Credit, Goto, TypeOK
  <2>2. Add(accounts[d].balance, r.amount) = accounts[d].balance + r.amount
        /\ accounts[d].balance + r.amount \in 0 .. MAX_BALANCE
    BY <1>2, <1>3, <1>4, SumFits
  <2>3. accounts' = [accounts EXCEPT ![d] = [@ EXCEPT !.balance = Add(accounts[d].balance, r.amount)]]
    BY <1>7 DEF Credit
  <2>4. accounts'[d] = [accounts[d] EXCEPT !.balance = accounts[d].balance + r.amount]
        /\ \A k \in Indices \ {d} : accounts'[k] = accounts[k]
    BY <1>1, <1>3, <2>2, <2>3 DEF TypeOK
  <2>5. /\ accounts'[d].id = accounts[d].id /\ accounts'[d].salt = accounts[d].salt
        /\ accounts'[d].hash = accounts[d].hash /\ accounts'[d].balance = accounts[d].balance + r.amount
    BY <1>4, <2>4 DEF AccountRecords
  <2> QED
    BY <1>3, <1>5, <2>1, <2>2, <2>4, <2>5
<1> QED
  BY <1>6, <1>7

(* The invariant moves along. *)
LEMMA SerialMove ==
  ASSUME Inv, MutexOwners, SerialInv, NEW o \in Offices, Debit(o) \/ Credit(o)
  PROVE  SerialInv'
<1> DEFINE r == request[o]
           s == source[o]
           d == dest[o]
<1>1. Stage(o) /\ Own(o) /\ TypeOK /\ r \in Requests /\ r.op = "transfer"
  BY DEF SerialInv, Inv, Stage, Debit, Credit
<1>2. Handle(o)
  BY DEF Handle, TransferStep
<1>3. /\ UNCHANGED <<numAccounts, request, reply, source, dest, loaded>>
      /\ s \in Indices /\ d \in Indices /\ s # d
      /\ accounts[s].id = r.id /\ accounts[d].id = r.target
      /\ \A i \in Indices : accounts'[i].id = accounts[i].id
      /\ accounts'[s].balance \in 0 .. MAX_BALANCE /\ accounts'[d].balance \in 0 .. MAX_BALANCE
      /\ \A i \in Indices \ {s, d} : accounts'[i] = accounts[i]
      /\ \/ pc[o] = "debit" /\ pc'[o] = "credit" /\ accounts'[d] = accounts[d]
         \/ pc[o] = "credit" /\ pc'[o] = "readBack"
  BY MoneyMoves DEF SerialInv, BalancesInRange
<1>4. Solo'
  BY <1>1, <1>2, <1>3, StaysSolo DEF Creating
<1>5. BalancesInRange'
  BY <1>3 DEF SerialInv, BalancesInRange
<1>6. \A q \in Offices : pc'[q] \in Making <=> pc[q] \in Making
  BY <1>2, <1>3, OthersKeep DEF Inv, Making
<1>7. Array'
  <2>1. \A i \in 1 .. numAccounts - 1 : i \in Indices
    BY AccountsAssumption DEF SerialInv, Array, Indices, Ids
  <2> QED
    BY <1>3, <1>6, <2>1 DEF SerialInv, Array
<1>8. Own(o)'
  BY <1>1, <1>3 DEF Own, Room, Progress, Working, Making, Creating
<1> QED
  BY <1>2, <1>4, <1>5, <1>7, <1>8, Assembled

(* No step breaks SerialInv. *)
LEMMA SerialStep ==
  ASSUME SerialCreates
  PROVE  Inv /\ MutexOwners /\ SerialInv /\ [Next]_vars => SerialInv'
<1> SUFFICES ASSUME Inv, MutexOwners, SerialInv, [Next]_vars PROVE SerialInv'
  OBVIOUS
<1>1. ASSUME NEW o \in Offices, Receive(o) \/ Handle(o) PROVE SerialInv'
  BY <1>1, SerialArrival, SerialLocks, SerialReading, SerialChecks, SerialAssign, SerialStore,
     SerialDecide, SerialMove DEF Handle, CreateStep, TransferStep
<1>2. CASE UNCHANGED vars
  <2>1. Solo' /\ Array' /\ BalancesInRange'
    BY <1>2 DEF vars, SerialInv, Solo, Creating, Array, BalancesInRange
  <2>2. ASSUME NEW o \in Offices PROVE Own(o)'
    <3>1. \A r : (Made(r)' <=> Made(r)) /\ Holders(r.target)' = Holders(r.target)
      BY <1>2 DEF vars, Made, Holders
    <3> QED
      BY <1>2, <3>1 DEF vars, SerialInv, Own, Room, Progress, Working, Creating
  <2> QED
    BY <2>1, <2>2 DEF SerialInv
<1> QED
  BY <1>1, <1>2 DEF Next

(* The invariant of the serial bank. *)
THEOREM SerialBank == ASSUME SerialCreates PROVE Spec => []SerialInv
  BY SerialInit, SerialStep, AccountsInvariant, MutexesCorrect, PTL DEF Spec

(* No balance ever exceeds MAX_BALANCE or wraps around, however many        *)
(* transfers run side by side.                                              *)
THEOREM BalancesStayInRange == ASSUME SerialCreates PROVE Spec => []BalancesInRange
<1>1. SerialInv => BalancesInRange
  BY DEF SerialInv
<1> QED
  BY <1>1, SerialBank, PTL

(* Between the checks of handleTransfer and its last assignment nobody      *)
(* changes what was checked.                                                *)
THEOREM DecisionsHold == ASSUME SerialCreates PROVE Spec => []DecisionStillHolds
<1>1. SerialInv => DecisionStillHolds
  BY DEF SerialInv, Own, Working, DecisionStillHolds
<1> QED
  BY <1>1, SerialBank, PTL

(* A creation answered OK has made the one account of its id, with the      *)
(* password and the balance it was asked for.                               *)
THEOREM CreationsCorrect == ASSUME SerialCreates PROVE Spec => []CreatedAsAsked
<1>1. Inv /\ SerialInv => CreatedAsAsked
  <2> SUFFICES ASSUME Inv, SerialInv, NEW o \in Offices, pc[o] = "unlockFirst",
                      request[o].op = "create", reply[o].code = "OK"
               PROVE  \E i \in Indices :
                        /\ Holders(request[o].target) = {i} /\ i < numAccounts
                        /\ accounts[i].balance = request[o].amount
                        /\ accounts[i].hash = <<request[o].newPassword, accounts[i].salt>>
    BY DEF CreatedAsAsked
  <2>1. PICK i \in 1 .. numAccounts - 1 :
            /\ accounts[i].id = request[o].target /\ accounts[i].balance = request[o].amount
            /\ accounts[i].hash = <<request[o].newPassword, accounts[i].salt>>
    BY DEF SerialInv, Own, Progress, Made
  <2>2. i \in Indices /\ i < numAccounts
    BY AccountsAssumption DEF SerialInv, Array, Indices, Ids
  <2>3. accounts[i].id # Admin
    BY DEF SerialInv, Array
  <2>4. Holders(request[o].target) = {i}
    BY <2>1, <2>2, <2>3 DEF SerialInv, Array, Holders
  <2> QED
    BY <2>1, <2>2, <2>4
<1> QED
  BY <1>1, SerialBank, AccountsInvariant, PTL

-----------------------------------------------------------------------------
(* What a handler remembers of the password it checked.                    *)

(* The accounts that count have a hash of a password and their salt.        *)
Sealed ==
  \A i \in Indices : i < numAccounts => \E p \in Passwords : accounts[i].hash = <<p, accounts[i].salt>>

Opens(r, i) == accounts[i].id = r.id /\ accounts[i].hash = <<r.password, accounts[i].salt>>

(* The creator is the administrator; a client that passed checkPassword     *)
(* has an account with that password, and a payer keeps its cell.           *)
Vouched(o) ==
  LET r == request[o]
  IN  /\ Creating(o) /\ pc[o] \notin {"authenticate", "unlockFirst", "reply"} =>
           r.id = Admin /\ r.password = AdminPassword
      /\ pc[o] \in {"read", "decide", "debit"} =>
           r.id # Admin /\ \E i \in Indices : Opens(r, i)
      /\ pc[o] \in {"credit", "readBack"} => source[o] \in Indices /\ accounts[source[o]].id = r.id

Known == Sealed /\ \A o \in Offices : Vouched(o)

BankInv == Inv /\ MutexOwners /\ SerialInv /\ Known

LEMMA KnownInit == Init => Known
<1> SUFFICES ASSUME Init PROVE Known
  OBVIOUS
<1>1. \A o \in Offices : Vouched(o)
  BY DEF Init, Vouched, Creating
<1>2. numAccounts = 1 /\ AdminPassword \in Passwords
  BY AccountsAssumption DEF Init
<1>3. accounts[0].hash = <<AdminPassword, accounts[0].salt>>
  <2>1. AdminUntouched
    BY InvInit DEF Inv, AdminFirst
  <2> QED
    BY <2>1 DEF AdminUntouched
<1>4. \A i \in Indices : i < 1 => i = 0
  BY AccountsAssumption DEF Indices, Ids
<1> QED
  BY <1>1, <1>2, <1>3, <1>4 DEF Known, Sealed

(* The administrator is found in the first cell, a client in its only one.  *)
LEMMA FindAdmin == Inv => Find(Admin) = 0 /\ 0 \in Indices
<1> SUFFICES ASSUME Inv PROVE Find(Admin) = 0 /\ 0 \in Indices
  OBVIOUS
<1>1. 0 \in Indices /\ Indices \subseteq Nat
  BY AccountsAssumption DEF Indices, Ids
<1>2. 0 \in Holders(Admin) /\ Holders(Admin) \subseteq Nat
  <2>1. accounts[0].id = Admin
    BY DEF Inv, AdminFirst, AdminUntouched
  <2> QED
    BY <1>1, <2>1 DEF Holders
<1>3. Find(Admin) = CHOOSE i \in Holders(Admin) : \A j \in Holders(Admin) : i <= j
  BY <1>2 DEF Find
<1>4. \E i \in Holders(Admin) : \A j \in Holders(Admin) : i <= j
  BY <1>2
<1>5. Find(Admin) \in Holders(Admin) /\ Find(Admin) <= 0
  BY <1>2, <1>3, <1>4
<1> QED
  BY <1>1, <1>2, <1>5

LEMMA FindClient ==
  ASSUME SerialInv, NEW i \in Indices, accounts[i].id # Admin
  PROVE  Find(accounts[i].id) = i
<1>1. Find(accounts[i].id) # NoIndex
  BY FindIsHolder DEF Holders
<1>2. Find(accounts[i].id) \in Indices /\ accounts[Find(accounts[i].id)].id = accounts[i].id
  BY <1>1, FindIsHolder
<1> QED
  BY <1>2 DEF SerialInv, Array

(* From its checks to its answer an office holds the account of its client. *)
LEMMA HoldsThePayer ==
  ASSUME Inv, NEW o \in Offices, pc[o] \in {"read", "decide", "debit", "credit", "readBack"}
  PROVE  request[o].id \in Held(o)
<1> DEFINE r == request[o]
<1>1. Stage(o)
  BY DEF Inv
<1>2. CASE r.op = "balance"
  BY <1>2 DEF Held, HoldsFirst, First, LockOrder
<1>3. CASE r.op = "transfer"
  <2>1. {First(r), Second(r)} = {r.id, r.target}
    BY <1>3 DEF First, Second, LockOrder
  <2> QED
    BY <2>1 DEF Held, HoldsFirst, HoldsSecond
<1> QED
  BY <1>1, <1>2, <1>3 DEF Stage

(* What the others know stays known.                                       *)
LEMMA OthersKnow ==
  ASSUME BankInv, NEW o \in Offices, Receive(o) \/ Handle(o), NEW q \in Offices, q # o
  PROVE  Vouched(q)'
<1> DEFINE r == request[q]
<1>1. pc'[q] = pc[q] /\ request'[q] = r /\ source'[q] = source[q]
  BY OthersKeep DEF BankInv, Inv
<1>2. Vouched(q) /\ Stage(q) /\ Held(o) \cap Held(q) = {} /\ Careful(o)
  BY HoldersApart, CarefulStep DEF BankInv, Known, Inv
<1>3. \A i \in Indices : accounts[i].id \in Held(q) /\ accounts[i].id # Admin => accounts'[i] = accounts[i]
  BY <1>2 DEF Careful
<1>4. pc[q] \in {"read", "decide", "debit", "credit", "readBack"} => r.id \in Held(q) /\ r.id # Admin
  BY <1>2, HoldsThePayer DEF BankInv, Vouched, Stage
<1>5. ASSUME NEW i \in Indices, r.id \in Held(q), r.id # Admin, accounts[i].id = r.id
      PROVE  accounts'[i] = accounts[i]
  BY <1>3, <1>5
<1> QED
  BY <1>1, <1>2, <1>4, <1>5 DEF Vouched, Creating, Opens

(* The office that steps learns what it checks.                            *)
LEMMA OfficeKnows ==
  ASSUME BankInv, NEW o \in Offices, Receive(o) \/ Handle(o)
  PROVE  Vouched(o)'
<1> DEFINE r == request[o]
<1>1. Inv /\ SerialInv /\ TypeOK /\ Stage(o) /\ Vouched(o) /\ (pc[o] # "idle" => r \in Requests)
  BY DEF BankInv, Inv, Known, Stage
<1>2. CASE Receive(o)
  <2>1. pc'[o] \in {"authenticate", "lockFirst"} /\ (pc'[o] = "lockFirst" => request'[o].op # "create")
    BY <1>1, <1>2 DEF Receive, Goto, TypeOK
  <2> QED
    BY <2>1 DEF Vouched, Creating
<1>3. CASE LockStep(o)
  <2>1. /\ pc'[o] \in {"authenticate", "lockSecond", "unlockFirst", "reply", "exists"}
        /\ pc'[o] = "exists" => pc[o] = "lockFirst" /\ r.op = "create"
        /\ pc'[o] = "lockSecond" => r.op # "create"
        /\ request' = request
    <3>1. pc[o] # "idle"
      BY <1>3 DEF LockStep, LockFirst, LockSecond, UnlockFirst, UnlockSecond
    <3> QED
      BY <1>1, <1>3, <3>1, RequestFields
      DEF LockStep, LockFirst, LockSecond, UnlockFirst, UnlockSecond, Goto, TypeOK, handler
  <2> QED
    BY <1>1, <2>1 DEF Vouched, Creating
<1>4. CASE Authenticate(o)
  <2>1. accounts' = accounts /\ request' = request /\ pc[o] = "authenticate" /\ r \in Requests
    BY <1>1, <1>4 DEF Authenticate
  <2>2. CASE ~ (Authentic(r) /\ (r.id = Admin) = (r.op = "create"))
    <3>1. pc'[o] \in {"reply", "unlockFirst", "unlockSecond"} /\ (pc'[o] = "unlockSecond" => r.op # "create")
      BY <1>1, <1>4, <2>1, <2>2, RequestFields DEF Authenticate, Goto, Unlocking, TypeOK
    <3> QED
      BY <2>1, <3>1 DEF Vouched, Creating
  <2>3. CASE Authentic(r) /\ (r.id = Admin) = (r.op = "create")
    <3>1. \/ pc'[o] = "capacity" /\ r.op = "create"
          \/ pc'[o] \in {"read", "decide"} /\ r.op # "create"
      BY <1>1, <1>4, <2>1, <2>3, RequestFields DEF Authenticate, Goto, TypeOK
    <3>2. Find(r.id) \in Indices /\ Opens(r, Find(r.id))
      BY <2>3, FindIsHolder DEF Authentic, Opens
    <3>3. r.id = Admin => r.password = AdminPassword
      BY <1>1, <3>2, FindAdmin DEF Opens, Inv, AdminFirst, AdminUntouched
    <3>4. \E i \in Indices : Opens(r, i)
      BY <3>2
    <3> QED
      BY <2>1, <2>3, <3>1, <3>3, <3>4 DEF Vouched, Creating, Opens
  <2> QED
    BY <2>2, <2>3
<1>5. CASE CreateStep(o)
  <2>1. request' = request
    BY <1>5 DEF CreateStep, Capacity, Exists, SetId, SetBalance, SetSalt, SetHash, Assign, Load, Store,
                Verify, handler
  <2>2. pc[o] \in {"capacity", "exists", "setId", "setBalance", "setSalt", "setHash", "load", "store", "verify"}
    BY <1>5 DEF CreateStep, Capacity, Exists, SetId, SetBalance, SetSalt, SetHash, Assign, Load, Store,
                Verify
  <2>3. Creating(o)
    BY <1>1, <2>2 DEF Creating, Stage
  <2>4. pc'[o] \in {"reply", "lockFirst", "unlockFirst", "exists", "setId", "setBalance", "setSalt", "setHash",
                    "load", "store", "verify"}
    BY <1>1, <1>5 DEF CreateStep, Capacity, Exists, SetId, SetBalance, SetSalt, SetHash, Assign, Load,
                Store, Verify, Goto, TypeOK
  <2> QED
    BY <1>1, <2>1, <2>2, <2>3, <2>4 DEF Vouched, Creating
<1>6. CASE Read(o) \/ ReadBack(o) \/ Return(o)
  <2>1. pc'[o] \in {"unlockFirst", "unlockSecond", "idle"} /\ (pc'[o] = "unlockSecond" => request'[o].op # "create")
    BY <1>1, <1>6 DEF Read, ReadBack, Return, Goto, Unlocking, TypeOK, Stage
  <2> QED
    BY <2>1 DEF Vouched, Creating
<1>7. CASE Decide(o)
  <2>1. /\ accounts' = accounts /\ request' = request /\ pc[o] = "decide" /\ r.op = "transfer"
        /\ pc'[o] \in {"unlockFirst", "unlockSecond", "decide", "debit"}
    BY <1>1, <1>7 DEF Decide, Refused, Goto, Unlocking, TypeOK, Stage
  <2> QED
    BY <1>1, <2>1 DEF Vouched, Creating, Opens
<1>8. CASE Debit(o) \/ Credit(o)
  <2>1. /\ request' = request /\ source' = source
        /\ source[o] \in Indices /\ accounts'[source[o]].id = r.id
        /\ pc'[o] \in {"credit", "readBack"} /\ pc[o] \in {"debit", "credit"}
    BY <1>1, <1>8, MoneyMoves
  <2>2. r.op = "transfer"
    BY <1>1, <2>1 DEF Stage
  <2> QED
    BY <2>1, <2>2 DEF Vouched, Creating
<1> QED
  BY <1>2, <1>3, <1>4, <1>5, <1>6, <1>7, <1>8 DEF Handle, TransferStep

LEMMA KnownStep == BankInv /\ [Next]_vars => Known'
<1> SUFFICES ASSUME BankInv, [Next]_vars PROVE Known'
  OBVIOUS
<1>1. Inv /\ SerialInv /\ TypeOK /\ Sealed
  BY DEF BankInv, Inv, Known
<1>2. ASSUME NEW o \in Offices, Receive(o) \/ Handle(o) PROVE Sealed'
  <2>1. CASE SetId(o) \/ SetBalance(o) \/ SetSalt(o) \/ SetHash(o)
    <3>1. numAccounts' = numAccounts /\ \A i \in Indices \ {numAccounts} : accounts'[i] = accounts[i]
      BY <1>1, <2>1, CellWritten
    <3>2. numAccounts \in Nat /\ \A i \in Indices : i < numAccounts => i # numAccounts
      BY <1>1, AccountsAssumption DEF TypeOK, Indices, Ids
    <3> QED
      BY <1>1, <3>1, <3>2 DEF Sealed
  <2>2. CASE Store(o)
    <3> DEFINE k == numAccounts
    <3>1. Own(o) /\ Stage(o) /\ pc[o] = "store"
      BY <1>1, <2>2 DEF Store, SerialInv, Inv
    <3>2. accounts' = accounts /\ numAccounts' = k + 1 /\ k \in Nat
      BY <1>1, <2>2, <3>1 DEF Store, Own, Progress, TypeOK
    <3>3. accounts[k].hash = <<request[o].newPassword, accounts[k].salt>>
          /\ request[o].newPassword \in Passwords
      BY <3>1, RequestFields DEF Own, Progress, Stage
    <3>4. \A i \in Indices : i < k + 1 => i < k \/ i = k
      BY <3>2, AccountsAssumption DEF Indices, Ids
    <3> QED
      BY <1>1, <3>2, <3>3, <3>4 DEF Sealed
  <2>3. CASE Debit(o) \/ Credit(o)
    <3>1. numAccounts' = numAccounts
          /\ \A i \in Indices : accounts'[i].hash = accounts[i].hash /\ accounts'[i].salt = accounts[i].salt
      BY <1>1, <2>3, MoneyMoves
    <3> QED
      BY <1>1, <3>1 DEF Sealed
  <2>4. CASE UNCHANGED <<accounts, numAccounts>>
    BY <1>1, <2>4 DEF Sealed
  <2> QED
    BY <1>2, <2>1, <2>2, <2>3, <2>4
    DEF Handle, CreateStep, TransferStep, LockStep, Receive, LockFirst, LockSecond, UnlockFirst,
        UnlockSecond, Authenticate, Capacity, Exists, Load, Verify, Read, Decide, ReadBack, Return
<1>3. ASSUME NEW o \in Offices, Receive(o) \/ Handle(o) PROVE \A q \in Offices : Vouched(q)'
  BY <1>3, OfficeKnows, OthersKnow
<1>4. CASE UNCHANGED vars
  BY <1>4 DEF BankInv, vars, Known, Sealed, Vouched, Creating, Opens
<1> QED
  BY <1>2, <1>3, <1>4 DEF Next, Known

-----------------------------------------------------------------------------
(* What the users see of the array.                                        *)

(* The offices that create the account of an id, or are about to credit it. *)
Half(o, id) == pc[o] \in Making \cup {"verify"} /\ request[o].target = id
Crediting(o, id) == pc[o] = "credit" /\ request[o].target = id

(* What LedgerView shows of an id, case by case. *)
Shows(id) ==
  /\ (\A i \in Indices : accounts[i].id # id) => LedgerView[id] = NoAccount
  /\ HalfCreated(id) => LedgerView[id] = NoAccount
  /\ ~ HalfCreated(id) => \A i \in Indices : accounts[i].id = id /\ (id = Admin => i = 0) =>
       LET Shown(b) == LedgerView[id] = [balance |-> b, password |-> accounts[i].hash[1]]
       IN  /\ (\A o \in Offices : ~ Crediting(o, id)) => Shown(accounts[i].balance)
           /\ \A o \in Offices : Crediting(o, id) => Shown(accounts[i].balance + request[o].amount)

(* One office at most credits an account, or creates it.                   *)
LEMMA OneCredits ==
  ASSUME Inv, MutexOwners, NEW id, NEW o \in Offices, NEW p \in Offices,
         Crediting(o, id), Crediting(p, id)
  PROVE  o = p
<1>1. request[o].target \in Held(o) /\ request[p].target \in Held(p)
  BY HoldsItsAccounts DEF Crediting
<1> QED
  BY <1>1, HoldersApart DEF Crediting

LEMMA ViewShows == BankInv => \A id \in Ids : Shows(id)
<1> SUFFICES ASSUME BankInv, NEW id \in Ids PROVE Shows(id)
  OBVIOUS
<1>1. Inv /\ SerialInv /\ MutexOwners
  BY DEF BankInv
<1>2. LedgerView[id] = IF Holders(id) = {} \/ HalfCreated(id) THEN NoAccount
                       ELSE [balance |-> accounts[Find(id)].balance + InFlight(id),
                             password |-> accounts[Find(id)].hash[1]]
  BY DEF LedgerView
<1>3. (\A o \in Offices : ~ Crediting(o, id)) => InFlight(id) = 0
  BY DEF InFlight, Crediting
<1>4. ASSUME NEW o \in Offices, Crediting(o, id) PROVE InFlight(id) = request[o].amount
  <2>1. \A p \in Offices : Crediting(p, id) => p = o
    BY <1>1, <1>4, OneCredits
  <2>2. (CHOOSE p \in Offices : pc[p] = "credit" /\ request[p].target = id) = o
    BY <1>4, <2>1 DEF Crediting
  <2> QED
    BY <1>4, <2>2 DEF InFlight, Crediting
<1>5. (\A i \in Indices : accounts[i].id # id) => Holders(id) = {}
  BY DEF Holders
<1>6. ASSUME NEW i \in Indices, accounts[i].id = id, id = Admin => i = 0
      PROVE  Holders(id) # {} /\ Find(id) = i
  BY <1>1, <1>6, FindAdmin, FindClient DEF Holders
<1>7. \A i \in Indices : accounts[i].balance \in Int
  BY <1>1, AccountsAssumption DEF SerialInv, BalancesInRange
<1>8. \A i \in Indices : accounts[i].balance + 0 = accounts[i].balance
  BY <1>7
<1> QED
  BY <1>2, <1>3, <1>4, <1>5, <1>6, <1>8 DEF Shows

LEMMA ViewShowsNext == BankInv' => (\A id \in Ids : Shows(id))'
  BY ViewShows, PTL

(* Whose mutex an office holds, nobody else creates or credits.            *)
LEMMA Alone ==
  ASSUME BankInv, NEW o \in Offices, NEW id \in Held(o), NEW p \in Offices, p # o
  PROVE  ~ Half(p, id) /\ ~ Crediting(p, id)
<1>1. Held(o) \cap Held(p) = {} /\ Inv
  BY HoldersApart DEF BankInv
<1>2. Half(p, id) \/ Crediting(p, id) => id \in Held(p)
  BY <1>1, HoldsItsAccounts DEF Half, Crediting, Making
<1> QED
  BY <1>1, <1>2

LEMMA HalfIsHalf ==
  ASSUME NEW id
  PROVE  HalfCreated(id) <=> \E p \in Offices : Half(p, id)
  BY DEF HalfCreated, Half, Making

(* While an office creates an account, another creates none.               *)
LEMMA OneCreates ==
  ASSUME BankInv, NEW o \in Offices, Creating(o), NEW id, NEW p \in Offices, Half(p, id)
  PROVE  p = o
<1>1. Stage(p) /\ Solo
  BY DEF BankInv, Inv, SerialInv
<1>2. Creating(p)
  BY <1>1 DEF Half, Making, Creating, Stage
<1> QED
  BY <1>1, <1>2 DEF Solo

(* A step changes what is seen of an id only through its accounts, and      *)
(* through what its office does to it.                                      *)
LEMMA Unseen ==
  ASSUME BankInv, BankInv', NEW o \in Offices, Receive(o) \/ Handle(o), NEW id \in Ids,
         Half(o, id)' <=> Half(o, id), Crediting(o, id)' <=> Crediting(o, id),
         Crediting(o, id) => request'[o] = request[o],
         \A i \in Indices : (accounts[i].id = id \/ accounts'[i].id = id) /\ (id = Admin => i = 0) =>
            accounts'[i] = accounts[i]
  PROVE  LedgerView'[id] = LedgerView[id]
<1>1. Shows(id) /\ Shows(id)'
  BY ViewShows, ViewShowsNext
<1>2. \A p \in Offices \ {o} : pc'[p] = pc[p] /\ request'[p] = request[p]
  BY OthersKeep DEF BankInv, Inv
<1>3. /\ \A p \in Offices : Half(p, id)' <=> Half(p, id)
      /\ \A p \in Offices : Crediting(p, id)' <=> Crediting(p, id)
      /\ \A p \in Offices : Crediting(p, id) => request'[p] = request[p]
  BY <1>2 DEF Half, Crediting
<1>4. HalfCreated(id)' <=> HalfCreated(id)
  <2>1. HalfCreated(id)' <=> \E p \in Offices : Half(p, id)'
    BY DEF HalfCreated, Half, Making
  <2> QED
    BY <1>3, <2>1, HalfIsHalf
<1>5. CASE HalfCreated(id)
  BY <1>1, <1>4, <1>5 DEF Shows
<1>6. CASE ~ HalfCreated(id) /\ \A i \in Indices : accounts[i].id # id
  <2>1. id # Admin
    BY <1>6, FindAdmin DEF BankInv, Inv, AdminFirst, AdminUntouched
  <2>2. \A i \in Indices : accounts'[i].id # id
    BY <1>6, <2>1
  <2> QED
    BY <1>1, <1>6, <2>2 DEF Shows
<1>7. ASSUME ~ HalfCreated(id), NEW j \in Indices, accounts[j].id = id PROVE LedgerView'[id] = LedgerView[id]
  <2>1. PICK i \in Indices : accounts[i].id = id /\ (id = Admin => i = 0)
    BY <1>7, FindAdmin DEF BankInv, Inv, AdminFirst, AdminUntouched
  <2>2. accounts'[i] = accounts[i]
    BY <2>1
  <2>3. CASE \A p \in Offices : ~ Crediting(p, id)
    <3>1. LedgerView[id] = [balance |-> accounts[i].balance, password |-> accounts[i].hash[1]]
      BY <1>1, <1>7, <2>1, <2>3 DEF Shows
    <3>2. \A p \in Offices : ~ Crediting(p, id)'
      BY <1>3, <2>3
    <3>3. LedgerView'[id] = [balance |-> accounts'[i].balance, password |-> accounts'[i].hash[1]]
      BY <1>1, <1>4, <1>7, <2>1, <2>2, <3>2 DEF Shows
    <3> QED
      BY <2>2, <3>1, <3>3
  <2>4. ASSUME NEW p \in Offices, Crediting(p, id) PROVE LedgerView'[id] = LedgerView[id]
    <3>1. LedgerView[id] = [balance |-> accounts[i].balance + request[p].amount,
                            password |-> accounts[i].hash[1]]
      BY <1>1, <1>7, <2>1, <2>4 DEF Shows
    <3>2. Crediting(p, id)' /\ request'[p] = request[p]
      BY <1>3, <2>4
    <3>3. LedgerView'[id] = [balance |-> accounts'[i].balance + request'[p].amount,
                             password |-> accounts'[i].hash[1]]
      BY <1>1, <1>4, <1>7, <2>1, <2>2, <3>2 DEF Shows
    <3> QED
      BY <2>2, <3>1, <3>2, <3>3
  <2> QED
    BY <2>3, <2>4
<1> QED
  BY <1>5, <1>6, <1>7

(* Equal on every id, equal.                                               *)
LEMMA SameView ==
  ASSUME \A id \in Ids : LedgerView'[id] = LedgerView[id]
  PROVE  LedgerView' = LedgerView
  BY DEF LedgerView

LEMMA QuietView ==
  ASSUME BankInv, BankInv', NEW o \in Offices, Receive(o) \/ Handle(o), accounts' = accounts,
         \A id \in Ids : /\ Half(o, id)' <=> Half(o, id)
                         /\ ~ Crediting(o, id) /\ ~ Crediting(o, id)'
  PROVE  LedgerView' = LedgerView
<1>1. \A id \in Ids : LedgerView'[id] = LedgerView[id]
  BY Unseen
<1> QED
  BY <1>1, SameView

(* Phase and answer of the other offices are seen as they were.            *)
LEMMA OthersSeen ==
  ASSUME BankInv, NEW o \in Offices, Receive(o) \/ Handle(o), NEW p \in Offices, p # o
  PROVE  PhaseView'[p] = PhaseView[p] /\ ReplyView'[p] = ReplyView[p]
<1>1. pc'[p] = pc[p] /\ reply'[p] = reply[p] /\ source'[p] = source[p] /\ request'[p] = request[p]
  BY OthersKeep DEF BankInv, Inv
<1>2. PhaseView'[p] = PhaseView[p]
  BY <1>1 DEF PhaseView
<1>3. CASE pc[p] \notin {"credit", "readBack"}
  BY <1>1, <1>2, <1>3 DEF ReplyView
<1>4. CASE pc[p] \in {"credit", "readBack"}
  <2>1. source[p] \in Indices /\ accounts[source[p]].id = request[p].id /\ request[p].id # Admin
        /\ request[p].id \in Held(p)
    BY <1>4, HoldsThePayer DEF BankInv, Known, Vouched, Inv, Stage
  <2>2. Held(o) \cap Held(p) = {} /\ Careful(o)
    BY HoldersApart, CarefulStep DEF BankInv
  <2>3. accounts'[source[p]] = accounts[source[p]]
    BY <2>1, <2>2 DEF Careful
  <2> QED
    BY <1>1, <1>2, <2>3 DEF ReplyView
<1> QED
  BY <1>3, <1>4

-----------------------------------------------------------------------------
(* Steps that the users do not see.                                        *)

LEMMA ViewsAreFunctions ==
  /\ PhaseView = [o \in Offices |-> PhaseView[o]] /\ PhaseView' = [o \in Offices |-> PhaseView'[o]]
  /\ ReplyView = [o \in Offices |-> ReplyView[o]] /\ ReplyView' = [o \in Offices |-> ReplyView'[o]]
<1>1. PhaseView = [o \in Offices |-> PhaseView[o]] /\ PhaseView' = [o \in Offices |-> PhaseView'[o]]
  BY DEF PhaseView
<1>2. ReplyView = [o \in Offices |-> ReplyView[o]] /\ ReplyView' = [o \in Offices |-> ReplyView'[o]]
  BY DEF ReplyView
<1> QED
  BY <1>1, <1>2

LEMMA Stutters ==
  ASSUME BankInv, NEW o \in Offices, Receive(o) \/ Handle(o), request' = request,
         LedgerView' = LedgerView, PhaseView'[o] = PhaseView[o], ReplyView'[o] = ReplyView[o]
  PROVE  UNCHANGED Bank!ledgerVars
<1>1. \A p \in Offices : PhaseView'[p] = PhaseView[p] /\ ReplyView'[p] = ReplyView[p]
  BY OthersSeen
<1>2. PhaseView' = PhaseView /\ ReplyView' = ReplyView
  BY <1>1, ViewsAreFunctions
<1> QED
  BY <1>2 DEF Bank!ledgerVars

Hidden == {"authenticate", "capacity", "lockFirst", "lockSecond", "exists", "setId", "read", "decide", "debit"}

Done == {"unlockSecond", "unlockFirst", "reply"}

(* From one of the places before the decision to another, or from one after *)
(* it to another.                                                          *)
LEMMA QuietPlaces ==
  ASSUME BankInv, BankInv', NEW o \in Offices, Receive(o) \/ Handle(o),
         UNCHANGED <<accounts, request>>, reply'[o] = reply[o],
         \/ pc[o] \in Hidden /\ pc'[o] \in Hidden
         \/ pc[o] \in Done /\ pc'[o] \in Done
         \/ pc[o] \in Making /\ pc'[o] \in Making \cup {"verify"}
  PROVE  UNCHANGED Bank!ledgerVars
<1>1. \A id \in Ids : /\ Half(o, id)' <=> Half(o, id)
                      /\ ~ Crediting(o, id) /\ ~ Crediting(o, id)'
  BY DEF Half, Crediting, Making, Hidden, Done
<1>2. LedgerView' = LedgerView
  BY <1>1, QuietView
<1>3. PhaseView'[o] = PhaseView[o] /\ ReplyView'[o] = ReplyView[o]
  BY DEF PhaseView, ReplyView, Hidden, Done, Making
<1> QED
  BY <1>2, <1>3, Stutters

LEMMA LocksUnseen ==
  ASSUME BankInv, BankInv', NEW o \in Offices, LockStep(o)
  PROVE  UNCHANGED Bank!ledgerVars
<1>1. TypeOK /\ Handle(o)
  BY DEF BankInv, Inv, Handle
<1>2. UNCHANGED <<accounts, request, reply>>
  BY DEF LockStep, LockFirst, LockSecond, UnlockFirst, UnlockSecond, handler
<1>3. \/ pc[o] \in Hidden /\ pc'[o] \in Hidden
      \/ pc[o] \in Done /\ pc'[o] \in Done
  BY <1>1 DEF LockStep, LockFirst, LockSecond, UnlockFirst, UnlockSecond, Goto, TypeOK, Hidden, Done
<1> QED
  BY <1>1, <1>2, <1>3, QuietPlaces

(* The statements of createAccount, up to the look that verifies.           *)
LEMMA MakingUnseen ==
  ASSUME BankInv, BankInv', NEW o \in Offices, SetId(o) \/ SetBalance(o) \/ SetSalt(o) \/ SetHash(o)
  PROVE  UNCHANGED Bank!ledgerVars
<1> DEFINE r == request[o]
           k == numAccounts
<1>1. Inv /\ SerialInv /\ Own(o) /\ Handle(o)
  BY DEF BankInv, SerialInv, Handle, CreateStep
<1>2. pc[o] \in {"setId", "setBalance", "setSalt", "setHash"}
  BY DEF SetId, SetBalance, SetSalt, SetHash, Assign
<1>3. /\ UNCHANGED <<request, reply>> /\ pc'[o] \in Making
      /\ \A i \in Indices \ {k} : accounts'[i] = accounts[i]
      /\ accounts'[k].id = r.target
  BY <1>1, CellWritten DEF Making
<1>4. /\ r.target \in Ids /\ r.target # Admin /\ k # 0
      /\ pc[o] = "setId" => accounts[k].id = Admin
      /\ pc[o] # "setId" => accounts[k].id = r.target
  BY <1>1, <1>2, NewCell, RequestFields DEF Making
<1>5. ASSUME NEW id \in Ids, id # r.target PROVE LedgerView'[id] = LedgerView[id]
  <2>1. ~ Half(o, id) /\ ~ Half(o, id)' /\ ~ Crediting(o, id) /\ ~ Crediting(o, id)'
    BY <1>2, <1>3, <1>5 DEF Half, Crediting
  <2>2. \A i \in Indices : (accounts[i].id = id \/ accounts'[i].id = id) /\ (id = Admin => i = 0) =>
           accounts'[i] = accounts[i]
    BY <1>3, <1>4, <1>5
  <2> QED
    BY <1>1, <2>1, <2>2, Unseen
<1>6. LedgerView'[r.target] = LedgerView[r.target]
  <2>1. Shows(r.target) /\ Shows(r.target)'
    BY <1>3, <1>4, ViewShows, ViewShowsNext
  <2>2. HalfCreated(r.target)'
    <3>1. Half(o, r.target)'
      BY <1>3 DEF Half
    <3> QED
      BY <3>1 DEF Half, HalfCreated, Making
  <2>3. LedgerView'[r.target] = NoAccount
    BY <1>3, <2>1, <2>2 DEF Shows
  <2>4. CASE pc[o] = "setId"
    <3>1. \A i \in Indices : accounts[i].id # r.target
      BY <1>1, <2>4 DEF Own, Progress, Holders
    <3> QED
      BY <2>1, <2>3, <3>1 DEF Shows
  <2>5. CASE pc[o] # "setId"
    <3>1. HalfCreated(r.target)
      BY <1>2, <2>5, HalfIsHalf DEF Half, Making
    <3> QED
      BY <2>1, <2>3, <3>1 DEF Shows
  <2> QED
    BY <2>4, <2>5
<1>7. LedgerView' = LedgerView
  BY <1>5, <1>6, SameView
<1>8. PhaseView'[o] = PhaseView[o] /\ ReplyView'[o] = ReplyView[o]
  BY <1>2, <1>3 DEF PhaseView, ReplyView, Making
<1> QED
  BY <1>1, <1>3, <1>7, <1>8, Stutters

LEMMA CountUnseen ==
  ASSUME BankInv, BankInv', NEW o \in Offices, Load(o) \/ Store(o)
  PROVE  UNCHANGED Bank!ledgerVars
<1>1. TypeOK /\ Handle(o)
  BY DEF BankInv, Inv, Handle, CreateStep
<1>2. UNCHANGED <<accounts, request, reply>>
  BY DEF Load, Store, handler
<1>3. pc[o] \in Making /\ pc'[o] \in Making \cup {"verify"}
  BY <1>1 DEF Load, Store, Goto, TypeOK, Making
<1> QED
  BY <1>1, <1>2, <1>3, QuietPlaces

(* The amount that was under way arrives.                                  *)
LEMMA CreditUnseen ==
  ASSUME BankInv, BankInv', NEW o \in Offices, Credit(o)
  PROVE  UNCHANGED Bank!ledgerVars
<1> DEFINE r == request[o]
           s == source[o]
           d == dest[o]
<1>1. Inv /\ SerialInv /\ Stage(o) /\ Handle(o) /\ pc[o] = "credit"
  BY DEF BankInv, Inv, Handle, TransferStep, Credit
<1>2. /\ UNCHANGED <<request, reply, source>> /\ pc'[o] = "readBack"
      /\ s \in Indices /\ d \in Indices /\ s # d /\ accounts[s].id = r.id /\ accounts[d].id = r.target
      /\ accounts'[d].id = accounts[d].id /\ accounts'[d].hash = accounts[d].hash
      /\ accounts'[d].balance = accounts[d].balance + r.amount
      /\ \A k \in Indices \ {d} : accounts'[k] = accounts[k]
  BY <1>1, MoneyMoves
<1>3. r.target \in Ids /\ r.target # Admin /\ r.target \in Held(o)
  BY <1>1, RequestFields, HoldsItsAccounts DEF Stage
<1>4. ASSUME NEW id \in Ids, id # r.target PROVE LedgerView'[id] = LedgerView[id]
  <2>1. ~ Half(o, id) /\ ~ Half(o, id)' /\ ~ Crediting(o, id) /\ ~ Crediting(o, id)'
    BY <1>2, <1>4 DEF Half, Crediting
  <2>2. \A i \in Indices : (accounts[i].id = id \/ accounts'[i].id = id) /\ (id = Admin => i = 0) =>
           accounts'[i] = accounts[i]
    BY <1>2, <1>4
  <2> QED
    BY <1>1, <2>1, <2>2, Unseen
<1>5. LedgerView'[r.target] = LedgerView[r.target]
  <2>1. Shows(r.target) /\ Shows(r.target)'
    BY <1>2, <1>3, ViewShows, ViewShowsNext
  <2>2. \A p \in Offices \ {o} : ~ Half(p, r.target) /\ ~ Crediting(p, r.target)
    BY <1>3, Alone
  <2>3. Crediting(o, r.target) /\ ~ Half(o, r.target)
    BY <1>1 DEF Crediting, Half, Making
  <2>4. LedgerView[r.target] = [balance |-> accounts[d].balance + r.amount, password |-> accounts[d].hash[1]]
    BY <1>2, <1>3, <2>1, <2>2, <2>3, HalfIsHalf DEF Shows
  <2>5. \A p \in Offices \ {o} : pc'[p] = pc[p] /\ request'[p] = request[p]
    BY <1>1, OthersKeep DEF Inv
  <2>6. \A p \in Offices : ~ Half(p, r.target)' /\ ~ Crediting(p, r.target)'
    BY <1>2, <2>2, <2>5 DEF Half, Crediting, Making
  <2>7. ~ HalfCreated(r.target)'
    BY <2>6 DEF HalfCreated, Half, Making
  <2>8. LedgerView'[r.target] = [balance |-> accounts'[d].balance, password |-> accounts'[d].hash[1]]
    BY <1>2, <1>3, <2>1, <2>6, <2>7 DEF Shows
  <2> QED
    BY <1>2, <2>4, <2>8
<1>6. LedgerView' = LedgerView
  BY <1>4, <1>5, SameView
<1>7. PhaseView'[o] = PhaseView[o] /\ ReplyView'[o] = ReplyView[o]
  BY <1>1, <1>2 DEF PhaseView, ReplyView
<1> QED
  BY <1>1, <1>2, <1>6, <1>7, Stutters

(* The payer's balance is read back as it was after the debit.             *)
LEMMA ReadBackUnseen ==
  ASSUME BankInv, BankInv', NEW o \in Offices, ReadBack(o)
  PROVE  UNCHANGED Bank!ledgerVars
<1> DEFINE r == request[o]
<1>1. Inv /\ SerialInv /\ TypeOK /\ Stage(o) /\ Vouched(o) /\ Handle(o) /\ pc[o] = "readBack"
  BY DEF BankInv, Known, Inv, Handle, TransferStep, ReadBack
<1>2. UNCHANGED <<accounts, request, source>> /\ pc'[o] = "unlockSecond"
  BY <1>1 DEF ReadBack, Goto, TypeOK
<1>3. source[o] \in Indices /\ accounts[source[o]].id = r.id /\ r.id # Admin
  BY <1>1 DEF Vouched, Stage
<1>4. Find(r.id) = source[o] /\ source[o] # NoIndex
  BY <1>1, <1>3, FindClient, AccountsAssumption DEF Indices, Ids, NoIndex
<1>5. reply'[o] = [code |-> "OK", balance |-> accounts[source[o]].balance]
  BY <1>1, <1>4 DEF ReadBack, BalanceOf, SetReply, TypeOK
<1>6. PhaseView'[o] = PhaseView[o] /\ ReplyView'[o] = ReplyView[o]
  BY <1>1, <1>2, <1>5 DEF PhaseView, ReplyView
<1>7. \A id \in Ids : /\ Half(o, id)' <=> Half(o, id)
                      /\ ~ Crediting(o, id) /\ ~ Crediting(o, id)'
  BY <1>1, <1>2 DEF Half, Crediting, Making
<1> QED
  BY <1>1, <1>2, <1>6, <1>7, QuietView, Stutters

-----------------------------------------------------------------------------
(* What a handler sees is what the users see.                              *)

(* An account that is made shows the password its hash was made of.         *)
LEMMA Visible ==
  ASSUME BankInv, NEW id \in Ids, ~ HalfCreated(id), NEW i \in Indices, accounts[i].id = id,
         id = Admin => i = 0
  PROVE  /\ LedgerView[id] # NoAccount
         /\ \E p \in Passwords : /\ accounts[i].hash = <<p, accounts[i].salt>>
                                 /\ LedgerView[id].password = p
         /\ (\A o \in Offices : ~ Crediting(o, id)) =>
              LedgerView[id] = [balance |-> accounts[i].balance, password |-> LedgerView[id].password]
<1>1. Inv /\ TypeOK /\ SerialInv /\ Sealed /\ Shows(id)
  BY ViewShows DEF BankInv, Inv, Known
<1>2. i < numAccounts
  <2>1. CASE id = Admin
    BY <1>1, <2>1 DEF SerialInv, Array
  <2>2. CASE id # Admin
    <3>1. ~ (i > numAccounts) /\ i \in Int /\ numAccounts \in Int
      BY <1>1, <2>2, AccountsAssumption DEF SerialInv, Array, Indices, Ids
    <3>2. ASSUME i = numAccounts PROVE FALSE
      <4>1. PICK p \in Offices : pc[p] \in Making
        BY <1>1, <2>2, <3>2 DEF SerialInv, Array
      <4>2. accounts[i].id = request[p].target
        BY <1>1, <3>2, <4>1 DEF SerialInv, Own, Progress
      <4>3. Half(p, id)
        BY <4>1, <4>2 DEF Half
      <4> QED
        BY <4>3, HalfIsHalf
    <3> QED
      BY <3>1, <3>2
  <2> QED
    BY <2>1, <2>2
<1>3. PICK p \in Passwords : accounts[i].hash = <<p, accounts[i].salt>>
  BY <1>1, <1>2 DEF Sealed
<1>4. accounts[i].hash[1] = p /\ accounts[i].balance \in Int
  BY <1>1, <1>3, AccountsAssumption DEF SerialInv, BalancesInRange
<1>5. CASE \A o \in Offices : ~ Crediting(o, id)
  <2>1. LedgerView[id] = [balance |-> accounts[i].balance, password |-> p]
    BY <1>1, <1>4, <1>5 DEF Shows
  <2>2. LedgerView[id] \in [balance : Int, password : Passwords]
    BY <1>4, <2>1
  <2> QED
    BY <1>3, <2>1, <2>2, AccountsAssumption
<1>6. ASSUME NEW o \in Offices, Crediting(o, id)
      PROVE  LedgerView[id] # NoAccount /\ LedgerView[id].password = p
  <2>1. LedgerView[id] = [balance |-> accounts[i].balance + request[o].amount, password |-> p]
    BY <1>1, <1>4, <1>6 DEF Shows
  <2>2. request[o].amount \in Int
    <3>1. request[o] \in Requests
      BY <1>1, <1>6 DEF Crediting, Inv, Stage
    <3> QED
      BY <3>1, AccountsAssumption
  <2>3. LedgerView[id] \in [balance : Int, password : Passwords]
    BY <1>4, <2>1, <2>2
  <2> QED
    BY <2>1, <2>3, AccountsAssumption
<1> QED
  BY <1>3, <1>5, <1>6

(* An account that nobody has is not seen. *)
LEMMA Vacant ==
  ASSUME BankInv, NEW id \in Ids, Find(id) = NoIndex
  PROVE  LedgerView[id] = NoAccount
  BY ViewShows, FindIsHolder DEF Shows, Holders

LEMMA FoundCell ==
  ASSUME Inv, NEW id, Find(id) # NoIndex
  PROVE  Find(id) \in Indices /\ accounts[Find(id)].id = id /\ (id = Admin => Find(id) = 0)
  BY FindIsHolder, FindAdmin

(* What an office holds, and does not itself credit, it sees exactly.       *)
LEMMA HeldIsSeen ==
  ASSUME BankInv, NEW o \in Offices, NEW id \in Held(o), id \in Ids,
         pc[o] \notin Making \cup {"verify", "credit"}, Find(id) # NoIndex
  PROVE  /\ LedgerView[id] # NoAccount
         /\ LedgerView[id] = [balance |-> accounts[Find(id)].balance, password |-> LedgerView[id].password]
         /\ \E p \in Passwords : /\ accounts[Find(id)].hash = <<p, accounts[Find(id)].salt>>
                                 /\ LedgerView[id].password = p
<1>1. \A p \in Offices : ~ Half(p, id) /\ ~ Crediting(p, id)
  <2>1. ~ Half(o, id) /\ ~ Crediting(o, id)
    BY DEF Half, Crediting
  <2> QED
    BY <2>1, Alone
<1>2. ~ HalfCreated(id)
  BY <1>1, HalfIsHalf
<1>3. Find(id) \in Indices /\ accounts[Find(id)].id = id /\ (id = Admin => Find(id) = 0)
  BY FoundCell DEF BankInv
<1> QED
  BY <1>1, <1>2, <1>3, Visible

(* The administrator's account is always seen, with its password.           *)
LEMMA AdminIsSeen ==
  ASSUME BankInv
  PROVE  Admin \in Ids /\ LedgerView[Admin] # NoAccount /\ LedgerView[Admin].password = AdminPassword
<1>1. Inv /\ 0 \in Indices /\ Admin \in Ids
  BY FindAdmin DEF BankInv, Indices, Admin
<1>2. accounts[0].id = Admin /\ accounts[0].hash = <<AdminPassword, NoRequest>>
  BY <1>1 DEF Inv, AdminFirst, AdminUntouched
<1>3. ~ HalfCreated(Admin)
  <2> SUFFICES ASSUME NEW p \in Offices, Half(p, Admin) PROVE FALSE
    BY HalfIsHalf
  <2>1. Stage(p)
    BY <1>1 DEF Inv
  <2>2. request[p] \in Requests /\ request[p].op = "create"
    BY <2>1 DEF Stage, Half, Making
  <2> QED
    BY <2>2, RequestFields DEF Half
<1>4. /\ LedgerView[Admin] # NoAccount
      /\ \E p \in Passwords : /\ accounts[0].hash = <<p, accounts[0].salt>>
                              /\ LedgerView[Admin].password = p
  BY <1>1, <1>2, <1>3, Visible
<1>5. ASSUME NEW p, accounts[0].hash = <<p, accounts[0].salt>> PROVE p = AdminPassword
  BY <1>2, <1>5
<1> QED
  BY <1>1, <1>4, <1>5

(* checkPassword finds what the users see. *)
LEMMA LoginSeen ==
  ASSUME NEW least, BankInv, NEW o \in Offices, pc[o] = "authenticate"
  PROVE  Bank!Applies("LOGIN_FAIL", request[o], least) <=> ~ Authentic(request[o])
<1> DEFINE r == request[o]
           i == Find(r.id)
<1>1. Inv /\ r \in Requests /\ r.id \in Ids
  BY RequestFields DEF BankInv, Inv, Stage
<1>2. CASE i = NoIndex
  BY <1>1, <1>2, Vacant DEF Authentic, Bank!Applies, Bank!Open
<1>3. CASE i # NoIndex
  <2>1. i \in Indices /\ accounts[i].id = r.id /\ (r.id = Admin => i = 0)
    BY <1>1, <1>3, FoundCell
  <2>2. ~ HalfCreated(r.id)
    <3> SUFFICES ASSUME NEW p \in Offices, Half(p, r.id) PROVE FALSE
      BY HalfIsHalf
    <3>1. p # o
      BY DEF Half, Making
    <3>2. CASE r.op = "create"
      BY <3>1, <3>2, OneCreates DEF Creating
    <3>3. CASE r.op # "create"
      <4>1. r.id \in {First(r), Second(r)}
        BY <1>1, <3>3, RequestFields DEF First, Second, LockOrder
      <4>2. r.id \in Held(o)
        BY <3>3, <4>1 DEF Held, HoldsFirst, HoldsSecond
      <4> QED
        BY <3>1, <4>2, Alone
    <3> QED
      BY <3>2, <3>3
  <2>3. PICK p \in Passwords : accounts[i].hash = <<p, accounts[i].salt>> /\ LedgerView[r.id].password = p
    BY <1>1, <2>1, <2>2, Visible
  <2>4. LedgerView[r.id] # NoAccount
    BY <1>1, <2>1, <2>2, Visible
  <2>5. Authentic(r) <=> p = r.password
    BY <1>3, <2>3 DEF Authentic
  <2> QED
    BY <2>3, <2>4, <2>5 DEF Bank!Applies, Bank!Open
<1> QED
  BY <1>2, <1>3

(* After the checks of the password, its errors do not apply.               *)
LEMMA ClientSeen ==
  ASSUME NEW least, BankInv, NEW o \in Offices, pc[o] \in {"read", "decide", "debit"}
  PROVE  LET r == request[o]
             i == Find(r.id)
         IN  /\ i \in Indices /\ accounts[i].id = r.id /\ r.id \in Ids /\ r.id # Admin
             /\ LedgerView[r.id] # NoAccount
             /\ LedgerView[r.id] = [balance |-> accounts[i].balance, password |-> r.password]
             /\ ~ Bank!Applies("LOGIN_FAIL", r, least) /\ ~ Bank!Applies("OP_NALLOW", r, least)
<1> DEFINE r == request[o]
           i == Find(r.id)
<1>1. Inv /\ SerialInv /\ Stage(o) /\ Vouched(o) /\ r \in Requests /\ r.id \in Ids
  BY RequestFields DEF BankInv, Known, Inv, Stage
<1>2. PICK j \in Indices : Opens(r, j)
  BY <1>1 DEF Vouched
<1>3. r.id # Admin /\ r.op # "create" /\ r.id \in Held(o)
  BY <1>1, HoldsThePayer DEF Vouched, Stage
<1>4. i = j /\ i # NoIndex
  BY <1>1, <1>2, <1>3, FindClient, AccountsAssumption DEF Opens, Indices, Ids, NoIndex
<1>5. /\ LedgerView[r.id] # NoAccount
      /\ LedgerView[r.id] = [balance |-> accounts[i].balance, password |-> LedgerView[r.id].password]
      /\ \E p \in Passwords : /\ accounts[i].hash = <<p, accounts[i].salt>>
                              /\ LedgerView[r.id].password = p
  BY <1>1, <1>3, <1>4, HeldIsSeen DEF Making
<1>6. LedgerView[r.id].password = r.password
  BY <1>2, <1>4, <1>5 DEF Opens
<1> QED
  BY <1>1, <1>2, <1>3, <1>4, <1>5, <1>6 DEF Opens, Bank!Applies, Bank!Open

LEMMA CreatorSeen ==
  ASSUME NEW least, BankInv, NEW o \in Offices, pc[o] \in {"capacity", "exists", "verify"}
  PROVE  LET r == request[o]
         IN  /\ r \in Requests /\ r.op = "create" /\ r.target \in Ids /\ r.target # Admin
             /\ ~ Bank!Applies("LOGIN_FAIL", r, least) /\ ~ Bank!Applies("OP_NALLOW", r, least)
<1> DEFINE r == request[o]
<1>1. Stage(o) /\ Vouched(o)
  BY DEF BankInv, Known, Inv
<1>2. r \in Requests /\ r.op = "create" /\ r.target \in Ids /\ r.target # Admin
  BY <1>1, RequestFields DEF Stage
<1>3. r.id = Admin /\ r.password = AdminPassword
  BY <1>1, <1>2 DEF Vouched, Creating
<1> QED
  BY <1>2, <1>3, AdminIsSeen DEF Bank!Applies, Bank!Open

-----------------------------------------------------------------------------
(* Steps that the users see: each is a step of Ledger.                     *)

LEMMA ReceiveIsReceive ==
  ASSUME BankInv, BankInv', NEW o \in Offices, Receive(o)
  PROVE  Bank!Receive(o)
<1>1. TypeOK
  BY DEF BankInv, Inv
<1>2. /\ pc[o] = "idle" /\ pc'[o] \in {"authenticate", "lockFirst"}
      /\ UNCHANGED <<accounts, reply>>
      /\ \E r \in Requests : request' = [request EXCEPT ![o] = r]
  BY <1>1 DEF Receive, Goto, TypeOK
<1>3. \A id \in Ids : /\ Half(o, id)' <=> Half(o, id)
                      /\ ~ Crediting(o, id) /\ ~ Crediting(o, id)'
  BY <1>2 DEF Half, Crediting, Making
<1>4. LedgerView' = LedgerView
  BY <1>2, <1>3, QuietView
<1>5. PhaseView[o] = "idle" /\ PhaseView'[o] = "called" /\ ReplyView'[o] = ReplyView[o]
  BY <1>2 DEF PhaseView, ReplyView
<1>6. \A p \in Offices \ {o} : PhaseView'[p] = PhaseView[p] /\ ReplyView'[p] = ReplyView[p]
  BY OthersSeen
<1>7. PhaseView' = [PhaseView EXCEPT ![o] = "called"] /\ ReplyView' = ReplyView
  BY <1>5, <1>6, ViewsAreFunctions
<1> QED
  BY <1>2, <1>4, <1>5, <1>7 DEF Bank!Receive

LEMMA ReturnIsReturn ==
  ASSUME BankInv, BankInv', NEW o \in Offices, Return(o)
  PROVE  Bank!Return(o)
<1>1. TypeOK /\ Handle(o)
  BY DEF BankInv, Inv, Handle
<1>2. /\ pc[o] = "reply" /\ pc'[o] = "idle" /\ accounts' = accounts /\ reply'[o] = NoReply
      /\ request' = [request EXCEPT ![o] = NoRequest]
  BY <1>1 DEF Return, Goto, TypeOK
<1>3. \A id \in Ids : /\ Half(o, id)' <=> Half(o, id)
                      /\ ~ Crediting(o, id) /\ ~ Crediting(o, id)'
  BY <1>2 DEF Half, Crediting, Making
<1>4. LedgerView' = LedgerView
  BY <1>1, <1>2, <1>3, QuietView
<1>5. PhaseView[o] = "answered" /\ PhaseView'[o] = "idle" /\ ReplyView'[o] = NoReply
  BY <1>2 DEF PhaseView, ReplyView
<1>6. \A p \in Offices \ {o} : PhaseView'[p] = PhaseView[p] /\ ReplyView'[p] = ReplyView[p]
  BY <1>1, OthersSeen
<1>7. PhaseView' = [PhaseView EXCEPT ![o] = "idle"] /\ ReplyView' = [ReplyView EXCEPT ![o] = NoReply]
  BY <1>5, <1>6, ViewsAreFunctions
<1> QED
  BY <1>2, <1>4, <1>5, <1>7 DEF Bank!Return

(* A decision is an answer. *)
LEMMA Answers ==
  ASSUME BankInv, NEW o \in Offices, Handle(o), NEW code, NEW balance, request' = request,
         PhaseView[o] = "called", PhaseView'[o] = "answered",
         ReplyView'[o] = [code |-> code, balance |-> balance]
  PROVE  Bank!Answer(o, code, balance)
<1>1. \A p \in Offices \ {o} : PhaseView'[p] = PhaseView[p] /\ ReplyView'[p] = ReplyView[p]
  BY OthersSeen
<1>2. PhaseView' = [PhaseView EXCEPT ![o] = "answered"]
      /\ ReplyView' = [ReplyView EXCEPT ![o] = [code |-> code, balance |-> balance]]
  BY <1>1, ViewsAreFunctions
<1> QED
  BY <1>2 DEF Bank!Answer

(* ... and so is a step to the release of the mutexes, with an answer.      *)
LEMMA Concludes ==
  ASSUME BankInv, BankInv', NEW o \in Offices, Handle(o), NEW code, NEW balance,
         UNCHANGED <<accounts, request>>, pc[o] \in Hidden, pc'[o] \in Done,
         SetReply(o, code, balance)
  PROVE  Bank!Answer(o, code, balance) /\ LedgerView' = LedgerView
<1>1. TypeOK
  BY DEF BankInv, Inv
<1>2. reply'[o] = [code |-> code, balance |-> balance]
  BY <1>1 DEF SetReply, TypeOK
<1>3. \A id \in Ids : /\ Half(o, id)' <=> Half(o, id)
                      /\ ~ Crediting(o, id) /\ ~ Crediting(o, id)'
  BY DEF Half, Crediting, Making, Hidden, Done
<1>4. PhaseView[o] = "called" /\ PhaseView'[o] = "answered"
  BY DEF PhaseView, Hidden, Done
<1>5. ReplyView'[o] = [code |-> code, balance |-> balance]
  BY <1>2 DEF ReplyView, Done
<1> QED
  BY <1>3, <1>4, <1>5, QuietView, Answers

(* The errors, in the order in which they are looked for.                  *)
LEMMA NoErrors ==
  ASSUME NEW r, NEW least, \A i \in 1 .. 7 : ~ Bank!Applies(Bank!ErrorCodes[i], r, least)
  PROVE  Bank!Errors(r, least) = {}
<1>1. DOMAIN Bank!ErrorCodes = 1 .. 7
  BY DEF Bank!ErrorCodes
<1> QED
  BY <1>1 DEF Bank!Errors, Bank!FirstError

LEMMA FirstIsError ==
  ASSUME NEW r, NEW least, NEW i \in 1 .. 7, Bank!Applies(Bank!ErrorCodes[i], r, least),
         \A j \in 1 .. i - 1 : ~ Bank!Applies(Bank!ErrorCodes[j], r, least)
  PROVE  Bank!ErrorCodes[i] \in Bank!Errors(r, least)
<1>1. DOMAIN Bank!ErrorCodes = 1 .. 7
  BY DEF Bank!ErrorCodes
<1> QED
  BY <1>1 DEF Bank!Errors, Bank!FirstError

LEMMA Codes ==
  /\ Bank!ErrorCodes[1] = "LOGIN_FAIL" /\ Bank!ErrorCodes[2] = "OP_NALLOW"
  /\ Bank!ErrorCodes[3] = "ID_IN_USE" /\ Bank!ErrorCodes[4] = "ID_NOT_FOUND"
  /\ Bank!ErrorCodes[5] = "SAME_ID" /\ Bank!ErrorCodes[6] = "NO_FUNDS"
  /\ Bank!ErrorCodes[7] = "TOO_HIGH"
  BY DEF Bank!ErrorCodes

(* A refusal with the first error that applies is a Refuse. *)
LEMMA Refuses ==
  ASSUME NEW least, BankInv, BankInv', NEW o \in Offices, Handle(o),
         NEW code \in Bank!Errors(request[o], least),
         UNCHANGED <<accounts, request>>, pc[o] \in Hidden, pc'[o] \in Done,
         SetReply(o, code, IF request[o].op = "transfer" /\ code # "LOGIN_FAIL" THEN request[o].amount ELSE 0)
  PROVE  Bank!Refuse(o, least)
<1>1. /\ Bank!Answer(o, code, IF request[o].op = "transfer" /\ code # "LOGIN_FAIL"
                             THEN request[o].amount ELSE 0)
      /\ LedgerView' = LedgerView
  BY Concludes
<1>2. PhaseView[o] = "called"
  BY DEF PhaseView, Hidden
<1> QED
  BY <1>1, <1>2 DEF Bank!Refuse

(* The checks of the password. *)
LEMMA AuthenticateIsSeen ==
  ASSUME BankInv, BankInv', NEW o \in Offices, Authenticate(o)
  PROVE  Bank!Refuse(o, MIN_BALANCE) \/ UNCHANGED Bank!ledgerVars
<1> DEFINE r == request[o]
<1>1. TypeOK /\ Handle(o) /\ r \in Requests /\ pc[o] = "authenticate"
  BY DEF BankInv, Inv, Handle, Stage, Authenticate
<1>2. UNCHANGED <<accounts, request>> /\ pc[o] \in Hidden
  BY <1>1 DEF Authenticate, Hidden
<1>3. Bank!Applies("LOGIN_FAIL", r, MIN_BALANCE) <=> ~ Authentic(r)
  BY <1>1, LoginSeen
<1>4. Bank!Applies("OP_NALLOW", r, MIN_BALANCE) <=> (r.op = "create") # (r.id = Admin)
  BY DEF Bank!Applies
<1>5. CASE ~ Authentic(r)
  <2>1. SetReply(o, "LOGIN_FAIL", 0) /\ pc'[o] \in Done
    BY <1>1, <1>5 DEF Authenticate, Goto, Unlocking, TypeOK, Done
  <2>2. "LOGIN_FAIL" \in Bank!Errors(r, MIN_BALANCE)
    <3>1. Bank!Applies(Bank!ErrorCodes[1], r, MIN_BALANCE) /\ \A j \in 1 .. 1 - 1 : ~ Bank!Applies(Bank!ErrorCodes[j], r, MIN_BALANCE)
      BY <1>3, <1>5, Codes
    <3> QED
      BY <3>1, FirstIsError, Codes
  <2> QED
    BY <1>1, <1>2, <2>1, <2>2, Refuses
<1>6. CASE Authentic(r) /\ (r.id = Admin) # (r.op = "create")
  <2>1. SetReply(o, "OP_NALLOW", IF r.op = "transfer" THEN r.amount ELSE 0) /\ pc'[o] \in Done
    BY <1>1, <1>6 DEF Authenticate, Goto, Unlocking, TypeOK, Done
  <2>2. "OP_NALLOW" \in Bank!Errors(r, MIN_BALANCE)
    <3>1. Bank!Applies(Bank!ErrorCodes[2], r, MIN_BALANCE) /\ \A j \in 1 .. 2 - 1 : ~ Bank!Applies(Bank!ErrorCodes[j], r, MIN_BALANCE)
      BY <1>3, <1>4, <1>6, Codes
    <3> QED
      BY <3>1, FirstIsError, Codes
  <2> QED
    BY <1>1, <1>2, <2>1, <2>2, Refuses
<1>7. CASE Authentic(r) /\ (r.id = Admin) = (r.op = "create")
  <2>1. pc'[o] \in Hidden /\ reply' = reply
    BY <1>1, <1>7, RequestFields DEF Authenticate, Goto, TypeOK, Hidden
  <2> QED
    BY <1>1, <1>2, <2>1, QuietPlaces
<1> QED
  BY <1>5, <1>6, <1>7

(* In a full bank every id has its account. *)
LEMMA FullBank ==
  ASSUME BankInv, numAccounts >= MAX_BANK_ACCOUNTS, NEW id \in Ids, id # Admin
  PROVE  \E i \in Indices : accounts[i].id = id
<1> DEFINE T == 1 .. MAX_BANK_ACCOUNTS - 1
           f == [i \in T |-> accounts[i].id]
<1>1. Inv /\ TypeOK /\ SerialInv /\ MAX_BANK_ACCOUNTS \in Nat \ {0} /\ numAccounts = MAX_BANK_ACCOUNTS
  BY AccountsAssumption DEF BankInv, Inv, SerialInv, Array
<1>2. T \subseteq Indices /\ T = Ids \ {Admin}
  BY <1>1 DEF Indices, Ids, Admin
<1>3. \A i \in T : accounts[i].id \in T
  <2> SUFFICES ASSUME NEW i \in T PROVE accounts[i].id \in Ids \ {Admin}
    BY <1>2
  <2>1. accounts[i] \in AccountRecords
    BY <1>1, <1>2 DEF TypeOK
  <2>2. accounts[i].id # Admin
    BY <1>1 DEF SerialInv, Array
  <2> QED
    BY <2>1, <2>2 DEF AccountRecords
<1>4. \A i, j \in T : accounts[i].id = accounts[j].id => i = j
  BY <1>1, <1>2, <1>3 DEF SerialInv, Array
<1>5. f \in Injection(T, T)
  BY <1>3, <1>4 DEF Injection, IsInjective
<1>6. IsFiniteSet(T)
  BY <1>1, FS_Interval
<1>7. f \in Surjection(T, T)
  <2> HIDE DEF f, T
  <2> QED
    BY <1>5, <1>6, FS_Injection
<1>8. \E i \in T : f[i] = id
  BY <1>2, <1>7 DEF Surjection
<1> QED
  BY <1>2, <1>8

(* A creation is refused when its id is in use. *)
LEMMA InUse ==
  ASSUME BankInv, BankInv', NEW o \in Offices, Handle(o), pc[o] \in {"capacity", "exists"},
         Bank!Open(request[o].target), UNCHANGED <<accounts, request>>, pc'[o] \in Done,
         SetReply(o, "ID_IN_USE", 0)
  PROVE  Bank!Refuse(o, MIN_BALANCE)
<1> DEFINE r == request[o]
<1>1. r.op = "create" /\ ~ Bank!Applies("LOGIN_FAIL", r, MIN_BALANCE) /\ ~ Bank!Applies("OP_NALLOW", r, MIN_BALANCE)
  BY CreatorSeen
<1>2. Bank!Applies("ID_IN_USE", r, MIN_BALANCE)
  BY <1>1 DEF Bank!Applies
<1>3. Bank!Applies(Bank!ErrorCodes[3], r, MIN_BALANCE) /\ \A j \in 1 .. 3 - 1 : ~ Bank!Applies(Bank!ErrorCodes[j], r, MIN_BALANCE)
  BY <1>1, <1>2, Codes
<1>4. "ID_IN_USE" \in Bank!Errors(r, MIN_BALANCE)
  BY <1>3, FirstIsError, Codes
<1> QED
  BY <1>1, <1>4, Refuses DEF Hidden

LEMMA CapacityIsSeen ==
  ASSUME BankInv, BankInv', NEW o \in Offices, Capacity(o) \/ Exists(o)
  PROVE  Bank!Refuse(o, MIN_BALANCE) \/ UNCHANGED Bank!ledgerVars
<1> DEFINE r == request[o]
<1>1. Inv /\ TypeOK /\ Handle(o) /\ pc[o] \in {"capacity", "exists"} /\ UNCHANGED <<accounts, request>>
  BY DEF BankInv, Inv, Handle, CreateStep, Capacity, Exists
<1>2. r.op = "create" /\ r.target \in Ids /\ r.target # Admin
  BY <1>1, CreatorSeen
<1>3. ~ HalfCreated(r.target)
  <2> SUFFICES ASSUME NEW p \in Offices, Half(p, r.target) PROVE FALSE
    BY HalfIsHalf
  <2>1. Creating(o)
    BY <1>1, <1>2 DEF Creating
  <2>2. p = o
    BY <2>1, OneCreates
  <2> QED
    BY <1>1, <2>2 DEF Half, Making
<1>4. ASSUME NEW i \in Indices, accounts[i].id = r.target PROVE Bank!Open(r.target)
  BY <1>2, <1>3, <1>4, Visible DEF Bank!Open
<1>5. CASE pc'[o] \in Hidden /\ reply' = reply
  BY <1>1, <1>5, QuietPlaces DEF Hidden
<1>6. CASE Capacity(o) /\ numAccounts >= MAX_BANK_ACCOUNTS
  <2>1. SetReply(o, "ID_IN_USE", 0) /\ pc'[o] \in Done
    BY <1>1, <1>6 DEF Capacity, Goto, TypeOK, Done
  <2>2. Bank!Open(r.target)
    BY <1>2, <1>4, <1>6, FullBank
  <2> QED
    BY <1>1, <2>1, <2>2, InUse
<1>7. CASE Exists(o) /\ Find(r.target) # NoIndex
  <2>1. SetReply(o, "ID_IN_USE", 0) /\ pc'[o] \in Done
    BY <1>1, <1>7 DEF Exists, Goto, TypeOK, Done
  <2>2. Bank!Open(r.target)
    BY <1>4, <1>7, FindIsHolder
  <2> QED
    BY <1>1, <2>1, <2>2, InUse
<1>8. CASE Capacity(o) /\ ~ (numAccounts >= MAX_BANK_ACCOUNTS)
  <2>1. pc'[o] \in Hidden /\ reply' = reply
    BY <1>1, <1>8 DEF Capacity, Goto, TypeOK, Hidden
  <2> QED
    BY <1>5, <2>1
<1>9. CASE Exists(o) /\ Find(r.target) = NoIndex
  <2>1. pc'[o] \in Hidden /\ reply' = reply
    BY <1>1, <1>9 DEF Exists, Goto, TypeOK, Hidden
  <2> QED
    BY <1>5, <2>1
<1> QED
  BY <1>6, <1>7, <1>8, <1>9

(* The look that verifies a creation shows the account to the users.        *)
LEMMA VerifyIsCreate ==
  ASSUME BankInv, BankInv', NEW o \in Offices, Verify(o)
  PROVE  Bank!Create(o)
<1> DEFINE r == request[o]
<1>1. Inv /\ TypeOK /\ SerialInv /\ Own(o) /\ Handle(o) /\ pc[o] = "verify"
  BY DEF BankInv, Inv, SerialInv, Handle, CreateStep, Verify
<1>2. /\ r \in Requests /\ r.op = "create" /\ r.target \in Ids /\ r.target # Admin
      /\ ~ Bank!Applies("LOGIN_FAIL", r, MIN_BALANCE) /\ ~ Bank!Applies("OP_NALLOW", r, MIN_BALANCE)
  BY <1>1, CreatorSeen
<1>3. PICK i \in 1 .. numAccounts - 1 :
          /\ accounts[i].id = r.target /\ accounts[i].balance = r.amount
          /\ accounts[i].hash = <<r.newPassword, accounts[i].salt>>
  BY <1>1 DEF Own, Progress, Made
<1>4. i \in Indices
  BY <1>1, AccountsAssumption DEF SerialInv, Array, Indices, Ids
<1>5. Find(r.target) # NoIndex
  BY <1>3, <1>4, FindIsHolder DEF Holders
<1>6. /\ UNCHANGED <<accounts, request>> /\ pc'[o] = "unlockFirst"
      /\ reply'[o] = [code |-> "OK", balance |-> 0]
  BY <1>1, <1>5 DEF Verify, Goto, SetReply, TypeOK
<1>7. LedgerView[r.target] = NoAccount
  <2>1. HalfCreated(r.target)
    BY <1>1, HalfIsHalf DEF Half
  <2> QED
    BY <1>2, <2>1, ViewShows DEF Shows
<1>8. LedgerView'[r.target] = [balance |-> r.amount, password |-> r.newPassword]
  <2>1. \A p \in Offices \ {o} : ~ Half(p, r.target) /\ ~ Crediting(p, r.target)
    <3>1. r.target \in Held(o)
      BY <1>1, HoldsItsAccounts
    <3> QED
      BY <3>1, Alone
  <2>2. \A p \in Offices \ {o} : pc'[p] = pc[p] /\ request'[p] = request[p]
    BY <1>1, OthersKeep
  <2>3. \A p \in Offices : ~ Half(p, r.target)' /\ ~ Crediting(p, r.target)'
    BY <1>6, <2>1, <2>2 DEF Half, Crediting, Making
  <2>4. ~ HalfCreated(r.target)'
    BY <2>3 DEF HalfCreated, Half, Making
  <2>5. Shows(r.target)'
    BY <1>2, <1>6, ViewShowsNext
  <2>6. accounts'[i].id = r.target /\ accounts'[i].balance = r.amount /\ accounts'[i].hash[1] = r.newPassword
    BY <1>3, <1>6
  <2>7. LedgerView'[r.target] = [balance |-> accounts'[i].balance, password |-> accounts'[i].hash[1]]
    BY <1>2, <1>4, <1>6, <2>3, <2>4, <2>5, <2>6 DEF Shows
  <2> QED
    BY <2>6, <2>7
<1>9. ASSUME NEW id \in Ids, id # r.target PROVE LedgerView'[id] = LedgerView[id]
  <2>1. ~ Half(o, id) /\ ~ Half(o, id)' /\ ~ Crediting(o, id) /\ ~ Crediting(o, id)'
    BY <1>6, <1>9 DEF Half, Crediting
  <2> QED
    BY <1>1, <1>6, <2>1, Unseen
<1>10. LedgerView' = [LedgerView EXCEPT ![r.target] = [balance |-> r.amount, password |-> r.newPassword]]
  <2>1. LedgerView = [id \in Ids |-> LedgerView[id]] /\ LedgerView' = [id \in Ids |-> LedgerView'[id]]
    BY DEF LedgerView
  <2> QED
    BY <1>8, <1>9, <2>1
<1>11. Bank!Errors(r, MIN_BALANCE) = {}
  <2>1. /\ ~ Bank!Applies("ID_IN_USE", r, MIN_BALANCE) /\ ~ Bank!Applies("ID_NOT_FOUND", r, MIN_BALANCE)
        /\ ~ Bank!Applies("SAME_ID", r, MIN_BALANCE) /\ ~ Bank!Applies("NO_FUNDS", r, MIN_BALANCE) /\ ~ Bank!Applies("TOO_HIGH", r, MIN_BALANCE)
    BY <1>2, <1>7 DEF Bank!Applies, Bank!Open
  <2>2. \A j \in 1 .. 7 : ~ Bank!Applies(Bank!ErrorCodes[j], r, MIN_BALANCE)
    BY <1>2, <2>1, Codes
  <2> QED
    BY <2>2, NoErrors
<1>12. PhaseView[o] = "called" /\ PhaseView'[o] = "answered" /\ ReplyView'[o] = [code |-> "OK", balance |-> 0]
  BY <1>1, <1>6 DEF PhaseView, ReplyView
<1>13. Bank!Answer(o, "OK", 0)
  BY <1>1, <1>6, <1>12, Answers
<1> QED
  BY <1>2, <1>10, <1>11, <1>12, <1>13 DEF Bank!Create

(* handleCheckBalance reads what the users see. *)
LEMMA ReadIsBalance ==
  ASSUME BankInv, BankInv', NEW o \in Offices, Read(o)
  PROVE  Bank!Balance(o)
<1> DEFINE r == request[o]
           i == Find(r.id)
<1>1. TypeOK /\ Handle(o) /\ pc[o] = "read" /\ r.op = "balance" /\ UNCHANGED <<accounts, request>>
  BY DEF BankInv, Inv, Stage, Handle, Read
<1>2. /\ i \in Indices /\ LedgerView[r.id] = [balance |-> accounts[i].balance, password |-> r.password]
      /\ ~ Bank!Applies("LOGIN_FAIL", r, MIN_BALANCE) /\ ~ Bank!Applies("OP_NALLOW", r, MIN_BALANCE)
  BY <1>1, ClientSeen
<1>3. i # NoIndex
  BY <1>2, AccountsAssumption DEF Indices, Ids, NoIndex
<1>4. SetReply(o, "OK", accounts[i].balance) /\ pc'[o] \in Done
  BY <1>1, <1>3 DEF Read, BalanceOf, Goto, Unlocking, TypeOK, Done
<1>5. Bank!Answer(o, "OK", accounts[i].balance) /\ LedgerView' = LedgerView
  BY <1>1, <1>4, Concludes DEF Hidden
<1>6. Bank!Errors(r, MIN_BALANCE) = {}
  <2>1. /\ ~ Bank!Applies("ID_IN_USE", r, MIN_BALANCE) /\ ~ Bank!Applies("ID_NOT_FOUND", r, MIN_BALANCE)
        /\ ~ Bank!Applies("SAME_ID", r, MIN_BALANCE) /\ ~ Bank!Applies("NO_FUNDS", r, MIN_BALANCE) /\ ~ Bank!Applies("TOO_HIGH", r, MIN_BALANCE)
    BY <1>1 DEF Bank!Applies
  <2>2. \A j \in 1 .. 7 : ~ Bank!Applies(Bank!ErrorCodes[j], r, MIN_BALANCE)
    BY <1>2, <2>1, Codes
  <2> QED
    BY <2>2, NoErrors
<1>7. PhaseView[o] = "called"
  BY <1>1 DEF PhaseView
<1> QED
  BY <1>1, <1>2, <1>5, <1>6, <1>7 DEF Bank!Balance

(* What a transfer checks on its two accounts is what the users see.        *)
PayerSeen(r, s) ==
  /\ r.op = "transfer" /\ r.amount \in 0 .. MAX_BALANCE
  /\ r.target \in Ids /\ r.target # Admin
  /\ s \in Indices /\ s # NoIndex /\ accounts[s].balance \in 0 .. MAX_BALANCE
  /\ LedgerView[r.id] # NoAccount /\ LedgerView[r.id].balance = accounts[s].balance
  /\ ~ Bank!Applies("LOGIN_FAIL", r, 0) /\ ~ Bank!Applies("OP_NALLOW", r, 0)
  /\ ~ Bank!Applies("ID_IN_USE", r, 0)
  /\ Bank!Applies("SAME_ID", r, 0) <=> r.id = r.target
  /\ Bank!Applies("NO_FUNDS", r, 0) <=> accounts[s].balance < r.amount

PayeeSeen(r, d) ==
  /\ Bank!Applies("ID_NOT_FOUND", r, 0) <=> d = NoIndex
  /\ d # NoIndex =>
       /\ d \in Indices /\ accounts[d].balance \in 0 .. MAX_BALANCE
       /\ LedgerView[r.target] = [balance |-> accounts[d].balance, password |-> LedgerView[r.target].password]
       /\ LedgerView[r.target].password = accounts[d].hash[1]
       /\ Bank!Applies("TOO_HIGH", r, 0) <=> TooHigh(d, r.amount)

LEMMA BothSeen ==
  ASSUME BankInv, NEW o \in Offices, pc[o] \in {"decide", "debit"}
  PROVE  PayerSeen(request[o], Find(request[o].id)) /\ PayeeSeen(request[o], Find(request[o].target))
<1> DEFINE r == request[o]
           s == Find(r.id)
           d == Find(r.target)
<1>1. Inv /\ SerialInv /\ Stage(o) /\ r \in Requests /\ r.op = "transfer"
  BY DEF BankInv, Inv, Stage
<1>2. r.amount \in 0 .. MAX_BALANCE /\ r.target \in Ids /\ r.target # Admin /\ MAX_BALANCE \in Nat
  BY <1>1, RequestFields, AccountsAssumption
<1>3. r.target \in Held(o)
  <2>1. r.target \in {First(r), Second(r)}
    BY <1>1 DEF First, Second, LockOrder
  <2> QED
    BY <2>1 DEF Held, HoldsFirst, HoldsSecond
<1>4. /\ s \in Indices /\ LedgerView[r.id] # NoAccount
      /\ LedgerView[r.id] = [balance |-> accounts[s].balance, password |-> r.password]
      /\ ~ Bank!Applies("LOGIN_FAIL", r, 0) /\ ~ Bank!Applies("OP_NALLOW", r, 0)
  BY ClientSeen
<1>10. LedgerView[r.id].balance = accounts[s].balance
  BY <1>4
<1>5. s # NoIndex /\ accounts[s].balance \in 0 .. MAX_BALANCE
  BY <1>1, <1>4, AccountsAssumption DEF Indices, Ids, NoIndex, SerialInv, BalancesInRange
<1>6. /\ ~ Bank!Applies("ID_IN_USE", r, 0)
      /\ Bank!Applies("SAME_ID", r, 0) <=> r.id = r.target
      /\ Bank!Applies("NO_FUNDS", r, 0) <=> accounts[s].balance < r.amount
  <2>1. Bank!Applies("NO_FUNDS", r, 0) <=> accounts[s].balance - r.amount < 0
    BY <1>1, <1>10 DEF Bank!Applies
  <2>2. accounts[s].balance - r.amount < 0 <=> accounts[s].balance < r.amount
    BY <1>2, <1>5
  <2>3. ~ Bank!Applies("ID_IN_USE", r, 0) /\ (Bank!Applies("SAME_ID", r, 0) <=> r.id = r.target)
    BY <1>1 DEF Bank!Applies
  <2> QED
    BY <2>1, <2>2, <2>3
<1>7. ASSUME d = NoIndex PROVE PayeeSeen(r, d)
  <2>1. Bank!Applies("ID_NOT_FOUND", r, 0)
    BY <1>1, <1>2, <1>7, Vacant DEF Bank!Applies, Bank!Open
  <2> QED
    BY <1>7, <2>1 DEF PayeeSeen
<1>8. ASSUME d # NoIndex PROVE PayeeSeen(r, d)
  <2>1. /\ LedgerView[r.target] # NoAccount
        /\ LedgerView[r.target] = [balance |-> accounts[d].balance, password |-> LedgerView[r.target].password]
        /\ \E p \in Passwords : /\ accounts[d].hash = <<p, accounts[d].salt>>
                                /\ LedgerView[r.target].password = p
    BY <1>2, <1>3, <1>8, HeldIsSeen DEF Making
  <2>2. LedgerView[r.target].balance = accounts[d].balance
    BY <2>1
  <2>3. LedgerView[r.target].password = accounts[d].hash[1]
    BY <2>1
  <2>4. d \in Indices /\ accounts[d].balance \in 0 .. MAX_BALANCE
    BY <1>1, <1>8, FindIsHolder DEF SerialInv, BalancesInRange
  <2>5. ~ Bank!Applies("ID_NOT_FOUND", r, 0)
    BY <1>1, <2>1 DEF Bank!Applies, Bank!Open
  <2>6. Bank!Applies("TOO_HIGH", r, 0) <=> TooHigh(d, r.amount)
    <3>1. Bank!Applies("TOO_HIGH", r, 0) <=> accounts[d].balance + r.amount > MAX_BALANCE
      BY <1>1, <2>2 DEF Bank!Applies
    <3>2. Add(accounts[d].balance, r.amount) = accounts[d].balance + r.amount
      BY <1>2, <2>4, SumFits
    <3> QED
      BY <3>1, <3>2 DEF TooHigh
  <2> QED
    BY <1>8, <2>1, <2>3, <2>4, <2>5, <2>6 DEF PayeeSeen
<1>9. PayerSeen(r, s)
  BY <1>1, <1>2, <1>4, <1>10, <1>5, <1>6 DEF PayerSeen
<1> QED
  BY <1>7, <1>8, <1>9

(* What the server does without MIN_BALANCE is what types.h says, or the    *)
(* lapse.                                                                   *)
LEMMA RuleOrLapse ==
  ASSUME BankInv, NEW o \in Offices, pc[o] \in {"decide", "debit"},
         Bank!Refuse(o, 0) \/ Bank!Transfer(o, 0)
  PROVE  Bank!Refuse(o, MIN_BALANCE) \/ Bank!Transfer(o, MIN_BALANCE) \/ Bank!Lapse(o)
<1> DEFINE r == request[o]
           final == LedgerView[r.id].balance - r.amount
<1>1. /\ r.op = "transfer" /\ LedgerView[r.id] # NoAccount
      /\ LedgerView[r.id].balance \in Int /\ r.amount \in Int
      /\ MIN_BALANCE \in Nat
  <2>1. PayerSeen(r, Find(r.id))
    BY BothSeen
  <2> QED
    BY <2>1, AccountsAssumption DEF PayerSeen
<1>2. CASE final \in 0 .. MIN_BALANCE - 1
  <2>1. PhaseView[o] = "called"
    BY DEF PhaseView
  <2> QED
    BY <1>1, <1>2, <2>1 DEF Bank!Lapse, Bank!Open
<1>3. CASE final \notin 0 .. MIN_BALANCE - 1
  <2>1. final \in Int /\ (final < 0 <=> final < MIN_BALANCE)
    BY <1>1, <1>3
  <2>2. \A j \in 1 .. 7 : Bank!Applies(Bank!ErrorCodes[j], r, 0)
                            <=> Bank!Applies(Bank!ErrorCodes[j], r, MIN_BALANCE)
    <3> SUFFICES ASSUME NEW j \in 1 .. 7
                 PROVE  Bank!Applies(Bank!ErrorCodes[j], r, 0)
                            <=> Bank!Applies(Bank!ErrorCodes[j], r, MIN_BALANCE)
      OBVIOUS
    <3>1. Bank!ErrorCodes[j] \in {"LOGIN_FAIL", "OP_NALLOW", "ID_IN_USE", "ID_NOT_FOUND",
                                  "SAME_ID", "NO_FUNDS", "TOO_HIGH"}
      BY Codes
    <3>2. CASE Bank!ErrorCodes[j] = "NO_FUNDS"
      BY <2>1, <3>2 DEF Bank!Applies
    <3>3. CASE Bank!ErrorCodes[j] # "NO_FUNDS"
      BY <3>1, <3>3 DEF Bank!Applies
    <3> QED
      BY <3>2, <3>3
  <2>3. DOMAIN Bank!ErrorCodes = 1 .. 7
    BY DEF Bank!ErrorCodes
  <2>4. Bank!Errors(r, 0) = Bank!Errors(r, MIN_BALANCE)
    <3>1. \A j \in 1 .. 7 : Bank!FirstError(r, j, 0) <=> Bank!FirstError(r, j, MIN_BALANCE)
      BY <2>2 DEF Bank!FirstError
    <3> QED
      BY <2>3, <3>1 DEF Bank!Errors
  <2> QED
    BY <2>4 DEF Bank!Refuse, Bank!Transfer
<1> QED
  BY <1>2, <1>3

LEMMA DecideIsSeen ==
  ASSUME BankInv, BankInv', NEW o \in Offices, Decide(o)
  PROVE  Bank!Refuse(o, 0) \/ UNCHANGED Bank!ledgerVars
<1> DEFINE r == request[o]
           s == Find(r.id)
           d == Find(r.target)
<1>1. TypeOK /\ Handle(o) /\ pc[o] = "decide" /\ pc[o] \in Hidden /\ UNCHANGED <<accounts, request>>
  BY DEF BankInv, Inv, Handle, TransferStep, Decide, Hidden
<1>2. /\ r.op = "transfer" /\ s # NoIndex
      /\ ~ Bank!Applies("LOGIN_FAIL", r, 0) /\ ~ Bank!Applies("OP_NALLOW", r, 0)
      /\ ~ Bank!Applies("ID_IN_USE", r, 0)
      /\ Bank!Applies("ID_NOT_FOUND", r, 0) <=> d = NoIndex
      /\ Bank!Applies("SAME_ID", r, 0) <=> r.id = r.target
      /\ Bank!Applies("NO_FUNDS", r, 0) <=> accounts[s].balance < r.amount
      /\ d # NoIndex => (Bank!Applies("TOO_HIGH", r, 0) <=> TooHigh(d, r.amount))
  BY <1>1, BothSeen DEF PayerSeen, PayeeSeen
<1>3. ASSUME NEW code \in Bank!Errors(r, 0), code # "LOGIN_FAIL", Refused(o, code) PROVE Bank!Refuse(o, 0)
  <2>1. SetReply(o, code, r.amount) /\ pc'[o] \in Done
    BY <1>1, <1>3 DEF Refused, Goto, Unlocking, TypeOK, Done
  <2> QED
    BY <1>1, <1>2, <1>3, <2>1, Refuses
<1>4. CASE d = NoIndex
  <2>1. Refused(o, "ID_NOT_FOUND")
    BY <1>4 DEF Decide
  <2>2. Bank!Applies(Bank!ErrorCodes[4], r, 0) /\ \A j \in 1 .. 4 - 1 : ~ Bank!Applies(Bank!ErrorCodes[j], r, 0)
    BY <1>2, <1>4, Codes
  <2>3. "ID_NOT_FOUND" \in Bank!Errors(r, 0)
    BY <2>2, FirstIsError, Codes
  <2> QED
    BY <1>3, <2>1, <2>3
<1>5. CASE d # NoIndex /\ r.id = r.target
  <2>1. Refused(o, "SAME_ID")
    BY <1>5 DEF Decide
  <2>2. Bank!Applies(Bank!ErrorCodes[5], r, 0) /\ \A j \in 1 .. 5 - 1 : ~ Bank!Applies(Bank!ErrorCodes[j], r, 0)
    BY <1>2, <1>5, Codes
  <2>3. "SAME_ID" \in Bank!Errors(r, 0)
    BY <2>2, FirstIsError, Codes
  <2> QED
    BY <1>3, <2>1, <2>3
<1>6. CASE d # NoIndex /\ r.id # r.target /\ accounts[s].balance < r.amount
  <2>1. Refused(o, "NO_FUNDS")
    BY <1>2, <1>6 DEF Decide
  <2>2. Bank!Applies(Bank!ErrorCodes[6], r, 0) /\ \A j \in 1 .. 6 - 1 : ~ Bank!Applies(Bank!ErrorCodes[j], r, 0)
    BY <1>2, <1>6, Codes
  <2>3. "NO_FUNDS" \in Bank!Errors(r, 0)
    BY <2>2, FirstIsError, Codes
  <2> QED
    BY <1>3, <2>1, <2>3
<1>7. CASE d # NoIndex /\ r.id # r.target /\ ~ (accounts[s].balance < r.amount) /\ TooHigh(d, r.amount)
  <2>1. Refused(o, "TOO_HIGH")
    BY <1>2, <1>7 DEF Decide
  <2>2. Bank!Applies(Bank!ErrorCodes[7], r, 0) /\ \A j \in 1 .. 7 - 1 : ~ Bank!Applies(Bank!ErrorCodes[j], r, 0)
    BY <1>2, <1>7, Codes
  <2>3. "TOO_HIGH" \in Bank!Errors(r, 0)
    BY <2>2, FirstIsError, Codes
  <2> QED
    BY <1>3, <2>1, <2>3
<1>8. CASE d # NoIndex /\ r.id # r.target /\ ~ (accounts[s].balance < r.amount) /\ ~ TooHigh(d, r.amount)
  <2>1. pc'[o] = "debit" /\ reply' = reply
    BY <1>1, <1>2, <1>8 DEF Decide, Goto, TypeOK
  <2> QED
    BY <1>1, <2>1, QuietPlaces DEF Hidden
<1> QED
  BY <1>4, <1>5, <1>6, <1>7, <1>8

(* The debit is the moment of a transfer. *)
LEMMA DebitIsTransfer ==
  ASSUME BankInv, BankInv', NEW o \in Offices, Debit(o)
  PROVE  Bank!Transfer(o, 0)
<1> DEFINE r == request[o]
           s == source[o]
           d == dest[o]
           b == accounts[s].balance
           c == accounts[d].balance
<1>1. Inv /\ SerialInv /\ Own(o) /\ Stage(o) /\ Handle(o) /\ pc[o] = "debit"
  BY DEF BankInv, Inv, SerialInv, Handle, TransferStep, Debit
<1>2. /\ UNCHANGED <<request, source>> /\ pc'[o] = "credit"
      /\ s \in Indices /\ d \in Indices /\ s # d /\ accounts[s].id = r.id /\ accounts[d].id = r.target
      /\ accounts'[s].id = accounts[s].id /\ accounts'[s].hash = accounts[s].hash
      /\ accounts'[s].balance = b - r.amount
      /\ \A k \in Indices \ {s} : accounts'[k] = accounts[k]
  BY <1>1, MoneyMoves
<1>3. r.id # r.target /\ r.id # Admin /\ r.target # Admin /\ r.id \in Ids /\ r.target \in Ids
      /\ r.id \in Held(o) /\ r.target \in Held(o)
  BY <1>1, RequestFields, HoldsItsAccounts DEF Stage
<1>4. Find(r.id) = s /\ Find(r.target) = d /\ d # NoIndex
  BY <1>1, <1>2, <1>3, FindClient, AccountsAssumption DEF Indices, Ids, NoIndex
<1>5. PayerSeen(r, s) /\ PayeeSeen(r, d)
  BY <1>1, <1>4, BothSeen
<1>6. /\ r.op = "transfer" /\ r.amount \in 0 .. MAX_BALANCE /\ b \in 0 .. MAX_BALANCE
      /\ c \in 0 .. MAX_BALANCE /\ MAX_BALANCE \in Nat
  BY <1>4, <1>5, AccountsAssumption DEF PayerSeen, PayeeSeen
<1>7. Bank!Errors(r, 0) = {}
  <2>1. b >= r.amount /\ c + r.amount <= MAX_BALANCE
    BY <1>1 DEF Own, Working
  <2>2. ~ (b < r.amount)
    BY <1>6, <2>1
  <2>3. ~ TooHigh(d, r.amount)
    BY <1>6, <2>1, SumFits DEF TooHigh
  <2>4. /\ ~ Bank!Applies("LOGIN_FAIL", r, 0) /\ ~ Bank!Applies("OP_NALLOW", r, 0)
        /\ ~ Bank!Applies("ID_IN_USE", r, 0) /\ ~ Bank!Applies("ID_NOT_FOUND", r, 0)
        /\ ~ Bank!Applies("SAME_ID", r, 0) /\ ~ Bank!Applies("NO_FUNDS", r, 0) /\ ~ Bank!Applies("TOO_HIGH", r, 0)
    BY <1>3, <1>4, <1>5, <2>2, <2>3 DEF PayerSeen, PayeeSeen
  <2>5. \A j \in 1 .. 7 : ~ Bank!Applies(Bank!ErrorCodes[j], r, 0)
    BY <2>4, Codes
  <2> QED
    BY <2>5, NoErrors
<1>8. LedgerView[r.id] = [balance |-> b, password |-> r.password]
  BY <1>1, <1>4, ClientSeen
<1>9. LedgerView[r.target] = [balance |-> c, password |-> LedgerView[r.target].password]
      /\ LedgerView[r.target].password = accounts[d].hash[1]
  BY <1>4, <1>5 DEF PayeeSeen
<1>10. \A p \in Offices \ {o} :
        /\ pc'[p] = pc[p] /\ request'[p] = request[p]
        /\ ~ Half(p, r.id) /\ ~ Crediting(p, r.id) /\ ~ Half(p, r.target) /\ ~ Crediting(p, r.target)
  BY <1>1, <1>3, Alone, OthersKeep DEF Inv
<1>11. \A id \in {r.id, r.target} : ~ HalfCreated(id)'
  <2> SUFFICES ASSUME NEW id \in {r.id, r.target}, NEW p \in Offices, Half(p, id)' PROVE FALSE
    BY DEF HalfCreated, Half, Making
  <2>1. p # o
    BY <1>2 DEF Half, Making
  <2> QED
    BY <1>10, <2>1 DEF Half
<1>12. LedgerView'[r.id] = [balance |-> b - r.amount, password |-> r.password]
  <2>1. Shows(r.id)' /\ Shows(r.id)
    BY <1>2, <1>3, ViewShows, ViewShowsNext
  <2>2. \A p \in Offices : ~ Crediting(p, r.id)'
    BY <1>2, <1>3, <1>10 DEF Crediting
  <2>3. LedgerView'[r.id] = [balance |-> accounts'[s].balance, password |-> accounts'[s].hash[1]]
    BY <1>2, <1>3, <1>11, <2>1, <2>2 DEF Shows
  <2>4. accounts[s].hash[1] = r.password
    <3>1. ~ HalfCreated(r.id)
      BY <1>1, <1>10, HalfIsHalf DEF Half, Making
    <3>2. \A p \in Offices : ~ Crediting(p, r.id)
      BY <1>1, <1>10 DEF Crediting
    <3>3. LedgerView[r.id] = [balance |-> b, password |-> accounts[s].hash[1]]
      BY <1>2, <1>3, <2>1, <3>1, <3>2 DEF Shows
    <3> QED
      BY <1>8, <3>3
  <2> QED
    BY <1>2, <2>3, <2>4
<1>13. LedgerView'[r.target] = [balance |-> c + r.amount, password |-> LedgerView[r.target].password]
  <2>1. Shows(r.target)'
    BY <1>2, <1>3, ViewShowsNext
  <2>2. Crediting(o, r.target)'
    BY <1>2 DEF Crediting
  <2>3. LedgerView'[r.target] = [balance |-> accounts'[d].balance + request'[o].amount,
                                 password |-> accounts'[d].hash[1]]
    BY <1>2, <1>3, <1>11, <2>1, <2>2 DEF Shows
  <2> QED
    BY <1>2, <1>9, <2>3
<1>14. ASSUME NEW id \in Ids, id # r.id, id # r.target PROVE LedgerView'[id] = LedgerView[id]
  <2>1. ~ Half(o, id) /\ ~ Half(o, id)' /\ ~ Crediting(o, id) /\ ~ Crediting(o, id)'
    BY <1>1, <1>2, <1>14 DEF Half, Crediting, Making
  <2>2. \A i \in Indices : (accounts[i].id = id \/ accounts'[i].id = id) /\ (id = Admin => i = 0) =>
           accounts'[i] = accounts[i]
    BY <1>2, <1>14
  <2> QED
    BY <1>1, <2>1, <2>2, Unseen
<1>15. LedgerView' = [LedgerView EXCEPT ![r.id].balance = @ - r.amount, ![r.target].balance = @ + r.amount]
  <2>1. LedgerView = [id \in Ids |-> LedgerView[id]] /\ LedgerView' = [id \in Ids |-> LedgerView'[id]]
    BY DEF LedgerView
  <2>2. [LedgerView[r.id] EXCEPT !.balance = @ - r.amount] = LedgerView'[r.id]
    BY <1>8, <1>12
  <2>3. [LedgerView[r.target] EXCEPT !.balance = @ + r.amount] = LedgerView'[r.target]
    BY <1>9, <1>13
  <2> QED
    BY <1>3, <1>14, <2>1, <2>2, <2>3
<1>16. Bank!Answer(o, "OK", LedgerView'[r.id].balance)
  <2>1. PhaseView[o] = "called" /\ PhaseView'[o] = "answered"
    BY <1>1, <1>2 DEF PhaseView
  <2>2. ReplyView'[o] = [code |-> "OK", balance |-> accounts'[s].balance]
    BY <1>2 DEF ReplyView
  <2>3. LedgerView'[r.id].balance = accounts'[s].balance
    BY <1>2, <1>12
  <2> QED
    BY <1>1, <1>2, <2>1, <2>2, <2>3, Answers
<1>17. PhaseView[o] = "called"
  BY <1>1 DEF PhaseView
<1> QED
  BY <1>6, <1>7, <1>15, <1>16, <1>17 DEF Bank!Transfer

-----------------------------------------------------------------------------
(* The refinement.                                                         *)

LEMMA LedgerInit == Init => Bank!Init
<1> SUFFICES ASSUME Init PROVE Bank!Init
  OBVIOUS
<1>1. Inv /\ SerialInv /\ TypeOK
  BY InvInit, SerialInit DEF Inv
<1>2. PhaseView = [o \in Offices |-> "idle"] /\ ReplyView = [o \in Offices |-> NoReply]
  BY DEF Init, PhaseView, ReplyView
<1>3. \A id \in Ids : ~ HalfCreated(id) /\ InFlight(id) = 0
  BY DEF Init, HalfCreated, InFlight
<1>4. Find(Admin) = 0 /\ 0 \in Indices
  BY <1>1, FindAdmin
<1>5. accounts[0].balance = 0 /\ accounts[0].hash = <<AdminPassword, NoRequest>> /\ accounts[0].id = Admin
  BY <1>1 DEF Inv, AdminFirst, AdminUntouched
<1>6. \A id \in Ids : id # Admin => Holders(id) = {}
  BY DEF Init, Holders, ZeroAccount, Admin
<1>7. Holders(Admin) # {}
  BY <1>4, <1>5 DEF Holders
<1>8. LedgerView[Admin] = [balance |-> 0, password |-> AdminPassword]
  <2>1. accounts[0].hash[1] = AdminPassword /\ accounts[0].balance + 0 = 0
    BY <1>5
  <2>2. Admin \in Ids
    BY <1>4 DEF Indices, Admin
  <2> QED
    BY <1>3, <1>4, <1>7, <2>1, <2>2 DEF LedgerView
<1>9. \A id \in Ids : id # Admin => LedgerView[id] = NoAccount
  BY <1>6 DEF LedgerView
<1>10. LedgerView = [id \in Ids |-> IF id = Admin THEN [balance |-> 0, password |-> AdminPassword] ELSE NoAccount]
  <2>1. LedgerView = [id \in Ids |-> LedgerView[id]]
    BY DEF LedgerView
  <2> QED
    BY <1>8, <1>9, <2>1
<1> QED
  BY <1>2, <1>10 DEF Bank!Init, Init

(* A step of the bank, the lapse included. *)
BankStep == Bank!Next \/ \E o \in Offices : Bank!Lapse(o)

LEMMA LedgerStep == BankInv /\ BankInv' /\ [Next]_vars => [BankStep]_(Bank!ledgerVars)
<1> SUFFICES ASSUME BankInv, BankInv', [Next]_vars PROVE BankStep \/ UNCHANGED Bank!ledgerVars
  OBVIOUS
<1>1. ASSUME NEW o \in Offices, Receive(o) \/ Handle(o) PROVE BankStep \/ UNCHANGED Bank!ledgerVars
  <2>1. CASE Receive(o)
    BY <2>1, ReceiveIsReceive DEF BankStep, Bank!Next
  <2>2. CASE LockStep(o)
    BY <2>2, LocksUnseen
  <2>3. CASE Authenticate(o) \/ Capacity(o) \/ Exists(o)
    BY <2>3, AuthenticateIsSeen, CapacityIsSeen DEF BankStep, Bank!Next
  <2>3a. CASE Decide(o) \/ Debit(o)
    <3>1. pc[o] \in {"decide", "debit"}
      BY <2>3a DEF Decide, Debit
    <3>2. Bank!Refuse(o, 0) \/ Bank!Transfer(o, 0) \/ UNCHANGED Bank!ledgerVars
      BY <2>3a, DecideIsSeen, DebitIsTransfer
    <3> QED
      BY <3>1, <3>2, RuleOrLapse DEF BankStep, Bank!Next
  <2>4. CASE SetId(o) \/ SetBalance(o) \/ SetSalt(o) \/ SetHash(o) \/ Load(o) \/ Store(o)
    BY <2>4, MakingUnseen, CountUnseen
  <2>5. CASE Verify(o) \/ Read(o) \/ Return(o)
    BY <2>5, VerifyIsCreate, ReadIsBalance, ReturnIsReturn DEF BankStep, Bank!Next
  <2>6. CASE Credit(o) \/ ReadBack(o)
    BY <2>6, CreditUnseen, ReadBackUnseen
  <2> QED
    BY <1>1, <2>1, <2>2, <2>3, <2>3a, <2>4, <2>5, <2>6 DEF Handle, CreateStep, TransferStep
<1>2. CASE UNCHANGED vars
  <2>1. LedgerView' = LedgerView
    BY <1>2 DEF vars, LedgerView, Holders, HalfCreated, Find, InFlight
  <2>2. PhaseView' = PhaseView /\ ReplyView' = ReplyView
    BY <1>2 DEF vars, PhaseView, ReplyView
  <2> QED
    BY <1>2, <2>1, <2>2 DEF vars, Bank!ledgerVars
<1> QED
  BY <1>1, <1>2 DEF Next

(* The handlers, with their mutexes, implement the ledger: a user cannot    *)
(* tell them from a bank that serves one request at a time by the rules of  *)
(* types.h and has one lapse, a payer left with less than MIN_BALANCE.      *)
THEOREM AccountsImplementLedger == ASSUME SerialCreates PROVE Spec => IsLedger
<1>1. Spec => []BankInv
  BY AccountsInvariant, MutexesCorrect, SerialBank, KnownInit, KnownStep, PTL DEF Spec, BankInv
<1> QED
  BY <1>1, LedgerInit, LedgerStep, PTL DEF Spec, IsLedger, Bank!SpecWithLapse, BankStep

=============================================================================
