----------------------------- MODULE Accounts -----------------------------
(***************************************************************************)
(* The accounts of the home-banking server and the handlers that work on   *)
(* them (Trabalho_2/src/server.c): handleCreateAccount, handleCheckBalance *)
(* and handleTransfer, run by the bank offices, one mutex per account id.  *)
(*                                                                         *)
(* A handler is cut where another office can see or disturb it: at every   *)
(* lock and unlock, and at every access to `accounts' and `numAccounts'.   *)
(* createAccount holds the mutex of the new id only, and uses the shared   *)
(* numAccounts anew in each of its statements.  SerialCreates says how the *)
(* administrator behaves: TRUE, a creation is not sent before the last one *)
(* is answered; FALSE, creations of different ids run side by side.        *)
(*                                                                         *)
(* A password, a salt and a hash are what authentication tells apart: the  *)
(* salt that createAccount draws is named by the request that drew it, and *)
(* a hash is the pair of the password and the salt it was made of.  A    *)
(* look-up in `accounts', or the copy of a field, is one step; what a      *)
(* handler reads twice with only logging in between it reads once.         *)
(***************************************************************************)
EXTENDS Integers

CONSTANTS
    Offices,            \* the bank office threads
    MAX_BANK_ACCOUNTS,  \* length of the array; ids are smaller
    MIN_BALANCE,        \* in types.h only: the server does not know it
    MAX_BALANCE,
    WORD,               \* 2^32, the width of a balance
    AdminPassword, Passwords,
    Requests,           \* what user.c lets through
    NoRequest, NoReply, NoAccount, Nobody,
    SerialCreates

Admin == 0  \* ADMIN_ACCOUNT_ID

Ids == 0 .. MAX_BANK_ACCOUNTS - 1

ASSUME AccountsAssumption ==
    /\ MAX_BANK_ACCOUNTS \in Nat \ {0}
    /\ MIN_BALANCE \in Nat /\ MAX_BALANCE \in Nat /\ WORD \in Nat /\ 2 * MAX_BALANCE < WORD
    /\ AdminPassword \in Passwords
    /\ NoRequest \notin Requests /\ Nobody \notin Offices
    /\ NoAccount \notin [balance : Int, password : Passwords]
    /\ SerialCreates \in BOOLEAN
    /\ \A r \in Requests :
         /\ r.op \in {"create", "balance", "transfer"}
         /\ r.id \in Ids /\ r.target \in Ids /\ r.amount \in 0 .. MAX_BALANCE
         /\ r.password \in Passwords /\ r.newPassword \in Passwords
         /\ r.op # "balance" => r.target # Admin

VARIABLES
    accounts, numAccounts,  \* the array and its fill mark
    accountMutexes,         \* the owner of each account's mutex
    up,                     \* FALSE after an access that C leaves undefined
    pc, request, reply,     \* office: control, request in hands, reply
    source, dest,           \* office: the accounts a transfer works on
    loaded                  \* office: numAccounts as read by numAccounts++

vars == <<accounts, numAccounts, accountMutexes, up, pc, request, reply, source, dest, loaded>>

handler == <<request, reply, source, dest, loaded>>

Indices == Ids
NoIndex == MAX_BANK_ACCOUNTS

Goto(o, label) == pc' = [pc EXCEPT ![o] = label]
SetReply(o, code, balance) == reply' = [reply EXCEPT ![o] = [code |-> code, balance |-> balance]]

Add(a, b) == (a + b) % WORD
Sub(a, b) == (a + WORD - b) % WORD

(* getBankAccount: the first account with the id.  The cells not in use are *)
(* zero, which is the id of the administrator, the first of all.            *)
Holders(id) == {i \in Indices : accounts[i].id = id}

Find(id) ==
    IF Holders(id) = {} THEN NoIndex
    ELSE CHOOSE i \in Holders(id) : \A j \in Holders(id) : i <= j

(* checkPassword. *)
Authentic(r) ==
    LET i == Find(r.id)
    IN  i # NoIndex /\ accounts[i].hash = <<r.password, accounts[i].salt>>

(* Mutations of LockOrder: the payer's mutex is taken first; only the      *)
(* payer's is taken.                                                       *)
LockOrder_PayerFirst(r) == IF r.op = "create" THEN <<r.target, r.target>> ELSE <<r.id, r.target>>
LockOrder_PayerOnly(r) == IF r.op = "create" THEN <<r.target, r.target>> ELSE <<r.id, r.id>>

(* The mutexes a handler takes, the lower id first. *)
LockOrder(r) ==
    CASE r.op = "create" -> <<r.target, r.target>>
      [] r.op = "balance" -> <<r.id, r.id>>
      [] r.op = "transfer" -> IF r.id < r.target THEN <<r.id, r.target>> ELSE <<r.target, r.id>>

First(r) == LockOrder(r)[1]
Second(r) == LockOrder(r)[2]

ZeroAccount == [id |-> 0, balance |-> 0, salt |-> NoRequest, hash |-> <<>>]

Init ==
    /\ accounts = [i \in Indices |->
         IF i = 0 THEN [id |-> Admin, balance |-> 0, salt |-> NoRequest,
                        hash |-> <<AdminPassword, NoRequest>>]
         ELSE ZeroAccount]
    /\ numAccounts = 1
    /\ accountMutexes = [id \in Ids |-> Nobody]
    /\ up = TRUE
    /\ pc = [o \in Offices |-> "idle"]
    /\ request = [o \in Offices |-> NoRequest]
    /\ reply = [o \in Offices |-> NoReply]
    /\ source = [o \in Offices |-> NoIndex] /\ dest = [o \in Offices |-> NoIndex]
    /\ loaded = [o \in Offices |-> 0]

-----------------------------------------------------------------------------

Creating(o) == pc[o] # "idle" /\ request[o].op = "create"

(* handleRequest: an office begins with a request from the queue. *)
Receive(o) ==
    /\ pc[o] = "idle"
    /\ \E r \in Requests :
         /\ SerialCreates /\ r.op = "create" => \A p \in Offices : ~Creating(p)
         /\ request' = [request EXCEPT ![o] = r]
         /\ Goto(o, IF r.op = "create" THEN "authenticate" ELSE "lockFirst")
    /\ UNCHANGED <<accounts, numAccounts, accountMutexes, up, reply, source, dest, loaded>>

LockFirst(o) ==
    LET r == request[o]
    IN  /\ pc[o] = "lockFirst" /\ accountMutexes[First(r)] = Nobody
        /\ accountMutexes' = [accountMutexes EXCEPT ![First(r)] = o]
        /\ Goto(o, IF Second(r) # First(r) THEN "lockSecond"
                   ELSE IF r.op = "create" THEN "exists" ELSE "authenticate")
        /\ UNCHANGED <<accounts, numAccounts, up, handler>>

LockSecond(o) ==
    LET r == request[o]
    IN  /\ pc[o] = "lockSecond" /\ accountMutexes[Second(r)] = Nobody
        /\ accountMutexes' = [accountMutexes EXCEPT ![Second(r)] = o]
        /\ Goto(o, "authenticate")
        /\ UNCHANGED <<accounts, numAccounts, up, handler>>

(* From a refusal, or the end of the work, to the release of the mutexes. *)
Unlocking(r) == IF Second(r) # First(r) THEN "unlockSecond" ELSE "unlockFirst"

UnlockSecond(o) ==
    /\ pc[o] = "unlockSecond"
    /\ accountMutexes' = [accountMutexes EXCEPT ![Second(request[o])] = Nobody]
    /\ Goto(o, "unlockFirst")
    /\ UNCHANGED <<accounts, numAccounts, up, handler>>

UnlockFirst(o) ==
    /\ pc[o] = "unlockFirst"
    /\ accountMutexes' = [accountMutexes EXCEPT ![First(request[o])] = Nobody]
    /\ Goto(o, "reply")
    /\ UNCHANGED <<accounts, numAccounts, up, handler>>

(* checkPassword and isAdmin, which handleCreateAccount calls before it has *)
(* any mutex and the other handlers after they have theirs.                 *)
Authenticate(o) ==
    LET r == request[o]
        Leave == IF r.op = "create" THEN "reply" ELSE Unlocking(r)
    IN  /\ pc[o] = "authenticate"
        /\ \/ /\ ~Authentic(r)
              /\ SetReply(o, "LOGIN_FAIL", 0) /\ Goto(o, Leave)
           \/ /\ Authentic(r) /\ (r.id = Admin) # (r.op = "create")
              /\ SetReply(o, "OP_NALLOW", IF r.op = "transfer" THEN r.amount ELSE 0)
              /\ Goto(o, Leave)
           \/ /\ Authentic(r) /\ (r.id = Admin) = (r.op = "create")
              /\ Goto(o, CASE r.op = "create" -> "capacity"
                           [] r.op = "balance" -> "read"
                           [] r.op = "transfer" -> "decide")
              /\ UNCHANGED reply
        /\ UNCHANGED <<accounts, numAccounts, accountMutexes, up, request, source, dest, loaded>>

-----------------------------------------------------------------------------
(* handleCreateAccount and createAccount.                                  *)

(* numAccounts is read without a mutex. *)
Capacity(o) ==
    /\ pc[o] = "capacity"
    /\ IF numAccounts >= MAX_BANK_ACCOUNTS
       THEN SetReply(o, "ID_IN_USE", 0) /\ Goto(o, "reply")
       ELSE Goto(o, "lockFirst") /\ UNCHANGED reply
    /\ UNCHANGED <<accounts, numAccounts, accountMutexes, up, request, source, dest, loaded>>

(* Mutation of Exists: the second look-up is left out. *)
Exists_Unchecked(o) ==
    /\ pc[o] = "exists"
    /\ Goto(o, "setId") /\ UNCHANGED reply
    /\ UNCHANGED <<accounts, numAccounts, accountMutexes, up, request, source, dest, loaded>>

Exists(o) ==
    /\ pc[o] = "exists"
    /\ IF Find(request[o].target) # NoIndex
       THEN SetReply(o, "ID_IN_USE", 0) /\ Goto(o, "unlockFirst")
       ELSE Goto(o, "setId") /\ UNCHANGED reply
    /\ UNCHANGED <<accounts, numAccounts, accountMutexes, up, request, source, dest, loaded>>

(* A statement of createAccount assigns a field of accounts[numAccounts];   *)
(* past the end of the array C promises nothing any more.                   *)
Cell == accounts[numAccounts]

Assign(o, from, to, cell) ==
    /\ pc[o] = from /\ Goto(o, to)
    /\ IF numAccounts \in Indices
       THEN accounts' = [accounts EXCEPT ![numAccounts] = cell] /\ UNCHANGED up
       ELSE up' = FALSE /\ UNCHANGED accounts
    /\ UNCHANGED <<numAccounts, accountMutexes, handler>>

SetId(o) == Assign(o, "setId", "setBalance", [Cell EXCEPT !.id = request[o].target])
SetBalance(o) == Assign(o, "setBalance", "setSalt", [Cell EXCEPT !.balance = request[o].amount])
SetSalt(o) == Assign(o, "setSalt", "setHash", [Cell EXCEPT !.salt = request[o]])
SetHash(o) ==
    Assign(o, "setHash", "load", [Cell EXCEPT !.hash = <<request[o].newPassword, request[o]>>])

(* numAccounts++, a load and a store. *)
Load(o) ==
    /\ pc[o] = "load" /\ Goto(o, "store")
    /\ loaded' = [loaded EXCEPT ![o] = numAccounts]
    /\ UNCHANGED <<accounts, numAccounts, accountMutexes, up, request, reply, source, dest>>

(* Mutation of Store: numAccounts goes the wrong way. *)
Store_Down(o) ==
    /\ pc[o] = "store" /\ Goto(o, "verify")
    /\ numAccounts' = loaded[o] - 1
    /\ UNCHANGED <<accounts, accountMutexes, up, handler>>

Store(o) ==
    /\ pc[o] = "store" /\ Goto(o, "verify")
    /\ numAccounts' = loaded[o] + 1
    /\ UNCHANGED <<accounts, accountMutexes, up, handler>>

Verify(o) ==
    /\ pc[o] = "verify" /\ Goto(o, "unlockFirst")
    /\ SetReply(o, IF Find(request[o].target) # NoIndex THEN "OK" ELSE "OTHER", 0)
    /\ UNCHANGED <<accounts, numAccounts, accountMutexes, up, request, source, dest, loaded>>

-----------------------------------------------------------------------------
(* handleCheckBalance and handleTransfer.                                  *)

(* getBalanceFromAccount leaves `balance' as it is, uninitialised, when     *)
(* the account is gone.                                                     *)
BalanceOf(id) == IF Find(id) # NoIndex THEN {accounts[Find(id)].balance} ELSE 0 .. WORD - 1

Read(o) ==
    /\ pc[o] = "read" /\ Goto(o, Unlocking(request[o]))
    /\ \E b \in BalanceOf(request[o].id) : SetReply(o, "OK", b)
    /\ UNCHANGED <<accounts, numAccounts, accountMutexes, up, request, source, dest, loaded>>

Refused(o, code) == SetReply(o, code, request[o].amount) /\ Goto(o, Unlocking(request[o]))

(* Mutation of TooHigh: the limit is checked before the sum. *)
TooHigh_Late(i, amount) == accounts[i].balance > MAX_BALANCE

TooHigh(i, amount) == Add(accounts[i].balance, amount) > MAX_BALANCE

(* The checks of handleTransfer on the two accounts, in their order. *)
Decide(o) ==
    LET r == request[o]
        s == Find(r.id)
        d == Find(r.target)
    IN  /\ pc[o] = "decide"
        /\ source' = [source EXCEPT ![o] = s] /\ dest' = [dest EXCEPT ![o] = d]
        /\ CASE d = NoIndex -> Refused(o, "ID_NOT_FOUND") /\ UNCHANGED up
             [] d # NoIndex /\ r.id = r.target -> Refused(o, "SAME_ID") /\ UNCHANGED up
             [] d # NoIndex /\ r.id # r.target /\ s = NoIndex -> up' = FALSE /\ UNCHANGED <<pc, reply>>
             [] OTHER ->
                  /\ IF accounts[s].balance < r.amount THEN Refused(o, "NO_FUNDS")
                     ELSE IF TooHigh(d, r.amount) THEN Refused(o, "TOO_HIGH")
                     ELSE Goto(o, "debit") /\ UNCHANGED reply
                  /\ UNCHANGED up
        /\ UNCHANGED <<accounts, numAccounts, accountMutexes, request, loaded>>

(* transferAmount. *)
Debit(o) ==
    /\ pc[o] = "debit" /\ Goto(o, "credit")
    /\ accounts' = [accounts EXCEPT ![source[o]].balance = Sub(@, request[o].amount)]
    /\ UNCHANGED <<numAccounts, accountMutexes, up, handler>>

(* Mutation of Credit: what arrives is one unit short. *)
Credit_Short(o) ==
    /\ pc[o] = "credit" /\ Goto(o, "readBack")
    /\ accounts' = [accounts EXCEPT ![dest[o]].balance = Add(@, request[o].amount - 1)]
    /\ UNCHANGED <<numAccounts, accountMutexes, up, handler>>

Credit(o) ==
    /\ pc[o] = "credit" /\ Goto(o, "readBack")
    /\ accounts' = [accounts EXCEPT ![dest[o]].balance = Add(@, request[o].amount)]
    /\ UNCHANGED <<numAccounts, accountMutexes, up, handler>>

ReadBack(o) ==
    /\ pc[o] = "readBack" /\ Goto(o, "unlockSecond")
    /\ \E b \in BalanceOf(request[o].id) : SetReply(o, "OK", b)
    /\ UNCHANGED <<accounts, numAccounts, accountMutexes, up, request, source, dest, loaded>>

(* The reply is sent and the office turns to its next request. *)
Return(o) ==
    /\ pc[o] = "reply" /\ Goto(o, "idle")
    /\ request' = [request EXCEPT ![o] = NoRequest]
    /\ reply' = [reply EXCEPT ![o] = NoReply]
    /\ source' = [source EXCEPT ![o] = NoIndex] /\ dest' = [dest EXCEPT ![o] = NoIndex]
    /\ loaded' = [loaded EXCEPT ![o] = 0]
    /\ UNCHANGED <<accounts, numAccounts, accountMutexes, up>>

CreateStep(o) ==
    \/ Capacity(o) \/ Exists(o) \/ SetId(o) \/ SetBalance(o) \/ SetSalt(o) \/ SetHash(o)
    \/ Load(o) \/ Store(o) \/ Verify(o)

TransferStep(o) == Decide(o) \/ Debit(o) \/ Credit(o) \/ ReadBack(o)

LockStep(o) == LockFirst(o) \/ LockSecond(o) \/ UnlockSecond(o) \/ UnlockFirst(o)

Handle(o) == LockStep(o) \/ Authenticate(o) \/ CreateStep(o) \/ Read(o) \/ TransferStep(o) \/ Return(o)

Next == up /\ \E o \in Offices : Receive(o) \/ Handle(o)

Spec == Init /\ [][Next]_vars

(* Every office runs on, as the threads of a process do; an office waiting  *)
(* for a mutex gets it when the others stop asking for it, which they do    *)
(* when the requests cease.                                                 *)
Fairness ==
    /\ \A o \in Offices : WF_vars(up /\ Handle(o))
    /\ <>[][\A o \in Offices : ~Receive(o)]_vars

FairSpec == Spec /\ Fairness

-----------------------------------------------------------------------------
(* Properties.                                                             *)

Labels == {"idle", "authenticate", "capacity", "lockFirst", "lockSecond", "exists",
           "setId", "setBalance", "setSalt", "setHash", "load", "store", "verify",
           "read", "decide", "debit", "credit", "readBack",
           "unlockSecond", "unlockFirst", "reply"}

ReturnCodes == {"OK", "LOGIN_FAIL", "OP_NALLOW", "ID_IN_USE", "ID_NOT_FOUND", "SAME_ID",
                "NO_FUNDS", "TOO_HIGH", "OTHER"}

Salts == Requests \cup {NoRequest}

AccountRecords == [id : Ids, balance : 0 .. WORD - 1, salt : Salts,
                   hash : {<<>>} \cup (Passwords \X Salts)]

(* Every variable keeps its type; with creations side by side as well, in   *)
(* which case a balance may be any word, an index any number.               *)
TypeOK ==
    /\ accounts \in [Indices -> AccountRecords]
    /\ numAccounts \in Nat
    /\ accountMutexes \in [Ids -> Offices \cup {Nobody}]
    /\ up \in BOOLEAN
    /\ pc \in [Offices -> Labels]
    /\ request \in [Offices -> Requests \cup {NoRequest}]
    /\ reply \in [Offices -> {NoReply} \cup [code : ReturnCodes, balance : 0 .. WORD - 1]]
    /\ source \in [Offices -> 0 .. NoIndex] /\ dest \in [Offices -> 0 .. NoIndex]
    /\ loaded \in [Offices -> Nat]

(* Where a handler is inside its critical sections. *)
HoldsFirst(o) ==
    \/ pc[o] \in {"lockSecond", "exists", "setId", "setBalance", "setSalt", "setHash", "load", "store",
                  "verify", "read", "decide", "debit", "credit", "readBack", "unlockSecond", "unlockFirst"}
    \/ pc[o] = "authenticate" /\ request[o].op # "create"

HoldsSecond(o) ==
    \/ pc[o] \in {"exists", "setId", "setBalance", "setSalt", "setHash", "load", "store",
                  "verify", "read", "decide", "debit", "credit", "readBack", "unlockSecond"}
    \/ pc[o] = "authenticate" /\ request[o].op # "create"
    \/ pc[o] = "unlockFirst" /\ First(request[o]) = Second(request[o])

Held(o) == (IF HoldsFirst(o) THEN {First(request[o])} ELSE {})
           \cup (IF HoldsSecond(o) THEN {Second(request[o])} ELSE {})

(* An account's mutex is owned exactly while a handler is between the lock  *)
(* and the unlock of it: none is leaked by an early return, none is         *)
(* unlocked by an office that does not own it.                              *)
MutexOwners == \A o \in Offices, id \in Ids : accountMutexes[id] = o <=> id \in Held(o)

(* No circular wait: an office that waits for a mutex holds only mutexes of *)
(* smaller ids, so a chain of waiting offices always climbs.                *)
Wanted(o) == IF pc[o] = "lockFirst" THEN First(request[o]) ELSE Second(request[o])

NoCircularWait ==
    \A o \in Offices : pc[o] \in {"lockFirst", "lockSecond"} =>
        \A id \in Ids : accountMutexes[id] = o => id < Wanted(o)

(* The account of the administrator, which handlers read without its mutex, *)
(* is never written after the start, whatever creations run side by side.   *)
AdminUntouched ==
    accounts[0] = [id |-> Admin, balance |-> 0, salt |-> NoRequest, hash |-> <<AdminPassword, NoRequest>>]

(* What handleTransfer decided on still holds when it moves the money.      *)
DecisionStillHolds ==
    \A o \in Offices : pc[o] \in {"debit", "credit"} =>
        /\ accounts[source[o]].id = request[o].id /\ accounts[dest[o]].id = request[o].target
        /\ pc[o] = "debit" => accounts[source[o]].balance >= request[o].amount
        /\ accounts[dest[o]].balance + request[o].amount <= MAX_BALANCE

(* No balance ever exceeds the limit or wraps around. *)
BalancesInRange == \A i \in Indices : accounts[i].balance \in 0 .. MAX_BALANCE

(* When a creation is about to be answered OK, there is one account with    *)
(* the new id, and the owner can use it: password and balance are those of  *)
(* the request.                                                             *)
CreatedAsAsked ==
    \A o \in Offices :
        pc[o] = "unlockFirst" /\ request[o].op = "create" /\ reply[o].code = "OK" =>
            \E i \in Indices :
                /\ Holders(request[o].target) = {i} /\ i < numAccounts
                /\ accounts[i].balance = request[o].amount
                /\ accounts[i].hash = <<request[o].newPassword, accounts[i].salt>>

-----------------------------------------------------------------------------
(* The bank as its users see it.  A creation counts when it is verified, a  *)
(* transfer when it debits: nobody sees the account it has yet to credit.   *)

HalfCreated(id) ==
    \E o \in Offices : /\ pc[o] \in {"setBalance", "setSalt", "setHash", "load", "store", "verify"}
                       /\ request[o].target = id

InFlight(id) ==
    IF \E o \in Offices : pc[o] = "credit" /\ request[o].target = id
    THEN request[CHOOSE o \in Offices : pc[o] = "credit" /\ request[o].target = id].amount
    ELSE 0

LedgerView == [id \in Ids |->
    IF Holders(id) = {} \/ HalfCreated(id) THEN NoAccount
    ELSE [balance |-> accounts[Find(id)].balance + InFlight(id),
          password |-> accounts[Find(id)].hash[1]]]

PhaseView == [o \in Offices |->
    CASE pc[o] = "idle" -> "idle"
      [] pc[o] \in {"credit", "readBack", "unlockSecond", "unlockFirst", "reply"} -> "answered"
      [] OTHER -> "called"]

ReplyView == [o \in Offices |->
    IF pc[o] \in {"credit", "readBack"}
    THEN [code |-> "OK", balance |-> accounts[source[o]].balance]
    ELSE reply[o]]

Bank == INSTANCE Ledger WITH ledger <- LedgerView, phase <- PhaseView, reply <- ReplyView

(* Each request takes effect at one moment, as if the handlers ran one      *)
(* after the other, and is answered OK or with the first error of types.h   *)
(* that applies, except for NO_FUNDS when a balance falls below MIN_BALANCE *)
(* but not below zero: server.c:695 does not notice that one.               *)
IsLedger == Bank!SpecWithLapse

(* The same without an exception. *)
IsLedgerOfTypesH == Bank!Spec

(* Every handler that an office enters it also leaves: no deadlock among    *)
(* the account mutexes, not even between some of the offices.  Hashing a    *)
(* password is one step here: that the coprocesses of two offices may wait  *)
(* for one another, with the offices, is in Coprocess.                      *)
AllAnswered == \A o \in Offices : pc[o] # "idle" ~> pc[o] = "idle"

=============================================================================
