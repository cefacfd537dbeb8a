------------------------------ MODULE Ledger ------------------------------
(***************************************************************************)
(* What the bank promises: every request takes effect at one moment        *)
(* between its arrival and its answer, and the answer is OK or the first   *)
(* error, in the order of types.h, that applies at that moment (Spec).     *)
(* The server keeps this promise but for one lapse: it lets a payer go     *)
(* below MIN_BALANCE, down to nothing (SpecWithLapse).  Accounts           *)
(* implements the latter when the administrator creates accounts one at a  *)
(* time, and not the former.                                               *)
(***************************************************************************)
EXTENDS Integers, Sequences

CONSTANTS Offices, Ids, Admin, AdminPassword, Requests, NoRequest, NoReply, NoAccount,
          MIN_BALANCE, MAX_BALANCE

VARIABLES
    ledger,    \* for each id, its balance and password, or NoAccount
    phase,     \* office: idle, called or answered
    request,   \* office: the request it has in hands
    reply      \* office: the answer, once the request has taken effect

ledgerVars == <<ledger, phase, request, reply>>

ErrorCodes == <<"LOGIN_FAIL", "OP_NALLOW", "ID_IN_USE", "ID_NOT_FOUND", "SAME_ID", "NO_FUNDS", "TOO_HIGH">>

Open(id) == ledger[id] # NoAccount

(* types.h, where `least' is the least that a transfer may leave the payer. *)
Applies(code, r, least) ==
    CASE code = "LOGIN_FAIL" -> ~(Open(r.id) /\ ledger[r.id].password = r.password)
      [] code = "OP_NALLOW" -> (r.op = "create") # (r.id = Admin)
      [] code = "ID_IN_USE" -> r.op = "create" /\ Open(r.target)
      [] code = "ID_NOT_FOUND" -> r.op = "transfer" /\ ~Open(r.target)
      [] code = "SAME_ID" -> r.op = "transfer" /\ r.id = r.target
      [] code = "NO_FUNDS" -> r.op = "transfer" /\ ledger[r.id].balance - r.amount < least
      [] code = "TOO_HIGH" -> r.op = "transfer" /\ ledger[r.target].balance + r.amount > MAX_BALANCE

FirstError(r, i, least) ==
    /\ \A j \in 1 .. i - 1 : ~Applies(ErrorCodes[j], r, least)
    /\ Applies(ErrorCodes[i], r, least)

Errors(r, least) == {ErrorCodes[i] : i \in {j \in DOMAIN ErrorCodes : FirstError(r, j, least)}}

Init ==
    /\ ledger = [id \in Ids |-> IF id = Admin THEN [balance |-> 0, password |-> AdminPassword]
                                             ELSE NoAccount]
    /\ phase = [o \in Offices |-> "idle"]
    /\ request = [o \in Offices |-> NoRequest]
    /\ reply = [o \in Offices |-> NoReply]

Receive(o) ==
    /\ phase[o] = "idle"
    /\ phase' = [phase EXCEPT ![o] = "called"]
    /\ \E r \in Requests : request' = [request EXCEPT ![o] = r]
    /\ UNCHANGED <<ledger, reply>>

Answer(o, code, balance) ==
    /\ phase[o] = "called"
    /\ phase' = [phase EXCEPT ![o] = "answered"]
    /\ reply' = [reply EXCEPT ![o] = [code |-> code, balance |-> balance]]
    /\ UNCHANGED request

Refuse(o, least) ==
    LET r == request[o]
    IN  /\ phase[o] = "called"
        /\ \E code \in Errors(r, least) :
             Answer(o, code, IF r.op = "transfer" /\ code # "LOGIN_FAIL" THEN r.amount ELSE 0)
        /\ UNCHANGED ledger

Create(o) ==
    LET r == request[o]
    IN  /\ phase[o] = "called" /\ r.op = "create" /\ Errors(r, MIN_BALANCE) = {}
        /\ ledger' = [ledger EXCEPT ![r.target] = [balance |-> r.amount, password |-> r.newPassword]]
        /\ Answer(o, "OK", 0)

Balance(o) ==
    LET r == request[o]
    IN  /\ phase[o] = "called" /\ r.op = "balance" /\ Errors(r, MIN_BALANCE) = {}
        /\ Answer(o, "OK", ledger[r.id].balance)
        /\ UNCHANGED ledger

Transfer(o, least) ==
    LET r == request[o]
    IN  /\ phase[o] = "called" /\ r.op = "transfer" /\ Errors(r, least) = {}
        /\ ledger' = [ledger EXCEPT ![r.id].balance = @ - r.amount, ![r.target].balance = @ + r.amount]
        /\ Answer(o, "OK", ledger'[r.id].balance)

(* The balance is below MIN_BALANCE after the transfer, but not negative:   *)
(* types.h says NO_FUNDS, the server does not notice.                       *)
Lapse(o) ==
    LET r == request[o]
    IN  /\ phase[o] = "called" /\ r.op = "transfer" /\ Open(r.id)
        /\ ledger[r.id].balance - r.amount \in 0 .. MIN_BALANCE - 1
        /\ Refuse(o, 0) \/ Transfer(o, 0)

Return(o) ==
    /\ phase[o] = "answered"
    /\ phase' = [phase EXCEPT ![o] = "idle"]
    /\ request' = [request EXCEPT ![o] = NoRequest]
    /\ reply' = [reply EXCEPT ![o] = NoReply]
    /\ UNCHANGED ledger

Next == \E o \in Offices :
    \/ Receive(o) \/ Refuse(o, MIN_BALANCE)
    \/ Create(o) \/ Balance(o) \/ Transfer(o, MIN_BALANCE)
    \/ Return(o)

Spec == Init /\ [][Next]_ledgerVars

SpecWithLapse == Init /\ [][Next \/ \E o \in Offices : Lapse(o)]_ledgerVars

=============================================================================
