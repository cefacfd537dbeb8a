---------------------------- MODULE MCAccounts ----------------------------
(* Instances of Accounts for TLC: requests of the administrator and of the *)
(* owners of two accounts, right and wrong ones.                           *)
EXTENDS Accounts, TLC

CONSTANTS pa, p1, p2

Create(by, password, id, balance, newPassword) ==
    [op |-> "create", id |-> by, password |-> password,
     target |-> id, amount |-> balance, newPassword |-> newPassword]

CheckBalance(id, password) ==
    [op |-> "balance", id |-> id, password |-> password,
     target |-> id, amount |-> 0, newPassword |-> password]

Transfer(id, password, target, amount) ==
    [op |-> "transfer", id |-> id, password |-> password,
     target |-> target, amount |-> amount, newPassword |-> password]

Creations == {Create(0, pa, 1, 2, p1), Create(0, pa, 2, 2, p2)}

Transfers == {Transfer(1, p1, 2, 1), Transfer(2, p2, 1, 2)}

Refusals == {Create(1, p1, 2, 1, p1), CheckBalance(0, pa), Transfer(0, pa, 1, 1),
             Transfer(1, p2, 2, 1), Transfer(2, p2, 2, 1)}

AllRequests == Creations \cup Transfers \cup Refusals \cup {CheckBalance(1, p1)}

CreationsAndTransfers == Creations \cup Transfers

(* Three clients in a bank with room for three. *)
RacingRequests ==
    {Create(0, pa, 1, 1, p1), Create(0, pa, 2, 1, p1), Create(0, pa, 3, 1, p1)}

OfficesAreAlike == Permutations(Offices)

=============================================================================
