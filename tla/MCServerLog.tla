---------------------------- MODULE MCServerLog ----------------------------
(* An instance of ServerLog for TLC: handlers side by side at one account,  *)
(* and each kind of request next to a shutdown, up to the end of the server.*)
EXTENDS ServerLog

Typed(user, op, id, target) == [user |-> user, op |-> op, id |-> id, target |-> target]

Look == Typed(502, "balance", 1, 1)
Shutdown == Typed(503, "shutdown", 0, 0)

MCArrivals ==
    {<<Typed(501, "transfer", 2, 1), Look>>, <<Typed(501, "create", 0, 1), Look>>,
     <<Typed(501, "transfer", 1, 2), Shutdown>>, <<Typed(501, "recreate", 0, 1), Shutdown>>,
     <<Typed(501, "denied", 2, 2), Look, Shutdown>>,
     <<Shutdown, Look>>, <<Typed(501, "denied", 2, 2), Shutdown>>}

=============================================================================
