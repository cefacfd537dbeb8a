---------------------------- MODULE RequestFifo ----------------------------
(***************************************************************************)
(* What the request queue of the server promises: requests enter a queue   *)
(* of at most MAX_REQUESTS in the order the main thread read them, and     *)
(* each leaves it once, in that order, into the hands of one bank office.  *)
(* RequestQueue implements this specification.                             *)
(***************************************************************************)
EXTENDS Naturals, Sequences

CONSTANTS Offices, MAX_REQUESTS, Requests, NoRequest

VARIABLES
    unsent,   \* requests that have not entered the queue
    queue,    \* the requests stored, oldest first
    holding   \* the request each office is working on

fifoVars == <<unsent, queue, holding>>

Init ==
    /\ unsent = Requests
    /\ queue = <<>>
    /\ holding = [o \in Offices |-> NoRequest]

Put ==
    /\ Len(queue) < MAX_REQUESTS
    /\ \E r \in unsent :
         /\ queue' = Append(queue, r)
         /\ unsent' = unsent \ {r}
    /\ UNCHANGED holding

Get(o) ==
    /\ queue # <<>> /\ holding[o] = NoRequest
    /\ holding' = [holding EXCEPT ![o] = Head(queue)]
    /\ queue' = Tail(queue)
    /\ UNCHANGED unsent

Done(o) ==
    /\ holding[o] # NoRequest
    /\ holding' = [holding EXCEPT ![o] = NoRequest]
    /\ UNCHANGED <<unsent, queue>>

Next == Put \/ \E o \in Offices : Get(o) \/ Done(o)

Spec == Init /\ [][Next]_fifoVars

=============================================================================
