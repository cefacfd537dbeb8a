--------------------------- MODULE MCRequestQueue ---------------------------
(* Instances of RequestQueue for TLC. *)
EXTENDS RequestQueue, TLC

OfficesAndRequestsAreAlike == Permutations(Offices) \cup Permutations(Requests \ Shutdowns)

=============================================================================
