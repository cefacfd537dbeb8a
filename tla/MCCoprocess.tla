---------------------------- MODULE MCCoprocess ----------------------------
(* Instances of Coprocess for TLC. *)
EXTENDS Coprocess, TLC

OfficesAreAlike == Permutations(Offices)

=============================================================================
