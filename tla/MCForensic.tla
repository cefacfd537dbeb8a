---------------------------- MODULE MCForensic ----------------------------
(* A tree for TLC: two subdirectories, one of which has another below it.  *)
EXTENDS Forensic

CONSTANTS r, a, b, c, fr, fb

MCSubdirs == [d \in Dirs |-> CASE d = r -> {a, c} [] d = a -> {b} [] OTHER -> {}]
MCBelow == [d \in Dirs |-> CASE d = r -> {a, b, c} [] d = a -> {b} [] OTHER -> {}]
MCPlace == [f \in Files |-> CASE f = fr -> r [] f = fb -> b]

=============================================================================
