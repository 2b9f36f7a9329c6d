------------------------------ MODULE MCJobSlot ------------------------------
(* Small instances of JobSlot for TLC. *)
EXTENDS JobSlot, TLC

JobSymmetry == Permutations(Jobs \ Held) \cup Permutations(Stops)

=============================================================================
