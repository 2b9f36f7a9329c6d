--------------------------- MODULE MCVerification ---------------------------
(* Small instances of Verification for TLC. *)
EXTENDS Verification, TLC

RunSymmetry == Permutations(Runs)

=============================================================================
