--------------------------- MODULE MCNetworkRevert ---------------------------
(* Small instances of NetworkRevert for TLC. *)
EXTENDS NetworkRevert, TLC

ChangeSymmetry == Permutations(Changes)

=============================================================================
