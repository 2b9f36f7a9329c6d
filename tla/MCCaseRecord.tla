---------------------------- MODULE MCCaseRecord ----------------------------
(* Small instances of CaseRecord for TLC. *)
EXTENDS CaseRecord, TLC

MCSymmetry == Permutations(Clerks) \cup Permutations(Exhibits) \cup Permutations(Pages)

=============================================================================
