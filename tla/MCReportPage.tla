---------------------------- MODULE MCReportPage ----------------------------
(* Small instances of ReportPage for TLC. *)
EXTENDS ReportPage, TLC

MCSymmetry == Permutations(Fields)

=============================================================================
