---------------------------- MODULE MCCaseIndex -----------------------------
EXTENDS CaseIndex, TLC

IndexSymmetry == Permutations(Files) \cup Permutations(Names) \cup Permutations(Contacts)

=============================================================================
