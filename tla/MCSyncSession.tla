--------------------------- MODULE MCSyncSession ---------------------------
(* Instances of SyncSession for TLC.                                       *)
EXTENDS SyncSession, TLC

\* Tokens and accounts are only compared, so both may be permuted.
SessionSymmetry == Permutations(Tokens) \cup Permutations(Accounts)

=============================================================================
