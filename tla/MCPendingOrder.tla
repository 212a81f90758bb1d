--------------------------- MODULE MCPendingOrder ---------------------------
(***************************************************************************)
(* Small instances of PendingOrder for TLC.                                *)
(***************************************************************************)
EXTENDS PendingOrder, TLC

\* One priority of each level, and the P4 of rag/classifier.py.
Levels == {1, 3, 4}

\* The levels that SubmitJob keeps apart from P4.
LowLevels == {3, 4}

JobSymmetry == Permutations(Jobs)
=============================================================================
