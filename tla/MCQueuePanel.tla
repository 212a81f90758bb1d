--------------------------- MODULE MCQueuePanel ---------------------------
(***************************************************************************)
(* Small instances of QueuePanel for TLC; the .cfg files hold the bounds.  *)
(***************************************************************************)
EXTENDS QueuePanel

OneHour == [j \in Jobs |-> 1]
=============================================================================
