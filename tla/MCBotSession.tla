--------------------------- MODULE MCBotSession ---------------------------
(***************************************************************************)
(* Small instances of BotSession for TLC; the .cfg files hold the bounds.  *)
(***************************************************************************)
EXTENDS BotSession

\* The second question may also raise in the prompt or be refused.
TicketKinds ==
  [r \in Requests |-> IF r = 2 THEN {"ticket", "odd", "blocked"} ELSE {"ticket"}]

GeneralKind == [r \in Requests |-> {"general"}]
=============================================================================
