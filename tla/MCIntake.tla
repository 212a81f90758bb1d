----------------------------- MODULE MCIntake -----------------------------
(***************************************************************************)
(* A small instance of Intake for TLC; Intake.cfg holds the bounds.        *)
(***************************************************************************)
EXTENDS Intake

Say(words) == [words |-> words, customer |-> "standard"]

\* An outage, a login problem and a ticket about a VPN.
SmallTexts ==
  [who \in Authors |->
     CASE who = 1 -> {Say({"outage"})}
       [] who = 2 -> {Say({"login", "access"})}
       [] OTHER   -> {Say({"vpn"})}]

\* The LLM says something of use, or something the API refuses.
Useful == [priority |-> 4, sla |-> 48, sound |-> TRUE, rule |-> 0]
Odd    == [priority |-> 0, sla |-> 0, sound |-> FALSE, rule |-> 0]

SmallAnswers ==
  [who \in Authors |->
     CASE who = 3     -> {Odd}
       [] who = Inbox -> {Useful}
       [] OTHER       -> {}]

\* A job of priority 2 whose payload is an object, or one that is a list.
SmallForms ==
  {[priority |-> 2, sla |-> 0, sound |-> s, rule |-> 0] : s \in BOOLEAN}

SmallCounts == {0, 3}
=============================================================================
