------------------------------ MODULE Tickets ------------------------------
(***************************************************************************)
(* The rules of the AI service that need no language model: the keyword    *)
(* classification (classifier.py), the deadlines (sla.py) and the health   *)
(* of the queue (recommender.py).  A text is the set of keywords in it.    *)
(***************************************************************************)
EXTENDS Integers, Sequences

CONSTANTS
  TicksPerHour,    \* the unit of the clock
  SomePending,     \* the backlog from which tickets are batched (5)
  ManyPending,     \* the backlog from which workers are added (20)
  ManyProcessing   \* jobs in flight from which stalls are suspected (10)

ASSUME TicketsAssumption ==
  /\ TicksPerHour \in Nat \ {0}
  /\ SomePending \in Nat /\ ManyPending \in Nat /\ SomePending <= ManyPending
  /\ ManyProcessing \in Nat

-----------------------------------------------------------------------------
(***************************************************************************)
(* classifier.py                                                           *)
(***************************************************************************)
Critical == {"critical", "down", "outage", "breach", "compromised", "payment", "ransomware"}
High     == {"slow", "broken", "sso", "login", "export", "rate limit", "double charge",
             "invoice", "billing"}
Medium   == {"notification", "crash", "import", "spam", "locked", "access", "password",
             "2fa", "vpn"}
Money    == {"charge", "invoice", "billing", "refund"}

Customers == {"enterprise", "standard", "free"}
Teams     == {"tier1", "tier2", "billing_team", "security_team", "engineering"}

Has(words, set) == words \cap set # {}

RulePriority(words) ==
  CASE Has(words, Critical) -> 1
    [] ~Has(words, Critical) /\ Has(words, High) -> 2
    [] ~Has(words, Critical \cup High) /\ Has(words, Medium) -> 3
    [] OTHER -> 4

RuleCategory(words) ==
  CASE RulePriority(words) = 1 -> IF Has(words, {"down", "outage"}) THEN "outage" ELSE "security"
    [] RulePriority(words) = 2 -> IF Has(words, Money) THEN "billing" ELSE "technical"
    [] RulePriority(words) = 3 ->
         IF Has(words, {"locked", "access", "password", "vpn"}) THEN "access" ELSE "technical"
    [] OTHER -> "feature"

RuleRoute(words) ==
  CASE RulePriority(words) = 1 ->
         IF Has(words, {"breach", "compromised"}) THEN "security_team" ELSE "tier1"
    [] RulePriority(words) = 2 -> IF Has(words, Money) THEN "billing_team" ELSE "tier1"
    [] RulePriority(words) = 3 -> "tier2"
    [] OTHER -> "engineering"

RuleTier(words, customer) ==
  LET route == RuleRoute(words) IN
  CASE customer = "free" -> "tier2"
    [] customer = "standard" /\ route = "tier1" /\ RulePriority(words) > 1 -> "tier2"
    [] OTHER -> route

\* Mutant of SlaHours: two deadlines are swapped.
SlaHoursSwapped == <<1, 8, 4, 48>>

SlaHours == <<1, 4, 8, 48>>

\* _fallback_classify, without minutes, summary and tags.
FallbackClassify(words, customer) ==
  [ category |-> RuleCategory(words),
    priority |-> RulePriority(words),
    tier     |-> RuleTier(words, customer),
    sla      |-> SlaHours[RulePriority(words)] ]

-----------------------------------------------------------------------------
(***************************************************************************)
(* sla.py.  A payload without sla_hours is measured against eight hours:   *)
(* the priority is looked up in the payload, where no client puts it.      *)
(***************************************************************************)
DefaultSla == SlaHours[3]

SlaTicks(sla) == (IF sla = 0 THEN DefaultSla ELSE sla) * TicksPerHour

Remaining(sla, elapsed) == SlaTicks(sla) - elapsed

\* Mutant of Risk: the milder threshold is tried first.
RiskMildFirst(sla, elapsed) ==
  CASE 2 * elapsed >= SlaTicks(sla) /\ Remaining(sla, elapsed) >= 0 -> "medium"
    [] Remaining(sla, elapsed) < 0 -> "breached"
    [] OTHER -> "low"

Risk(sla, elapsed) ==
  CASE Remaining(sla, elapsed) < 0 -> "breached"
    [] Remaining(sla, elapsed) >= 0 /\ 4 * elapsed >= 3 * SlaTicks(sla) -> "high"
    [] 4 * elapsed < 3 * SlaTicks(sla) /\ 2 * elapsed >= SlaTicks(sla) -> "medium"
    [] OTHER -> "low"

-----------------------------------------------------------------------------
(***************************************************************************)
(* recommender.py: _rule_based_recommendations.                            *)
(***************************************************************************)
\* Mutant of Capped: max for min.
CappedBelow(n, max) == IF n > max THEN n ELSE max

Capped(n, max) == IF n > max THEN max ELSE n

BacklogPenalty(pending) ==
  CASE pending > ManyPending -> 20
    [] pending > SomePending /\ pending <= ManyPending -> 10
    [] OTHER -> 0

HealthScore(stats) ==
  100 - Capped(5 * stats.dead, 30) - BacklogPenalty(stats.pending)
      - (IF stats.processing > ManyProcessing THEN 15 ELSE 0)

AlertIf(condition, action, urgency, affected) ==
  IF condition THEN {[action |-> action, urgency |-> urgency, affected |-> affected]} ELSE {}

\* The actions recommended, with the number of jobs each is about.
Alerts(stats) ==
  LET many == stats.pending > ManyPending
      some == stats.pending > SomePending
  IN  AlertIf(stats.dead > 0, "ALERT", "immediate", stats.dead)
        \cup AlertIf(many, "REASSIGN", "soon", stats.pending)
        \cup AlertIf(some /\ ~many, "BATCH", "when_possible", stats.pending)
        \cup AlertIf(stats.processing > ManyProcessing, "ALERT", "soon", stats.processing)

Nothing == [action |-> "DEFER", urgency |-> "when_possible", affected |-> 0]

Advice(stats) == IF Alerts(stats) = {} THEN {Nothing} ELSE Alerts(stats)

Summary(stats) ==
  LET score == HealthScore(stats) IN
  CASE score = 100 /\ stats.pending + stats.processing = 0 -> "idle"
    [] score >= 80 /\ ~(score = 100 /\ stats.pending + stats.processing = 0) -> "healthy"
    [] score >= 50 /\ score < 80 -> "moderate"
    [] OTHER -> "attention"

\* max(0, score) is score: lemma ScoreInRange of QueuePanelProofs.
Recommendations(stats) ==
  [health_score |-> HealthScore(stats), summary |-> Summary(stats), recommendations |-> Advice(stats)]
=============================================================================
