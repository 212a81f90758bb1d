------------------------------- MODULE Intake -------------------------------
(***************************************************************************)
(* How tickets get into the queue: the simulator (simulator.py), the       *)
(* ticket inbox of the browser (TicketInbox.jsx) and the form of the       *)
(* dashboard (app.py) call POST /api/v1/jobs (SubmitJob of handler.go),    *)
(* the first two after a classification (classifier.py).                   *)
(***************************************************************************)
EXTENDS Tickets, FiniteSets

CONSTANTS
  MaxTickets,    \* tickets that a simulation may have here
  MaxCount,      \* the largest count that a simulation accepts (50)
  Counts,        \* counts that users ask for
  BatchSize,     \* tickets that the simulator handles at a time (10)
  Forms,         \* submissions from the two forms
  Texts,         \* what a ticket may say, per simulated ticket and in the inbox
  LLMAnswers,    \* what the LLM may answer, per simulated ticket and in the inbox
  FormTickets,   \* what may be submitted from the dashboard
  MaxAsked,      \* bound on the classifications the inbox asks for
  MaxFaults      \* bound on calls that fail, get lost or come too late

Simulated == 1..MaxTickets
Requests  == Simulated \cup Forms

\* Whose tickets are classified: simulated ones, and what the inbox holds.
Inbox   == 0
Authors == Simulated \cup {Inbox}

\* A classification as the callers use it.  A `sound` one is an object whose
\* priority is a number; sla = 0 stands for no sla_hours.
Classifications == [priority : 0..4, sla : Nat, sound : BOOLEAN, rule : 0..4]

NoTicket == [priority |-> 0, sla |-> 0, sound |-> FALSE, rule |-> 0]

ASSUME IntakeAssumption ==
  /\ MaxTickets \in Nat /\ MaxCount \in Nat /\ Counts \subseteq Int
  /\ Counts \cap 1..MaxCount \subseteq 0..MaxTickets
  /\ BatchSize \in Nat \ {0}
  /\ Forms \cap Simulated = {}
  /\ DOMAIN Texts = Authors
  /\ LLMAnswers \in [Authors -> SUBSET [priority : 0..4, sla : Nat, sound : BOOLEAN, rule : {0}]]
  /\ FormTickets \subseteq [priority : 1..3, sla : {0}, sound : BOOLEAN, rule : {0}]
  /\ MaxAsked \in Nat /\ MaxFaults \in Nat

VARIABLES
  stage,    \* per request, what its client knows of it
  ticket,   \* the body of its POST
  wire,     \* where the POST is
  job,      \* per request, the job that SubmitJob has put into the queue
  sim,      \* the simulation: how far it is, its count, the tickets it reports
  inbox,    \* the React state of the inbox
  draft,    \* per form request, the classification it was sent with
  faults

vars == <<stage, ticket, wire, job, sim, inbox, draft, faults>>

Fault == faults < MaxFaults /\ faults' = faults + 1

\* What the clients say of a request, once they know.
Over == {"accepted", "failed"}

Set(f, r, v) == [f EXCEPT ![r] = v]

-----------------------------------------------------------------------------
(***************************************************************************)
(* classifier.py: the answer of the LLM if it can be parsed, else the      *)
(* rules.                                                                  *)
(***************************************************************************)
ByRules(words, customer) ==
  LET c == FallbackClassify(words, customer)
  IN  [priority |-> c.priority, sla |-> c.sla, sound |-> TRUE, rule |-> c.priority]

Classify(who) ==
  LLMAnswers[who] \cup {ByRules(t.words, t.customer) : t \in Texts[who]}

(***************************************************************************)
(* SubmitJob.  A body that does not bind is refused (400), and so is one   *)
(* that Redis fails to store (500), although it may have stored it.        *)
(***************************************************************************)
Post(r, body) ==
  /\ ticket' = Set(ticket, r, body)
  /\ wire' = Set(wire, r, "request")

\* Mutant of QueuePriority: what the client asks for is taken.
QueuePriorityAny(p) == p

\* Out of range is medium.
QueuePriority(p) == IF p \in 1..3 THEN p ELSE 2

SubmitJob(r) ==
  /\ wire[r] = "request"
  /\ LET queued == [ticket[r] EXCEPT !.priority = QueuePriority(@)] IN
       \/ /\ ticket[r].sound
          /\ job' = Set(job, r, queued)
          /\ wire' = Set(wire, r, "created")
          /\ UNCHANGED faults
       \/ /\ ~ticket[r].sound
          /\ wire' = Set(wire, r, "refused")
          /\ UNCHANGED <<job, faults>>
       \/ /\ ticket[r].sound /\ Fault
          /\ job' \in {job, Set(job, r, queued)}
          /\ wire' = Set(wire, r, "refused")
  /\ ticket' = Set(ticket, r, NoTicket)
  /\ UNCHANGED <<stage, sim, inbox, draft>>

\* The POST or its answer is lost.
Lose(r) ==
  /\ stage[r] = "posted" /\ wire[r] \in {"request", "created", "refused"}
  /\ Fault
  /\ wire' = Set(wire, r, "lost")
  /\ ticket' = Set(ticket, r, NoTicket)
  /\ UNCHANGED <<stage, job, sim, inbox, draft>>

-----------------------------------------------------------------------------
(***************************************************************************)
(* The simulator.                                                          *)
(***************************************************************************)

\* The endpoint refuses a count that is not in 1..50.
Begin(n) ==
  sim' = [sim EXCEPT !.at = IF n \in 1..MaxCount THEN "running" ELSE "refused", !.count = n]

Simulate ==
  /\ sim.at = "idle"
  /\ \E n \in Counts :
       /\ Begin(n)
       /\ stage' = [r \in Requests |->
                      IF r \in Simulated /\ r <= n /\ sim'.at = "running" THEN "waiting" ELSE stage[r]]
  /\ UNCHANGED <<ticket, wire, job, inbox, draft, faults>>

Selected == {r \in Simulated : r <= sim.count}

Waiting == {r \in Selected : stage[r] = "waiting"}

\* Mutant of Gathered: gather is not awaited.
NotGathered == TRUE

\* gather has returned: all tickets of the batches so far are done.
Gathered == \A r \in Selected \ Waiting : stage[r] \in Over

StartBatch ==
  /\ sim.at = "running" /\ Waiting # {} /\ Gathered
  /\ LET first == sim.count - Cardinality(Waiting) IN
       stage' = [r \in Requests |->
                   IF r \in Waiting /\ r <= first + BatchSize THEN "classify" ELSE stage[r]]
  /\ UNCHANGED <<ticket, wire, job, sim, inbox, draft, faults>>

\* classify_ticket returns, and the ticket is posted; one that is no object
\* raises instead.
ProcessOne(r) ==
  /\ r \in Simulated /\ stage[r] = "classify"
  /\ \/ \E c \in Classify(r) : Post(r, c) /\ stage' = Set(stage, r, "posted")
     \/ /\ \E c \in LLMAnswers[r] : ~c.sound
        /\ stage' = Set(stage, r, "failed")
        /\ UNCHANGED <<ticket, wire>>
  /\ UNCHANGED <<job, sim, inbox, draft, faults>>

\* Mutant of Verdict: any answer counts.
VerdictAny(r) == "accepted"

\* resp.status_code == 201
Verdict(r) == IF wire[r] = "created" THEN "accepted" ELSE "failed"

\* The results that are not None.
Report ==
  /\ sim.at = "running" /\ Waiting = {} /\ Gathered
  /\ sim' = [sim EXCEPT !.at = "reported", !.tickets = {r \in Selected : stage[r] = "accepted"}]
  /\ UNCHANGED <<stage, ticket, wire, job, inbox, draft, faults>>

-----------------------------------------------------------------------------
(***************************************************************************)
(* The inbox.  Its two buttons are disabled while their own call is        *)
(* pending, and only then.  The user may type at any time, so there is     *)
(* always a text to classify.                                              *)
(***************************************************************************)
NoDraft == 0

AskClassification ==
  /\ ~inbox.classifying /\ inbox.asked < MaxAsked
  /\ inbox' = [inbox EXCEPT !.classifying = TRUE, !.asked = @ + 1,
                            !.draft = NoDraft, !.class = NoTicket, !.queued = {}]
  /\ UNCHANGED <<stage, ticket, wire, job, sim, draft, faults>>

\* The answer, for whatever the text is by now, or an error: the guardrails
\* match (400) or the call fails.
GetClassification ==
  /\ inbox.classifying
  /\ \/ \E c \in Classify(Inbox) :
          inbox' = [inbox EXCEPT !.classifying = FALSE, !.draft = inbox.asked, !.class = c]
     \/ inbox' = [inbox EXCEPT !.classifying = FALSE, !.draft = NoDraft]
  /\ UNCHANGED <<stage, ticket, wire, job, sim, draft, faults>>

Unused(r) == r \in Forms /\ stage[r] = "unsent"

Submitting == {r \in Forms : draft[r] # NoDraft /\ stage[r] = "posted"}

PressSubmit(r) ==
  /\ Unused(r)
  /\ inbox.draft # NoDraft /\ Submitting = {}
  /\ Post(r, inbox.class)
  /\ stage' = Set(stage, r, "posted")
  /\ draft' = Set(draft, r, inbox.draft)
  /\ UNCHANGED <<job, sim, inbox, faults>>

\* Mutant of Submitted: the classification stays.
SubmittedKept(r) ==
  inbox' = [inbox EXCEPT !.queued = IF Verdict(r) = "accepted" THEN {r} ELSE {}]

\* An answer was received: submitJob does not look at the status, so a refusal
\* clears the form as well.
Submitted(r) ==
  inbox' = [inbox EXCEPT !.draft = NoDraft, !.class = NoTicket,
                         !.queued = IF Verdict(r) = "accepted" THEN {r} ELSE {}]

-----------------------------------------------------------------------------
(***************************************************************************)
(* The dashboard.  A payload that is no JSON is not sent; one that is      *)
(* neither an object nor null does not bind.                               *)
(***************************************************************************)
DashboardSubmit(r) ==
  /\ Unused(r)
  /\ \E body \in FormTickets : Post(r, body)
  /\ stage' = Set(stage, r, "posted")
  /\ UNCHANGED <<job, sim, inbox, draft, faults>>

-----------------------------------------------------------------------------
(***************************************************************************)
(* What a client makes of the answer to its POST, or of none.              *)
(***************************************************************************)
Answer(r) ==
  /\ stage[r] = "posted" /\ wire[r] \in {"created", "refused"}
  /\ stage' = Set(stage, r, Verdict(r))
  /\ wire' = Set(wire, r, "none")
  /\ IF draft[r] # NoDraft THEN Submitted(r) ELSE UNCHANGED inbox
  /\ UNCHANGED <<ticket, job, sim, draft, faults>>

\* Mutant of GiveUp: there is no timeout.
GiveUpNever(r) == FALSE

\* The connection failed, or the timeout has passed: 15 s in the simulator, 2 s
\* in the dashboard, a minute in nginx.  The server may get to the POST later.
GiveUp(r) ==
  /\ stage[r] = "posted"
  /\ \/ wire[r] = "lost" /\ UNCHANGED faults
     \/ wire[r] = "request" /\ Fault
  /\ stage' = Set(stage, r, "failed")
  /\ inbox' = IF draft[r] # NoDraft THEN [inbox EXCEPT !.queued = {}] ELSE inbox
  /\ UNCHANGED <<ticket, wire, job, sim, draft>>

-----------------------------------------------------------------------------
Init ==
  /\ stage  = [r \in Requests |-> "unsent"]
  /\ ticket = [r \in Requests |-> NoTicket]
  /\ wire   = [r \in Requests |-> "none"]
  /\ job    = [r \in Requests |-> NoTicket]
  /\ sim    = [at |-> "idle", count |-> 0, tickets |-> {}]
  /\ inbox  = [classifying |-> FALSE, asked |-> 0, draft |-> NoDraft,
               class |-> NoTicket, queued |-> {}]
  /\ draft  = [r \in Requests |-> NoDraft]
  /\ faults = 0

Handle(r) == SubmitJob(r) \/ Answer(r) \/ GiveUp(r)

Next ==
  \/ \E r \in Requests :
       \/ Handle(r) \/ Lose(r) \/ ProcessOne(r)
       \/ PressSubmit(r) \/ DashboardSubmit(r)
  \/ Simulate \/ StartBatch \/ Report
  \/ AskClassification \/ GetClassification

Spec == Init /\ [][Next]_vars

(***************************************************************************)
(* Fairness: servers answer what they have received, LLM calls and POSTs   *)
(* time out, and the event loop of the simulator goes on.  Users owe       *)
(* nothing.                                                                *)
(***************************************************************************)
FairSpec ==
  /\ Spec
  /\ \A r \in Requests : WF_vars(Handle(r)) /\ WF_vars(ProcessOne(r))
  /\ WF_vars(StartBatch) /\ WF_vars(Report) /\ WF_vars(GetClassification)

-----------------------------------------------------------------------------
(***************************************************************************)
(* Properties.                                                             *)
(***************************************************************************)

\* Type invariant.
TypeOK ==
  /\ stage \in [Requests -> {"unsent", "waiting", "classify", "posted", "accepted", "failed"}]
  /\ ticket \in [Requests -> Classifications]
  /\ wire \in [Requests -> {"none", "request", "created", "refused", "lost"}]
  /\ job \in [Requests -> [priority : 0..3, sla : Nat, sound : BOOLEAN, rule : 0..4]]
  /\ sim \in [at : {"idle", "refused", "running", "reported"}, count : Int,
              tickets : SUBSET Simulated]
  /\ inbox \in [classifying : BOOLEAN, asked : Nat, draft : Nat,
                class : Classifications, queued : SUBSET Forms]
  /\ draft \in [Requests -> Nat]
  /\ faults \in Nat

Queued(r) == job[r] # NoTicket

\* What users are told is in the queue is in the queue (simulate_tickets, the
\* green line of the inbox, st.success); and unless a call failed, got lost or
\* came too late, the simulation reports all that it has put there.
ReportIsExact ==
  /\ \A r \in sim.tickets \cup inbox.queued : Queued(r)
  /\ \A r \in Forms : stage[r] = "accepted" => Queued(r)
  /\ sim.at = "reported" /\ faults = 0 => sim.tickets = {r \in Simulated : Queued(r)}

\* "10 at a time" (simulator.py:106): the simulator awaits no more tickets at once
\* than a batch has, whatever order the tickets of a batch end in.  What the API
\* server has to handle beyond these was given up, one POST for each call that came
\* too late.  A count that was refused sends none (main.py:135).
OneBatchAtATime ==
  /\ Cardinality({r \in Simulated : stage[r] \in {"classify", "posted"}}) <= BatchSize
  /\ Cardinality({r \in Simulated : wire[r] = "request" /\ stage[r] # "posted"}) <= faults
  /\ ~(sim.count \in 1..MaxCount) => \A r \in Simulated : ~Queued(r) /\ wire[r] = "none"

\* Tickets that the rules have classified are queued in the order of their
\* deadlines (_fallback_classify, SubmitJob): no ticket goes before one with less
\* time left.  SubmitJob does not keep the rules' fourth level.
UrgentFirst ==
  \A r, q \in Requests :
    /\ Queued(r) /\ Queued(q)
    /\ job[r].rule \in 1..3 /\ job[q].rule \in 1..3
    /\ job[r].priority < job[q].priority
    => job[r].sla < job[q].sla

\* The client gave the POST up.
Unanswered(r) == stage[r] = "failed" /\ wire[r] # "none"

\* A classification is submitted once (handleSubmit, setClassified), and again only
\* when that got no answer: of two submissions of one classification, one was
\* given up.
SubmittedOnce ==
  \A r, q \in Forms :
    r # q /\ draft[r] # NoDraft /\ draft[r] = draft[q] => Unanswered(r) \/ Unanswered(q)

\* A simulation ends (simulate_tickets): no lost answer keeps its batch waiting.
SimulationEnds == sim.at = "running" ~> sim.at = "reported"
=============================================================================
