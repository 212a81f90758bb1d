---------------------------- MODULE IntakeProofs ----------------------------
(***************************************************************************)
(* Theorems about Intake for every number of tickets, every batch size and *)
(* whatever the users write and the LLM answers.                           *)
(***************************************************************************)
EXTENDS Intake, FiniteSetTheorems, TLAPS

Stages == {"unsent", "waiting", "classify", "posted", "accepted", "failed"}
Wires  == {"none", "request", "created", "refused", "lost"}
Jobs   == [priority : 0..3, sla : Nat, sound : BOOLEAN, rule : 0..4]
Sims   == [at : {"idle", "refused", "running", "reported"}, count : Int, tickets : SUBSET Simulated]
Inboxes == [classifying : BOOLEAN, asked : Nat, draft : Nat, class : Classifications,
            queued : SUBSET Forms]

-----------------------------------------------------------------------------
(***************************************************************************)
(* Classifications.                                                        *)
(***************************************************************************)

\* What the rules say is consistent: the deadline is that of the priority.
ByTheRules(c) == c.rule # 0 => c.rule \in 1..4 /\ c.priority = c.rule /\ c.sla = SlaHours[c.rule]

LEMMA RulesProperties ==
  ASSUME NEW words, NEW customer
  PROVE  /\ ByRules(words, customer) \in Classifications
         /\ ByRules(words, customer).sound
         /\ ByTheRules(ByRules(words, customer))
<1>1. RulePriority(words) \in 1..4
  BY DEF RulePriority
<1>2. SlaHours[RulePriority(words)] \in Nat
  BY <1>1 DEF SlaHours
<1>3. QED
  BY <1>1, <1>2 DEF ByRules, FallbackClassify, Classifications, ByTheRules

LEMMA ClassifyProperties ==
  ASSUME NEW who \in Authors, NEW c \in Classify(who)
  PROVE  c \in Classifications /\ ByTheRules(c)
<1>1. CASE c \in LLMAnswers[who]
  BY <1>1, IntakeAssumption DEF Classifications, ByTheRules
<1>2. CASE c \notin LLMAnswers[who]
  BY <1>2, RulesProperties DEF Classify
<1>3. QED
  BY <1>1, <1>2

LEMMA QueuedProperties ==
  ASSUME NEW c \in Classifications
  PROVE  LET queued == [c EXCEPT !.priority = QueuePriority(@)] IN
           /\ queued \in Jobs
           /\ queued.sound = c.sound
           /\ ByTheRules(c) /\ queued.rule \in 1..3 =>
                queued.priority = queued.rule /\ queued.sla = SlaHours[queued.rule]
BY DEF Classifications, Jobs, QueuePriority, ByTheRules

LEMMA NoTicketProperties ==
  /\ NoTicket \in Classifications /\ NoTicket \in Jobs
  /\ NoTicket.sound = FALSE /\ NoTicket.rule = 0 /\ ByTheRules(NoTicket)
BY DEF NoTicket, Classifications, Jobs, ByTheRules

LEMMA Subjects == Simulated \subseteq Authors /\ Inbox \in Authors /\ Simulated \subseteq Requests
                  /\ Forms \subseteq Requests /\ Forms \cap Simulated = {}
BY IntakeAssumption DEF Authors, Requests, Inbox

-----------------------------------------------------------------------------
(***************************************************************************)
(* The type invariant, and that every classification that the rules made   *)
(* stays as they made it.                                                  *)
(***************************************************************************)
RulesInv ==
  /\ TypeOK
  /\ \A r \in Requests : draft[r] # NoDraft => r \in Forms
  /\ \A r \in Requests : ByTheRules(ticket[r])
  /\ ByTheRules(inbox.class)
  /\ \A r \in Requests : job[r].rule \in 1..3 =>
       job[r].priority = job[r].rule /\ job[r].sla = SlaHours[job[r].rule]

LEMMA SubmitJobKeepsRules ==
  ASSUME RulesInv, NEW r \in Requests, SubmitJob(r)
  PROVE  RulesInv'
<1> DEFINE queued == [ticket[r] EXCEPT !.priority = QueuePriority(@)]
<1>1. /\ ticket \in [Requests -> Classifications] /\ ByTheRules(ticket[r])
      /\ wire \in [Requests -> Wires] /\ job \in [Requests -> Jobs] /\ faults \in Nat
      /\ MaxFaults \in Nat
  BY IntakeAssumption DEF RulesInv, TypeOK, Wires, Jobs
<1>2. /\ queued \in Jobs
      /\ queued.rule \in 1..3 => queued.priority = queued.rule /\ queued.sla = SlaHours[queued.rule]
  BY <1>1, QueuedProperties
<1>3. /\ job' = job \/ job' = [job EXCEPT ![r] = queued]
      /\ \E w \in Wires : wire' = [wire EXCEPT ![r] = w]
      /\ faults' \in Nat
      /\ ticket' = [ticket EXCEPT ![r] = NoTicket]
      /\ UNCHANGED <<stage, sim, inbox, draft>>
  BY <1>1 DEF SubmitJob, Set, Fault, Wires
<1> HIDE DEF queued
<1>4. /\ job' \in [Requests -> Jobs]
      /\ \A q \in Requests : job'[q].rule \in 1..3 =>
           job'[q].priority = job'[q].rule /\ job'[q].sla = SlaHours[job'[q].rule]
  BY <1>1, <1>2, <1>3 DEF RulesInv
<1>5. ticket' \in [Requests -> Classifications] /\ \A q \in Requests : ByTheRules(ticket'[q])
  BY <1>1, <1>3, NoTicketProperties DEF RulesInv
<1>6. wire' \in [Requests -> Wires]
  BY <1>1, <1>3
<1>7. QED
  BY <1>3, <1>4, <1>5, <1>6 DEF RulesInv, TypeOK, Wires, Jobs

\* A ticket is posted.
LEMMA PostProperties ==
  ASSUME RulesInv, NEW r \in Requests, NEW c \in Classifications, ByTheRules(c), Post(r, c)
  PROVE  /\ ticket' \in [Requests -> Classifications]
         /\ \A q \in Requests : ByTheRules(ticket'[q])
         /\ wire' \in [Requests -> Wires]
BY DEF RulesInv, TypeOK, Post, Set, Wires

LEMMA ClientsKeepRules ==
  ASSUME RulesInv, NEW r \in Requests,
         ProcessOne(r) \/ PressSubmit(r) \/ DashboardSubmit(r)
  PROVE  RulesInv'
<1>1. ASSUME NEW l \in Stages
      PROVE  Set(stage, r, l) \in [Requests -> Stages]
  BY DEF RulesInv, TypeOK, Set, Stages
<1>2. CASE ProcessOne(r)
  <2>1. /\ ticket' \in [Requests -> Classifications] /\ wire' \in [Requests -> Wires]
        /\ \A q \in Requests : ByTheRules(ticket'[q])
    <3>1. CASE UNCHANGED <<ticket, wire>>
      BY <3>1 DEF RulesInv, TypeOK, Wires
    <3>2. CASE \E c \in Classify(r) : Post(r, c)
      BY <1>2, <3>2, ClassifyProperties, PostProperties, Subjects DEF ProcessOne
    <3>3. QED
      BY <1>2, <3>1, <3>2 DEF ProcessOne
  <2>2. stage' \in [Requests -> Stages]
    BY <1>1, <1>2 DEF ProcessOne, Stages
  <2>3. QED
    BY <1>2, <2>1, <2>2 DEF ProcessOne, RulesInv, TypeOK, Wires, Stages
<1>3. CASE PressSubmit(r)
  <2>1. /\ ticket' \in [Requests -> Classifications] /\ wire' \in [Requests -> Wires]
        /\ \A q \in Requests : ByTheRules(ticket'[q])
    <3>1. inbox.class \in Classifications /\ ByTheRules(inbox.class) /\ Post(r, inbox.class)
      BY <1>3 DEF RulesInv, TypeOK, PressSubmit
    <3>2. QED
      BY <3>1, PostProperties
  <2>2. stage' \in [Requests -> Stages] /\ draft' \in [Requests -> Nat]
    BY <1>1, <1>3 DEF PressSubmit, Stages, Set, RulesInv, TypeOK
  <2>3. QED
    BY <1>3, <2>1, <2>2 DEF PressSubmit, Unused, Set, RulesInv, TypeOK, Wires, Stages
<1>4. CASE DashboardSubmit(r)
  <2>1. /\ ticket' \in [Requests -> Classifications] /\ wire' \in [Requests -> Wires]
        /\ \A q \in Requests : ByTheRules(ticket'[q])
    <3>1. PICK body \in FormTickets : Post(r, body)
      BY <1>4 DEF DashboardSubmit
    <3>2. body \in Classifications /\ ByTheRules(body)
      BY IntakeAssumption DEF Classifications, ByTheRules
    <3>3. QED
      BY <3>1, <3>2, PostProperties
  <2>2. stage' \in [Requests -> Stages]
    BY <1>1, <1>4 DEF DashboardSubmit, Stages
  <2>3. QED
    BY <1>4, <2>1, <2>2 DEF DashboardSubmit, RulesInv, TypeOK, Wires, Stages
<1>5. QED
  BY <1>2, <1>3, <1>4

LEMMA AnswersKeepRules ==
  ASSUME RulesInv, NEW r \in Requests, Lose(r) \/ Answer(r) \/ GiveUp(r)
  PROVE  RulesInv'
<1>1. \A l \in Stages : Set(stage, r, l) \in [Requests -> Stages]
  BY DEF RulesInv, TypeOK, Set, Stages
<1>2. \A l \in Wires : Set(wire, r, l) \in [Requests -> Wires]
  BY DEF RulesInv, TypeOK, Set, Wires
<1>3. inbox \in Inboxes /\ faults \in Nat
  BY DEF RulesInv, TypeOK, Inboxes
<1>4. CASE Lose(r)
  <2>1. /\ ticket' \in [Requests -> Classifications]
        /\ \A q \in Requests : ByTheRules(ticket'[q])
    BY <1>4, NoTicketProperties DEF Lose, Set, RulesInv, TypeOK
  <2>2. wire' \in [Requests -> Wires]
    BY <1>2, <1>4 DEF Lose, Wires
  <2>3. faults' \in Nat
    BY <1>3, <1>4 DEF Lose, Fault
  <2>4. QED
    BY <1>4, <2>1, <2>2, <2>3 DEF Lose, RulesInv, TypeOK, Wires
<1>5. CASE Answer(r)
  <2>1. stage' \in [Requests -> Stages] /\ wire' \in [Requests -> Wires]
    BY <1>1, <1>2, <1>5 DEF Answer, Verdict, Stages, Wires
  <2>2. inbox' \in Inboxes /\ ByTheRules(inbox'.class)
    <3>1. CASE UNCHANGED inbox
      BY <1>3, <3>1 DEF RulesInv
    <3>2. CASE draft[r] # NoDraft
      <4>1. r \in Forms
        BY <3>2 DEF RulesInv
      <4>2. PICK q \in SUBSET Forms :
               inbox' = [inbox EXCEPT !.draft = NoDraft, !.class = NoTicket, !.queued = q]
        BY <1>5, <3>2, <4>1 DEF Answer, Submitted
      <4>3. NoDraft \in Nat
        BY DEF NoDraft
      <4>4. QED
        BY <1>3, <4>2, <4>3, NoTicketProperties DEF Inboxes
    <3>3. QED
      BY <1>5, <3>1, <3>2 DEF Answer
  <2>3. QED
    BY <1>5, <2>1, <2>2 DEF Answer, RulesInv, TypeOK, Stages, Wires, Inboxes
<1>6. CASE GiveUp(r)
  <2>1. stage' \in [Requests -> Stages]
    BY <1>1, <1>6 DEF GiveUp, Stages
  <2>2. inbox' \in Inboxes /\ inbox'.class = inbox.class
    BY <1>3, <1>6 DEF GiveUp, Inboxes
  <2>3. faults' \in Nat
    BY <1>3, <1>6 DEF GiveUp, Fault
  <2>4. QED
    BY <1>6, <2>1, <2>2, <2>3 DEF GiveUp, RulesInv, TypeOK, Stages, Inboxes
<1>7. QED
  BY <1>4, <1>5, <1>6

LEMMA RestKeepsRules ==
  ASSUME RulesInv,
         \/ Simulate \/ StartBatch \/ Report \/ AskClassification \/ GetClassification
         \/ UNCHANGED vars
  PROVE  RulesInv'
<1>1. inbox \in Inboxes /\ sim \in Sims /\ stage \in [Requests -> Stages]
  BY DEF RulesInv, TypeOK, Inboxes, Sims, Stages
<1>2. CASE Simulate
  <2>1. PICK n \in Counts :
          /\ Begin(n)
          /\ stage' = [r \in Requests |->
                         IF r \in Simulated /\ r <= n /\ sim'.at = "running" THEN "waiting" ELSE stage[r]]
    BY <1>2 DEF Simulate
  <2>2. sim' \in Sims
    BY <1>1, <2>1, IntakeAssumption DEF Begin, Sims
  <2>3. stage' \in [Requests -> Stages]
    BY <1>1, <2>1 DEF Stages
  <2>4. QED
    BY <1>2, <2>2, <2>3 DEF Simulate, RulesInv, TypeOK, Sims, Stages
<1>3. CASE StartBatch
  <2>1. stage' \in [Requests -> Stages]
    BY <1>1, <1>3 DEF StartBatch, Stages
  <2>2. QED
    BY <1>3, <2>1 DEF StartBatch, RulesInv, TypeOK, Stages
<1>4. CASE Report
  <2>1. sim' \in Sims
    BY <1>1, <1>4 DEF Report, Selected, Sims
  <2>2. QED
    BY <1>4, <2>1 DEF Report, RulesInv, TypeOK, Sims
<1>5. CASE AskClassification
  <2>1. inbox' \in Inboxes /\ ByTheRules(inbox'.class)
    <3>1. inbox' = [inbox EXCEPT !.classifying = TRUE, !.asked = inbox.asked + 1,
                                 !.draft = NoDraft, !.class = NoTicket, !.queued = {}]
      BY <1>5 DEF AskClassification
    <3>2. inbox.asked + 1 \in Nat /\ NoDraft \in Nat
      BY <1>1 DEF Inboxes, NoDraft
    <3>3. QED
      BY <1>1, <3>1, <3>2, NoTicketProperties DEF Inboxes
  <2>2. QED
    BY <1>5, <2>1 DEF AskClassification, RulesInv, TypeOK, Inboxes
<1>6. CASE GetClassification
  <2>1. inbox' \in Inboxes /\ ByTheRules(inbox'.class)
    <3>1. CASE \E c \in Classify(Inbox) :
                 inbox' = [inbox EXCEPT !.classifying = FALSE, !.draft = inbox.asked, !.class = c]
      BY <1>1, <3>1, ClassifyProperties, Subjects DEF Inboxes
    <3>2. CASE inbox' = [inbox EXCEPT !.classifying = FALSE, !.draft = NoDraft]
      BY <1>1, <3>2 DEF Inboxes, NoDraft, RulesInv
    <3>3. QED
      BY <1>6, <3>1, <3>2 DEF GetClassification
  <2>2. QED
    BY <1>6, <2>1 DEF GetClassification, RulesInv, TypeOK, Inboxes
<1>7. CASE UNCHANGED vars
  BY <1>7 DEF vars, RulesInv, TypeOK
<1>8. QED
  BY <1>2, <1>3, <1>4, <1>5, <1>6, <1>7

LEMMA RulesInit == Init => RulesInv
<1> SUFFICES ASSUME Init PROVE RulesInv
  OBVIOUS
<1>1. /\ ticket \in [Requests -> Classifications] /\ job \in [Requests -> Jobs]
      /\ \A r \in Requests : ByTheRules(ticket[r])
      /\ \A r \in Requests : job[r].rule = 0
  BY NoTicketProperties DEF Init
<1>2. inbox \in Inboxes /\ ByTheRules(inbox.class)
  BY NoTicketProperties DEF Init, Inboxes, NoDraft
<1>3. TypeOK
  BY <1>1, <1>2 DEF Init, TypeOK, Jobs, Inboxes, NoDraft
<1>4. \A r \in Requests : draft[r] = NoDraft
  BY DEF Init
<1>5. QED
  BY <1>1, <1>2, <1>3, <1>4 DEF RulesInv

LEMMA RulesStep == RulesInv /\ [Next]_vars => RulesInv'
BY SubmitJobKeepsRules, ClientsKeepRules, AnswersKeepRules, RestKeepsRules DEF Next, Handle

\* Type correctness, whatever is written, answered, asked for or lost.
THEOREM IntakeTypeCorrect == Spec => []TypeOK
<1>1. RulesInv => TypeOK
  BY DEF RulesInv
<1>2. QED
  BY <1>1, RulesInit, RulesStep, PTL DEF Spec

\* The order of the queue respects the deadlines of the tickets that the rules have
\* classified: the priority and the deadline of a job come from the same level.
THEOREM UrgentGoFirst == Spec => []UrgentFirst
<1>1. RulesInv => UrgentFirst
  BY DEF RulesInv, UrgentFirst, SlaHours
<1>2. QED
  BY <1>1, RulesInit, RulesStep, PTL DEF Spec

-----------------------------------------------------------------------------
(***************************************************************************)
(* What is reported.  The invariant follows each POST from the ticket that *)
(* is not sent yet to the answer, and says what is certain at each place.  *)
(***************************************************************************)
Known(r) ==
  /\ stage[r] \in {"unsent", "waiting", "classify"} => wire[r] = "none" /\ ~Queued(r)
  /\ stage[r] = "accepted" \/ wire[r] = "created" => Queued(r)
  /\ wire[r] = "request" => ~Queued(r)
  /\ faults = 0 =>
       /\ wire[r] # "lost"
       /\ wire[r] = "refused" => ~Queued(r)
       /\ stage[r] = "failed" => wire[r] = "none" /\ ~Queued(r)

Started == sim.at \in {"running", "reported"}

ReportInv ==
  /\ RulesInv
  /\ \A r \in Requests : Known(r)
  /\ \A r \in inbox.queued : Queued(r)
  /\ \A r \in Simulated : stage[r] # "unsent" => Started /\ r <= sim.count
  /\ Started => sim.count \in Counts \cap 1..MaxCount
  /\ sim.tickets = IF sim.at = "reported" THEN {r \in Selected : stage[r] = "accepted"} ELSE {}
  /\ sim.at = "reported" => \A r \in Selected : stage[r] \in Over

\* The actions on one request, seen from the others.
LEMMA OthersKnown ==
  ASSUME RulesInv, NEW r \in Requests, NEW q \in Requests \ {r}, Known(q),
         Handle(r) \/ Lose(r) \/ ProcessOne(r) \/ PressSubmit(r) \/ DashboardSubmit(r)
  PROVE  Known(q)'
<1>1. stage'[q] = stage[q] /\ wire'[q] = wire[q] /\ job'[q] = job[q]
  BY DEF RulesInv, TypeOK, Handle, SubmitJob, Answer, GiveUp, Lose, ProcessOne, PressSubmit,
         DashboardSubmit, Post, Set
<1>2. faults' = 0 => faults = 0
  BY DEF RulesInv, TypeOK, Handle, SubmitJob, Answer, GiveUp, Lose, ProcessOne, PressSubmit,
         DashboardSubmit, Fault
<1>3. QED
  BY <1>1, <1>2 DEF Known, Queued

\* What the request itself goes through.
LEMMA OwnKnown ==
  ASSUME RulesInv, NEW r \in Requests, Known(r),
         Handle(r) \/ Lose(r) \/ ProcessOne(r) \/ PressSubmit(r) \/ DashboardSubmit(r)
  PROVE  Known(r)'
<1>1. /\ stage \in [Requests -> Stages] /\ wire \in [Requests -> Wires]
      /\ job \in [Requests -> Jobs] /\ faults \in Nat
      /\ ticket \in [Requests -> Classifications]
  BY DEF RulesInv, TypeOK, Stages, Wires, Jobs
<1>2. ASSUME SubmitJob(r) PROVE Known(r)'
  <2> DEFINE queued == [ticket[r] EXCEPT !.priority = QueuePriority(@)]
  <2>1. wire[r] = "request" /\ stage' = stage /\ ~Queued(r)
    BY <1>2 DEF SubmitJob, Known
  <2>2. \/ ticket[r].sound /\ job'[r] = queued /\ wire'[r] = "created" /\ faults' = faults
        \/ job' = job /\ wire'[r] = "refused" /\ faults' = faults
        \/ wire'[r] = "refused" /\ faults' = faults + 1
    BY <1>1, <1>2 DEF SubmitJob, Set, Fault
  <2>3. ticket[r].sound => queued # NoTicket
    BY <1>1, QueuedProperties, NoTicketProperties
  <2> HIDE DEF queued
  <2>4. CASE ticket[r].sound /\ job'[r] = queued /\ wire'[r] = "created" /\ faults' = faults
    <3>1. Queued(r)'
      BY <2>3, <2>4 DEF Queued
    <3>2. QED
      BY <2>1, <2>4, <3>1 DEF Known
  <2>5. CASE job' = job /\ wire'[r] = "refused" /\ faults' = faults
    BY <2>1, <2>5 DEF Known, Queued
  <2>6. CASE wire'[r] = "refused" /\ faults' = faults + 1
    <3>1. faults' # 0
      BY <1>1, <2>6
    <3>2. stage[r] # "accepted" /\ stage[r] \notin {"unsent", "waiting", "classify"}
      BY <2>1 DEF Known
    <3>3. QED
      BY <2>1, <2>6, <3>1, <3>2 DEF Known
  <2>7. QED
    BY <2>2, <2>4, <2>5, <2>6
<1>3. ASSUME Answer(r) PROVE Known(r)'
  <2>1. /\ stage'[r] = IF wire[r] = "created" THEN "accepted" ELSE "failed"
        /\ wire'[r] = "none" /\ wire[r] \in {"created", "refused"}
        /\ job' = job /\ faults' = faults
    BY <1>1, <1>3 DEF Answer, Verdict, Set
  <2>2. QED
    BY <2>1 DEF Known, Queued
<1>4. ASSUME GiveUp(r) PROVE Known(r)'
  <2>1. stage'[r] = "failed" /\ wire' = wire /\ job' = job
    BY <1>1, <1>4 DEF GiveUp, Set
  <2>2. faults' # 0
    BY <1>1, <1>4 DEF GiveUp, Fault, Known
  <2>3. QED
    BY <2>1, <2>2 DEF Known, Queued
<1>5. ASSUME Lose(r) PROVE Known(r)'
  <2>1. stage' = stage /\ stage[r] = "posted" /\ wire'[r] = "lost" /\ job' = job /\ faults' # 0
    BY <1>1, <1>5 DEF Lose, Set, Fault
  <2>2. QED
    BY <2>1 DEF Known, Queued
<1>6. ASSUME ProcessOne(r) \/ PressSubmit(r) \/ DashboardSubmit(r) PROVE Known(r)'
  <2>1. /\ stage[r] \in {"unsent", "classify"} /\ job' = job /\ faults' = faults
        /\ \/ stage'[r] = "posted" /\ wire'[r] = "request"
           \/ stage'[r] = "failed" /\ wire' = wire
    BY <1>1, <1>6 DEF ProcessOne, PressSubmit, DashboardSubmit, Unused, Post, Set
  <2>2. QED
    BY <2>1 DEF Known, Queued
<1>7. QED
  BY <1>2, <1>3, <1>4, <1>5, <1>6 DEF Handle

LEMMA ReportStep == ReportInv /\ [Next]_vars /\ RulesInv' => ReportInv'
<1> SUFFICES ASSUME ReportInv, [Next]_vars, RulesInv' PROVE ReportInv'
  OBVIOUS
<1>1. /\ RulesInv
      /\ \A r \in Requests : Known(r)
      /\ \A r \in inbox.queued : Queued(r)
      /\ \A r \in Simulated : stage[r] # "unsent" => Started /\ r <= sim.count
      /\ Started => sim.count \in Counts \cap 1..MaxCount
      /\ sim.tickets = IF sim.at = "reported" THEN {r \in Selected : stage[r] = "accepted"} ELSE {}
      /\ sim.at = "reported" => \A r \in Selected : stage[r] \in Over
  BY DEF ReportInv
<1>2. /\ stage \in [Requests -> Stages] /\ sim \in Sims /\ inbox \in Inboxes
      /\ Selected \subseteq Simulated /\ Simulated \subseteq Requests
  BY Subjects DEF ReportInv, RulesInv, TypeOK, Stages, Sims, Inboxes, Selected
\* Actions on one request.
<1>3. ASSUME NEW r \in Requests,
             Handle(r) \/ Lose(r) \/ ProcessOne(r) \/ PressSubmit(r) \/ DashboardSubmit(r)
      PROVE  ReportInv'
  <2>1. \A q \in Requests : Known(q)'
    BY <1>1, <1>3, OthersKnown, OwnKnown
  <2>2. sim' = sim /\ Started' = Started /\ Selected' = Selected
    BY <1>3 DEF Handle, SubmitJob, Answer, GiveUp, Lose, ProcessOne, PressSubmit, DashboardSubmit,
                Started, Selected
  <2>3. /\ \A q \in Requests : stage[q] \in Over => stage'[q] = stage[q]
        /\ \A q \in Simulated : stage[q] = "unsent" => stage'[q] = "unsent"
    BY <1>2, <1>3, Subjects
    DEF Handle, SubmitJob, Answer, GiveUp, Lose, ProcessOne, PressSubmit, DashboardSubmit, Unused,
        Set, Over
  <2>4. \A q \in Requests : Queued(q) => Queued(q)'
    <3>1. SUFFICES ASSUME NEW q \in Requests, Queued(q) PROVE Queued(q)'
      OBVIOUS
    <3>2. CASE SubmitJob(r)
      <4>1. ~Queued(r)
        BY <1>1, <3>2 DEF SubmitJob, Known
      <4>2. job'[q] = job[q]
        BY <1>1, <3>1, <3>2, <4>1 DEF SubmitJob, Set, RulesInv, TypeOK
      <4>3. QED
        BY <3>1, <4>2 DEF Queued
    <3>3. CASE job' = job
      BY <3>1, <3>3 DEF Queued
    <3>4. QED
      BY <1>3, <3>2, <3>3 DEF Handle, Answer, GiveUp, Lose, ProcessOne, PressSubmit, DashboardSubmit
  <2>5. \A q \in inbox'.queued : Queued(q)'
    <3>1. inbox.queued \subseteq Requests
      BY <1>2, Subjects DEF Inboxes
    <3>2. inbox'.queued \subseteq inbox.queued \/ (inbox'.queued = {r} /\ wire[r] = "created")
      <4>1. CASE inbox' = inbox
        BY <4>1
      <4>2. CASE Answer(r) /\ Submitted(r)
        BY <1>2, <4>2 DEF Submitted, Verdict, Inboxes
      <4>3. CASE inbox' = [inbox EXCEPT !.queued = {}]
        BY <1>2, <4>3 DEF Inboxes
      <4>4. QED
        BY <1>3, <4>1, <4>2, <4>3
        DEF Handle, SubmitJob, Answer, GiveUp, Lose, ProcessOne, PressSubmit, DashboardSubmit
    <3>3. wire[r] = "created" => Queued(r)
      BY <1>1 DEF Known
    <3>4. QED
      BY <1>1, <2>4, <3>1, <3>2, <3>3
  <2>6. \A q \in Simulated : stage'[q] # "unsent" => Started /\ q <= sim.count
    BY <1>1, <2>3
  <2>7. sim.at = "reported" =>
          /\ \A q \in Selected : stage'[q] \in Over
          /\ sim.tickets = {q \in Selected : stage'[q] = "accepted"}
    BY <1>1, <1>2, <2>3
  <2>8. QED
    BY <1>1, <2>1, <2>2, <2>5, <2>6, <2>7 DEF ReportInv
\* The simulation starts.
<1>4. CASE Simulate
  <2>1. PICK n \in Counts :
          /\ Begin(n)
          /\ stage' = [r \in Requests |->
                         IF r \in Simulated /\ r <= n /\ sim'.at = "running" THEN "waiting" ELSE stage[r]]
    BY <1>4 DEF Simulate
  <2>2. /\ sim.at = "idle" /\ sim'.count = n /\ sim'.tickets = {}
        /\ sim'.at = IF n \in 1..MaxCount THEN "running" ELSE "refused"
        /\ UNCHANGED <<ticket, wire, job, inbox, draft, faults>>
    BY <1>1, <1>2, <1>4, <2>1 DEF Begin, Sims, Simulate
  <2>3. \A r \in Simulated : stage[r] = "unsent"
    BY <1>1, <2>2 DEF Started
  <2>4. \A r \in Requests : stage'[r] = stage[r] \/ (stage[r] = "unsent" /\ stage'[r] = "waiting")
    BY <2>1, <2>3
  <2>5. \A r \in Requests : Known(r)'
    BY <1>1, <2>2, <2>4 DEF Known, Queued
  <2>6. \A r \in Simulated : stage'[r] # "unsent" => sim'.at = "running" /\ r <= sim'.count
    BY <1>2, <2>1, <2>2, <2>3
  <2>7. \A r \in inbox'.queued : Queued(r)'
    BY <1>1, <2>2 DEF Queued
  <2>8. QED
    BY <2>2, <2>5, <2>6, <2>7 DEF ReportInv, Started
\* The next batch.
<1>5. CASE StartBatch
  <2>1. /\ \A r \in Requests : stage'[r] = stage[r] \/ (stage[r] = "waiting" /\ stage'[r] = "classify")
        /\ sim.at = "running" /\ UNCHANGED <<ticket, wire, job, sim, inbox, draft, faults>>
    BY <1>5 DEF StartBatch, Waiting
  <2>2. \A r \in Requests : Known(r)'
    BY <1>1, <2>1 DEF Known, Queued
  <2>3. \A r \in Simulated : stage'[r] # "unsent" => stage[r] # "unsent"
    BY <1>2, <2>1
  <2>4. QED
    BY <1>1, <2>1, <2>2, <2>3 DEF ReportInv, Started, Queued
\* The report.
<1>6. CASE Report
  <2>1. /\ sim'.at = "reported" /\ sim'.count = sim.count /\ sim.at = "running"
        /\ sim'.tickets = {r \in Selected : stage[r] = "accepted"}
        /\ \A r \in Selected : stage[r] \in Over
        /\ UNCHANGED <<stage, ticket, wire, job, inbox, draft, faults>>
    BY <1>2, <1>6 DEF Report, Sims, Gathered
  <2>2. Selected' = Selected
    BY <2>1 DEF Selected
  <2>3. \A r \in Requests : Known(r)'
    BY <1>1, <2>1 DEF Known, Queued
  <2>4. QED
    BY <1>1, <2>1, <2>2, <2>3 DEF ReportInv, Started, Queued
\* The inbox.
<1>7. CASE AskClassification \/ GetClassification
  <2>1. inbox'.queued \subseteq inbox.queued
    BY <1>2, <1>7 DEF AskClassification, GetClassification, Inboxes
  <2>2. UNCHANGED <<stage, ticket, wire, job, sim, draft, faults>>
    BY <1>7 DEF AskClassification, GetClassification
  <2>3. \A r \in Requests : Known(r)'
    BY <1>1, <2>2 DEF Known, Queued
  <2>4. QED
    BY <1>1, <2>1, <2>2, <2>3 DEF ReportInv, Started, Queued, Selected
<1>8. CASE UNCHANGED vars
  BY <1>1, <1>8 DEF vars, ReportInv, Known, Queued, Started, Selected
<1>9. QED
  BY <1>3, <1>4, <1>5, <1>6, <1>7, <1>8 DEF Next

LEMMA ReportInit == Init => ReportInv
<1> SUFFICES ASSUME Init PROVE ReportInv
  OBVIOUS
<1>1. /\ \A r \in Requests : /\ stage[r] = "unsent" /\ wire[r] = "none" /\ ~Queued(r)
      /\ sim.at = "idle" /\ sim.tickets = {} /\ inbox.queued = {}
  BY DEF Init, Queued
<1>2. \A r \in Requests : Known(r)
  BY <1>1 DEF Known
<1>3. \A r \in Simulated : stage[r] = "unsent"
  BY <1>1, Subjects
<1>4. QED
  BY <1>1, <1>2, <1>3, RulesInit DEF ReportInv, Started

\* Whatever fails or gets lost, what users are told is in the queue is there; and if
\* nothing fails, a simulation reports all that it has put there.
THEOREM ReportsAreExact == Spec => []ReportIsExact
<1>1. ReportInv => ReportIsExact
  <2>1. SUFFICES ASSUME ReportInv PROVE ReportIsExact
    OBVIOUS
  <2>2. /\ Selected \subseteq Simulated /\ Simulated \subseteq Requests /\ Forms \subseteq Requests
        /\ \A r \in Requests : Known(r)
        /\ stage \in [Requests -> Stages] /\ wire \in [Requests -> Wires]
    BY <2>1, Subjects DEF ReportInv, RulesInv, TypeOK, Selected, Stages, Wires
  <2>3. \A r \in sim.tickets : r \in Requests /\ stage[r] = "accepted"
    BY <2>1, <2>2 DEF ReportInv
  <2>4. \A r \in sim.tickets \cup inbox.queued : Queued(r)
    BY <2>1, <2>2, <2>3 DEF ReportInv, Known
  <2>5. \A r \in Forms : stage[r] = "accepted" => Queued(r)
    BY <2>2 DEF Known
  <2>6. ASSUME sim.at = "reported", faults = 0
        PROVE  sim.tickets = {r \in Simulated : Queued(r)}
    <3>1. sim.tickets = {r \in Selected : stage[r] = "accepted"} /\ \A r \in Selected : stage[r] \in Over
      BY <2>1, <2>6 DEF ReportInv
    <3>2. \A r \in Simulated : Queued(r) => stage[r] # "unsent"
      BY <2>2 DEF Known
    <3>3. \A r \in Simulated : Queued(r) => r \in Selected
      BY <2>1, <3>2 DEF ReportInv, Selected
    <3>4. \A r \in Selected : Queued(r) <=> stage[r] = "accepted"
      BY <2>2, <2>6, <3>1 DEF Known, Over
    <3>5. QED
      BY <2>2, <3>1, <3>3, <3>4
  <2>7. QED
    BY <2>4, <2>5, <2>6 DEF ReportIsExact
<1>2. RulesInv /\ [Next]_vars => RulesInv'
  BY RulesStep
<1>3. ReportInv => RulesInv
  BY DEF ReportInv
<1>4. QED
  BY <1>1, <1>2, <1>3, ReportInit, ReportStep, PTL DEF Spec

-----------------------------------------------------------------------------
(***************************************************************************)
(* Batches.  The tickets that wait are the last ones, and those under way  *)
(* are among the BatchSize ones before them.                               *)
(***************************************************************************)
Active == {r \in Simulated : stage[r] \in {"classify", "posted"}}

Split(m) ==
  /\ \A r \in Selected : stage[r] = "waiting" <=> r > m
  /\ \A r \in Active : m - BatchSize < r /\ r <= m

\* POSTs that were given up and that the API server has still to handle.
Late == {r \in Simulated : wire[r] = "request" /\ stage[r] # "posted"}

BatchInv ==
  /\ ReportInv
  /\ \E m \in Nat : Split(m)
  /\ Cardinality(Late) <= faults

\* A window of BatchSize numbers holds no more tickets than that.
LEMMA FewActive == BatchInv => OneBatchAtATime
<1>1. SUFFICES ASSUME BatchInv PROVE OneBatchAtATime
  OBVIOUS
<1>2. PICK m \in Nat : Split(m)
  BY <1>1 DEF BatchInv
<1>3. Active \subseteq (m - BatchSize + 1)..m
  <2>1. Active \subseteq Nat /\ BatchSize \in Nat
    BY IntakeAssumption DEF Active, Simulated
  <2>2. QED
    BY <1>2, <2>1 DEF Split
<1>4. m - BatchSize + 1 \in Int /\ m \in Int /\ BatchSize \in Nat \ {0}
  BY IntakeAssumption
<1>5. IsFiniteSet((m - BatchSize + 1)..m) /\ Cardinality((m - BatchSize + 1)..m) = BatchSize
  BY <1>4, FS_Interval
<1>6. Cardinality(Active) <= BatchSize
  BY <1>3, <1>5, FS_Subset
<1>7. ~(sim.count \in 1..MaxCount) => \A r \in Simulated : ~Queued(r) /\ wire[r] = "none"
  <2>1. SUFFICES ASSUME ~(sim.count \in 1..MaxCount), NEW r \in Simulated
                 PROVE  ~Queued(r) /\ wire[r] = "none"
    OBVIOUS
  <2>2. stage[r] = "unsent" /\ Known(r)
    BY <1>1, <2>1, Subjects DEF BatchInv, ReportInv
  <2>3. QED
    BY <2>2 DEF Known
<1>8. QED
  BY <1>1, <1>6, <1>7 DEF OneBatchAtATime, Active, Late, BatchInv

\* The batch that StartBatch takes is the next one.
LEMMA NextBatch ==
  ASSUME ReportInv, NEW m \in Nat, Split(m), StartBatch
  PROVE  Split(m + BatchSize)'
<1>1. /\ sim.at = "running" /\ sim' = sim /\ Waiting # {}
      /\ \A r \in Selected \ Waiting : stage[r] \in Over
      /\ stage' = [r \in Requests |->
                     IF r \in Waiting /\ r <= sim.count - Cardinality(Waiting) + BatchSize
                       THEN "classify" ELSE stage[r]]
  BY DEF StartBatch, Gathered
<1>2. /\ sim.count \in Nat /\ Selected = 1..sim.count /\ Selected \subseteq Requests
      /\ BatchSize \in Nat \ {0} /\ Simulated \subseteq Nat
  <2>1. sim.count \in Counts \cap 1..MaxCount
    BY <1>1 DEF ReportInv, Started
  <2>2. sim.count \in 0..MaxTickets
    BY <2>1, IntakeAssumption
  <2>3. QED
    BY <2>2, IntakeAssumption, Subjects DEF Selected, Simulated
<1>3. Waiting = (m + 1)..sim.count
  BY <1>2 DEF Waiting, Split
<1>4. m < sim.count
  BY <1>1, <1>2, <1>3
<1>5. Cardinality(Waiting) = sim.count - m
  <2>1. m + 1 \in Int /\ sim.count \in Int
    BY <1>2
  <2>2. Cardinality((m + 1)..sim.count) = sim.count - (m + 1) + 1
    BY <1>2, <1>4, <2>1, FS_Interval
  <2>3. QED
    BY <1>2, <1>3, <2>2
<1>6. \A r \in Requests :
        stage'[r] = IF r \in Waiting /\ r <= m + BatchSize THEN "classify" ELSE stage[r]
  BY <1>1, <1>2, <1>5
<1>7. \A r \in Simulated \ Waiting : stage[r] \in Over \/ stage[r] = "unsent"
  BY <1>1 DEF ReportInv, Selected
<1>8. \A r \in Selected : stage'[r] = "waiting" <=> r > m + BatchSize
  BY <1>2, <1>3, <1>6, <1>7 DEF Waiting, Split, Over
<1>9. \A r \in Simulated : stage'[r] \in {"classify", "posted"} => r \in Waiting /\ r <= m + BatchSize
  <2>1. Simulated \subseteq Requests
    BY Subjects
  <2>2. \A r \in Waiting : stage[r] = "waiting"
    BY DEF Waiting
  <2>3. QED
    BY <1>6, <1>7, <2>1, <2>2 DEF Over
<1>10. \A r \in Simulated : stage'[r] \in {"classify", "posted"} =>
         (m + BatchSize) - BatchSize < r /\ r <= m + BatchSize
  BY <1>2, <1>3, <1>9
<1>11. Selected' = Selected
  BY <1>1 DEF Selected
<1>12. QED
  BY <1>2, <1>8, <1>10, <1>11 DEF Split, Active

\* Only a timeout adds to the POSTs that are late, and it counts as a fault.
LEMMA LateStep ==
  ASSUME ReportInv, Cardinality(Late) <= faults, [Next]_vars
  PROVE  Cardinality(Late') <= faults'
<1>1. /\ \A r \in Requests : Known(r)
      /\ stage \in [Requests -> Stages] /\ wire \in [Requests -> Wires] /\ faults \in Nat
      /\ Simulated \subseteq Requests /\ Forms \cap Simulated = {}
  BY Subjects DEF ReportInv, RulesInv, TypeOK, Stages, Wires
<1>2. IsFiniteSet(Simulated)
  BY IntakeAssumption, FS_Interval DEF Simulated
<1>3. IsFiniteSet(Late) /\ Cardinality(Late) \in Nat
  BY <1>2, FS_Subset, FS_CardinalityType DEF Late
<1>4. ASSUME Late' \subseteq Late, faults' \in {faults, faults + 1}
      PROVE  Cardinality(Late') <= faults'
  <2>1. Cardinality(Late') <= Cardinality(Late) /\ Cardinality(Late') \in Nat
    BY <1>3, <1>4, FS_Subset, FS_CardinalityType
  <2>2. QED
    BY <1>1, <1>3, <1>4, <2>1
<1>5. ASSUME NEW r \in Requests, SubmitJob(r) \/ Lose(r) \/ Answer(r)
      PROVE  Cardinality(Late') <= faults'
  <2>1. faults' \in {faults, faults + 1}
    BY <1>5 DEF SubmitJob, Lose, Answer, Fault
  <2>2. /\ \E w \in Wires \ {"request"} : wire' = [wire EXCEPT ![r] = w]
        /\ \A q \in Requests \ {r} : stage'[q] = stage[q]
    BY <1>1, <1>5 DEF SubmitJob, Lose, Answer, Set, Wires
  <2>3. Late' \subseteq Late
    BY <1>1, <2>2 DEF Late
  <2>4. QED
    BY <1>4, <2>1, <2>3
<1>6. ASSUME NEW r \in Requests, GiveUp(r) PROVE Cardinality(Late') <= faults'
  <2>1. /\ wire' = wire /\ stage[r] = "posted" /\ stage' = [stage EXCEPT ![r] = "failed"]
        /\ \/ wire[r] = "lost" /\ faults' = faults
           \/ wire[r] = "request" /\ faults' = faults + 1
    BY <1>6 DEF GiveUp, Fault, Set
  <2>2. CASE wire[r] = "lost"
    <3>1. Late' \subseteq Late
      BY <1>1, <2>1, <2>2 DEF Late
    <3>2. QED
      BY <1>4, <2>1, <2>2, <3>1
  <2>3. CASE wire[r] = "request"
    <3>1. Late' \subseteq Late \cup {r}
      BY <1>1, <2>1 DEF Late
    <3>2. IsFiniteSet(Late \cup {r}) /\ Cardinality(Late \cup {r}) \in {Cardinality(Late), Cardinality(Late) + 1}
      BY <1>3, FS_AddElement
    <3>3. Cardinality(Late') <= Cardinality(Late \cup {r}) /\ Cardinality(Late') \in Nat
      BY <3>1, <3>2, FS_Subset, FS_CardinalityType
    <3>4. QED
      BY <1>1, <1>3, <2>1, <2>3, <3>2, <3>3
  <2>4. QED
    BY <2>1, <2>2, <2>3
<1>7. ASSUME NEW r \in Requests, ProcessOne(r) \/ PressSubmit(r) \/ DashboardSubmit(r)
      PROVE  Cardinality(Late') <= faults'
  <2>1. /\ faults' = faults
        /\ \A q \in Requests \ {r} : wire'[q] = wire[q] /\ stage'[q] = stage[q]
        /\ \/ r \in Forms
           \/ stage'[r] = "posted"
           \/ wire'[r] = "none"
    BY <1>1, <1>7 DEF ProcessOne, PressSubmit, DashboardSubmit, Unused, Post, Set, Known
  <2>2. Late' \subseteq Late
    BY <1>1, <2>1 DEF Late
  <2>3. QED
    BY <1>4, <2>1, <2>2
<1>8. CASE Simulate \/ StartBatch
  <2>1. /\ wire' = wire /\ faults' = faults
        /\ \A q \in Requests : stage'[q] = stage[q] \/ stage[q] = "waiting" \/ sim.at = "idle"
    BY <1>1, <1>8 DEF Simulate, StartBatch, Waiting
  <2>2. \A q \in Simulated : stage[q] = "waiting" \/ sim.at = "idle" => wire[q] # "request"
    BY <1>1 DEF Known, ReportInv, Started
  <2>3. Late' \subseteq Late
    BY <1>1, <2>1, <2>2 DEF Late
  <2>4. QED
    BY <1>4, <2>1, <2>3
<1>9. CASE Report \/ AskClassification \/ GetClassification \/ UNCHANGED vars
  <2>1. UNCHANGED <<wire, stage, faults>>
    BY <1>9 DEF Report, AskClassification, GetClassification, vars
  <2>2. Late' = Late
    BY <2>1 DEF Late
  <2>3. QED
    BY <2>1, <2>2
<1>10. QED
  BY <1>5, <1>6, <1>7, <1>8, <1>9 DEF Next, Handle

\* Every step keeps the invariant.
LEMMA BatchStep == BatchInv /\ [Next]_vars /\ ReportInv' => BatchInv'
<1> SUFFICES ASSUME BatchInv, [Next]_vars, ReportInv' PROVE \E m \in Nat : Split(m)'
  BY LateStep DEF BatchInv
<1>1. PICK m \in Nat : Split(m)
  BY DEF BatchInv
<1>2. /\ ReportInv /\ stage \in [Requests -> Stages] /\ sim \in Sims
      /\ Simulated \subseteq Requests /\ Simulated \subseteq Nat /\ BatchSize \in Nat
  BY IntakeAssumption, Subjects DEF BatchInv, ReportInv, RulesInv, TypeOK, Stages, Sims, Simulated
<1>3. ASSUME Selected' = Selected,
             \A r \in Simulated : stage'[r] = "waiting" <=> stage[r] = "waiting",
             \A r \in Simulated : stage'[r] \in {"classify", "posted"}
               => stage[r] \in {"classify", "posted"}
      PROVE  Split(m)'
  BY <1>1, <1>3 DEF Split, Active, Selected
<1>4. ASSUME NEW r \in Requests,
             Handle(r) \/ Lose(r) \/ ProcessOne(r) \/ PressSubmit(r) \/ DashboardSubmit(r)
      PROVE  Split(m)'
  <2>1. sim' = sim /\ Selected' = Selected
    BY <1>4 DEF Handle, SubmitJob, Answer, GiveUp, Lose, ProcessOne, PressSubmit, DashboardSubmit,
                Selected
  <2>2. \/ stage' = stage
        \/ /\ \E l \in {"posted", "accepted", "failed"} : stage' = [stage EXCEPT ![r] = l]
           /\ stage[r] \in {"classify", "posted"} \/ r \in Forms
    BY <1>4 DEF Handle, SubmitJob, Answer, GiveUp, Lose, ProcessOne, PressSubmit, DashboardSubmit,
                Unused, Verdict, Set
  <2>3. QED
    BY <1>2, <1>3, <2>1, <2>2, Subjects
<1>5. CASE Simulate
  <2>1. PICK n \in Counts :
          /\ Begin(n)
          /\ stage' = [r \in Requests |->
                         IF r \in Simulated /\ r <= n /\ sim'.at = "running" THEN "waiting" ELSE stage[r]]
    BY <1>5 DEF Simulate
  <2>2. sim.at = "idle" /\ sim'.count = n
        /\ sim'.at = IF n \in 1..MaxCount THEN "running" ELSE "refused"
    BY <1>2, <1>5, <2>1 DEF Begin, Sims, Simulate
  <2>3. \A r \in Simulated : stage[r] = "unsent" /\ r > 0
    BY <1>2, <2>2 DEF ReportInv, Started, Simulated
  <2>4. \A r \in Simulated : stage'[r] \notin {"classify", "posted"}
    BY <1>2, <2>1, <2>3
  <2>5. CASE n \in 1..MaxCount
    <3>1. Split(0)'
      BY <1>2, <2>1, <2>2, <2>3, <2>4, <2>5 DEF Split, Active, Selected
    <3>2. QED
      BY <3>1
  <2>6. CASE n \notin 1..MaxCount
    <3>1. \A r \in Simulated : stage'[r] = "unsent"
      BY <1>2, <2>1, <2>2, <2>3, <2>6
    <3>2. PICK k \in Nat : \A r \in Simulated : ~(r > k)
      BY IntakeAssumption DEF Simulated
    <3>3. Split(k)'
      BY <2>4, <3>1, <3>2 DEF Split, Active, Selected
    <3>4. QED
      BY <3>3
  <2>7. QED
    BY <2>5, <2>6
<1>6. CASE StartBatch
  <2>1. Split(m + BatchSize)'
    BY <1>1, <1>2, <1>6, NextBatch
  <2>2. m + BatchSize \in Nat
    BY <1>2
  <2>3. QED
    BY <2>1, <2>2
<1>7. CASE Report \/ AskClassification \/ GetClassification \/ UNCHANGED vars
  <2>1. stage' = stage /\ sim'.count = sim.count
    BY <1>2, <1>7 DEF Report, AskClassification, GetClassification, vars, Sims
  <2>2. QED
    BY <1>3, <2>1 DEF Selected
<1>8. QED
  BY <1>4, <1>5, <1>6, <1>7 DEF Next

\* The simulator never awaits more tickets than a batch has (simulate_tickets), and the
\* API server has no more to handle beyond these than calls that came too late.
THEOREM OneBatch == Spec => []OneBatchAtATime
<1>1. Init => BatchInv
  <2>1. SUFFICES ASSUME Init PROVE BatchInv
    OBVIOUS
  <2>2. PICK k \in Nat : \A r \in Simulated : ~(r > k)
    BY IntakeAssumption DEF Simulated
  <2>3. \A r \in Simulated : stage[r] = "unsent"
    BY <2>1, Subjects DEF Init
  <2>4. Split(k)
    BY <2>2, <2>3 DEF Split, Active, Selected
  <2>5. Late = {} /\ faults = 0
    BY <2>1, Subjects DEF Late, Init
  <2>6. QED
    BY <2>1, <2>4, <2>5, ReportInit, FS_EmptySet DEF BatchInv
<1>2. RulesInv /\ [Next]_vars => RulesInv'
  BY RulesStep
<1>3. BatchInv => ReportInv /\ RulesInv
  BY DEF BatchInv, ReportInv
<1>4. QED
  BY <1>1, <1>2, <1>3, ReportStep, BatchStep, FewActive, PTL DEF Spec

-----------------------------------------------------------------------------
(***************************************************************************)
(* Submissions.  A classification that has been answered is replaced or    *)
(* dropped before the button can be pressed again; one that is still shown *)
(* is on its way, or its submission was given up.                          *)
(***************************************************************************)
OnceInv ==
  /\ RulesInv
  /\ inbox.draft <= inbox.asked
  /\ \A r \in Requests : draft[r] <= inbox.asked
  /\ inbox.classifying =>
       /\ inbox.draft = NoDraft
       /\ \A r \in Requests : draft[r] < inbox.asked
  /\ \A r, q \in Requests :
       r # q /\ draft[r] # NoDraft /\ draft[r] = draft[q] => Unanswered(r) \/ Unanswered(q)
  /\ \A r \in Requests :
       draft[r] # NoDraft /\ draft[r] = inbox.draft => stage[r] = "posted" \/ Unanswered(r)

LEMMA OnceStep == OnceInv /\ [Next]_vars /\ RulesInv' => OnceInv'
<1> SUFFICES ASSUME OnceInv, [Next]_vars, RulesInv' PROVE OnceInv'
  OBVIOUS
<1> USE DEF NoDraft
<1>1. /\ RulesInv /\ stage \in [Requests -> Stages] /\ wire \in [Requests -> Wires]
      /\ draft \in [Requests -> Nat] /\ inbox \in Inboxes
  BY DEF OnceInv, RulesInv, TypeOK, Stages, Wires, Inboxes
\* What leaves the drafts alone, what was given up, and, while the classification
\* is shown, what is posted.
<1>2. ASSUME draft' = draft, inbox'.classifying = inbox.classifying, inbox'.asked = inbox.asked,
             inbox'.draft \in {inbox.draft, NoDraft},
             \A r \in Requests : draft[r] # NoDraft /\ Unanswered(r) => Unanswered(r)',
             inbox'.draft = inbox.draft =>
               \A r \in Requests : draft[r] # NoDraft /\ stage[r] = "posted"
                                     => stage'[r] = "posted" \/ Unanswered(r)'
      PROVE  OnceInv'
  <2>1. inbox.asked \in Nat
    BY <1>1 DEF Inboxes
  <2>2. /\ inbox'.draft <= inbox'.asked
        /\ \A r \in Requests : draft'[r] <= inbox'.asked
        /\ inbox'.classifying =>
             inbox'.draft = NoDraft /\ \A r \in Requests : draft'[r] < inbox'.asked
    BY <1>2, <2>1 DEF OnceInv
  <2>3. \A r, q \in Requests :
          r # q /\ draft'[r] # NoDraft /\ draft'[r] = draft'[q] => Unanswered(r)' \/ Unanswered(q)'
    BY <1>2 DEF OnceInv
  <2>4. \A r \in Requests :
          draft'[r] # NoDraft /\ draft'[r] = inbox'.draft => stage'[r] = "posted" \/ Unanswered(r)'
    BY <1>2 DEF OnceInv
  <2>5. QED
    BY <2>2, <2>3, <2>4 DEF OnceInv
<1>3. ASSUME NEW r \in Requests, SubmitJob(r) PROVE OnceInv'
  <2>1. /\ UNCHANGED <<stage, sim, inbox, draft>>
        /\ \E w \in {"created", "refused"} : wire' = [wire EXCEPT ![r] = w]
    BY <1>3 DEF SubmitJob, Set
  <2>2. \A q \in Requests : Unanswered(q) => Unanswered(q)'
    BY <1>1, <2>1 DEF Unanswered
  <2>3. QED
    BY <1>2, <2>1, <2>2
<1>4. ASSUME NEW r \in Requests, Lose(r) PROVE OnceInv'
  <2>1. UNCHANGED <<stage, inbox, draft>> /\ wire' = [wire EXCEPT ![r] = "lost"]
    BY <1>4 DEF Lose, Set
  <2>2. \A q \in Requests : Unanswered(q) => Unanswered(q)'
    BY <1>1, <2>1 DEF Unanswered
  <2>3. QED
    BY <1>2, <2>1, <2>2
<1>5. ASSUME NEW r \in Requests, GiveUp(r) PROVE OnceInv'
  <2>1. /\ draft' = draft /\ wire' = wire /\ stage' = [stage EXCEPT ![r] = "failed"]
        /\ wire[r] # "none"
    BY <1>5 DEF GiveUp, Set
  <2>2. /\ inbox'.classifying = inbox.classifying /\ inbox'.asked = inbox.asked
        /\ inbox'.draft = inbox.draft
    BY <1>1, <1>5 DEF GiveUp, Inboxes
  <2>3. /\ \A q \in Requests : Unanswered(q) => Unanswered(q)'
        /\ \A q \in Requests : stage[q] = "posted" => stage'[q] = "posted" \/ Unanswered(q)'
    BY <1>1, <2>1 DEF Unanswered
  <2>4. QED
    BY <1>2, <2>1, <2>2, <2>3
<1>6. ASSUME NEW r \in Requests, ProcessOne(r) \/ DashboardSubmit(r) PROVE OnceInv'
  <2>1. /\ UNCHANGED <<inbox, draft>>
        /\ stage[r] \in {"classify", "unsent"}
        /\ \E l \in Stages : stage' = [stage EXCEPT ![r] = l]
        /\ wire' = wire \/ wire' = [wire EXCEPT ![r] = "request"]
    BY <1>6 DEF ProcessOne, DashboardSubmit, Unused, Post, Set, Stages
  <2>2. /\ \A q \in Requests : Unanswered(q) => Unanswered(q)'
        /\ \A q \in Requests : stage[q] = "posted" => stage'[q] = "posted"
    BY <1>1, <2>1 DEF Unanswered
  <2>3. QED
    BY <1>2, <2>1, <2>2
<1>7. ASSUME NEW r \in Requests, Answer(r) PROVE OnceInv'
  <2>1. /\ draft' = draft /\ wire' = [wire EXCEPT ![r] = "none"] /\ stage[r] = "posted"
        /\ \E l \in Stages : stage' = [stage EXCEPT ![r] = l]
    BY <1>7 DEF Answer, Set, Verdict, Stages
  <2>2. \A q \in Requests : Unanswered(q) => Unanswered(q)'
    BY <1>1, <2>1 DEF Unanswered
  <2>3. CASE draft[r] # NoDraft
    <3>1. /\ inbox'.draft = NoDraft /\ inbox'.classifying = inbox.classifying
          /\ inbox'.asked = inbox.asked
      BY <1>1, <1>7, <2>3 DEF Answer, Submitted, Inboxes
    <3>2. \A q \in Requests : ~(draft[q] # NoDraft /\ draft[q] = inbox'.draft)
      BY <3>1
    <3>3. CASE inbox'.draft = inbox.draft
      <4>1. \A p, q \in Requests :
              p # q /\ draft[p] # NoDraft /\ draft[p] = draft[q] => Unanswered(p)' \/ Unanswered(q)'
        BY <2>2 DEF OnceInv
      <4>2. QED
        BY <1>1, <2>1, <3>1, <3>2, <3>3, <4>1 DEF OnceInv
    <3>4. CASE inbox'.draft # inbox.draft
      BY <1>2, <2>1, <2>2, <3>1, <3>4
    <3>5. QED
      BY <3>3, <3>4
  <2>4. CASE draft[r] = NoDraft
    <3>1. inbox' = inbox
      BY <1>7, <2>4 DEF Answer
    <3>2. \A q \in Requests : draft[q] # NoDraft /\ stage[q] = "posted" => stage'[q] = "posted"
      BY <1>1, <2>1, <2>4
    <3>3. QED
      BY <1>2, <2>1, <2>2, <3>1, <3>2
  <2>5. QED
    BY <2>3, <2>4
<1>8. ASSUME NEW r \in Requests, PressSubmit(r) PROVE OnceInv'
  <2>1. /\ inbox.draft # NoDraft /\ inbox' = inbox /\ stage[r] = "unsent"
        /\ stage' = [stage EXCEPT ![r] = "posted"]
        /\ wire' = [wire EXCEPT ![r] = "request"]
        /\ draft' = [draft EXCEPT ![r] = inbox.draft]
        /\ \A q \in Forms : ~(draft[q] # NoDraft /\ stage[q] = "posted")
    BY <1>8 DEF PressSubmit, Unused, Post, Set, Submitting
  <2>2. ~inbox.classifying
    BY <2>1 DEF OnceInv
  <2>3. \A q \in Requests : Unanswered(q) => q # r /\ Unanswered(q)'
    BY <1>1, <2>1 DEF Unanswered
  \* The button is enabled: what has this classification already was given up.
  <2>4. \A q \in Requests : draft[q] = inbox.draft => Unanswered(q)
    BY <1>1, <2>1 DEF OnceInv, RulesInv
  <2>5. \A q \in Requests : draft'[q] <= inbox.asked
    BY <1>1, <2>1 DEF OnceInv
  <2>6. \A q \in Requests : draft'[q] # NoDraft /\ draft'[q] = inbox'.draft
                              => stage'[q] = "posted" \/ Unanswered(q)'
    BY <1>1, <2>1, <2>3, <2>4
  <2>7. \A p, q \in Requests :
          p # q /\ draft'[p] # NoDraft /\ draft'[p] = draft'[q] => Unanswered(p)' \/ Unanswered(q)'
    <3> SUFFICES ASSUME NEW p \in Requests, NEW q \in Requests, p # q,
                        draft'[p] # NoDraft, draft'[p] = draft'[q]
                 PROVE  Unanswered(p)' \/ Unanswered(q)'
      OBVIOUS
    <3>1. CASE p = r
      BY <1>1, <2>1, <2>3, <2>4, <3>1
    <3>2. CASE q = r
      BY <1>1, <2>1, <2>3, <2>4, <3>2
    <3>3. CASE p # r /\ q # r
      <4>1. draft[p] # NoDraft /\ draft[p] = draft[q]
        BY <1>1, <2>1, <3>3
      <4>2. Unanswered(p) \/ Unanswered(q)
        BY <4>1 DEF OnceInv
      <4>3. QED
        BY <2>3, <4>2
    <3>4. QED
      BY <3>1, <3>2, <3>3
  <2>8. QED
    BY <2>1, <2>2, <2>5, <2>6, <2>7 DEF OnceInv
<1>9. CASE Simulate \/ StartBatch
  <2>1. UNCHANGED <<ticket, wire, job, inbox, draft, faults>>
    BY <1>9 DEF Simulate, StartBatch
  <2>2. \A q \in Requests : draft[q] # NoDraft => stage'[q] = stage[q]
    BY <1>1, <1>9, Subjects DEF Simulate, StartBatch, Waiting, Selected, RulesInv
  <2>3. \A q \in Requests : draft[q] # NoDraft /\ Unanswered(q) => Unanswered(q)'
    BY <2>1, <2>2 DEF Unanswered
  <2>4. QED
    BY <1>2, <2>1, <2>2, <2>3
<1>10. CASE Report \/ UNCHANGED vars
  <2>1. UNCHANGED <<stage, wire, inbox, draft>>
    BY <1>10 DEF Report, vars
  <2>2. QED
    BY <2>1 DEF OnceInv, Unanswered
<1>11. CASE AskClassification
  <2>1. /\ inbox'.classifying /\ inbox'.asked = inbox.asked + 1 /\ inbox'.draft = NoDraft
        /\ UNCHANGED <<stage, ticket, wire, job, sim, draft, faults>>
    BY <1>1, <1>11 DEF AskClassification, Inboxes
  <2>2. \A q \in Requests : draft[q] < inbox.asked + 1 /\ draft[q] <= inbox.asked + 1
    BY <1>1 DEF OnceInv, Inboxes
  <2>3. QED
    BY <1>1, <2>1, <2>2 DEF OnceInv, Inboxes, Unanswered
<1>12. CASE GetClassification
  <2>1. /\ inbox.classifying /\ ~inbox'.classifying /\ inbox'.asked = inbox.asked
        /\ inbox'.draft \in {inbox.asked, NoDraft}
        /\ UNCHANGED <<stage, ticket, wire, job, sim, draft, faults>>
    BY <1>1, <1>12 DEF GetClassification, Inboxes
  <2>2. \A q \in Requests : draft[q] # inbox.asked
    BY <1>1, <2>1 DEF OnceInv, Inboxes
  <2>3. QED
    BY <1>1, <2>1, <2>2 DEF OnceInv, Inboxes, Unanswered
<1>13. QED
  BY <1>3, <1>4, <1>5, <1>6, <1>7, <1>8, <1>9, <1>10, <1>11, <1>12 DEF Next, Handle

\* Of two submissions of one classification, one was given up (handleSubmit), for
\* any users, texts and answers.
THEOREM OneSubmission == Spec => []SubmittedOnce
<1>1. Init => OnceInv
  <2>1. SUFFICES ASSUME Init PROVE OnceInv
    OBVIOUS
  <2>2. /\ inbox.draft = 0 /\ inbox.asked = 0 /\ inbox.classifying = FALSE
        /\ \A r \in Requests : draft[r] = 0
    BY <2>1 DEF Init, NoDraft
  <2>3. QED
    BY <2>1, <2>2, RulesInit DEF OnceInv, NoDraft
<1>2. RulesInv /\ [Next]_vars => RulesInv'
  BY RulesStep
<1>3. OnceInv => SubmittedOnce /\ RulesInv
  BY Subjects DEF OnceInv, SubmittedOnce, Requests
<1>4. QED
  BY <1>1, <1>2, <1>3, OnceStep, PTL DEF Spec
=============================================================================
