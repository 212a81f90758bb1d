----------------------------- MODULE QueuePanel -----------------------------
(***************************************************************************)
(* What a user sees of the queue: the panel of QueueHealth.jsx polls the   *)
(* API server (GetStats, ListJobs and ListDeadJobs of handler.go), sends   *)
(* what it got to the SLA check (main.py, sla.py), asks for                *)
(* recommendations (recommender.py) and retries dead jobs.  The queue is   *)
(* reduced to the place of each job, which is how TaskQueue appears here.  *)
(***************************************************************************)
EXTENDS Tickets, FiniteSets

CONSTANTS
  Jobs,
  Polls,       \* refreshes that may overlap
  Sla,         \* sla_hours of each job's payload, 0 if there is none
  MaxAge,      \* bound on the ticks a job is followed
  MaxRetries,  \* bound on the presses of "Retry"
  MaxFaults    \* bound on API calls that fail

ASSUME PanelAssumption ==
  /\ IsFiniteSet(Jobs)
  /\ Sla \in [Jobs -> Nat]
  /\ MaxAge \in Nat /\ MaxRetries \in Nat /\ MaxFaults \in Nat

VARIABLES
  place,    \* where each job is
  age,      \* ticks since its created_at, while it can be listed
  sound,    \* the jobs whose payload is an object with a usable sla_hours
  poll,     \* what each refresh has read so far
  panel,    \* the React state of the panel
  retries, faults,
  steady    \* jobs that have not been requeued, settled or added since the
            \* refresh has read the pending set

queue == <<place, age, sound>>
vars  == <<queue, poll, panel, retries, faults, steady>>

Queue == INSTANCE JobPlaces

At(p) == Queue!At(p)

\* What GetStats returns.
Counts ==
  [pending    |-> Cardinality(At("pending")),
   processing |-> Cardinality(At("processing")),
   dead       |-> Cardinality(At("dead"))]

-----------------------------------------------------------------------------
(***************************************************************************)
(* The queue.                                                              *)
(***************************************************************************)
Submit(j) ==
  /\ Queue!Submit(j)
  /\ sound' \in {sound, sound \cup {j}}
  /\ UNCHANGED <<age, poll, panel, retries, faults, steady>>

Leave(j) ==
  /\ Queue!Leave(j)
  /\ steady' = [p \in Polls |-> steady[p] \ {j}]
  /\ age' = [age EXCEPT ![j] = IF place'[j] = "ended" THEN 0 ELSE @]
  /\ UNCHANGED <<sound, poll, panel, retries, faults>>

Move(j) ==
  /\ Queue!Dequeue(j) \/ Queue!Settle(j)
  /\ UNCHANGED <<age, sound, poll, panel, retries, faults, steady>>

\* A tick is a quarter of an hour or so, and a refresh and what is between two
\* round trips take seconds.
Tick ==
  /\ At("moving") = {}
  /\ \A p \in Polls : poll[p].at = "idle"
  /\ age' = [j \in Jobs |-> IF place[j] \in {"absent", "ended"} \/ age[j] = MaxAge
                               THEN age[j] ELSE age[j] + 1]
  /\ UNCHANGED <<place, sound, poll, panel, retries, faults, steady>>

-----------------------------------------------------------------------------
(***************************************************************************)
(* A refresh: three requests at once, then the SLA check.  A call that the *)
(* API answers with an error is no failure for fetch: its body is taken,   *)
(* and is no list.  The counts, which are shown as they are, are left out. *)
(***************************************************************************)
NoPoll == [at |-> "idle", todo |-> {}, dead |-> {}, jobs |-> {}]

Update(p, q) == poll' = [poll EXCEPT ![p] = q]

Start(p) ==
  /\ ~panel.blank
  /\ poll[p].at = "idle"
  /\ Update(p, [NoPoll EXCEPT !.at = "reading", !.todo = {"pending", "dead"}])
  /\ steady' = [steady EXCEPT ![p] = {}]
  /\ UNCHANGED <<queue, panel, retries, faults>>

Reads(p, part) == poll[p].at = "reading" /\ part \in poll[p].todo

Fault == faults < MaxFaults /\ faults' = faults + 1

Done(p, part) == poll[p].todo \ {part}

ReadDead(p) ==
  /\ Reads(p, "dead")
  /\ \/ Update(p, [poll[p] EXCEPT !.todo = Done(p, "dead"), !.dead = At("dead")]) /\ UNCHANGED faults
     \/ Update(p, [poll[p] EXCEPT !.todo = Done(p, "dead")]) /\ Fault
  /\ UNCHANGED <<queue, panel, retries, steady>>

\* Mutant of FirstPart: the processing hash is read first.
FirstPartProcessing == "processing"

\* ListJobs reads the pending set, then the processing hash; an error in the
\* second read leaves out its part and is not told.
FirstPart == "pending"

SecondPart == IF FirstPart = "pending" THEN "processing" ELSE "pending"

Alive == At("pending") \cup At("processing")

ListJobs(p) ==
  /\ \/ /\ Reads(p, "pending")
        /\ Update(p, [poll[p] EXCEPT !.todo = Done(p, "pending") \cup {"processing"},
                                     !.jobs = At(FirstPart)])
        /\ steady' = [steady EXCEPT ![p] = Alive]
        /\ UNCHANGED faults
     \/ /\ Reads(p, "processing")
        /\ Update(p, [poll[p] EXCEPT !.todo = Done(p, "processing"),
                                     !.jobs = @ \cup At(SecondPart)])
        /\ steady' = [steady EXCEPT ![p] = @ \ At("moving")]
        /\ UNCHANGED faults
     \/ /\ Reads(p, "pending") /\ Fault
        /\ Update(p, [poll[p] EXCEPT !.todo = Done(p, "pending")])
        /\ UNCHANGED steady
     \/ /\ Reads(p, "processing") /\ Fault
        /\ Update(p, [poll[p] EXCEPT !.todo = Done(p, "processing")])
        /\ steady' = [steady EXCEPT ![p] = @ \cap poll[p].jobs]
  /\ UNCHANGED <<queue, panel, retries>>

\* Mutant of Shown: as with the risks, an empty answer changes nothing.
ShownUnlessEmpty(p) == IF poll[p].dead = {} THEN panel.dead ELSE poll[p].dead

Shown(p) == poll[p].dead

\* Promise.all has all the answers.
Show(p) ==
  /\ poll[p].at = "reading" /\ poll[p].todo = {}
  /\ panel' = [panel EXCEPT !.dead = Shown(p)]
  /\ Update(p, IF poll[p].jobs = {} THEN NoPoll
               ELSE [NoPoll EXCEPT !.at = "checking", !.jobs = poll[p].jobs])
  /\ UNCHANGED <<queue, retries, faults, steady>>

\* A call that fails altogether ends the refresh.
Abort(p) ==
  /\ poll[p].at # "idle"
  /\ Fault
  /\ Update(p, NoPoll)
  /\ steady' = [steady EXCEPT ![p] = {}]
  /\ UNCHANGED <<queue, panel, retries>>

RiskOf(j) == Risk(Sla[j], age[j])

\* Mutant of AtRisk: jobs at a medium risk are in it.
AtRiskMild(jobs) ==
  {[id |-> j, risk |-> RiskOf(j)] : j \in {i \in jobs : RiskOf(i) # "low"}}

\* get_at_risk_jobs, without the sorting.
AtRisk(jobs) ==
  {[id |-> j, risk |-> RiskOf(j)] : j \in {i \in jobs : RiskOf(i) \in {"high", "breached"}}}

\* One payload that is not an object makes the check fail for the whole list.  A
\* row of the table takes r.job_id, which no row has: React unmounts the page, and
\* with it every refresh.
CheckSla(p) ==
  /\ poll[p].at = "checking"
  /\ LET rows == IF poll[p].jobs \subseteq sound THEN AtRisk(poll[p].jobs) ELSE panel.risks IN
       /\ panel' = [panel EXCEPT !.risks = rows, !.blank = rows # {}]
       /\ poll' = IF rows # {} THEN [q \in Polls |-> NoPoll] ELSE [poll EXCEPT ![p] = NoPoll]
       /\ steady' = IF rows # {} THEN [q \in Polls |-> {}] ELSE [steady EXCEPT ![p] = {}]
  /\ UNCHANGED <<queue, retries, faults>>

-----------------------------------------------------------------------------
(***************************************************************************)
(* The buttons.                                                            *)
(***************************************************************************)
\* RetryDead for a job of the list that is shown; the answer is not looked at.
Retry(j) ==
  /\ ~panel.blank /\ j \in panel.dead
  /\ retries < MaxRetries
  /\ retries' = retries + 1
  /\ \/ Queue!RetryDead(j)
     \/ place[j] # "dead" /\ UNCHANGED place
  /\ UNCHANGED <<age, sound, poll, panel, faults, steady>>

\* What "Analyse Queue" returns without the LLM, for what the queue holds.
Analysis == Recommendations(Counts)

-----------------------------------------------------------------------------
Init ==
  /\ Queue!Init
  /\ age     = [j \in Jobs |-> 0]
  /\ sound   = {}
  /\ poll    = [p \in Polls |-> NoPoll]
  /\ panel   = [dead |-> {}, risks |-> {}, blank |-> FALSE]
  /\ retries = 0
  /\ faults  = 0
  /\ steady  = [p \in Polls |-> {}]

Refresh(p) ==
  Start(p) \/ ReadDead(p) \/ ListJobs(p) \/ Show(p) \/ CheckSla(p)

Next ==
  \/ \E j \in Jobs : Submit(j) \/ Leave(j) \/ Move(j) \/ Retry(j)
  \/ \E p \in Polls : Refresh(p) \/ Abort(p)
  \/ Tick

Spec == Init /\ [][Next]_vars

\* The timer of the panel goes off every five seconds, and its calls return.
FairSpec == Spec /\ \A p \in Polls : WF_vars(Refresh(p))

-----------------------------------------------------------------------------
(***************************************************************************)
(* Properties.                                                             *)
(***************************************************************************)
Rows == [id : Jobs, risk : {"high", "breached"}]

\* Type invariant.
TypeOK ==
  /\ place \in [Jobs -> Queue!Places]
  /\ age \in [Jobs -> 0..MaxAge]
  /\ sound \subseteq Jobs
  /\ poll \in [Polls -> [at : {"idle", "reading", "checking"},
                        todo : SUBSET {"pending", "processing", "dead"},
                        dead : SUBSET Jobs, jobs : SUBSET Jobs]]
  /\ panel \in [dead : SUBSET Jobs, risks : SUBSET Rows, blank : BOOLEAN]
  /\ Analysis.health_score \in 0..100
  /\ retries \in 0..MaxRetries /\ faults \in 0..MaxFaults
  /\ steady \in [Polls -> SUBSET Jobs]

\* A job is not overlooked because it moves while it is listed (ListJobs): what
\* waits or is processed from the first read to the second, without being
\* requeued, is in the list if both reads succeed.
ListsWaitingJobs ==
  \A p \in Polls :
    poll[p].at # "idle" /\ poll[p].todo \cap {"pending", "processing"} = {}
      => steady[p] \subseteq poll[p].jobs

Urgent(j) == 4 * Remaining(Sla[j], age[j]) <= SlaTicks(Sla[j])

\* A refresh that gets through flags every such job with a quarter of its time
\* left or less, and no other (get_at_risk_jobs, check_sla_status).
UrgentJobsFlagged ==
  [][\A p \in Polls :
       CheckSla(p) /\ poll[p].jobs \subseteq sound =>
         LET flagged == {r.id : r \in panel'.risks} IN
           /\ \A j \in steady[p] : Urgent(j) => j \in flagged
           /\ \A j \in flagged : Urgent(j)]_vars

\* A refresh that is late may show what is older than what it replaces, but once
\* the queue is at rest the panel catches up with it (refresh), if it is there.
PanelCatchesUp ==
  <>[][FALSE]_<<place, faults>> =>
    <>[](panel.blank \/ panel.dead = At("dead"))

\* The score agrees with the advice and with the queue: it is full exactly when
\* there is nothing to do, and as long as the queue gets better in no respect the
\* score does not rise (_rule_based_recommendations).
ScoreIsFair ==
  [][/\ Analysis.health_score = 100 <=> Analysis.recommendations = {Nothing}
     /\ (\A k \in DOMAIN Counts : Counts'[k] >= Counts[k])
          => Analysis'.health_score <= Analysis.health_score]_vars

\* "SLA risk table shows tickets approaching their deadlines" (README.md:156).
RiskTableShown == panel.risks # {} => ~panel.blank
=============================================================================
