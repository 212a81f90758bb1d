------------------------- MODULE QueuePanelProofs -------------------------
(***************************************************************************)
(* Theorems about QueuePanel for every finite set of jobs, any number of   *)
(* refreshes that overlap, and every choice of deadlines and thresholds.   *)
(***************************************************************************)
EXTENDS QueuePanel, FiniteSetTheorems, TLAPS

-----------------------------------------------------------------------------
(***************************************************************************)
(* The rules of Tickets.                                                   *)
(***************************************************************************)
Stats == [pending : Nat, processing : Nat, dead : Nat]

\* What the three penalties can be.
LEMMA Penalties ==
  ASSUME NEW stats \in Stats
  PROVE  /\ Capped(5 * stats.dead, 30) \in 0..30
         /\ stats.dead > 0 <=> Capped(5 * stats.dead, 30) > 0
         /\ BacklogPenalty(stats.pending) = IF stats.pending > ManyPending THEN 20
                                            ELSE IF stats.pending > SomePending THEN 10 ELSE 0
BY TicketsAssumption DEF Stats, Capped, BacklogPenalty

\* The score is between 35 and 100 by itself: cutting it at 0 changes nothing.
LEMMA ScoreInRange ==
  ASSUME NEW stats \in Stats
  PROVE  HealthScore(stats) \in 35..100
<1>1. Capped(5 * stats.dead, 30) \in 0..30
  BY Penalties
<1>2. BacklogPenalty(stats.pending) \in {0, 10, 20}
  BY Penalties
<1>3. QED
  BY <1>1, <1>2 DEF HealthScore

\* A full score means that there is nothing to advise.
LEMMA FullScore ==
  ASSUME NEW stats \in Stats
  PROVE  HealthScore(stats) = 100 <=> Alerts(stats) = {}
<1>1. HealthScore(stats) = 100 <=> /\ stats.dead = 0
                                   /\ ~(stats.pending > SomePending)
                                   /\ ~(stats.processing > ManyProcessing)
  <2>1. Capped(5 * stats.dead, 30) \in 0..30 /\ stats.dead \in Nat
    BY Penalties DEF Stats
  <2>2. BacklogPenalty(stats.pending) \in {0, 10, 20}
    BY Penalties
  <2>3. BacklogPenalty(stats.pending) = 0 <=> ~(stats.pending > SomePending)
    BY Penalties, TicketsAssumption DEF Stats
  <2>4. HealthScore(stats) = 100 <=> /\ Capped(5 * stats.dead, 30) = 0
                                     /\ BacklogPenalty(stats.pending) = 0
                                     /\ ~(stats.processing > ManyProcessing)
    BY <2>1, <2>2 DEF HealthScore
  <2>5. QED
    BY <2>1, <2>3, <2>4, Penalties
<1>2. Alerts(stats) = {} <=> /\ ~(stats.dead > 0)
                             /\ ~(stats.pending > ManyPending)
                             /\ ~(stats.pending > SomePending /\ ~(stats.pending > ManyPending))
                             /\ ~(stats.processing > ManyProcessing)
  BY DEF Alerts, AlertIf
<1>3. QED
  BY <1>1, <1>2, TicketsAssumption DEF Stats

\* Of two queues, the one that is worse in no respect has no lower score.
LEMMA ScoreFalls ==
  ASSUME NEW old \in Stats, NEW new \in Stats,
         new.pending >= old.pending, new.processing >= old.processing, new.dead >= old.dead
  PROVE  HealthScore(new) <= HealthScore(old)
<1>1. /\ Capped(5 * old.dead, 30) \in 0..30 /\ Capped(5 * new.dead, 30) \in 0..30
      /\ Capped(5 * old.dead, 30) <= Capped(5 * new.dead, 30)
  BY DEF Capped, Stats
<1>2. /\ BacklogPenalty(old.pending) \in {0, 10, 20} /\ BacklogPenalty(new.pending) \in {0, 10, 20}
      /\ BacklogPenalty(old.pending) <= BacklogPenalty(new.pending)
  BY Penalties, TicketsAssumption DEF Stats
<1>3. new.processing > ManyProcessing \/ ~(old.processing > ManyProcessing)
  BY TicketsAssumption DEF Stats
<1>4. QED
  BY <1>1, <1>2, <1>3 DEF HealthScore

\* The rows of the SLA check are the jobs with a quarter of their time left.
LEMMA UrgentRisk ==
  ASSUME NEW j \in Jobs, age[j] \in Nat
  PROVE  RiskOf(j) \in {"high", "breached"} <=> Urgent(j)
<1>1. SlaTicks(Sla[j]) \in Nat
  BY PanelAssumption, TicketsAssumption DEF SlaTicks, DefaultSla, SlaHours
<1>2. QED
  BY <1>1 DEF RiskOf, Risk, Urgent, Remaining

-----------------------------------------------------------------------------
(***************************************************************************)
(* The type invariant.                                                     *)
(***************************************************************************)

\* What the queue holds is countable, whatever it holds.
LEMMA CountsAreStats == Counts \in Stats /\ Counts' \in Stats
<1>1. \A f, q : Cardinality({j \in Jobs : f[j] = q}) \in Nat
  <2>1. SUFFICES ASSUME NEW f, NEW q PROVE Cardinality({j \in Jobs : f[j] = q}) \in Nat
    OBVIOUS
  <2>2. {j \in Jobs : f[j] = q} \subseteq Jobs
    OBVIOUS
  <2>3. QED
    BY <2>2, PanelAssumption, FS_Subset, FS_CardinalityType
<1>2. QED
  BY <1>1 DEF Counts, Stats, At, Queue!At

PollStates ==
  [at : {"idle", "reading", "checking"}, todo : SUBSET {"pending", "processing", "dead"},
   dead : SUBSET Jobs, jobs : SUBSET Jobs]

\* What a refresh has read is amended in one field or two.
LEMMA PollAmended ==
  ASSUME NEW w \in PollStates, NEW t \in SUBSET {"pending", "processing", "dead"},
         NEW d \in SUBSET Jobs
  PROVE  /\ [w EXCEPT !.todo = t] \in PollStates
         /\ [w EXCEPT !.todo = t, !.dead = d] \in PollStates
         /\ [w EXCEPT !.todo = t, !.jobs = d] \in PollStates
BY DEF PollStates

\* The queue moves its jobs between the places.
LEMMA PlacesStep ==
  ASSUME place \in [Jobs -> Queue!Places], NEW j \in Jobs,
         \/ Queue!Submit(j) \/ Queue!Leave(j) \/ Queue!Dequeue(j)
         \/ Queue!Settle(j) \/ Queue!RetryDead(j)
  PROVE  /\ place' \in [Jobs -> Queue!Places]
         /\ \A i \in Jobs \ {j} : place'[i] = place[i]
BY DEF Queue!Submit, Queue!Leave, Queue!Dequeue, Queue!Settle, Queue!RetryDead, Queue!Go,
       Queue!Places

\* Every step keeps the types.
LEMMA PanelTypesStep == TypeOK /\ [Next]_vars => TypeOK'
<1> SUFFICES ASSUME TypeOK, [Next]_vars PROVE TypeOK'
  OBVIOUS
<1> USE DEF PollStates
<1>1. /\ place \in [Jobs -> Queue!Places] /\ age \in [Jobs -> 0..MaxAge] /\ sound \subseteq Jobs
      /\ poll \in [Polls -> PollStates]
      /\ panel \in [dead : SUBSET Jobs, risks : SUBSET Rows, blank : BOOLEAN]
      /\ retries \in 0..MaxRetries /\ faults \in 0..MaxFaults
      /\ steady \in [Polls -> SUBSET Jobs]
      /\ MaxAge \in Nat /\ MaxRetries \in Nat /\ MaxFaults \in Nat
  BY PanelAssumption DEF TypeOK
<1>2. (Analysis.health_score \in 0..100)'
  <2>1. HealthScore(Counts') \in 35..100
    BY CountsAreStats, ScoreInRange
  <2>2. QED
    BY <2>1 DEF Analysis, Recommendations
<1>3. \A q : At(q) \subseteq Jobs
  BY DEF At, Queue!At
<1>4. NoPoll \in PollStates
  BY DEF NoPoll
<1>5. ASSUME NEW j \in Jobs, Submit(j) PROVE TypeOK'
  BY <1>1, <1>2, <1>5, PlacesStep DEF Submit, TypeOK
<1>6. ASSUME NEW j \in Jobs, Leave(j) PROVE TypeOK'
  <2>1. place' \in [Jobs -> Queue!Places]
    BY <1>1, <1>6, PlacesStep DEF Leave
  <2>2. age' \in [Jobs -> 0..MaxAge]
    BY <1>1, <1>6 DEF Leave
  <2>3. steady' \in [Polls -> SUBSET Jobs]
    BY <1>1, <1>6 DEF Leave
  <2>4. QED
    BY <1>1, <1>2, <1>6, <2>1, <2>2, <2>3 DEF Leave, TypeOK
<1>7. ASSUME NEW j \in Jobs, Move(j) PROVE TypeOK'
  BY <1>1, <1>2, <1>7, PlacesStep DEF Move, TypeOK
<1>8. ASSUME NEW j \in Jobs, Retry(j) PROVE TypeOK'
  BY <1>1, <1>2, <1>8, PlacesStep DEF Retry, TypeOK
<1>9. ASSUME NEW p \in Polls, Start(p) PROVE TypeOK'
  BY <1>1, <1>2, <1>4, <1>9 DEF Start, Update, NoPoll, queue, TypeOK
<1>10. ASSUME NEW p \in Polls, ReadDead(p) PROVE TypeOK'
  <2>1. Done(p, "dead") \in SUBSET {"pending", "processing", "dead"} /\ poll[p] \in PollStates
    BY <1>1, <1>10 DEF Done
  <2>2. At("dead") \in SUBSET Jobs
    BY <1>3
  <2>3. \E w \in PollStates : Update(p, w)
    BY <1>10, <2>1, <2>2, PollAmended DEF ReadDead
  <2>4. poll' \in [Polls -> PollStates]
    BY <1>1, <2>3 DEF Update
  <2>5. faults' \in 0..MaxFaults
    BY <1>1, <1>10 DEF ReadDead, Fault
  <2>6. QED
    BY <1>1, <1>2, <1>10, <2>4, <2>5 DEF ReadDead, queue, TypeOK
<1>11. ASSUME NEW p \in Polls, ListJobs(p) PROVE TypeOK'
  <2>1. poll' \in [Polls -> PollStates]
    <3>1. /\ Done(p, "pending") \in SUBSET {"pending", "processing", "dead"}
          /\ Done(p, "pending") \cup {"processing"} \in SUBSET {"pending", "processing", "dead"}
          /\ Done(p, "processing") \in SUBSET {"pending", "processing", "dead"}
          /\ poll[p] \in PollStates
      BY <1>1, <1>11 DEF Done
    <3>2. At(FirstPart) \in SUBSET Jobs /\ poll[p].jobs \cup At(SecondPart) \in SUBSET Jobs
      BY <1>3, <3>1 DEF FirstPart, SecondPart
    <3>3. \E w \in PollStates : Update(p, w)
      BY <1>11, <3>1, <3>2, PollAmended DEF ListJobs
    <3>4. QED
      BY <1>1, <3>3 DEF Update
  <2>2. steady' \in [Polls -> SUBSET Jobs]
    BY <1>1, <1>3, <1>11 DEF ListJobs, Alive
  <2>3. faults' \in 0..MaxFaults
    BY <1>1, <1>11 DEF ListJobs, Fault
  <2>4. QED
    BY <1>1, <1>2, <1>11, <2>1, <2>2, <2>3 DEF ListJobs, queue, TypeOK
<1>12. ASSUME NEW p \in Polls, Show(p) PROVE TypeOK'
  <2>1. poll' \in [Polls -> PollStates]
    BY <1>1, <1>4, <1>12 DEF Show, Update, NoPoll
  <2>2. panel' \in [dead : SUBSET Jobs, risks : SUBSET Rows, blank : BOOLEAN]
    BY <1>1, <1>12 DEF Show, Shown
  <2>3. QED
    BY <1>1, <1>2, <1>12, <2>1, <2>2 DEF Show, queue, TypeOK
<1>13. ASSUME NEW p \in Polls, CheckSla(p) PROVE TypeOK'
  <2> DEFINE rows == IF poll[p].jobs \subseteq sound THEN AtRisk(poll[p].jobs) ELSE panel.risks
  <2>1. rows \subseteq Rows
    BY <1>1 DEF AtRisk, Rows
  <2>2. /\ panel' = [panel EXCEPT !.risks = rows, !.blank = rows # {}]
        /\ poll' = IF rows # {} THEN [q \in Polls |-> NoPoll] ELSE [poll EXCEPT ![p] = NoPoll]
        /\ steady' = IF rows # {} THEN [q \in Polls |-> {}] ELSE [steady EXCEPT ![p] = {}]
        /\ UNCHANGED <<queue, retries, faults>>
    BY <1>13 DEF CheckSla
  <2> HIDE DEF rows
  <2>3. panel' \in [dead : SUBSET Jobs, risks : SUBSET Rows, blank : BOOLEAN]
    BY <1>1, <2>1, <2>2
  <2>4. poll' \in [Polls -> PollStates] /\ steady' \in [Polls -> SUBSET Jobs]
    BY <1>1, <1>4, <2>2
  <2>5. QED
    BY <1>1, <1>2, <2>2, <2>3, <2>4 DEF queue, TypeOK
<1>14. ASSUME NEW p \in Polls, Abort(p) PROVE TypeOK'
  BY <1>1, <1>2, <1>4, <1>14 DEF Abort, Update, Fault, queue, TypeOK
<1>15. CASE Tick
  <2>1. age' \in [Jobs -> 0..MaxAge]
    <3>1. SUFFICES ASSUME NEW j \in Jobs
                   PROVE  age[j] \in 0..MaxAge /\ (age[j] # MaxAge => age[j] + 1 \in 0..MaxAge)
      BY <1>1, <1>15 DEF Tick
    <3>2. age[j] \in 0..MaxAge
      BY <1>1
    <3>3. QED
      BY <1>1, <3>2
  <2>2. QED
    BY <1>1, <1>2, <1>15, <2>1 DEF Tick, TypeOK
<1>16. CASE UNCHANGED vars
  BY <1>1, <1>2, <1>16 DEF vars, queue, TypeOK
<1>17. QED
  BY <1>5, <1>6, <1>7, <1>8, <1>9, <1>10, <1>11, <1>12, <1>13, <1>14, <1>15, <1>16
  DEF Next, Refresh

\* Type correctness, for any jobs, refreshes, deadlines and thresholds; the score
\* that is shown is between 0 and 100.
THEOREM PanelTypeCorrect == Spec => []TypeOK
<1>1. Init => TypeOK
  <2>1. SUFFICES ASSUME Init PROVE TypeOK
    OBVIOUS
  <2>2. HealthScore(Counts) \in 35..100
    BY CountsAreStats, ScoreInRange
  <2>3. Analysis.health_score \in 0..100
    BY <2>2 DEF Analysis, Recommendations
  <2>4. poll \in [Polls -> PollStates] /\ place \in [Jobs -> Queue!Places]
    BY <2>1 DEF Init, NoPoll, PollStates, Queue!Init, Queue!Places
  <2>5. QED
    BY <2>1, <2>3, <2>4, PanelAssumption DEF Init, TypeOK, PollStates
<1>2. QED
  BY <1>1, PanelTypesStep, PTL DEF Spec

\* The score agrees with the advice, and falls with the queue.
THEOREM ScoreFair == Spec => ScoreIsFair
<1>1. Analysis.health_score = 100 <=> Analysis.recommendations = {Nothing}
  <2>1. Alerts(Counts) = {} <=> Advice(Counts) = {Nothing}
    <3>1. Nothing \notin Alerts(Counts)
      BY DEF Nothing, Alerts, AlertIf
    <3>2. QED
      BY <3>1 DEF Advice
  <2>2. HealthScore(Counts) = 100 <=> Alerts(Counts) = {}
    BY CountsAreStats, FullScore
  <2>3. QED
    BY <2>1, <2>2 DEF Analysis, Recommendations
<1>2. (\A k \in DOMAIN Counts : Counts'[k] >= Counts[k]) => Analysis'.health_score <= Analysis.health_score
  <2>1. SUFFICES ASSUME \A k \in DOMAIN Counts : Counts'[k] >= Counts[k]
                 PROVE  HealthScore(Counts') <= HealthScore(Counts)
    BY DEF Analysis, Recommendations
  <2>2. Counts \in Stats /\ Counts' \in Stats
    BY CountsAreStats
  <2>3. /\ Counts'["pending"] >= Counts["pending"] /\ Counts'["processing"] >= Counts["processing"]
        /\ Counts'["dead"] >= Counts["dead"]
    BY <2>1, <2>2 DEF Stats
  <2>4. QED
    BY <2>2, <2>3, ScoreFalls
<1>3. QED
  BY <1>1, <1>2, PTL DEF ScoreIsFair

-----------------------------------------------------------------------------
(***************************************************************************)
(* What is listed.  Between the two reads of ListJobs every steady job is  *)
(* in the list already or in processing, where the second read finds it:   *)
(* a job that is taken out of processing is steady no longer.              *)
(***************************************************************************)
ListInv(p) ==
  /\ poll[p].at = "checking" => poll[p].todo = {}
  /\ ~({"pending", "processing"} \subseteq poll[p].todo)
  /\ "pending" \in poll[p].todo => steady[p] = {}
  /\ "processing" \in poll[p].todo => steady[p] \subseteq poll[p].jobs \cup At("processing")
  /\ poll[p].at # "idle" /\ poll[p].todo \cap {"pending", "processing"} = {}
       => steady[p] \subseteq poll[p].jobs

WaitingInv == TypeOK /\ \A p \in Polls : ListInv(p)

\* Refreshes do not touch each other's state.
LEMMA OtherPolls ==
  ASSUME NEW p \in Polls, NEW q \in Polls \ {p}, TypeOK, ListInv(q),
         Start(p) \/ ReadDead(p) \/ ListJobs(p) \/ Show(p) \/ Abort(p)
  PROVE  ListInv(q)'
<1>1. poll'[q] = poll[q] /\ steady'[q] = steady[q]
  BY DEF Start, ReadDead, ListJobs, Show, Abort, Update, TypeOK
<1>2. place' = place
  BY DEF Start, ReadDead, ListJobs, Show, Abort, queue
<1>3. QED
  BY <1>1, <1>2 DEF ListInv, At, Queue!At

\* The two reads of ListJobs.
LEMMA ListJobsStep ==
  ASSUME WaitingInv, NEW p \in Polls, ListJobs(p)
  PROVE  ListInv(p)'
<1>1. /\ poll \in [Polls -> PollStates] /\ steady \in [Polls -> SUBSET Jobs]
      /\ poll[p].at = "reading"
      /\ place' = place
  BY DEF WaitingInv, TypeOK, PollStates, ListJobs, Reads, queue
<1>2. \A q : At(q)' = At(q)
  BY <1>1 DEF At, Queue!At
<1>3. CASE /\ Reads(p, "pending")
           /\ Update(p, [poll[p] EXCEPT !.todo = Done(p, "pending") \cup {"processing"},
                                        !.jobs = At(FirstPart)])
           /\ steady' = [steady EXCEPT ![p] = Alive]
  <2>1. /\ poll'[p].at = "reading" /\ poll'[p].jobs = At("pending")
        /\ poll'[p].todo = Done(p, "pending") \cup {"processing"}
        /\ steady'[p] = At("pending") \cup At("processing")
    BY <1>1, <1>3 DEF Update, Alive, FirstPart, PollStates
  <2>2. QED
    BY <1>2, <2>1 DEF ListInv, Done
<1>4. CASE /\ Reads(p, "processing")
           /\ Update(p, [poll[p] EXCEPT !.todo = Done(p, "processing"),
                                        !.jobs = @ \cup At(SecondPart)])
           /\ steady' = [steady EXCEPT ![p] = @ \ At("moving")]
  <2>1. /\ poll'[p].at = "reading" /\ poll'[p].jobs = poll[p].jobs \cup At("processing")
        /\ poll'[p].todo = Done(p, "processing")
        /\ steady'[p] = steady[p] \ At("moving")
    BY <1>1, <1>4 DEF Update, FirstPart, SecondPart, PollStates
  <2>2. steady[p] \subseteq poll[p].jobs \cup At("processing") /\ "pending" \notin poll[p].todo
    BY <1>4 DEF WaitingInv, ListInv, Reads
  <2>3. QED
    BY <2>1, <2>2 DEF ListInv, Done
<1>5. CASE /\ Reads(p, "pending")
           /\ Update(p, [poll[p] EXCEPT !.todo = Done(p, "pending")])
           /\ UNCHANGED steady
  <2>1. /\ poll'[p].at = "reading" /\ poll'[p].jobs = poll[p].jobs
        /\ poll'[p].todo = Done(p, "pending")
        /\ steady'[p] = {}
    BY <1>1, <1>5 DEF Update, PollStates, WaitingInv, ListInv, Reads
  <2>2. QED
    BY <2>1 DEF ListInv, Done
<1>6. CASE /\ Reads(p, "processing")
           /\ Update(p, [poll[p] EXCEPT !.todo = Done(p, "processing")])
           /\ steady' = [steady EXCEPT ![p] = @ \cap poll[p].jobs]
  <2>1. /\ poll'[p].at = "reading" /\ poll'[p].jobs = poll[p].jobs
        /\ poll'[p].todo = Done(p, "processing")
        /\ steady'[p] = steady[p] \cap poll[p].jobs
    BY <1>1, <1>6 DEF Update, PollStates
  <2>2. "pending" \notin poll[p].todo
    BY <1>6 DEF WaitingInv, ListInv, Reads
  <2>3. QED
    BY <2>1, <2>2 DEF ListInv, Done
<1>7. QED
  BY <1>3, <1>4, <1>5, <1>6 DEF ListJobs

LEMMA WaitingStep == WaitingInv /\ [Next]_vars /\ TypeOK' => WaitingInv'
<1> SUFFICES ASSUME WaitingInv, [Next]_vars, TypeOK' PROVE WaitingInv'
  OBVIOUS
<1>1. /\ TypeOK /\ \A p \in Polls : ListInv(p)
      /\ poll \in [Polls -> PollStates] /\ steady \in [Polls -> SUBSET Jobs]
      /\ place \in [Jobs -> Queue!Places]
  BY DEF WaitingInv, TypeOK, PollStates
<1>2. /\ NoPoll.at = "idle" /\ NoPoll.todo = {} /\ NoPoll.dead = {} /\ NoPoll.jobs = {}
  BY DEF NoPoll
<1>3. SUFFICES ASSUME NEW q \in Polls PROVE ListInv(q)'
  BY DEF WaitingInv
<1>4. ASSUME poll' = poll, steady'[q] \subseteq steady[q],
             steady'[q] \cap At("processing") \subseteq At("processing")'
      PROVE  ListInv(q)'
  BY <1>1, <1>4 DEF ListInv
<1>5. ASSUME NEW j \in Jobs, Submit(j) \/ Move(j) \/ Retry(j) PROVE ListInv(q)'
  <2>1. poll' = poll /\ steady' = steady
    BY <1>5 DEF Submit, Move, Retry
  <2>2. At("processing") \subseteq At("processing")'
    BY <1>1, <1>5 DEF Submit, Move, Retry, At, Queue!At, Queue!Submit, Queue!Dequeue, Queue!Settle,
                      Queue!RetryDead, Queue!Go
  <2>3. QED
    BY <1>4, <2>1, <2>2
<1>6. ASSUME NEW j \in Jobs, Leave(j) PROVE ListInv(q)'
  <2>1. poll' = poll /\ steady'[q] = steady[q] \ {j}
    BY <1>6 DEF Leave
  <2>2. At("processing") \ {j} \subseteq At("processing")'
    BY <1>1, <1>6 DEF Leave, At, Queue!At, Queue!Leave, Queue!Go
  <2>3. QED
    BY <1>4, <2>1, <2>2
<1>7. ASSUME Tick \/ UNCHANGED vars PROVE ListInv(q)'
  <2>1. poll' = poll /\ steady' = steady /\ place' = place
    BY <1>7 DEF Tick, vars, queue
  <2>2. QED
    BY <1>4, <2>1 DEF At, Queue!At
<1>8. ASSUME NEW p \in Polls, p # q,
             Start(p) \/ ReadDead(p) \/ ListJobs(p) \/ Show(p) \/ Abort(p)
      PROVE  ListInv(q)'
  BY <1>1, <1>8, OtherPolls
<1>9. ASSUME Start(q) PROVE ListInv(q)'
  <2>1. poll'[q].todo = {"pending", "dead"} /\ poll'[q].at = "reading" /\ steady'[q] = {}
    BY <1>1, <1>9 DEF Start, Update, NoPoll
  <2>2. QED
    BY <2>1 DEF ListInv
<1>10. ASSUME ReadDead(q) PROVE ListInv(q)'
  <2>1. /\ poll'[q].todo = poll[q].todo \ {"dead"} /\ poll'[q].at = poll[q].at
        /\ poll'[q].jobs = poll[q].jobs /\ poll[q].at = "reading"
        /\ steady' = steady /\ place' = place
    <3>1. /\ poll[q] \in PollStates /\ poll[q].at = "reading"
          /\ steady' = steady /\ place' = place
      BY <1>1, <1>10 DEF ReadDead, Reads, queue
    <3>2. \/ poll'[q] = [poll[q] EXCEPT !.todo = Done(q, "dead"), !.dead = At("dead")]
          \/ poll'[q] = [poll[q] EXCEPT !.todo = Done(q, "dead")]
      BY <1>1, <1>10 DEF ReadDead, Update
    <3>3. /\ poll'[q].todo = Done(q, "dead") /\ poll'[q].at = poll[q].at
          /\ poll'[q].jobs = poll[q].jobs
      BY <3>1, <3>2 DEF PollStates
    <3>4. QED
      BY <3>1, <3>3 DEF Done
  <2>2. QED
    BY <1>1, <2>1 DEF ListInv, At, Queue!At
<1>11. ASSUME ListJobs(q) PROVE ListInv(q)'
  BY <1>11, ListJobsStep
<1>12. ASSUME Show(q) PROVE ListInv(q)'
  <2>1. poll[q].at = "reading" /\ poll[q].todo = {} /\ steady' = steady
    BY <1>12 DEF Show
  <2>2. poll'[q].todo = {} /\ (poll'[q].at # "idle" => poll'[q].jobs = poll[q].jobs)
    BY <1>1, <1>2, <1>12 DEF Show, Update, NoPoll
  <2>3. QED
    BY <1>1, <2>1, <2>2 DEF ListInv
<1>13. ASSUME NEW p \in Polls, CheckSla(p) PROVE ListInv(q)'
  <2> DEFINE rows == IF poll[p].jobs \subseteq sound THEN AtRisk(poll[p].jobs) ELSE panel.risks
  <2>1. /\ poll' = IF rows # {} THEN [r \in Polls |-> NoPoll] ELSE [poll EXCEPT ![p] = NoPoll]
        /\ steady' = IF rows # {} THEN [r \in Polls |-> {}] ELSE [steady EXCEPT ![p] = {}]
        /\ place' = place
    BY <1>13 DEF CheckSla, queue
  <2> HIDE DEF rows
  <2>2. (poll'[q] = NoPoll /\ steady'[q] = {}) \/ (poll'[q] = poll[q] /\ steady'[q] = steady[q])
    BY <1>1, <2>1
  <2>3. CASE poll'[q] = NoPoll
    BY <1>2, <2>3 DEF ListInv
  <2>4. CASE poll'[q] = poll[q] /\ steady'[q] = steady[q]
    BY <1>1, <2>1, <2>4 DEF ListInv, At, Queue!At
  <2>5. QED
    BY <2>2, <2>3, <2>4
<1>14. ASSUME Abort(q) PROVE ListInv(q)'
  <2>1. poll'[q] = NoPoll
    BY <1>1, <1>14 DEF Abort, Update
  <2>2. QED
    BY <1>2, <2>1 DEF ListInv
<1>15. QED
  BY <1>5, <1>6, <1>7, <1>8, <1>9, <1>10, <1>11, <1>12, <1>13, <1>14 DEF Next, Refresh

LEMMA WaitingInit == Init /\ TypeOK => WaitingInv
<1>1. SUFFICES ASSUME Init, TypeOK, NEW p \in Polls PROVE ListInv(p)
  BY DEF WaitingInv
<1>2. poll[p] = NoPoll /\ NoPoll.todo = {} /\ NoPoll.at = "idle"
  BY <1>1 DEF Init, NoPoll
<1>3. QED
  BY <1>2 DEF ListInv

\* A job that waits or is processed from the first read of ListJobs to the second
\* is in the list, however many refreshes overlap and whatever the queue does.
THEOREM WaitingJobsListed == Spec => []ListsWaitingJobs
<1>1. WaitingInv => ListsWaitingJobs
  BY DEF WaitingInv, ListInv, ListsWaitingJobs
<1>2. QED
  BY <1>1, PanelTypeCorrect, WaitingInit, WaitingStep, PTL DEF Spec

\* A refresh that gets through flags every steady job with a quarter of its time
\* left or less, whatever its deadline is, and no other.
THEOREM UrgentFlagged == Spec => UrgentJobsFlagged
<1> DEFINE Flags ==
      \A p \in Polls :
        CheckSla(p) /\ poll[p].jobs \subseteq sound =>
          LET flagged == {r.id : r \in panel'.risks} IN
            /\ \A j \in steady[p] : Urgent(j) => j \in flagged
            /\ \A j \in flagged : Urgent(j)
<1>1. WaitingInv => Flags
  <2>1. SUFFICES ASSUME WaitingInv, NEW p \in Polls, CheckSla(p), poll[p].jobs \subseteq sound
                 PROVE  LET flagged == {r.id : r \in panel'.risks} IN
                          /\ \A j \in steady[p] : Urgent(j) => j \in flagged
                          /\ \A j \in flagged : Urgent(j)
    OBVIOUS
  <2>2. steady[p] \subseteq poll[p].jobs
    BY <2>1 DEF WaitingInv, ListInv, CheckSla
  <2>3. panel'.risks = AtRisk(poll[p].jobs)
    BY <2>1 DEF WaitingInv, TypeOK, CheckSla
  <2>4. {r.id : r \in AtRisk(poll[p].jobs)} = {i \in poll[p].jobs : RiskOf(i) \in {"high", "breached"}}
    <3> DEFINE J == {i \in poll[p].jobs : RiskOf(i) \in {"high", "breached"}}
               row(j) == [id |-> j, risk |-> RiskOf(j)]
    <3>1. AtRisk(poll[p].jobs) = {row(j) : j \in J}
      BY DEF AtRisk
    <3>2. \A j : row(j).id = j
      OBVIOUS
    <3> HIDE DEF row, J
    <3>3. {r.id : r \in {row(j) : j \in J}} = J
      BY <3>2
    <3>4. QED
      BY <3>1, <3>3 DEF J
  <2>5. poll[p].jobs \subseteq Jobs /\ \A j \in Jobs : age[j] \in Nat
    BY <2>1, PanelAssumption DEF WaitingInv, TypeOK
  <2>6. \A j \in poll[p].jobs : RiskOf(j) \in {"high", "breached"} <=> Urgent(j)
    BY <2>5, UrgentRisk
  <2>7. QED
    BY <2>2, <2>3, <2>4, <2>6
<1>2. Spec => []WaitingInv
  BY PanelTypeCorrect, WaitingInit, WaitingStep, PTL DEF Spec
<1>3. QED
  BY <1>1, <1>2, PTL DEF UrgentJobsFlagged
=============================================================================
