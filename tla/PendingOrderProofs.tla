------------------------- MODULE PendingOrderProofs -------------------------
(***************************************************************************)
(* The order of the pending set, proved for every set of jobs, weight,     *)
(* penalty and clock: one number per job implements the queue of           *)
(* PriorityFifo.                                                           *)
(***************************************************************************)
EXTENDS PendingOrder, TLAPS

\* A job that is not dead has a failure left.
Budget == \A j \in Jobs : place[j] # "dead" => retries[j] < Attempts

\* The score of a job in the queue, or on its way, is what it was ranked by.
Scored ==
  \A j \in Jobs :
    place[j] \in {"sending", "pending"}
      => score[j] = Score(priority[j], stamp[j], Penalty(retries[j]))

\* Scores are computed with the clock of the past.
Stamped == \A j \in Jobs : stamp[j] <= clock

OrderInv == TypeOK /\ Budget /\ Scored /\ Stamped

-----------------------------------------------------------------------------
\* Attempts is a positive number, whatever the client asked for.
LEMMA AttemptsPositive == Attempts \in Nat /\ Attempts >= 1
BY OrderAssumption DEF Attempts

\* Penalties are numbers, and the first attempt has none.
LEMMA PenaltyType ==
  ASSUME NEW r \in 0..Attempts
  PROVE  /\ Penalty(r) \in Int
         /\ Penalty(0) = 0
BY OrderAssumption, AttemptsPositive DEF Penalty

\* A penalty is never a bonus: a job that is ranked does not jump the queue.
LEMMA PenaltyPositive ==
  ASSUME NEW r \in 0..Attempts
  PROVE  Penalty(r) >= 0
BY OrderAssumption, AttemptsPositive DEF Penalty

\* No penalty exceeds that of the last attempt.
LEMMA PenaltyBound ==
  ASSUME NEW r \in 0..Attempts
  PROVE  Penalty(r) <= Penalty(Attempts)
<1>1. /\ Attempts - r \in Nat /\ BackOff \in Nat
      /\ r \in Int /\ Attempts \in Int
  BY OrderAssumption, AttemptsPositive
<1> DEFINE gap == (Attempts - r) * BackOff
<1>2. gap \in Int /\ gap >= 0
  BY <1>1
<1>3. Penalty(Attempts) = gap + Penalty(r)
  BY <1>1 DEF Penalty
<1>4. Penalty(r) \in Int
  BY <1>1 DEF Penalty
<1> HIDE DEF gap
<1>5. QED
  BY <1>2, <1>3, <1>4

\* Scores compare by priority first and then by the rest, unless the rest
\* differs by a step.
LEMMA ScoresCompare ==
  ASSUME NEW p \in 1..3, NEW q \in 1..3, NEW s \in Int, NEW t \in Int,
         p * Step + s <= q * Step + t
  PROVE  p < q \/ (p = q /\ s <= t) \/ (p > q /\ s + Step <= t)
<1>1. Step \in Nat
  BY OrderAssumption
<1>2. CASE q = 1
  BY <1>1, <1>2
<1>3. CASE q = 2
  BY <1>1, <1>3
<1>4. CASE q = 3
  BY <1>1, <1>4
<1>5. QED
  BY <1>2, <1>3, <1>4

\* SubmitJob stores one of three levels.
LEMMA PriorityType == \A p \in Int : Priority(p) \in 1..3
BY DEF Priority

\* Ranking a job that is on its way establishes what Scored says of it.
LEMMA RankKeeps ==
  ASSUME OrderInv, NEW j \in Jobs, NEW p \in 1..3,
         NEW r \in 0..Attempts, r < Attempts, NEW penalty, penalty = Penalty(r),
         NEW from, Move(j, from, "sending"), Rank(j, p, r, penalty),
         asked' \in [Jobs -> Asked \cup {2}]
  PROVE  OrderInv'
<1> USE DEF OrderInv, TypeOK, Places
<1>1. Score(p, clock, penalty) \in Int
  BY PenaltyType, OrderAssumption DEF Score
<1>2. TypeOK'
  BY <1>1 DEF Move, Rank
<1>3. Budget'
  BY DEF Move, Rank, Budget
<1>4. Scored'
  <2> SUFFICES ASSUME NEW i \in Jobs, place'[i] \in {"sending", "pending"}
               PROVE  score'[i] = Score(priority'[i], stamp'[i], Penalty(retries'[i]))
    BY DEF Scored, Score, Penalty
  <2>1. CASE i = j
    BY <2>1 DEF Rank
  <2>2. CASE i # j
    BY <2>2 DEF Rank, Move, Scored
  <2>3. QED
    BY <2>1, <2>2
<1>5. Stamped'
  BY OrderAssumption DEF Stamped, Rank
<1>6. QED
  BY <1>2, <1>3, <1>4, <1>5

-----------------------------------------------------------------------------
\* The initial state: no job has a score yet.
LEMMA OrderInit == Init => OrderInv
<1> SUFFICES ASSUME Init PROVE OrderInv
  OBVIOUS
<1>1. TypeOK
  BY OrderAssumption, AttemptsPositive DEF Init, TypeOK, Places
<1>2. Budget
  BY AttemptsPositive DEF Init, Budget
<1>3. Scored
  BY DEF Init, Scored
<1>4. Stamped
  <2>1. Start <= Start
    BY OrderAssumption
  <2>2. QED
    BY <2>1 DEF Init, Stamped
<1>5. QED
  BY <1>1, <1>2, <1>3, <1>4 DEF OrderInv

\* OrderInv is inductive.
LEMMA OrderNext == OrderInv /\ [Next]_vars => OrderInv'
<1> SUFFICES ASSUME OrderInv, [Next]_vars PROVE OrderInv'
  OBVIOUS
<1> USE AttemptsPositive
<1>1. CASE Tick
  BY <1>1, OrderAssumption DEF OrderInv, TypeOK, Budget, Scored, Stamped, Score, Penalty, Tick
<1>2. CASE UNCHANGED vars
  BY <1>2 DEF OrderInv, TypeOK, Budget, Scored, Stamped, Score, Penalty, vars
<1>3. ASSUME NEW j \in Jobs, NEW p \in Asked, SubmitJob(j, p) PROVE OrderInv'
  <2>1. Priority(p) \in 1..3
    BY OrderAssumption, PriorityType
  <2>2. asked' \in [Jobs -> Asked \cup {2}]
    BY <1>3 DEF SubmitJob, OrderInv, TypeOK
  <2>3. 0 = Penalty(0)
    BY PenaltyType
  <2>4. Move(j, "new", "sending") /\ Rank(j, Priority(p), 0, 0)
    BY <1>3 DEF SubmitJob
  <2>5. QED
    BY <2>1, <2>2, <2>3, <2>4, RankKeeps
<1>4. ASSUME NEW j \in Jobs, Add(j) \/ Dequeue(j) \/ Complete(j) PROVE OrderInv'
  <2>1. /\ UNCHANGED <<clock, asked, priority, retries, stamp, score>>
        /\ place[j] \in {"sending", "pending", "taken"}
        /\ \E to \in {"pending", "taken", "completed"} : place' = [place EXCEPT ![j] = to]
        /\ place'[j] = "pending" => place[j] = "sending"
    BY <1>4 DEF Add, Dequeue, Complete, Move, OrderInv, TypeOK
  <2>2. TypeOK'
    BY <2>1 DEF OrderInv, TypeOK, Places
  <2>3. Budget'
    BY <2>1 DEF OrderInv, TypeOK, Budget
  <2>4. Scored'
    BY <2>1 DEF OrderInv, TypeOK, Scored, Score, Penalty
  <2>5. QED
    BY <2>1, <2>2, <2>3, <2>4 DEF OrderInv, Stamped
<1>5. ASSUME NEW j \in Jobs, MoveToDeadLetter(j) PROVE OrderInv'
  <2>1. /\ UNCHANGED <<clock, asked, priority, stamp, score>>
        /\ place[j] = "taken" /\ place' = [place EXCEPT ![j] = "dead"]
        /\ retries' = [retries EXCEPT ![j] = @ + 1]
    BY <1>5 DEF MoveToDeadLetter, Move
  <2>2. retries[j] < Attempts
    BY <2>1 DEF OrderInv, Budget
  <2>3. TypeOK'
    BY <2>1, <2>2 DEF OrderInv, TypeOK, Places
  <2>4. Budget'
    BY <2>1 DEF OrderInv, TypeOK, Budget
  <2>5. Scored'
    BY <2>1 DEF OrderInv, TypeOK, Scored, Score, Penalty
  <2>6. QED
    BY <2>1, <2>3, <2>4, <2>5 DEF OrderInv, Stamped
<1>6. ASSUME NEW j \in Jobs, Fail(j) PROVE OrderInv'
  <2>1. retries[j] + 1 \in 0..Attempts /\ retries[j] + 1 < Attempts
    BY <1>6, OrderAssumption DEF Fail, Attempts, OrderInv, TypeOK
  <2>2. priority[j] \in 1..3 /\ asked' \in [Jobs -> Asked \cup {2}]
    BY <1>6 DEF Fail, OrderInv, TypeOK
  <2>3. Move(j, "taken", "sending") /\ Rank(j, priority[j], retries[j] + 1, Penalty(retries[j] + 1))
    BY <1>6 DEF Fail
  <2>4. QED
    BY <2>1, <2>2, <2>3, RankKeeps
<1>7. ASSUME NEW j \in Jobs, RecoverStale(j) PROVE OrderInv'
  <2>1. retries[j] \in 0..Attempts /\ retries[j] < Attempts
    BY <1>7 DEF RecoverStale, Move, OrderInv, TypeOK, Budget
  <2>2. priority[j] \in 1..3 /\ asked' \in [Jobs -> Asked \cup {2}]
    BY <1>7 DEF RecoverStale, OrderInv, TypeOK
  <2>3. Move(j, "taken", "sending") /\ Rank(j, priority[j], retries[j], Penalty(retries[j]))
    BY <1>7 DEF RecoverStale
  <2>4. QED
    BY <2>1, <2>2, <2>3, RankKeeps
<1>8. ASSUME NEW j \in Jobs, RetryDead(j) PROVE OrderInv'
  <2>1. priority[j] \in 1..3 /\ asked' \in [Jobs -> Asked \cup {2}]
    BY <1>8 DEF RetryDead, OrderInv, TypeOK
  <2>2. 0 = Penalty(0)
    BY PenaltyType
  <2>3. Move(j, "dead", "sending") /\ Rank(j, priority[j], 0, 0)
    BY <1>8 DEF RetryDead
  <2>4. QED
    BY <2>1, <2>2, <2>3, RankKeeps
<1>9. QED
  BY <1>1, <1>2, <1>3, <1>4, <1>5, <1>6, <1>7, <1>8 DEF Next

\* OrderInv holds throughout (TypeOK with it).
LEMMA OrderAlways == Spec => []OrderInv
<1>1. QED
  BY OrderInit, OrderNext, PTL DEF Spec

-----------------------------------------------------------------------------
\* Types, priorities of three levels and the retry bound (SubmitJob, Fail).
THEOREM OrderTypes == Spec => []TypeOK
<1>1. OrderInv => TypeOK
  BY DEF OrderInv
<1>2. QED
  BY <1>1, OrderAlways, PTL

\* What ZPOPMIN compares, for two jobs that wait.
LEMMA LowestServed ==
  ASSUME OrderInv, NEW i \in Jobs, NEW j \in Jobs, Dequeue(j), place[i] = "pending"
  PROVE  LET late(k) == stamp[k] + Penalty(retries[k]) IN
           /\ late(i) \in Int /\ late(j) \in Int
           /\ score[i] = priority[i] * Step + late(i)
           /\ score[j] = priority[j] * Step + late(j)
           /\ \/ priority[j] < priority[i]
              \/ priority[j] = priority[i] /\ late(j) <= late(i)
              \/ priority[j] > priority[i] /\ late(j) + Step <= late(i)
<1> DEFINE late(k) == stamp[k] + Penalty(retries[k])
<1>1. \A k \in Jobs : /\ priority[k] \in 1..3
                      /\ stamp[k] \in Int
                      /\ retries[k] \in 0..Attempts
  BY DEF OrderInv, TypeOK
<1>2. place[j] = "pending" /\ score[j] <= score[i]
  BY DEF Dequeue, Move, LowestScore
<1>3. \A k \in Jobs : late(k) \in Int
  <2> SUFFICES ASSUME NEW k \in Jobs PROVE late(k) \in Int
    OBVIOUS
  <2> DEFINE penalty == Penalty(retries[k])
  <2>1. stamp[k] \in Int /\ penalty \in Int
    BY <1>1, PenaltyType
  <2> HIDE DEF penalty
  <2>2. stamp[k] + penalty \in Int
    BY <2>1
  <2>3. QED
    BY <2>2 DEF penalty
<1>4. \A k \in {i, j} : score[k] = priority[k] * Step + stamp[k] + Penalty(retries[k])
  BY <1>2 DEF OrderInv, Scored, Score
<1>5. \A k \in {i, j} : score[k] = priority[k] * Step + late(k)
  <2> SUFFICES ASSUME NEW k \in {i, j} PROVE score[k] = priority[k] * Step + late(k)
    OBVIOUS
  <2> DEFINE base == priority[k] * Step
  <2>1. base \in Int /\ stamp[k] \in Int /\ Penalty(retries[k]) \in Int
    BY <1>1, PenaltyType, OrderAssumption
  <2>2. score[k] = base + stamp[k] + Penalty(retries[k])
    BY <1>4
  <2> HIDE DEF base
  <2>3. score[k] = base + late(k)
    BY <2>1, <2>2
  <2>4. QED
    BY <2>3 DEF base
<1>6. priority[j] * Step + late(j) <= priority[i] * Step + late(i)
  BY <1>2, <1>5
<1> HIDE DEF late
<1>7. \/ priority[j] < priority[i]
      \/ priority[j] = priority[i] /\ late(j) <= late(i)
      \/ priority[j] > priority[i] /\ late(j) + Step <= late(i)
  BY <1>1, <1>3, <1>6, ScoresCompare
<1>8. QED
  BY <1>3, <1>5, <1>7 DEF late

\* The refinement mapping: the jobs that wait, and their turns.
Waiting == {j \in Jobs : place[j] = "pending"}
Turn == [j \in Jobs |-> stamp[j] + retries[j] * BackOff]

\* The initial state maps to an initial state.
LEMMA FirstInOrder == Init => Order!FifoInit
BY DEF Init, Order!FifoInit

\* A job outside the set may be ranked.
LEMMA RankPrepares ==
  ASSUME OrderInv, NEW j \in Jobs, NEW p, NEW r, NEW penalty,
         Rank(j, p, r, penalty), place[j] # "pending",
         place' = [place EXCEPT ![j] = "sending"]
  PROVE  Order!Prepare(j)
<1>1. Waiting' = Waiting
  BY DEF OrderInv, TypeOK, Waiting
<1>2. \A i \in Jobs \ {j} : /\ priority'[i] = priority[i]
                               /\ stamp'[i] = stamp[i] /\ retries'[i] = retries[i]
  BY DEF Rank, OrderInv, TypeOK
<1>3. \A i \in Jobs \ {j} : Turn'[i] = Turn[i]
  BY <1>2 DEF Turn
<1>4. j \notin Waiting
  BY DEF Waiting
<1>5. QED
  BY <1>1, <1>2, <1>3, <1>4 DEF Order!Prepare, Waiting, Turn

\* ZPOPMIN takes a job that no other precedes.
LEMMA LowestInOrder ==
  ASSUME OrderInv, NEW i \in Jobs, NEW j \in Jobs, Dequeue(j), place[i] = "pending"
  PROVE  ~ \/ priority[i] < priority[j] /\ Turn[i] < Turn[j] + Step
           \/ priority[i] = priority[j] /\ Turn[i] < Turn[j]
<1> DEFINE late(k) == stamp[k] + Penalty(retries[k])
<1>1. /\ late(i) \in Int /\ late(j) \in Int
      /\ score[i] = priority[i] * Step + late(i)
      /\ score[j] = priority[j] * Step + late(j)
      /\ \/ priority[j] < priority[i]
         \/ priority[j] = priority[i] /\ late(j) <= late(i)
         \/ priority[j] > priority[i] /\ late(j) + Step <= late(i)
  BY LowestServed
<1>2. priority[i] \in 1..3 /\ priority[j] \in 1..3 /\ Step \in Int
  BY OrderAssumption DEF OrderInv, TypeOK
<1>3. Turn[i] = late(i) /\ Turn[j] = late(j)
  BY DEF Turn, Penalty
<1> HIDE DEF late
<1>4. QED
  BY <1>1, <1>2, <1>3

\* Every step maps to a step of PriorityFifo or to a stutter.
LEMMA StepInOrder ==
  ASSUME OrderInv, [Next]_vars
  PROVE  [Order!FifoNext]_(Order!FifoVars)
<1>1. CASE Tick \/ UNCHANGED vars
  BY <1>1 DEF Tick, vars, Order!FifoVars
<1>2. ASSUME NEW j \in Jobs, NEW p \in Asked, SubmitJob(j, p)
      PROVE  [Order!FifoNext]_(Order!FifoVars)
  <2>1. Order!Prepare(j)
    BY <1>2, RankPrepares DEF SubmitJob, Move
  <2>2. QED
    BY <2>1 DEF Order!FifoNext
<1>3. ASSUME NEW j \in Jobs, Add(j) PROVE [Order!FifoNext]_(Order!FifoVars)
  <2>1. Waiting' = Waiting \cup {j} /\ j \notin Waiting
    BY <1>3 DEF Add, Move, Waiting, OrderInv, TypeOK
  <2>2. UNCHANGED <<priority, Turn>>
    BY <1>3 DEF Add, Turn
  <2>3. Order!Join(j)
    BY <2>1, <2>2 DEF Order!Join, Waiting, Turn
  <2>4. QED
    BY <2>3 DEF Order!FifoNext
<1>4. ASSUME NEW j \in Jobs, Dequeue(j) PROVE [Order!FifoNext]_(Order!FifoVars)
  <2>1. Waiting' = Waiting \ {j} /\ j \in Waiting
    BY <1>4 DEF Dequeue, Move, Waiting, OrderInv, TypeOK
  <2>2. UNCHANGED <<priority, Turn>>
    BY <1>4 DEF Dequeue, Turn
  <2>3. \A i \in Waiting :
          ~ \/ priority[i] < priority[j] /\ Turn[i] < Turn[j] + Step
            \/ priority[i] = priority[j] /\ Turn[i] < Turn[j]
    BY <1>4, LowestInOrder DEF Waiting
  <2>4. Order!Serve(j)
    BY <2>1, <2>2, <2>3 DEF Order!Serve, Order!Precedes, Waiting, Turn
  <2>5. QED
    BY <2>4 DEF Order!FifoNext
\* The last failure puts the turn of a job off that waits no more.
<1>5. ASSUME NEW j \in Jobs, Complete(j) \/ MoveToDeadLetter(j)
      PROVE  [Order!FifoNext]_(Order!FifoVars)
  <2>1. CASE Complete(j)
    BY <2>1 DEF Complete, Move, OrderInv, TypeOK, Order!FifoVars
  <2>2. CASE MoveToDeadLetter(j)
    <3>1. Waiting' = Waiting /\ j \notin Waiting
      BY <2>2 DEF MoveToDeadLetter, Move, Waiting, OrderInv, TypeOK
    <3>2. \A i \in Jobs \ {j} : priority'[i] = priority[i] /\ Turn'[i] = Turn[i]
      BY <2>2 DEF MoveToDeadLetter, Turn, OrderInv, TypeOK
    <3>3. Order!Prepare(j)
      BY <3>1, <3>2 DEF Order!Prepare, Waiting, Turn
    <3>4. QED
      BY <3>3 DEF Order!FifoNext
  <2>3. QED
    BY <1>5, <2>1, <2>2
<1>6. ASSUME NEW j \in Jobs, Fail(j) \/ RecoverStale(j) \/ RetryDead(j)
      PROVE  [Order!FifoNext]_(Order!FifoVars)
  <2>1. Order!Prepare(j)
    BY <1>6, RankPrepares DEF Fail, RecoverStale, RetryDead, Move
  <2>2. QED
    BY <2>1 DEF Order!FifoNext
<1>7. QED
  BY <1>1, <1>2, <1>3, <1>4, <1>5, <1>6 DEF Next

\* Jobs are served by priority and then by turn (Enqueue, Requeue, Dequeue), however
\* high the clock is and however long jobs wait; only a turn that is Step earlier
\* makes up for a lower priority.
THEOREM InOrder == Spec => ServesInOrder
<1>1. OrderInv /\ [Next]_vars => [Order!FifoNext]_(Order!FifoVars)
  BY StepInOrder
<1>2. QED
  BY <1>1, FirstInOrder, OrderAlways, PTL DEF Spec, ServesInOrder, Order!FifoSpec

\* A retried job waits until its penalty is over (Requeue).
THEOREM PenaltyServed == Spec => RetriedBehindFresh
<1>1. OrderInv /\ [Next]_vars =>
        \A i, j \in Jobs :
          Served(j) /\ place[i] = "pending" /\ priority[i] = priority[j] /\ retries[i] = 0
            => stamp[i] >= stamp[j] + retries[j] * BackOff
  <2> SUFFICES ASSUME OrderInv, [Next]_vars, NEW i \in Jobs, NEW j \in Jobs,
                      Served(j), place[i] = "pending",
                      priority[i] = priority[j], retries[i] = 0
               PROVE  stamp[i] >= stamp[j] + retries[j] * BackOff
    OBVIOUS
  <2>1. Dequeue(j)
    BY DEF Served, Next, vars, OrderInv, TypeOK, Tick, SubmitJob, Add, Dequeue, Complete,
       MoveToDeadLetter, Fail, RecoverStale, RetryDead, Move
  <2>2. stamp[j] + Penalty(retries[j]) <= stamp[i] + Penalty(retries[i])
    BY <2>1, LowestServed, OrderAssumption DEF OrderInv, TypeOK
  <2>3. Penalty(retries[i]) = 0 /\ stamp[i] \in Int
    BY PenaltyType, AttemptsPositive DEF OrderInv, TypeOK
  <2>4. stamp[i] >= stamp[j] + Penalty(retries[j])
    BY <2>2, <2>3, PenaltyType DEF OrderInv, TypeOK
  <2>5. QED
    BY <2>4 DEF Penalty
<1>2. QED
  BY <1>1, OrderAlways, PTL DEF Spec, RetriedBehindFresh

-----------------------------------------------------------------------------
\* SubmitJob takes the priorities 1 to 3 as they are, and nothing changes them.
AsAsked == \A j \in Jobs : place[j] # "new" => priority[j] = asked[j]

\* AsAsked is inductive, relative to OrderInv.
LEMMA AskedStep ==
  ASSUME Asked \subseteq 1..3
  PROVE  OrderInv /\ AsAsked /\ [Next]_vars => AsAsked'
<1> SUFFICES ASSUME OrderInv, AsAsked, [Next]_vars PROVE AsAsked'
  OBVIOUS
<1> USE DEF OrderInv, TypeOK, AsAsked
<1>1. ASSUME NEW j \in Jobs, NEW p \in Asked, SubmitJob(j, p) PROVE AsAsked'
  <2>1. Priority(p) = p
    BY DEF Priority
  <2>2. QED
    BY <1>1, <2>1 DEF SubmitJob, Move, Rank
<1>2. ASSUME NEW j \in Jobs, Fail(j) \/ RecoverStale(j) \/ RetryDead(j) PROVE AsAsked'
  <2>1. /\ asked' = asked /\ place[j] # "new" /\ place' = [place EXCEPT ![j] = "sending"]
        /\ priority' = [priority EXCEPT ![j] = priority[j]]
    BY <1>2 DEF Fail, RecoverStale, RetryDead, Move, Rank
  <2>2. QED
    BY <2>1
<1>3. ASSUME NEW j \in Jobs, Add(j) \/ Dequeue(j) \/ Complete(j) \/ MoveToDeadLetter(j)
      PROVE  AsAsked'
  <2>1. /\ asked' = asked /\ priority' = priority /\ place[j] # "new"
        /\ \A i \in Jobs \ {j} : place'[i] = place[i]
    BY <1>3 DEF Add, Dequeue, Complete, MoveToDeadLetter, Move
  <2>2. QED
    BY <2>1
<1>4. CASE Tick \/ UNCHANGED vars
  BY <1>4 DEF Tick, vars
<1>5. QED
  BY <1>1, <1>2, <1>3, <1>4 DEF Next

\* As long as no job waits for the weight of a level, priorities alone decide first.
LEMMA PromptOrder ==
  ASSUME OrderInv, Prompt, NEW i \in Jobs, NEW j \in Jobs, Dequeue(j), place[i] = "pending"
  PROVE  priority[j] <= priority[i]
<1>1. /\ clock - stamp[j] + Penalty(Attempts) < Step
      /\ stamp[i] <= clock /\ stamp[i] \in Int /\ stamp[j] \in Int /\ clock \in Int
  BY DEF Prompt, Dequeue, Move, OrderInv, TypeOK, Stamped
<1>2. /\ Penalty(retries[i]) <= Penalty(Attempts) /\ 0 <= Penalty(retries[j])
      /\ Penalty(retries[i]) \in Int /\ Penalty(retries[j]) \in Int /\ Penalty(Attempts) \in Int
  BY PenaltyBound, PenaltyType, PenaltyPositive, AttemptsPositive DEF OrderInv, TypeOK
<1>3. \/ priority[j] < priority[i]
      \/ priority[j] = priority[i]
      \/ stamp[j] + Penalty(retries[j]) + Step <= stamp[i] + Penalty(retries[i])
  BY LowestServed
<1>4. ~(stamp[j] + Penalty(retries[j]) + Step <= stamp[i] + Penalty(retries[i]))
  BY <1>1, <1>2, OrderAssumption
<1>5. QED
  BY <1>3, <1>4 DEF OrderInv, TypeOK

\* "Jobs sorted by priority (P1-P4)" (README.md) is true of a queue whose clients ask for
\* no P4, or anything else that SubmitJob makes medium, as long as no job waits for the
\* weight of a level: none is served before one that asked for a higher priority.
THEOREM AskedOrderKept ==
  ASSUME Asked \subseteq 1..3
  PROVE  Spec /\ []Prompt => ServesAsAsked
<1>1. Init => AsAsked
  BY DEF Init, AsAsked
<1>2. OrderInv /\ AsAsked /\ [Next]_vars => AsAsked'
  BY AskedStep
<1>3. OrderInv /\ AsAsked /\ Prompt /\ [Next]_vars =>
        \A i, j \in Jobs : Served(j) /\ place[i] = "pending" => asked[j] <= asked[i]
  <2> SUFFICES ASSUME OrderInv, AsAsked, Prompt, [Next]_vars, NEW i \in Jobs, NEW j \in Jobs,
                      Served(j), place[i] = "pending"
               PROVE  asked[j] <= asked[i]
    OBVIOUS
  <2>1. Dequeue(j)
    BY DEF Served, Next, vars, OrderInv, TypeOK, Tick, SubmitJob, Add, Dequeue, Complete,
       MoveToDeadLetter, Fail, RecoverStale, RetryDead, Move
  <2>2. priority[j] <= priority[i]
    BY <2>1, PromptOrder
  <2>3. priority[i] = asked[i] /\ priority[j] = asked[j]
    BY DEF AsAsked, Served
  <2>4. QED
    BY <2>2, <2>3
<1>4. QED
  BY <1>1, <1>2, <1>3, OrderAlways, PTL DEF Spec, ServesAsAsked

=============================================================================
