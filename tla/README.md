# SmartQueue: TLA+ models, model checks and proofs

This directory holds the formal specification of SmartQueue, the AI helpdesk on
a Redis-backed task queue. It models the code, not the documents: an action is
one handler, one callback or one Redis round trip of a function, with the
function's guards, early returns and error paths. `PROJECT.json` lists, for each
definition, the lines it models, for each run the properties it checks, and the
hazards of the code with the properties that watch them.

| file | what it is |
|---|---|
| `RedisQueue.tla` | the queue of `internal/queue`, one action per Redis round trip |
| `TaskQueue.tla` | the queue at work: workers, sweepers, API requests, time and faults; the properties |
| `JobLifecycle.tla` | abstract: one job's status and retries |
| `JobPlaces.tla` | abstract: where a reader of the Redis keys finds each job |
| `TaskQueueProofs.tla` | theorems about `TaskQueue` for any number of processes |
| `FaultProofs.tla` | theorems about `TaskQueue` under crashes, errors and shutdowns, for any number of worker processes whose sweeps do not overlap |
| `PendingOrder.tla`, `PriorityFifo.tla` | the scores of the pending set; abstract: the order they promise |
| `PendingOrderProofs.tla` | theorems about `PendingOrder` |
| `BotSession.tla`, `Conversation.tla` | one session with the AI bot, from the panel to the list in Redis; abstract: a bounded conversation |
| `BotSessionProofs.tla`, `BotRecallProofs.tla` | theorems about `BotSession`: the list and the panel; what is shown, stored and remembered |
| `Tickets.tla` | the rules without a language model: classification, deadlines, health score |
| `Intake.tla` | how tickets get into the queue: simulator, inbox, dashboard, SubmitJob |
| `IntakeProofs.tla` | theorems about `Intake` |
| `QueuePanel.tla` | what the queue health panel shows of a queue that moves |
| `QueuePanelProofs.tla` | theorems about `QueuePanel` and `Tickets` |
| `MC*.tla`, `*.cfg` | the instances that TLC checks |

## Inventory

### Components

| component | state | operations | correct when |
|---|---|---|---|
| job queue (`internal/queue`) | Redis: `job:<id>`, `queue:pending` (sorted set), `queue:processing` (hash), `queue:dead` (list), `stats:*` | Enqueue, Dequeue, Complete, Fail, Requeue, MoveToDeadLetter, RecoverStale, RetryDead, GetJob, Stats, List* | no job is lost, none is in two places, failures are counted once, the dead-letter list mirrors the statuses, urgent jobs go first |
| worker pool (`internal/worker`) | N goroutines and one sweeper per process, one context | processNext, RecoverStale every 30 s, drain on cancellation | every accepted job is settled in the end; a shutdown costs nothing |
| worker process (`cmd/worker`) | handlers, signal handler | SIGTERM, crash, restart | as above |
| API server (`internal/api`, `cmd/api`) | none of its own | SubmitJob, RetryJob, GetJob, GetStats, ListJobs, ListDeadJobs | a job that waits is listed; what is refused is not queued |
| bot service (`rag/main.py`, `rag/bot.py`) | none between requests | chat (SSE stream), clear | the stored history is the conversation the user saw |
| conversation memory (`rag/memory.py`) | Redis list per session, expires after an hour | get, append and trim, clear | turns stay paired, the bound is kept |
| simulator (`rag/simulator.py`) | none | batches of ten concurrent submissions | what it reports is what it enqueued; it ends |
| classifier, recommender, SLA (`rag/*.py`) | none | rules, with an LLM in front of two of them | the order of thresholds, a score that agrees with the advice |
| ticket inbox, queue health, bot panel (`frontend/src/components`) | React state | polls, classify, submit, retry, send, clear | a classification is submitted once; late answers are corrected; chunks land where they belong |
| Streamlit dashboard (`dashboard/app.py`) | none | submit, metrics | as the inbox |

### Interactions

The API server and the worker processes share nothing but Redis. The browser
calls the API server (`/api/v1`) and the Python service (`/api/ai`) through
nginx; the simulator calls the API server as a client; the Python service keeps
sessions in the same Redis. Redis makes a command atomic and nothing larger:
`Pipeline()` of go-redis is not MULTI, and every function of the queue is
several round trips; `pipeline()` of redis-py is MULTI, so a turn of a
conversation is stored in one step. docker-compose and the Helm chart run two
worker processes, each with its own sweeper.

### What is hard

* Concurrency: goroutines, sweepers of several processes and API requests
  interleave between any two round trips; refreshes and chat streams overlap.
* Failure: a process can be killed between two round trips; supervisord or
  Kubernetes starts it again. A call can return an error before or after Redis
  executed the command. A POST or its answer can be lost, a stream can break off.
* Shutdown: one context is shared by a process; when SIGTERM cancels it every
  later call of the process fails, also those that would finish an operation.
* Time: claims turn stale after five minutes, records expire after a day or a
  week, sessions after an hour, and clients give up.
* Stale copies: Complete, Fail, RecoverStale and RetryDead read a record and
  write the whole record back later; the bot reads the history before it streams
  and appends after; the panel shows what a refresh read seconds ago.

### How the modules fit together

`TaskQueue` extends `RedisQueue` and implements `JobLifecycle` (what
`GET /jobs/:id` shows) and `JobPlaces` (what the keys show). `QueuePanel`
instantiates `JobPlaces` as its queue: what the panel is checked and proved
against is what `TaskQueue` was checked and proved to implement. `Intake` and
`QueuePanel` extend `Tickets`. `PendingOrder` models what `RedisQueue` leaves
open, which member ZPOPMIN returns.

## RedisQueue

Variables and the code:

| variable | code |
|---|---|
| `job` | `job:<id>`: status, retries, and whether the key expires; `NoRecord` when it is absent |
| `pending` | members of `queue:pending` |
| `processing` | `queue:processing`; the timestamp is `"fresh"` or `"stale"` with respect to `staleJobTimeout` |
| `dead`, `stats` | occurrences in `queue:dead`; `stats:completed`, `stats:failed`, `stats:dead` |
| `pc`, `hand`, `copy` | for each client: the round trip it makes next, the id it works on, the Go value `job` |
| `wire` | the commands of the client's pipeline that Redis has not executed |
| `todo` | the sweeper's HGETALL snapshot, as far as it is not handled |
| `ctx` | the context of each worker process |
| `issued`, `accepted` | history: ids given to a submission, ids that ZADD has added |

A client is a worker goroutine, the sweeper of a process, or an API request
handler. `Dequeue` is four actions (`DequeuePop`, `DequeueClaim`, `DequeueRead`,
`DequeueMark`), as it is four round trips. `Complete` and `Fail` are a GET and a
pipeline; `Requeue` a pipeline; `RecoverStale` is `SweepSnapshot` and, for each
entry, `SweepRead`, `SweepRelease` and `Requeue`; `RetryDead` is `RetryRead`,
`RetryUnlist`, `RetryCount` and `Enqueue`. A pipeline is executed command by
command (`ExecSet`, `ExecZAdd`, ...). With `Batched = TRUE` the other clients
wait meanwhile, which is how Redis treats a pipeline that arrives in one read;
with `FALSE` they may come in between, which Redis permits. `CallError` holds
the error path of every call: most return, `Dequeue` ignores the error of its
last SET, `RetryDead` those of LREM and DECR, and the sweeper goes on with its
next entry.

Left out: payload, type, error text, timestamps and logging; the order of the
sorted set (ZPOPMIN may return any member, so what is shown holds for every
score, and `PendingOrder` models the order); JSON errors, since every record is
written by this code and parses.

## TaskQueue

`TaskQueue` adds what surrounds the queue: `Run` (the handler returns nil or an
error), `Submit` and `RetryJob` (the HTTP handlers), `GoStale`, `Overrun` and
`Expire` (time), `RedisError`, `Crash`, `Shutdown`, `CtxError`, `Restart`.

* `Crash(p)` removes the memory of every goroutine of the process at once and
  the new process starts empty. A crash is possible when every client of the
  process is at a point of `CrashAt`, so a run can say where processes die.
* `RedisError(c)` is an error at a point of `ErrorAt`. An error after the command
  was executed is the command followed by an error at the next point.
* `Shutdown(p)` cancels the context. A worker finishes its handler, then its calls
  fail (`CtxError`); when all goroutines are done `Restart` starts a new process.
* `GoStale(j)` is the passing of five minutes for a claim nobody works on. A client
  between two round trips takes milliseconds, and the registered handlers at most
  ten seconds, so a claim in use turns stale only by `Overrun`, which models a
  handler that takes longer than the timeout, as nothing in the code stops it.

Redis itself neither fails nor loses data (the chart turns on its append-only
file); if it did, no property here would hold.

`ApartSpec` is `Spec` without two overlaps (`ApartNext`). No process starts to sweep
while another one sweeps (`Alone`): each does so every 30 seconds, for milliseconds, so only
processes whose tickers started together overlap, again and again. And a job is
retried only when nobody works on it (`Unheld`): two requests retry a job at once when two users press
the button together, and a worker still works on a dead job for the moment in which
its pipeline lists it. Everything else overlaps as in `Spec`. What two sweeps that
overlap can do is in the run ReopenedJob; that they lose no job is the theorem
`NoJobLost`.

### JobLifecycle

The abstract specification is the lifecycle of one job as the API shows it:
`new`, `pending`, `processing`, `completed`, `failed`, `dead`, `gone`, and the
number of failures. A completed job only expires; a dead one moves only by a
retry; every failure is counted; a rescued job keeps its count.
`FollowsLifecycle` states that the status and retries of every record, as
`TaskQueue` changes them, implement `LifecycleSpec` (a job is `gone` when it was
accepted and has no record, and `new` when it was not accepted). An error of the
SET that stores "processing" breaks it, since the code ignores that error.

### JobPlaces

The second abstract specification is where a reader of the keys finds a job: in
the pending set, in the processing hash, in the dead-letter list, or in none of
them because a client carries it (`moving`) or it is completed (`ended`).
`FollowsPlaces` states that every step of `TaskQueue` moves at most one job by one
legal move. It does not hold when `RetryDead` is interrupted after its LREM, or
when the LREM fails: the job is then dead and in no list, or pending and in one.

## PendingOrder and PriorityFifo

`RedisQueue` lets ZPOPMIN return any member, so its properties hold for every
order. `PendingOrder` models the order: `SubmitJob` normalises the priority,
`Rank` reads the clock and computes the score as Enqueue and Requeue do, `Add` is
the later ZADD, `Dequeue` takes a member of the lowest score (Redis breaks ties by
id, and ids are random). What happens to a job after that is reduced to the ways
it comes back: `Fail`, `RecoverStale`, `RetryDead`. Only one client has a job at a
time here; races over one job are the subject of `TaskQueue`.

`PriorityFifo` is the promise: the job served has the highest priority of those that
wait and the earliest turn of that priority, except that a job whose turn is earlier by
`Patience` may go before one of a higher priority. `ServesInOrder` is the refinement,
with `turn` the clock of its submission or last retry plus the penalty (`stamp` and
`retries`, not the score), and `Patience` what a level weighs
(1e10 ms, 116 days). The clock itself (1.7e12 ms) is far above that weight, so nothing is
assumed of it: it starts at any `Start`, and what counts is how long jobs wait. The
comment of `Enqueue`, "sorted by priority first", is thus exact for jobs that wait less
than 116 days, penalties counted in (`Prompt`).

## BotSession and Conversation

One session: the panel (`AIBot.jsx`, `streamBot`), the chat and clear endpoints,
and the list in Redis. Requests are numbered in the order the user sends them.

| variable | code |
|---|---|
| `history` | the list `bot:session:<id>:history` |
| `at` | per chat request: `unsent`, `sent`, `llm` (streaming from the model), `rules` (the rule-based answer), `finally`, `closed` |
| `kind` | what the question is about: a ticket, an `odd` one whose text is no string, nothing (`general`), or something the guardrails match (`blocked`) |
| `past`, `full` | the history `bot_chat` has read; the chunks of the answer so far |
| `events` | server-sent events the browser has not read |
| `clears` | clear requests on their way |
| `messages`, `streaming`, `reading`, `blank` | the bubbles; the awaited answer; the responses the browser reads; a render error has unmounted the page |
| `seen`, `due`, `gone` | history for `RemembersLastTurn`: stored questions whose answer was shown to the end, those at the time of each request, and those deleted meanwhile |

Service: `Reject` (422, 429, 400, 500), `Accept` (which reads the history),
`Delta`, `LLMEnds`, `LLMFails`, `Word`, `Finally` and `SaveFails` (the finally
clause), `Cancel` (the client is gone: the generator is closed at a yield, where it
saves, or cancelled at an await, where it does not), `ServerClear`, `Expire`.
Panel: `Send`, `OnChunk`, `OnDone`, `OnError`, `Disconnect`, `Clear`. The panel
sends one question at a time, but answers whose connection broke go on in the
service, so several requests of a session overlap there. `Clear` does not wait for
its request and is not disabled while an answer streams.

A message is the request it belongs to and its chunks; wording, prompts, retrieved
runbooks and the ticket's text are left out. `Conversation` is the abstract
specification: a bounded sequence of turns that grows at the end, drops its oldest
turn, or is forgotten altogether. `KeepsConversation` is the refinement. A turn is a
question with its answer, so the 20 messages that LTRIM keeps (`memory.py:38`) are ten
turns, and the bound of `Conversation` is half of `HistoryLimit`. This disagrees with
`memory.py:1`, "Redis-backed 20-turn conversation memory for the AI bot": with a bound of
`HistoryLimit` turns the refinement fails as soon as the list overflows, in an instance of
`HistoryLimit = 4` at the third turn, which drops the first. The sentence is true of the
code only if each message counts as a turn. `KeepsConversation` states what the code
keeps, not that sentence.

## Tickets

Operators: the keyword rules of `classifier.py` (priority, category, route, tier
and deadline) as functions of the set of keywords in a text; the default deadline,
remaining time and risk of `sla.py` in ticks of a clock; score, alerts and advice
of `recommender.py` as functions of the three counts. The answers of the language
model enter where the callers use them.

## Intake

| variable | code |
|---|---|
| `stage`, `wire`, `ticket` | per POST: what its client knows, where it is, its body |
| `job` | what `SubmitJob` has put into the queue for it |
| `sim` | the simulation: `at`, the count that was asked for, the tickets it reports |
| `inbox` | React state: `classifying`, the current classification (`draft`, `class`), the message about a queued job |
| `draft` | the classification a submission was made from |

Simulator: `Simulate` (a count outside 1..50 is refused), `StartBatch` (when
`gather` of the batch before has returned), `ProcessOne` (classify, then POST),
`Report`. Inbox: `AskClassification`, `GetClassification`, `PressSubmit`.
Dashboard: `DashboardSubmit`. All: `SubmitJob`, `Lose`, `Answer`, `GiveUp`.
`Classify` is any answer the model may give, or the rules' one; an answer that is
not what the code expects (`sound = FALSE`) fails where the code fails: in the
simulator before the POST or at the API, in the inbox at the API. `SubmitJob` may
store the job and still answer with an error, and a client may give up on a POST
the server gets to later. What the inbox shows as text is not followed.

## QueuePanel

| variable | code |
|---|---|
| `place` | the place of each job, moved as `JobPlaces` allows |
| `age`, `sound` | ticks since `created_at`; payloads the SLA check can read |
| `poll` | per refresh: what it has still to read, what it has read |
| `panel` | dead-letter table, risk table, and whether the page is unmounted |
| `steady` | history: jobs that have waited or been processed since a refresh began to list |

`Start`, `ReadDead`, `ListJobs` (two reads: pending set, processing hash), `Show`
(`Promise.all` has its answers), `CheckSla`, `Abort` are a refresh; refreshes
overlap. `Retry` is the button of the dead-letter table. `Submit`, `Leave`, `Move`
are the queue, `Tick` its clock. `Analysis` is what "Analyse Queue" would return at
any moment. A failed call that the API answers is no failure for `fetch`.

## Runs

| run | instance | shows |
|---|---|---|
| Settling | 1 worker process with 2 goroutines, 1 request handler, 2 jobs, 2 crashes or errors at the safe points, 1 retry; fairness | `TypeOK`; `NothingLost`; `DeadLetterExact`: the list mirrors the statuses; `FollowsPlaces`; `EventuallySettled`: every accepted job is completed or dead-lettered |
| TwoProcesses | 2 worker processes of 1 goroutine, 2 request handlers, 2 jobs, 2 faults: crashes at every point between two round trips, every error the code returns, shutdowns; 2 retries; interleaved pipelines; `ApartSpec` | `Exclusive`: a job is in one place; `RetryBudget`; `CompletedAtMostOnce`; `CompletedIsFinal`; `FollowsLifecycle` |
| RacingPools | 2 processes, 1 job, an overrun, pipelines interleaved | `NothingLost`: two workers may run the job, but it is not lost |
| Order | 3 jobs, priorities 1, 3 and 4, a clock from 5 to 9, a level that weighs 3 | `ServesInOrder`: scores implement the queue by priority and turn; `RetriedBehindFresh`: retried jobs wait for their penalty |
| Bot | 3 questions, a history of 4 messages of which 2 go to the model, 1 chunk, 1 clear, 1 fault; fairness | `HistoryIsTurns`, `ContextIsTurns`: the list and the prompt hold whole turns; `RemembersLastTurn`; `ShownIsStored`; `RightBubble`; `KeepsConversation`; `EveryAnswerEnds` |
| Intake | 3 simulated tickets in batches of 2, 2 submissions from the forms, 1 fault; fairness | `ReportIsExact`: what users are told is queued is queued; `OneBatchAtATime`: the simulator awaits one batch, and what the server has beyond it was given up; `UrgentFirst`: deadlines order the priorities; `SubmittedOnce`: of two submissions of a classification one was given up; `SimulationEnds` |
| Panel | 1 job, 2 overlapping refreshes, 1 retry, 1 fault, a deadline of 4 ticks; fairness | `ListsWaitingJobs`: the two reads of ListJobs overlook no job; `UrgentJobsFlagged`; `ScoreIsFair`; `PanelCatchesUp` |
| LostInShutdown | a SIGTERM | the job is lost: popped and not claimed, or released and not requeued |
| ReopenedJob | 2 processes, a crash in a handler | a completed job is pending again |
| P4BeforeP3 | 2 jobs of priorities 3 and 4 | the one of priority 4 is served first |
| GeneralQuestion | 1 question with no ticket selected | it is refused with 422 |
| BlankPanel | 1 job near its deadline | the risk table throws and the page is unmounted |

LostInShutdown and the runs after it are counterexamples: each contradicts a sentence of
the code's comments, its interface or its README, which `PROJECT.json` quotes under
"findings". One more disagreement, of `memory.py:1`, has no run and is described under
BotSession. `Order`, `Intake` and `Panel` may stop, as their clocks, tickets and
retries are bounded, and so may `Bot`, whose user asks three questions and no more:
their cfgs turn off the deadlock check, those of the queue's passing runs do not.

### Bounds and why they are enough

* The safe points of `Settling` are all points between two round trips but five: `hset`
  (popped, not claimed) and `requeue` (released, not yet queued), where a job
  is in no key and a fault loses it; `lrem`, `decr` and `enqueue`, where `RetryDead` has
  begun and a fault leaves a dead job unlisted. A crash at `enqueue` of a new job is
  excluded with the last one: the job is then not accepted. `TwoProcesses` has no such
  exception for crashes; for errors it leaves out `mark`, whose error the code drops.
  A crash in the middle of a pipeline is in no run: it arrives in Redis in one piece.
* `MaxRetries = 2` is the least value that has a failure followed by a retry
  and a last failure. Two jobs and two goroutines let a goroutine hold one job while
  another is popped, rescued or retried; one more of either adds no new pair.
  `MaxFaults = 2` allows a fault during the recovery from a fault, also by the other
  process. `MaxRetryCalls = 1` re-opens a dead job once, 2 retries it
  again after it died again, or both jobs at once. `MaxFailures` bounds handler errors; it binds only with
  two processes, where overwritten records let a job fail for ever. Symmetry over
  jobs and requests is used in safety runs only; goroutines of different processes are
  not alike.
* In `Order` a level weighs 3 and a penalty 1 per failure, and the clock goes from 5, which
  is above the weight as the real clock is, to 9: a wait of up to four ticks, or of three
  with a penalty, crosses a level and so reaches the case in which a lower priority goes
  first, and fresh jobs arrive on both sides of a penalty.
* `Bot` has the limits 4 and 2 for 20 and 10: with three questions the list overflows,
  the prompt is a real part of the list, and one answer can go on unread while two
  more are asked. `MaxChunks = 1` still has a broken stream followed by the rules' answer.
  Its second question may be odd or refused.
* `Intake` has two batches, the second one shorter; a count that is refused; two
  classifications, so that one can arrive while the other's submission is in flight.
  `MaxFaults = 1` loses or delays one call.
* `Panel` needs one job: its properties speak of one job, and the refreshes overlap on it.
  The thresholds of the backlog are 0 so that one job reaches them; `ScoreFair` is
  proved for all thresholds and any number of jobs. `MaxAge = 5` passes the deadline of four ticks; `Tick` happens only
  with no refresh under way, as a refresh takes seconds and a tick a quarter of an hour.
  There are fewer than 100 pending and 50 dead jobs, so the limits of the two lists do not
  bind, and a single record that cannot be read is not modelled.

### Fairness

* `TaskQueue`: weak fairness for each worker (its loop never blocks but for a sleep),
  each sweeper (a ticker), the calls of a request that was accepted (net/http runs
  it to its end), the clock (`GoStale`), the errors of a cancelled context, and the
  restart. Clients owe no request and no retry call, faults never have to happen, and
  `Expire` is not required to. `DequeueEmpty`, the poll that finds nothing, changes
  nothing and is in no fairness condition.
* `BotSession`: the event loop runs a request it has accepted, calls of the model time
  out, an answer has at most `max_tokens`, and the browser reads what arrives. The calls
  of Redis have no timeout (`memory.py:16`); when one hangs, nginx gives the request up
  after its `proxy_read_timeout`, which the panel sees as an error and the service as a
  client that is gone. The user owes nothing.
* `Intake`: servers answer what they have received, model calls and POSTs time out,
  and the event loop of the simulator goes on.
* `QueuePanel`: the timer fires every five seconds and its calls return. The queue owes
  nothing: `PanelCatchesUp` is about a queue that has come to rest.

## Proofs

The constants are arbitrary: any sets of jobs, workers, processes, requests and refreshes,
any bounds, limits, thresholds and deadlines that satisfy the assumptions in the modules.

`TaskQueueProofs`, for any number of worker processes:

* `TypeCorrect`: `Spec => []TypeOK`. `TypeOK` is not inductive: a client at `run`
  or with a pipeline on its wire must have a job in hand for the next step to be
  well-typed. `TypeInv` adds `Coherent`, which relates `pc`, `wire`, `hand` and the
  kind of client.
* `NoJobLost`: `Spec => []NothingLost`, assuming `Mild`: calls may fail at `mark`,
  `lrem`, `decr` and `sweep`, processes may die at `idle`, `lrem`, `decr` and `sweep`, and
  there is no shutdown. Racing sweepers, overrunning handlers, concurrent retries and
  interleaved pipelines are included: concurrency alone never loses a job. The
  inductive invariant `AccountInv` says that each unsettled accepted job is pending
  or carried by a client, and that a client that lets go of a job has settled it or
  put it back (`Accounted`, `Faithful`, `AllLive`). It does not mention
  `queue:processing`: the claims matter only after a crash.

`FaultProofs`, for any number of worker processes, goroutines, API requests and jobs, under
crashes, errors, shutdowns and restarts between any two round trips and with interleaved
pipelines (`ApartSpec`, and `Orderly`: no handler overruns and no fault cuts a pipeline short):

* `OneSweep`: one process sweeps at a time, and only a sweep under way has a snapshot. It
  goes on being so in every step but the start of a sweep (`SweepsGoOn`), which is taken `Alone`.
* The inductive invariant `PlaceInv` follows each job through the keys and the memory of
  the client that has it. For each client, `KindOK` says where it can be and with what on its
  wire, and `HeldOK` what the keys (`PlaceOK`), the record (`RecordOK`), its copy (`CopyOK`)
  and the dead-letter list (`ListOK`) hold for the job in its hand. For each job, `JobOK`
  relates record, pending set, list and claim, and says that an unsettled one
  is pending, claimed or in a client's hand (`KeptOK`). `Unique` and `TodoOK` say that no two clients hold a job and that the
  sweeper's snapshot names only claims that are stale and jobs that nobody holds. One step lemma per action;
  `StepKeeps` reduces most of them to the one client and the one job they touch.
* `OneHolder`, `BudgetKept`: `Exclusive` and `RetryBudget`, with no further assumption.
* `NoJobLostToFaults`: `NothingLost`, with `Safe`: no fault at `hset` and `requeue`, no
  shutdown. `LostInShutdown` is why: there the code does lose jobs.
* `DeadLettersListed`: `DeadLetterExact`, with `Whole`: `RetryDead` is not cut short and
  its LREM does not fail.
* `CountedOnce`: `CompletedAtMostOnce`. By `CountInv` there is, for each completion counted,
  an accepted job that is completed or has expired and that nobody holds (`Finished`); no
  step takes a job out of that set, as only a dead or waiting job is taken up.
* `CompletedStays`: `CompletedIsFinal`. The steps that write a record write that of a job which
  the client holds, and `PlaceInv` says that such a job is not a completed one.
* `OneProcess`: with one process, one request at a time and pipelines that arrive whole, every
  step is one of `ApartNext` (`DeadIsFree`), so four of the results hold of `Spec` itself.
* `ImplementsLifecycle` (`Marked`: the SET of "processing" does not fail) and
  `ImplementsPlaces` (`Whole`): the two refinements. The steps that write a record or a
  key are few (`RecordWrites`, `KeyWrites`), and `PlaceInv` says what they find there.

`PendingOrderProofs`, for every set of jobs, clock, weight and penalty:

* `InOrder`: the refinement of `PriorityFifo`, however high the clock is and however long
  jobs wait. `OrderInv` adds to `TypeOK` that the score of a job in the set is the one its
  current priority, retries and stamp give (`Scored`), that no stamp is ahead of the clock
  (`Stamped`), and that a job that is not dead has an attempt left (`Budget`), which bounds the penalty.
* `PenaltyServed` and `OrderTypes`, from the same invariant.
* `AskedOrderKept`: when clients ask for the priorities 1 to 3 only and no job waits for
  the weight of a level less the penalties (`[]Prompt`), `ServesAsAsked` holds: P4, which
  SubmitJob turns into P2, is all that P4BeforeP3 has found. `Prompt` is about waits, not
  about the age of the system. It bounds the penalty by the attempts a job may have, so it
  says nothing of jobs with a `max_retries` of two million or more.

`BotSessionProofs`, for any number of questions, clears and faults and all even limits:

* `TypeCorrect`; `HistoryStaysWhole` and `ContextStaysWhole` from `TurnsInv` (what requests
  have read is whole turns, and an even cut keeps it so).
* `ChunksInTheirBubble`: `RightBubble`, from `BubblesInv`: one response is read at a time,
  only while an answer is awaited, the last bubble is its own, and each request's events
  are its own.
* `ImplementsConversation`: `KeepsConversation`, from `ClosedInv`: what is stored belongs
  to requests that are over, so no turn is added twice.

`BotRecallProofs`, with the same generality:

* `StoredAsShown`: `ShownIsStored`. While an answer is read, the text of the last bubble
  followed by the events on their way (`Sight`) is what the service has produced; once the
  request is over it is what the list stores of it, followed by [DONE] (`InStep`). A bubble
  that is no longer read is an error or shows the stored text (`Told`). `ShownInv` is
  this with `BubblesInv` and `ClosedInv`, which say whose bubbles and events they are.
* `LastTurnRemembered`: `RemembersLastTurn`. `Recalls(S, h, n)` says that the list `h` ends in the
  latest question of `S` as far as `S` goes, or that `n` messages of others have taken its
  place. It survives a cut to the last messages (`RecallCut`) and a turn that is added
  (`RecallAdded`). `Remembered` has it of the list and `seen`, of what each request will read
  or has read and `due`, and, ahead of time, of an answer whose [DONE] is on its way:
  that one is stored before it is seen. `Ordered` says that later questions have
  greater numbers and that what was seen is over.

`IntakeProofs`, for any number of tickets, batch size, texts and answers of the model:

* `IntakeTypeCorrect`; `UrgentGoFirst` from `RulesInv` (a body that comes from the rules
  carries their priority and deadline through form, POST and queue).
* `ReportsAreExact` from `ReportInv`: what a client knows of a POST (`Known`) is what the
  server did.
* `OneBatch` from `BatchInv`: the tickets of a simulation split at a number below
  which all are started and above which all wait (`Split`). POSTs that the simulator has
  given up and the server has not reached (`Late`) are at most as many as the faults.
* `OneSubmission` from `OnceInv`: while a classification is in the form, each submission of
  it is on its way or was given up, and the button asks that none be on its way.

`QueuePanelProofs`, for any number of jobs and refreshes, all thresholds and deadlines:

* `PanelTypeCorrect`, which includes that the score stays in 0..100; `WaitingJobsListed`
  from `WaitingInv`: after the first read a steady job is in the list or has a claim.
* `ScoreFair` from arithmetic on the capped penalties (`FullScore`, `ScoreFalls`);
  `UrgentFlagged` from `UrgentRisk`, which compares the thresholds with a quarter of the
  deadline.

### Only model-checked

* The properties of `TaskQueue` outside the assumptions of their theorems: with faults and
  sweeps that overlap some of them do not hold (ReopenedJob shows one). Every invariant and
  every action property of a passing run has a theorem.
* Liveness: `EventuallySettled`, `EveryAnswerEnds`, `SimulationEnds`, `PanelCatchesUp`.
  Fairness and ENABLED are out of the prover's reach.

## Not modelled

* Knowledge base: a BM25 ranking over a constant corpus. It has no state, its only
  failure is an empty result, and its logarithms have no counterpart in TLA+; what it
  finds changes the wording of answers only.
* Claude client (`internal/ai`): no code calls it.
* Application shell, styles, router wiring, rate limiter counts, deployment files: what
  the models take from them is that there is no error boundary, that a limiter may
  refuse a chat (`Reject`), and that worker processes are replicated and restarted.
* The regular expressions of the guardrails: their outcome, a refusal, is modelled.
* A recommendation written by the language model: it replaces the rules' answer unseen.
* `_fallback_classify` of the simulator: `classify_ticket` catches every exception, so it
  is never reached.
* The polls of the drop-down in the bot panel and of the list in the inbox, and the metrics of the
  dashboard: readers of the same endpoints as the health panel, shown as they arrive.
* The resend of a pipeline by go-redis after a network error: what it would break is
  the counters and the list, which no document promises to survive it.
* A handler that never returns: the registered ones sleep ten seconds at most.
* The clean end of an answer's stream without [DONE], which `streamBot` takes for the end
  of the answer: a chunked response that is cut short is an error in `fetch`.
