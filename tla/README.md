# A TLA+ verification of OMEGA

OMEGA (`src/README.md`) is a content engine: a FastAPI application, Celery workers over Redis and a
PostgreSQL database take a Mission through a DAG of stages to a rendered and published video. Almost all of its
correctness lives in rows that several processes change in many short transactions, around calls that hold no lock: a
Guardian check, a broker publish, an FFmpeg render of several minutes. This directory models that part in TLA+, checks
small instances with TLC, and proves the safety of every component for every value of the constants with TLAPS.

Paths below are relative to `src/backend/src/omega/`.

1. [Inventory](#1-inventory)
2. [What makes it hard](#2-what-makes-it-hard)
3. [Modules and the code they model](#3-modules-and-the-code-they-model)
4. [Runs, bounds and what they show](#4-runs-bounds-and-what-they-show)
5. [Fairness](#5-fairness)
6. [Proofs](#6-proofs)
7. [Where the code departs from what it says](#7-where-the-code-departs-from-what-it-says)
8. [What is not modelled](#8-what-is-not-modelled)
9. [Plan](#9-plan)

## 1. Inventory

| Component | State | Operations | Correct when | Status |
|---|---|---|---|---|
| Durable dispatch outbox (`application/durable_dispatch.py`, relay task in `worker/tasks.py`) | `durable_dispatch_intents` | enqueue in the caller's transaction; recover stale claims, claim a batch, publish, settle | a committed change has its message sent at least once, or dead-lettered; attempts are bounded; settled rows stay settled | modelled |
| Render dispatch (`application/production_dispatch_service.py`) | `production_render_jobs` (generation, dispatch time), intents | allocate with first intent; stall sweep: discover, re-check under locks, redispatch or give up | one generation after the other; a job never waits for a message nobody will send | modelled |
| Render execution and lease (`application/render_service.py`, `production_render_lease_service.py`, `production_heartbeat_runner.py`) | job row with lease, fence, token; `media_artifacts` | Phase 1 claim, Phase 2 render, Phase 3 finalize; heartbeat, renew, expire | one execution renders a job; a lease marks a running job; success has its video | modelled |
| ProductionRequest lifecycle (`application/production_lifecycle_service.py`) | `production_requests` | fail, cancel, reconcile, orphan and lease sweeps, terminal wake-up | terminal is final; whoever ends the last job moves the request on and wakes the Mission | modelled |
| Production service and API (`application/production_service.py`, `api/production.py`) | requests, scenes, `render_plans` | prepare, render, rerender, cancel | versions unique; reopened only with new work | partly |
| Mission orchestrator (`application/orchestrator.py`) | `missions`, `tasks`, dispatch intents | evaluate the DAG, dispatch, complete | order of the DAG, approval gate, earned outcome | modelled |
| Mission and task services (`application/mission_service.py`, `task_service.py`) | the same | plan, start, pause, resume, cancel, approve, reject | epoch fencing, terminal is final | partly |
| Mission planning (`application/planner.py`, `domain/dag.py`) | none | a fixed chain of seven stages; DAG validation | acyclic | partly |
| Celery worker tasks (`worker/tasks.py`) | none of its own | `execute_task`, render task with its bootstrap failure, sweeps, relays | a message may be lost or repeated without harm | partly |
| Scheduler (`application/scheduler/`) | policies, decisions, reservations, a second outbox | evaluate and allocate a slot, fence, dispatch, expire, recover, relay, redrive | a slot is given out within its limits; what is dispatched has its outbox row | modelled |
| Publisher calendar (`application/publisher/calendar_service.py`) | the same reservations | schedule, reschedule, cancel, hold, release | one active entry per intent | partly |
| Publisher (`application/publisher/`) | intents, attempts, upload sessions, handoffs | create, approve, publish chunk by chunk, reconcile, hand off, requeue | no upload is lost sight of; published means the provider has the video | modelled |
| Recurring schedules (`application/scheduler/recurring_*.py`, `adapters/`) | schedules, versions, occurrences, bindings | life cycle, materialize what is due, dispatch, recover | an occurrence takes effect once; no tick is passed over | modelled |
| Content campaigns (`application/campaign_admission_service.py`) | campaigns, items, bindings | start, pause, resume, cancel, admit, materialize, finalize | a finalized campaign is over | modelled (admission) |
| Autonomy (`application/autonomy/`) | loop pointer, iterations, plans, attempts, ledger, reservations | allocate, plan, dispatch in three transactions, reconcile, pause, resume, cancel, reset | caps hold; one open iteration; an action is called once | partly: no approvals |
| Network egress (`application/network/`) | routes, breakers, checks with decisions, permits | preflight around its probes, breaker, fence | limits hold | not modelled; the others see a preflight that permits or denies |
| Topics and selection (`application/topic_service.py`, `content_selection_service.py`) | candidates, topic memory, selection runs | ingest, evaluate, select, reject; rank, finalize | a candidate is claimed once; the memory counts what happened | not modelled; a selected topic is given |
| Research and content (`application/research_service.py`, `content_service.py`) | requests, versions of briefs and scripts, hooks | create, run, rerun, cancel, choose a hook, QA | one version is current; a Mission goes on only with what is sufficient and passed | partly: texts, claims and citations are data |
| Guardian (`guardian/`) | decisions, exceptions, own outbox | verdicts, detectors | a verdict is applied once | partly: its verdicts on Missions and renders |
| Analytics, learning, observability, visual and rendering pipeline, TTS, vault, channels, API, frontend, migrations | data | data | (see section 8) | not modelled |

How they interact:

    user calls ─► Mission ◄── Guardian verdicts
                   │  ▲ evaluation message: after the commit, or an intent of the outbox
      evaluation   │  │
                   ▼  │
          durable_dispatch_intents ──relay──► broker ──► execute_task
                   ▲                                        │ production stage
                   │ same transaction                       ▼
          stall sweep ─► production_render_jobs ◄── allocate_render_job
                             ▲   │ lease, fence
          lease sweep ───────┘   ▼
          orphan sweep ─► production_requests ──terminal wake-up──► outbox ─► evaluation

- Rows are shared state; locks are `SELECT ... FOR UPDATE`, request before job.
- A message is sent by an intent committed with the change it belongs to. The exceptions are evaluations sent by `.delay`
  after a commit; those may be lost.
- A Mission hears of the end of its render only by the wake-up intent of the terminal transaction.

Beside this chain stand the parts that decide *when* work is done, and the last stage, which leaves the system:

    selected topic ─► research ─brief─► content ─script─► production stage of execute_task
    recurring schedule ─occurrence─► Mission, or item of a campaign ─► Mission
    autonomy loop ─plan─► budget, subsystem
    task / calendar ─evaluation─► reservation ─fence, sweep─► scheduler outbox ─relay─► execute_task / execute_publish
                                        ▲                                                   │ chunks
                        retry handoff ──┴── failed attempt ◄──────── provider ◄─────────────┘
                                                          reconciliation ──► intent, attempt

## 2. What makes it hard

The list, line by line, is under `hazards` in `PROJECT.json`. Its themes:

- **The identity map.** Sessions are made with `expire_on_commit=False` and no query asks for `populate_existing`. A row
  read once keeps, in that session, the values of its first read: a later `FOR UPDATE` locks the row and does not refresh the
  object. A check under a lock may therefore judge a state that is minutes old. An `UPDATE` writes only the attributes that
  differ from the remembered ones. Every model carries what a session remembers (`eval[e].mem`, `resume`, `exec[e].seen`,
  `mission`, `cancel`, `fail`, `relay[r].claim`), and a rollback, which does expire the objects, is modelled where the code does one.
- **`now()` is the start of the transaction** in PostgreSQL, so an expiry test in a transaction opened before a long render
  never fires.
- **Celery acknowledges early** and the relay publishes before it commits SENT: a message may come never, once or often.
- **Workers die** between any two commits; heartbeats run in a thread that outlives the render unless it is stopped.
- **READ COMMITTED**: discovery without locks, then a re-check under them.
- **Overlapping evaluations** of a Mission, because the Guardian is asked without the lock.
- **Locks that end early.** A commit inside a batch gives back every lock of the batch. The dispatching sweep of the recurring
  schedules and the campaign reconciler go on with rows they no longer hold; the network preflight commits and closes the
  session of whoever calls it, in the middle of a reconciliation.
- **A provider that answers late or not at all.** The last chunk of an upload may have arrived though the call failed; a lease of
  three minutes may run out between any two steps of its worker.

## 3. Modules and the code they model

`PROJECT.json` maps every definition to its lines. Definitions marked "Mutant" in a comment are plausible wrong versions of
the one below them; no specification uses them, they document what each property is able to detect.

### DispatchOutbox: the contract of the outbox

An intent is absent, active, sent or dead; it is settled only after the broker was handed its message and never reopened.
Nothing is promised about duplicates. `DurableDispatch` implements it (`ImplementsOutbox`); `RenderPipeline` uses its
actions for the intents of its jobs, so the two modules compose through the contract.

### DurableDispatch: `application/durable_dispatch.py`

| Model | Code |
|---|---|
| `txn[p]`: `LookUp`, `Insert`, `Commit`, `Rollback` | `enqueue`, `enqueue_async`: lookup, savepoint insert, adoption of the row of a rival after the identity check |
| `RecoverStaleClaims`, `ClaimBatch` | claims older than five minutes; `FOR UPDATE SKIP LOCKED` batch, counted and tokened |
| `SendTask`, `MarkSent`, `MarkRetryOrDeadLetter`, `SkipTokenless` | the loop of `relay_batch`, one commit per step |
| `CrashRelay`, `ClaimAges`, `RetryFallsDue` | death of the process; time |

A claim token is a fresh uuid drawn with each increment of `attempt_count`, so the attempt number stands for it. After a
rollback the objects of a batch are expired and the token is re-read from the row: `relay[r].expired` says so, and a slow
relay may take up the token of the relay that overtook it.

### RenderPipeline: one ProductionRequest

`status`, `outcome`, `plan` are the request; `job[j]` its render jobs in order of creation; `art[j]` their artifacts;
`intent`, `handed` the contract's state of message `<<j, generation>>`; `exec[e]` a render task with its memory and
heartbeat thread; `sweep[s]` what a stall sweep has discovered; `wake` the keys of committed Mission wake-ups.

| Model | Code |
|---|---|
| `Prepare`, `MissionReads`, `Allocate` | `prepare`, the production stage of `execute_task`, `allocate_render_job` with its dispatch |
| `Handoff`, `Close` | the outbox, by its contract |
| `DiscoverStall`, `ReconcileStall` | `production_dispatch_service`: phase A without locks, phase B with them |
| `StartRender`, `PreRenderHold`, `BootstrapFails` | Phase 1 and its refusals; `_fail_render_bootstrap` |
| `EndRender`, `Finalize`, `FinalizeFails`, `RecordRenderFailure`, `RecordFinalFailure`, `Lose...` | Phases 2 and 3, and the failure record, which differs before and after a rollback |
| `Heartbeat`, `SelfFence`, `LeaseLapses`, `GraceEnds` | heartbeat runner, 70 s self-fence, 90 s lease, grace |
| `ExpireLease`, `ReconcileRequest` | lease sweep; `reconcile_production_request` as the orphan sweep calls it |
| `CancelRead/Write`, `FailRead/Write`, `OwnerFails` | the calls that read the request without a lock |

Every transaction that locks the request before it reads is one step. The cancel call reads without a lock and is two
steps: read, then one atomic write (its `UPDATE` holds the row until the commit). So is a fail call with `lock=False`. A
wake-up key is per request and status, or per request and job. FFmpeg, QA and files are one step that passes or fails.

### Mission: one Mission

`task[t]` is the row; `eval[e]` an evaluation with `mem`, the rows its session remembers (`Unread` before the first
read); `keys` the idempotency keys of dispatch intents; `fresh` the tasks with an undelivered message; `due` an
evaluation message under way; `work[w]` an `execute_task` call; `resume[r]` the epoch a resume call read.

| Model | Code |
|---|---|
| `Plan`, `Start`, `Pause`, `Cancel`, `ApproveTask`, `RejectTask` | services and API; approve and reject go on to evaluate in the same session, which remembers the approved row |
| `ResumeRead`, `ResumeBlocked`, `ResumeWrite` | `resume_mission` around its unlocked Guardian check |
| `BeginEvaluation` | steps 1 to 4 under the lock: cancellation cascade, readiness, approval gate, finished renders; commit |
| `GuardianCheck` | unlocked verdict: allow, hold, pause, force fail; the last two write the Mission whatever its state |
| `DispatchTasks`, `FailMission`, `EndEvaluation`, `CompleteMission` | dispatch, outcome, final Guardian check and SUCCEEDED |
| `StartTask`, `RefuseTask`, `StartOrAwaitRender`, `Correlate`, `TaskSucceeds`, `TaskFails` | `execute_task` |
| `RenderEnds` | what `RenderPipeline` does to the Mission: the job ends, the wake-up is committed |

`Flush` writes what differs from the session's memory, as SQLAlchemy does. The synchronous and asynchronous orchestrators
are one set of actions. `done`, `approved` and `forced` are history variables. `MissionExecution.state` follows
`Mission.state`, guards nothing here and is left out.

### Publish: one publication

`intent[i]` are the revisions of the PublishIntent of one task, `attempt[a]` a PublishAttempt with its UploadSession, `provider[a]`
the session the provider made for it, `worker[w]` an `execute_publish` call, `recon[r]` a reconciliation by a worker or by the
sweep, `handoff[a]` the retry handoff. An attempt is made by the claim that creates it, so its number stands for the
claim token and the `attempt_generation`.

| Model | Code |
|---|---|
| `Create`, `Approve`, `CancelIntent` | `intent_service`: a new revision supersedes the active one, even a CLAIMED one |
| `Refuse`, `Claim`, `Block`, `Break` | the first transaction of `execute_publish` and the gates before the upload |
| `LookForPrior`, `AfterPrior` | the query for prior sessions and what follows from their reconciliation |
| `InitializeUpload`, `Fence`, `PutChunk`, `NextChunk`, `Complete` | the session, and the two transactions around each chunk |
| `Ambiguous`, `RetryLater`, `FailForGood` | the classification of exceptions and their records |
| `Settled`, `Expired`, `Denied`, `Permitted`, `QueryProvider`, `Apply` | `reconcile_attempt_detailed`; between `Permitted` and `Apply` no lock is held |
| `RelayClaim`, `Deliver`, `DeliveryFails`, `Requeue` | handoff relay and the operator's requeue |

A request may reach the provider and its answer not the worker.
`CancelIntent` is an operation of the service that only a test calls today; it is kept so that the properties hold with it.

### Campaign and RecurringSchedule: occurrences and the items they admit

`Campaign` is a campaign of lazily admitted items with the Missions bound to them; `caller[c]` is a `reconcile_campaign`
or `cancel_campaign` call and `lock` the caller that holds the advisory lock of the channel and the Campaign row.
`RecurringSchedule` EXTENDS it: the two components share the items, the limit and the lock, so their composition is the
specification that is checked.

| Model | Code |
|---|---|
| `StartCampaign`, `PauseCampaign`, `ResumeCampaign`, `CancelCampaign`, `CancelMission`, `FinishCancel` | the API's calls; a cancel goes over its Missions one by one |
| `Reconcile`, `Materialize`, `MaterializeFails`, `StartMission`, `StartReady`, `Reserve`, `CommitReserve`, `Finalize` | a round of `reconcile_campaign`, which has its locks only to its first commit |
| `Activate`, `PauseSchedule`, `CancelSchedule`, `Edit` | `recurring_scheduler_service` |
| `MaterializeDue` | phase 1 of the sweep: ticks, missed-run policy, the next due time |
| `SelectPending`, `Mark`, `CheckBinding`, `MakeMission`, `AdmitItem`, `AdmitNothing`, `AdapterRaises`, `HandleException` | phase 2, one commit per occurrence, with both adapters |
| `ExpireWait`, `RecoverStale` | `reconcile_stale_occurrences` |

A cron expression is the set of times it denotes and an interval a number of steps; time zones are left out.

### ScheduleDispatch: the scheduler of one channel

`reservation` is the sequence of ScheduleReservation rows with what each pins (epoch, policy, task), `outbox[r]` the
SchedulerDispatchOutbox row of a reservation, `evaluator[v]` an evaluation that holds its advisory lock, `relay[q]` a relay
with its copy of the claimed row.

| Model | Code |
|---|---|
| `Evaluate`, `Insert`, `ActivatePolicy` | `evaluation_engine`, `slot_allocator`, `policy_service` |
| `ScheduleIntent`, `RescheduleIntent`, `CancelSchedule`, `SetManualHold`, `ReleaseManualHold` | `calendar_service` |
| `RejectDue`, `DispatchDue`, `Expire` with `Fence` | `dispatch_fence`, the dispatch and expiration sweeps |
| `Consume`, `ReleaseDead`, `SendAgain` | the recovery sweep of stale DISPATCHING rows |
| `ClaimRow`, `SendTask`, `Acknowledge`, `RelayDies`, `Redrive` | `outbox_relay` |
| `RunTask`, `EndTask`, `RunPublish`, `EndPublish`, `MissionMoves` | the workers, the publisher and the Mission as the scheduler sees them |

RELEASED, EXPIRED and CANCELLED reservations are one state: no code tells them apart. A window of the day is a slot.

### Autonomy: one loop

`state` and `current` are the pointer, `phase`, `plan`, `outcomes`, `funds` the rows of each iteration, `worker[i]` what the process
that dispatches plan `i` does next, `ledger` the spend, `events` the dedupe keys of the event log, which are unique and so a guard.

| Model | Code |
|---|---|
| `Pause`, `Resume`, `Cancel`, `CompleteIteration`, `ResetFailure` | `loop_service` |
| `Tick`, `PlanOnly` | the tick of `worker/tasks.py`; allocation and plan alone |
| `Dispatch`, `CommitIntent`, `CallSubsystem`, `RecordOutcome`, `Die` | `dispatch_service`: transactions A, A2, the call, B |
| `Fits`, `Reserve`, `Capture`, `Settle`, `RolledOver` | `budget_service` |
| `Reconcile` | `reconciliation_service` and its sweep |

### Editorial: the research and the content task of one Mission

`research[r]` are the ResearchRequests the task came to have, with the versions of their brief, `content` the
ContentGenerationRequest with its scripts, `worker[w]` a task or an API generation with what its session remembers, `cancelling`
and `qa` the calls that decide on what they read without a lock, `accepted` what the tasks answered to the Mission.

| Model | Code |
|---|---|
| `FindResearch`, `CreateResearch`, `RunResearch`, `ReuseResearch` | `_execute_canonical_research` and `research_service` |
| `CreateContent`, `GenerateContent`, `ReuseContent` | `_execute_canonical_content` and `content_service` |
| `RunAgain`, `BeginGenerate`, `GenerateAgain` | reruns and regenerations of the API |
| `BeginCancel`, `CommitCancel`, `SelectHook`, `DeselectHook`, `OpenQA`, `JudgeQA`, `CommitQA` | the API's other calls |

A provider may write any script; QA judges the same script the same way, because text, DNA and brief are pinned.

### MC modules, proof modules

The `MC*` modules add symmetry and instance definitions.
The theorems about a component are in its `*_proofs` module, and nowhere else: `DurableDispatch_proofs`,
`RenderPipeline_proofs`, `Mission_proofs`, `Publish_proofs`, `RecurringSchedule_proofs` (with `Campaign`, which it extends),
`ScheduleDispatch_proofs`, `Autonomy_proofs` and `Editorial_proofs`. Section 6 says what they show.

## 4. Runs, bounds and what they show

| Run | Instance | Distinct states | Question |
|---|---|---|---|
| `dispatch_safety` | 2 keys, 2 identities, 2 producers, 2 relays, 2 attempts, batches of 2 | 1.3 M | does a commit always have its intent, are retries bounded, is settled final, is the contract implemented? |
| `dispatch_liveness` | 2 keys, 1 producer, 2 relays, batches of 1 | 58 k | is every intent settled? |
| `render_settles` | 1 job, 3 generations, 2 executions, 2 stall sweeps | 34 k | does a job of a Mission end, and wake its Mission? |
| `render_rerender` | 2 jobs, 1 generation, render and rerender side by side, failed owner, stalls, lost records | 1.5 M | is each job rendered once, has success its video, who may displace it? |
| `render_calls` | 1 job, 2 generations, a cancel, a fail, a failed owner, stalls | 254 k | do leases, jobs and request stay in step under every race? |
| `mission_safety` | 2 dependent tasks (one gated), 2 evaluations, 1 worker, 1 resume, 3 epochs, every call, crash, hold, 1 repeated message | 1.4 M | do order, gate, outcome and tokens survive overlapping stale evaluations? |
| `mission_progress` | chain of stage, production, gated stage; 2 evaluations, 2 workers | 6 k | are transitions legal, does the Mission end or wait for its user? |
| `publish_safety` | 2 revisions, 2 attempts of 2 chunks, 2 workers, the sweep, 1 relay, 2 messages | 4.1 M | is every upload known to the database and found by the next claim, and is published what the provider has? |
| `recurring_safety` | 2 versions (cron into the campaign, interval into Missions), 2 times, 2 sweeps, a campaign of 1 item, 1 caller | 1.8 M | does an occurrence take effect once, is no tick passed over, is a finalized campaign over? |
| `schedule_slots` | 1 task and 1 publication, 1 slot, 2 evaluations, 1 relay, 2 reservations, 1 fault | 3.0 M | does the allocator keep its limits, has each dispatch its row? |
| `autonomy_safety` | 2 iterations, 4 kinds of plans, 1 midnight, caps of 3 and 2 quarters | 389 k | are cap, single open iteration and single call kept? |
| `editorial_safety` | 2 workers, 2 requests, 2 versions, 2 hooks, 3 calls of the API | 451 k | is one version current, is what a Mission accepts sound? |

Why these bounds are enough for the cases in question:

- Two identities meet on one key; two relays can overtake each other on one row; with two attempts a row goes through a
  retry, a recovery and a dead letter. The proofs cover all numbers.
- Three generations give a first, a middle and a last dispatch. Two executions make duplicates possible; a job is started
  once, so a third adds nothing (and `RenderedOnce` is proved for any number). Two jobs make every order of rerenders.
- `mission_safety` has one retry (so a task goes FAILED, READY, FAILED), three epochs (pause, resume, stale token), and two
  evaluations, the least that overlap. Production tasks are left to `mission_progress` for size; the same
  instance with a production task, and without crashes or holds, passes as well (13 M states), and the proofs cover both together.

- `publish_safety`: two workers are the least that take a claim over from each other; two attempts give a prior session and its
  successor; two chunks give a first and a final one. What the run checks is proved for all numbers. That there is one
  unresolved upload at a time holds on this instance and not beyond it, so it is no property of the run (section 7).
- `recurring_safety`: two sweeps are the least that select the same row; two times give a batch of which one row is dispatched
  after the locks are gone; two attempts give a retry and the last failure. One caller: `FinalizedIsOver` does not
  hold for two (section 7), which the property's comment says.
- `schedule_slots`: one slot and a limit of one make every second allocation a conflict; a task and a publication are of two
  categories, so locks of both are in play. Two reservations make a newer one that supersedes. A row is sent once before it is dead:
  the relay claims a RETRY row under the guard of a PENDING one.
- `autonomy_safety`: a second iteration may begin while the first is dispatched; caps below two of the dearer plans make
  every reservation a decision; one midnight separates yesterday's reservations from today's.

- `editorial_safety`: a second version is the least that supersedes; two workers are the least of which one retries while the other
  regenerates, or that each make a request; three calls let a rerun, a cancel and a QA (or a hook) meet one worker. With four calls
  there are 2.0 M states and no error.

Properties that restrict the environment say so in their place: `MissionSettles` holds for a Mission
that nobody pauses, cancels or rejects and whose messages come once. `TransitionsLegal` holds, and is proved, for a Mission that
nobody cancels or resumes and whose messages come once, with a plan in a line, which is the one the planner makes
(`planner.py:159`): pauses, rejections and crashes do it no harm. `TerminalWakesMission` holds, and is proved, for a single job with
at most one cancel call and no unlocked fail call. Where a wider environment breaks them, section 7 shows how. `CHECK_DEADLOCK FALSE` is set where the system really stops: all
calls made, all jobs ended. The outbox never stops, and there deadlock is checked.

## 5. Fairness

- **Outbox**: beat starts the relay every 5 s, time passes, and a running relay goes on. Strong fairness of `ClaimBatch`
  says that a relay is not killed between its first two statements every single time. Producers owe nothing; crashes and
  failed publishes may happen for ever, because attempts bound them.
- **Render**: `Close` of an intent is weakly fair because of `EventuallySettled` above. Sweeps run each minute, workers that
  live go on, time passes. Delivery is **not** fair: each message may be lost and each worker may die. The stall
  and lease sweeps are switched off by default (`config.py:46`, `:51`); liveness holds for a deployment that turns them on.
- **Publish, RecurringSchedule, ScheduleDispatch, Autonomy**: no fairness is assumed and no liveness stated. Each of these
  can stop for good in the code as it is (section 7: a fence that raises, a loop that nobody resets, a dead-lettered
  dispatch), so a promise of progress would have to exclude the very cases that matter. **Editorial** answers calls; nothing in
  it has to happen by itself.
- **Mission**: evaluations and executions that live go on, the outbox delivers, renders end (`JobsEnd`). Users owe nothing,
  so the Mission may wait at a gate for ever. Workers that die are excluded from `mission_progress`, because nothing in the
  code brings back the RUNNING task of a dead worker.

## 6. Proofs

Each proof module shows `Init => IndInv`, `IndInv /\ [Next]_vars => IndInv'` and derives its theorems. The assumptions are
those of the component modules: bounds are natural numbers, the environment constants have their types; Relay
is finite, because attempts are counted against a cardinality. Three theorems assume more of the environment, in their own
`ASSUME`: `FinalizedStaysOver`, `TransitionsAreLegal` and `TerminalIsAnnounced`. None of it can be dropped: without any one of the
restrictions, TLC finds the property violated.

**DurableDispatch_proofs.** `DeliveriesCounted` is not inductive: what is in a relay's hands will still be delivered.
`DeliveryInv` counts deliveries plus the relays that still have the row in their batch against the attempts of the row;
claiming adds one to both sides, delivering moves one across. `TxnInv` says at most one transaction holds an absent key;
`RelayInv` that relays work on rows that exist, and call `mark_sent` after a delivery. Theorems: types, transactional
outbox, bounded deliveries, nothing stranded, tokens mark claims, settled is final, the refinement
`Spec => ImplementsOutbox`, and through it `SentWasHanded`.

**RenderPipeline_proofs.** The core is `TokenInv`: an execution that has started is the owner of its job for good and the job
is no longer QUEUED, so `MayStart` can never admit a second one. `LeaseMarksRender`, `SuccessHasEvidence`,
`RunningHasWork` and `DispatchFollowsGeneration` are proved with it because the stale checks of Phase 3 are safe only
together: `OutlastsPhase2` protects a finished job only as long as a lease marks a running or cancelled one. Action
properties (`FinishedJobsFrozen`, `CurrentGivesWayToAccepted`, `ReopenedWithDispatch`) follow from the same invariant.
That the end of a request is announced (`TerminalIsAnnounced`) is about keys: an enqueue under a key that is there adds nothing. So
`WakeInv` reads each key backwards, as what must have happened already: a job's, that the job ended; the cancel's, that it
returned; a status's, that the request is terminal with its job allocated. `Wakes` lists the wake-ups a step may commit, and none of them is
known before. It takes one job and one cancel for that: with a second of either a key is used twice.

**Mission_proofs.** Neither the order of the DAG nor the approval gate is inductive: a dispatch believes the remembered row,
not the table. `OrderInv` says what a state *vouches for*, in the table and in every memory alike: SUCCEEDED for its own
success, WAITING_APPROVAL for its prerequisites, READY, QUEUED and RUNNING for both and the approval. What is
vouched for is never taken back (`done` and `approved` only grow), so memories may be arbitrarily old. `TokenInv`
ties the epoch of each row to a committed intent; `OutcomeInv` says that memory is never ahead in retries, which makes
FAILED sound on stale rows. Two lemmas, `TokensKept` and `OutcomeKept`, reduce most actions to what they leave
alone; only `DispatchTasks` needs an argument of its own. Theorems hold for every DAG (even a cyclic `Prereq`), any numbers
of evaluations, workers and resume calls, and every environment, crashes, repeats and Guardian verdicts included.
`TransitionsAreLegal` needs more, for the code writes QUEUED and READY from memory. On a plan in a line, `LineInv` shows that one
thing at a time carries the Mission on (`OneCarrier`): a wake-up, an evaluation with something to dispatch, a dispatch intent,
a worker, a gate or a render. `InOrder` says that tasks behind it have succeeded and tasks ahead are untouched, `CarriedInv` that
its memory of the one task it moves is the truth. Here alone repeats, cancel and resume are assumed away.

**Publish_proofs.** A publication is safe by what several transactions remember of each other. `RowInv` ties the rows of an attempt
together: a session row only with its attempt, open states while the end of the upload is not on record, bytes only with the row.
`WorkerInv` (`Serves`) says what a worker at each of its steps may rely on although its claim may have been taken over: whose
session it drives, that the row is there from the first fence on, that it is below the end of the video, and that an answer
"complete" means the video is there. `ReconInv` says the same of a reconciliation between its permit and its result. Claims
are numbered without gaps (`Numbered`), which makes the new one's rows fresh, and no two workers have one claim (last part of `WorkerInv`).
`UploadsStayFindable` then says that until its end is on record, an upload that has begun is in the set the next
claim's query looks at.

**RecurringSchedule_proofs.** `RowInv` says of each occurrence that what is DISPATCHED has its binding, a binding its row, and that one
Mission at most was made, and then with its binding: the unique binding is what makes sweeps that hold the same row harmless. `Well` says what
a sweep may hold of rows whose locks it has given back: rows that exist, with an attempt left when they were read.
`ScheduleInv` puts the next due time of an active schedule after all rows and on its cron expression; from it and two lemmas on
times, `WalkOfTicks` (what the iterated search for the next tick has visited) and `AllVisited` (it leaves none out), follows `NoTickLost`.
The materialization's recursive walk is reasoned about by a least counterexample, not by induction.
`FinalizedStaysOver` assumes one caller, the restriction of `FinalizedIsOver`; the other theorems assume nothing. The steps of the
campaign are proved once, in lemmas that do not know the schedule (`CampaignStep`), and every sweep that admits an item is one more step of it.

**ScheduleDispatch_proofs.** The limits are about what exists and `Insert` acts on what was counted before, so `RoomInv` says that the
count of an evaluation stays true until it inserts: all other steps only close reservations (`ShrinkStep`), except another
evaluation's `Insert`, which `LockInv` gives another category. Most actions go through one of `ShrinkStep` and `SameRowsStep`; only `Insert` needs
an argument with cardinalities. `ScheduleTypeCorrect` includes that a dispatched reservation has its outbox row. That the channel has something
to schedule (`Target # {}`) is an assumption, without which there is no idle evaluation to speak of.

**Autonomy_proofs.** `LiabilityWithinCap` sums over iterations. The recursive function `Sums` is unfolded once and for all
(`SumExists`, `SumsUnfold`); that a step of one iteration changes the sum by its amount (`OneAmount`) is shown from a least
counterexample. `AttemptInv` then says what a dispatch may rely on at each of its three transactions while other ticks, resets and
midnight pass; `LaterInv` that nothing exists of an iteration that is not allocated.

**Editorial_proofs.** A worker and a QA call decide on what they remembered; `WorkerInv` and `QaInv` say that the versions
they go on with exist. `StatusInv` ties the statuses to the versions. Nothing is ever taken from a brief that is sufficient or a script
that passed (`Grows`), which makes an accepted answer final (`AcceptedAgain`). Two lemmas, `ResearchWrites` and `ContentWrites`, reduce
every step that writes to the row it writes.

Five theorems state what no run is asked, because the invariants of the runs follow from them or stand beside them:
`TokensMarkClaims`, `NothingIsStranded`, `LeasesMarkRenders`, `ReopeningIsDispatched` and `OccurrenceMadeOnce`.

**Model-checked only.** Liveness (`EventuallySettled`, `JobsEnd`, `RequestsSettle`, `MissionSettles`) is out of the reach of
the prover, which has no rule for fairness or ENABLED. Every other property of the runs is a theorem. No induction over data is used: where a recursive
definition had to be reasoned about, a well-founded relation and a least counterexample took its place.

## 7. Where the code departs from what it says

The following are steps of the models. Each is exhibited by checking the formula given as an invariant or action
property on the configuration named:

| Code | What happens | To see it |
|---|---|---|
| `api/production.py:879` | A cancel that read RUNNING overwrites a request that has SUCCEEDED since. | `[][status = "SUCCEEDED" => status' # "CANCELLED"]_vars` on RenderCalls |
| `application/render_service.py:636` | A request that failed while its job rendered becomes SUCCEEDED: Phase 3 tests the status of Phase 1. | `[][status = "FAILED" => status' # "SUCCEEDED"]_vars` on RenderCalls |
| `application/render_service.py:1328` | The failure record of a render overwrites CANCELLED. | `[][\A j \in Job : job[j].state = "CANCELLED" => job'[j].state = "CANCELLED"]_vars` on RenderCalls |
| `application/production_lifecycle_service.py:948` | The key of the wake-up is the request and its status: a request that failed with its first job, was rendered again and fails a second time finds the key there, and its Mission is not woken. | `TerminalWakesMission` on RenderRerender |
| `application/orchestrator.py:765` | A task of a Mission cancelled during the Guardian check is queued. | `[][\A t \in Task : task[t].state = "CANCELLED" => task'[t].state = "CANCELLED"]_vars` on MissionSafety |
| `application/orchestrator.py:839` | A cancelled Mission turns FAILED at the end of the evaluation it overtook. | `[][state = "CANCELLED" => state' = state]_vars` on MissionSafety |
| `application/publisher/publish_service.py:987` | A worker takes over a claim whose lease ran out while the first worker's last chunk is answered; the query for prior sessions leaves SUCCEEDED out (`:833`), the fence asks for token, generation and lease only, and a second session is made for a finished video, against `docs/publisher-recovery-runbook.md:61`. | `[][\A a, b \in Attempt : provider[a].known = "never" /\ provider'[a].known = "open" /\ attempt[b].intent = attempt[a].intent => attempt[b].state # "SUCCEEDED"]_vars` on PublishSafety |
| `application/publisher/publish_service.py:991` | An intent comes to have two unresolved uploads, against `docs/publisher-recovery-runbook.md:27`. The fence commits the session row it flushed even when the lease is lost, and the query for prior sessions takes only the latest (`:848`), so two workers that each found none open each begin one. | `\A a, b \in Attempt : attempt[a].intent = attempt[b].intent /\ provider[a].offset > 0 /\ provider[b].offset > 0 /\ ~Ended(a) /\ ~Ended(b) => a = b` on PublishSafety with `MaxIntents = 1`, `MaxAttempts = 4`, `MaxQueue = 4` and `Relay = {}` |
| `application/orchestrator.py:765` | Of two evaluations that both remember a task READY, one queues it and a worker starts it; the other writes QUEUED over RUNNING. | `TransitionsLegal` on MissionProgress with `Prereq` of the last task changed so that two tasks become ready at once |
| `application/research_service.py:506` | A research request cancelled after the worker looked it up is run: the test under the lock judges the object read before. A content request likewise (`content_service.py:298`). | `[][\A r \in Request : research[r].status = "CANCELLED" => research'[r].status = "CANCELLED"]_vars` on EditorialSafety |
| `worker/tasks.py:860` | Two executions of one research task create two requests, for no key makes one unique, and every later execution raises on finding both. | `Cardinality(Known) <= 1` on EditorialSafety |
| `application/campaign_admission_service.py:842` | With two reconcilers the second finalizes beside a first that still admits. | `FinalizedIsOver` on RecurringSafety with `Caller = {c1, c2}` |

Met while modelling, visible in the models, and without a run of their own:

- `application/render_service.py:546`: when a render fails and its failure record is lost, the heartbeat thread goes on
  renewing the lease of a job nobody renders until the process ends.
- `application/render_service.py:665`: Phase 3 compares the lease with the start of its transaction, so a worker whose lease
  has expired but not yet been swept may finalize.
- `application/render_service.py:1394`: a second render job's failure turns a SUCCEEDED request FAILED; a rerender
  reopens a SUCCEEDED one (`application/production_service.py:443`).
- `application/production_service.py:368`: the production stage allocates on a READY it read earlier.
- `application/mission_service.py:799`: resume computes state and epoch from its old object: a cancel in between is
  lost, and an epoch may come back.
- A task QUEUED under an older epoch is refused by its worker and dispatched by nobody; a rejected task is FAILED with retries
  left, and its Mission stays RUNNING; a worker that dies leaves its task RUNNING.
- `worker/tasks.py:1345`: a render that ends before the task row names it is not noticed by the evaluation it wakes
  (`SlowRenders` is the assumption that it does not).
- Publisher: a last chunk whose answer is lost as a transient error makes the attempt RETRYABLE_FAILED, and the retry does not
  reconcile it (`publish_service.py:1154`, `:833`); a slow worker's failure overwrites SUCCEEDED and releases a PUBLISHED intent
  (`:1326`); an attempt UNKNOWN whose session is incomplete is reconciled for ever and resumed by nobody; the
  sweep's `in_([None, ...])` never matches a NULL (`reconciliation_service.py:363`); a new revision supersedes
  an intent in the middle of its upload (`intent_service.py:140`), which then ends PUBLISHED or APPROVED.
- Recurring schedules: SKIP_MISSED also skips the occurrence that is on time (`domain/recurring_schedule.py:371`); WAITING is never
  retried before its deadline; of more than 50 missed ticks the rest is lost (`recurring_sweep_service.py:185`); an interval drifts
  with the sweep (`:168`); two sweeps lose a count of attempts (`:278`).
- Campaigns: a Mission may be started under a CANCELLED campaign; a reservation and a cancel take their locks in opposite order;
  `logger` is not defined where it is used (`campaign_admission_service.py:508`).
- Scheduler: each evaluation of the orchestrator has an `earliest_start_at` of its own (`orchestrator.py:316`), so a task collects
  ACTIVE reservations, of which a fence with two newer ones raises (`dispatch_fence.py:308`); gap and daily cap span categories and
  the locks do not (`slot_allocator.py:79`); the calendar asks no allocator and pins epoch 1; `ReleaseManualHold` may follow a
  cancel; a dead letter leaves its task QUEUED (`sweep_service.py:337`); the relay's claim changes no status
  (`outbox_relay.py:150`), so a second relay sends the row again; a released reservation's row is still sent
  (`api/scheduler.py:221`).
- Autonomy: transaction B overwrites PAUSED and CANCELLED (`dispatch_service.py:367`; `api/autonomy.py:289` says "terminate a
  loop permanently"); a second pause or resume in one iteration breaks the unique event key (`loop_service.py:424`), and the loop
  stays PAUSED; `reset_failure` leaves the iteration open, so an IDLE loop allocates no more (`:546`); a dead dispatch keeps its
  reservation for ever; capturing yesterday's reservation is charged to today (`budget_service.py:219`, against the comment in `:82`); an
  approval is looked up under the plan's id (`dispatch_service.py:141`) and never found.
- Content: the outcome of a request is not written when it equals the one remembered before the lock (`content_service.py:595`), so of
  overlapping regenerations the later may leave the other's; a regenerated script names the user's hook and carries the provider's text
  (`:515`); an operator's rerun to INSUFFICIENT makes the content task's retry fail (`tasks.py:1047`).

Read in code that is not modelled yet:

- Network egress: only tests acquire the lease of a trial, and a success in OPEN changes nothing (`application/network/circuit_breaker.py:169`),
  so a breaker that tripped once stays OPEN; a check whose process died stays IN_PROGRESS under its unique key
  (`infrastructure/models.py:3222`); decisions are answered from the cache without regard to age (`preflight.py:220`).
- Topics: an evaluation writes its result over a selection committed since its unlocked read (`application/topic_service.py:535`), so a second
  run may claim the candidate; of two overlapping ingestions one discovery is not counted (`:173`).

## 8. What is not modelled

- Values: scripts, scores, prompts, scenes, files, metrics. A stage of `execute_task` succeeds or fails.
- The lock order between the bootstrap failure (job, then request) and all others: transactions are atomic steps, so a
  deadlock of two of them, which PostgreSQL resolves by aborting one, is seen as a crash.
- Phase 1 of a render is taken to be shorter than the lease; clocks of workers and database are one.
- Network egress control: permits, probes and breaker of outgoing calls. The models see its verdict, and that it commits and
  closes the session it is handed.
- Topic candidates, their memory and the selection runs; sources, claims, evidence and conflicts of research; sections and
  citations of scripts.
- Requests for approval in the autonomy loop, and its guardian context: no code path creates a request that a dispatch finds.
- Two concurrent `release_manual_hold` calls of one intent, drafting of campaigns, the priority score, OAuth exchange.
- Time zones, daylight saving and the text of cron expressions.
- Analytics, learning, observability, the visual pipeline, TTS, channels, vault, frontend and migrations:
  data processing, pure I/O or single-row workflows without a protocol.

## 9. Plan

1. Done: DispatchOutbox, DurableDispatch, RenderPipeline, Mission, Publish, Campaign composed with
   RecurringSchedule, ScheduleDispatch, Autonomy and Editorial, with their runs; every safety and action property of
   the runs proved.
2. Next, proofs: an abstract Publication (unpublished, uploading, published)
   that Publish implements, and the same for the campaign and its items.
3. After that: network egress with its breaker, topic selection, the Guardian's own outbox, analytics quota, and the pure algorithms (DAG
   validation, priority) against reference definitions.
