--------------------------- MODULE RenderPipeline ---------------------------
(***************************************************************************)
(* One ProductionRequest of OMEGA and everything that drives it to a       *)
(* terminal status: the callers that allocate render jobs, the dispatch    *)
(* intents that carry them to a Celery worker, the workers and their lease *)
(* heartbeats, the sweeps that repair stalled dispatches and expired       *)
(* leases, and the cancel and fail calls that race all of these.           *)
(*                                                                         *)
(* PostgreSQL runs READ COMMITTED, and every transaction below except the  *)
(* cancel and fail calls locks the request row before it reads, so it is   *)
(* one step here.  The cancel and fail calls read the request without a    *)
(* lock and are two steps.  The request is linked to a Mission.            *)
(*                                                                         *)
(* Jobs are numbered in the order of their creation.  A lease token is a   *)
(* fresh uuid per execution, so the execution stands for it.  The message  *)
(* of generation g of job j is <<j, g>>: the outbox contract says when the *)
(* broker has it; a worker may receive it never, once or several times, as *)
(* Celery acknowledges early and relays may publish twice.                 *)
(***************************************************************************)
EXTENDS Naturals, FiniteSets

CONSTANTS
    MaxJobs,        \* bound: render jobs of the request
    MaxGen,         \* production_dispatch_max_generations
    Exec,           \* bound: executions of the render task
    NoExec,
    Sweeper,        \* runs of the dispatch stall sweep
    Canceller,      \* cancel calls of the API, each made once
    Failer,         \* unlocked fail_production_request calls, each made once
    Allocators,     \* who may allocate jobs: subset of Callers
    OwnerMayFail,   \* the Mission's production task may fail or be cancelled
    Pauses,         \* a worker may stall past the lease TTL before it self-fences
    RecordFaults    \* the failure record of a failed render may itself be lost

Callers == {"mission", "render", "rerender"}

ASSUME BoundsAssumption == MaxJobs \in Nat \ {0} /\ MaxGen \in Nat \ {0}
ASSUME NoExecAssumption == NoExec \notin Exec
ASSUME EnvironmentAssumption ==
    Allocators \subseteq Callers /\ {OwnerMayFail, Pauses, RecordFaults} \subseteq BOOLEAN

VARIABLES
    status,         \* ProductionRequest.status
    outcome,        \* ProductionRequest.outcome
    plan,           \* version of the latest RenderPlan, 0 when there is none
    job,            \* job[j]: the production_render_jobs row
    art,            \* art[j]: the MediaArtifact of job j
    intent,         \* phase of the dispatch intent of <<job, generation>>
    handed,         \* messages handed to the broker
    exec,           \* exec[e]: a render task, its memory and its heartbeat thread
    sweep,          \* sweep[s]: the candidate sweep s discovered
    cancel,         \* cancel[c], fail[f]: the status the call has read
    fail,
    ownerFailed,    \* the owning production task is FAILED or CANCELLED
    mission,        \* how far the production task is: it read a READY request
    wake            \* keys of the Mission evaluation intents committed

request == <<status, outcome, plan>>
dispatch == <<intent, handed>>
calls == <<cancel, fail, ownerFailed, mission>>
vars == <<status, outcome, plan, job, art, intent, handed, exec, sweep,
          cancel, fail, ownerFailed, mission, wake>>

Job == 1..MaxJobs
Gen == 1..MaxGen
Message == Job \X Gen

Status == {"DRAFT", "READY", "RUNNING", "SUCCEEDED", "FAILED", "CANCELLED"}
Terminal == {"SUCCEEDED", "FAILED", "CANCELLED"}
JobStates == {"ABSENT", "QUEUED", "RUNNING"} \cup Terminal
ActiveJob(j) == job[j].state \in {"QUEUED", "RUNNING"}

\* lease_expires_at: NULL, in the future, past, or past by more than the grace.
Leases == {"none", "valid", "lapsed", "overdue"}

NoJob == [state |-> "ABSENT", gen |-> 0, stalled |-> FALSE, lease |-> "none",
          fence |-> 0, token |-> NoExec, version |-> 0]
JobRow == [state : JobStates, gen : 0..MaxGen, stalled : BOOLEAN, lease : Leases,
           fence : Nat, token : Exec \cup {NoExec}, version : 0..MaxJobs]

\* seen: the request status of the ORM object the session keeps from its first
\* read.  heart: the heartbeat thread, which outlives the task if not stopped.
IdleExec == [pc |-> "idle", job |-> 1, fence |-> 0, heart |-> "off", seen |-> "DRAFT"]
Steps == {"idle", "rendering", "finalizing", "recordRender", "recordFinal", "done"}
ExecState == [pc : Steps, job : Job, fence : Nat,
              heart : {"off", "beating", "lost", "fenced"}, seen : Status]

Unread == "unread"
Returned == "returned"
WakeKey == [job : Job] \cup [status : Terminal]

TypeOK == /\ status \in Status
          /\ outcome \in {"none", "RENDERED", "BLOCKED"}
          /\ plan \in 0..MaxJobs
          /\ job \in [Job -> JobRow]
          /\ art \in [Job -> {"none", "candidate", "current"}]
          /\ intent \in [Message -> {"absent", "active", "sent", "dead"}]
          /\ handed \subseteq Message
          /\ exec \in [Exec -> ExecState]
          /\ sweep \in [Sweeper -> Message \cup {<<>>}]
          /\ cancel \in [Canceller -> Status \cup {Unread, Returned}]
          /\ fail \in [Failer -> Status \cup {Unread, Returned}]
          /\ ownerFailed \in BOOLEAN
          /\ mission \in {Unread, "READY", Returned}
          /\ wake \subseteq WakeKey

Init == /\ status = "DRAFT" /\ outcome = "none" /\ plan = 0
        /\ job = [j \in Job |-> NoJob]
        /\ art = [j \in Job |-> "none"]
        /\ intent = [m \in Message |-> "absent"]
        /\ handed = {}
        /\ exec = [e \in Exec |-> IdleExec]
        /\ sweep = [s \in Sweeper |-> <<>>]
        /\ cancel = [c \in Canceller |-> Unread]
        /\ fail = [f \in Failer |-> Unread]
        /\ ownerFailed = FALSE
        /\ mission = Unread
        /\ wake = {}

Outbox == INSTANCE DispatchOutbox WITH Intent <- Message, phase <- intent

-----------------------------------------------------------------------------
(* Terminal transitions of the request. *)

\* fail_production_request on a request whose status the caller knows as `known`.
FailRequest(known) ==
    IF known \in Terminal
    THEN UNCHANGED <<status, outcome, wake>>
    ELSE /\ status' = "FAILED"
         /\ outcome' = "BLOCKED"
         /\ wake' = wake \cup {[status |-> "FAILED"]}

\* Mutant: forgets the wake-up.
FailsSilently(j) ==
    /\ status' = "FAILED"
    /\ outcome' = "BLOCKED"
    /\ UNCHANGED wake

\* What the failure paths of the worker and of its bootstrap do to the request:
\* they wake the Mission for the job.
FailRequestFor(j) ==
    /\ status' = "FAILED"
    /\ outcome' = "BLOCKED"
    /\ wake' = wake \cup {[job |-> j]}

-----------------------------------------------------------------------------
(* Preparation and allocation. *)

\* Mutant: without uq_render_plan_version.
PrepareAgain ==
    /\ plan' = plan + 1
    /\ status' = "READY"
    /\ UNCHANGED <<outcome, job, art, dispatch, exec, sweep, calls, wake>>

\* Inserts RenderPlan version 1, which can succeed only once, and makes the
\* request READY whatever its status is.
Prepare ==
    /\ plan = 0
    /\ plan' = 1
    /\ status' = "READY"
    /\ UNCHANGED <<outcome, job, art, dispatch, exec, sweep, calls, wake>>

EnqueueRender(j, g) == Outbox!Enqueue(<<j, g>>)

\* The production task holds the request object it read, or prepared, as READY.
MissionReads ==
    /\ "mission" \in Allocators
    /\ mission = Unread /\ status = "READY"
    /\ mission' = "READY"
    /\ UNCHANGED <<request, job, art, dispatch, exec, sweep, cancel, fail, ownerFailed, wake>>

\* allocate_render_job refuses a FAILED or CANCELLED request.  It selects the
\* request FOR UPDATE, but a session that has read it before keeps its object:
\* the production task checks the READY it read, and the API a fresh status.
Admits(caller) ==
    /\ caller = "mission" => mission = "READY"
    /\ caller # "mission" => status \notin {"FAILED", "CANCELLED"}
    /\ caller = "rerender" => \A k \in Job : ~ActiveJob(k)

\* Allocates the next job and commits its first dispatch intent with it.
Allocate(j, caller) ==
    /\ caller \in Allocators
    /\ job[j].state = "ABSENT"
    /\ \A k \in Job : k < j => job[k].state # "ABSENT"
    /\ plan > 0
    /\ Admits(caller)
    /\ caller = "rerender" => plan < MaxJobs
    /\ plan' = IF caller = "rerender" THEN plan + 1 ELSE plan
    /\ job' = [job EXCEPT ![j] = [NoJob EXCEPT !.state = "QUEUED", !.gen = 1,
                                               !.version = plan']]
    /\ EnqueueRender(j, 1)
    /\ status' = "RUNNING"
    /\ mission' = IF caller = "mission" THEN Returned ELSE mission
    /\ UNCHANGED <<outcome, art, exec, sweep, cancel, fail, ownerFailed, wake>>

-----------------------------------------------------------------------------
(* Dispatch: the relay, and the sweep of stalled dispatches. *)

\* What DurableDispatch does to the intent of one message.
Handoff(m) ==
    /\ Outbox!Handoff(m)
    /\ UNCHANGED <<request, job, art, exec, sweep, calls, wake>>

Close(m) ==
    /\ Outbox!Settle(m) \/ Outbox!Abandon(m)
    /\ UNCHANGED <<request, job, art, exec, sweep, calls, wake>>

\* dispatch_started_at is older than the dispatch timeout.
DispatchTimesOut(j) ==
    /\ job[j].state = "QUEUED" /\ ~job[j].stalled
    /\ job' = [job EXCEPT ![j].stalled = TRUE]
    /\ UNCHANGED <<request, art, dispatch, exec, sweep, calls, wake>>

\* Phase A reads without locks.
DiscoverStall(s, j) ==
    /\ sweep[s] = <<>>
    /\ job[j].state = "QUEUED" /\ job[j].stalled
    /\ sweep' = [sweep EXCEPT ![s] = <<j, job[j].gen>>]
    /\ UNCHANGED <<request, job, art, dispatch, exec, calls, wake>>

\* Mutant: does not ask whether the relays still own the generation.
StallUnlooked(j, g) ==
    /\ status = "RUNNING"
    /\ job[j].state = "QUEUED"
    /\ job[j].gen = g
    /\ job[j].stalled

\* Mutant: waits for a worker although the intent is dead.
StallIfSent(j, g) ==
    /\ status = "RUNNING"
    /\ job[j].state = "QUEUED"
    /\ job[j].gen = g
    /\ intent[<<j, g>>] = "sent" /\ job[j].stalled

StallConfirmed(j, g) ==
    /\ status = "RUNNING"
    /\ job[j].state = "QUEUED"
    /\ job[j].token = NoExec
    /\ job[j].gen = g
    /\ \/ intent[<<j, g>>] \in {"absent", "dead"}
       \/ intent[<<j, g>>] = "sent" /\ job[j].stalled

\* Phase B re-checks the candidate under the row locks, and either hands it to
\* the next generation or gives the job and its request up.
ReconcileStall(s, j, g) ==
    /\ sweep[s] = <<j, g>>
    /\ sweep' = [sweep EXCEPT ![s] = <<>>]
    /\ \/ /\ ~StallConfirmed(j, g)
          /\ UNCHANGED <<request, job, dispatch, wake>>
       \/ /\ StallConfirmed(j, g)
          /\ g < MaxGen
          /\ job' = [job EXCEPT ![j].gen = g + 1, ![j].stalled = FALSE]
          /\ EnqueueRender(j, g + 1)
          /\ UNCHANGED <<request, wake>>
       \/ /\ StallConfirmed(j, g)
          /\ g = MaxGen
          /\ job' = [job EXCEPT ![j].state = "FAILED"]
          /\ FailRequest(status)
          /\ UNCHANGED <<plan, dispatch>>
    /\ UNCHANGED <<art, exec, calls>>

-----------------------------------------------------------------------------
(* The worker: Phase 1 claims the job, Phase 2 renders, Phase 3 finalizes. *)

\* Mutant: trusts the generation alone to tell a duplicate delivery.
MayStartAgain(j, g) ==
    /\ <<j, g>> \in handed
    /\ status \notin {"FAILED", "CANCELLED"}
    /\ job[j].gen = g

\* Phase 1's checks.  A delivery they turn away changes nothing.
MayStart(j, g) ==
    /\ <<j, g>> \in handed
    /\ status \notin {"FAILED", "CANCELLED"}
    /\ job[j].state = "QUEUED"
    /\ job[j].gen = g

StartRender(e, j, g) ==
    /\ exec[e].pc = "idle"
    /\ MayStart(j, g)
    /\ job' = [job EXCEPT ![j].state = "RUNNING", ![j].token = e, ![j].lease = "valid",
                          ![j].fence = @ + 1]
    /\ exec' = [exec EXCEPT ![e] = [pc |-> "rendering", job |-> j, fence |-> job[j].fence + 1,
                                    heart |-> "beating", seen |-> status]]
    /\ UNCHANGED <<request, art, dispatch, sweep, calls, wake>>

\* The PRE_RENDER Guardian holds the job back.
PreRenderHold(j, g) ==
    /\ MayStart(j, g)
    /\ job' = [job EXCEPT ![j].state = "FAILED"]
    /\ FailRequestFor(j)
    /\ UNCHANGED <<plan, art, dispatch, exec, sweep, calls>>

\* The render service cannot be built: fails a job that has not started, of
\* any generation, and its request whatever its status.
BootstrapFails(j, g) ==
    /\ <<j, g>> \in handed
    /\ job[j].state = "QUEUED"
    /\ job' = [job EXCEPT ![j].state = "FAILED"]
    /\ FailRequestFor(j)
    /\ UNCHANGED <<plan, art, dispatch, exec, sweep, calls>>

\* The render ends: it failed, or passed with its QA and found the heartbeat
\* healthy, or Phase 3 failed before it took any lock.
EndRender(e) ==
    /\ exec[e].pc = "rendering"
    /\ \E pc \in {"finalizing", "recordRender", "recordFinal"} :
          /\ pc = "finalizing" => exec[e].heart = "beating"
          /\ exec' = [exec EXCEPT ![e].pc = pc]
    /\ UNCHANGED <<request, job, art, dispatch, sweep, calls, wake>>

OwnsJob(e) == LET row == job[exec[e].job]
              IN  row.state = "RUNNING" /\ row.token = e /\ row.fence = exec[e].fence

\* lease_expires_at > now(), in the transaction that the first query of Phase 2
\* opened: now() is its start, which every lease of that render outlasts, a
\* lapsed one and the one a cancel cut short included.
OutlastsPhase2(j) == job[j].lease # "none"

\* uq_media_artifact_version
VersionTaken(j) == \E k \in Job \ {j} : art[k] # "none" /\ job[k].version = job[j].version

\* Mutant: clears the previous video before it looks at the verdict.
SelectCleared(j, accepted) ==
    art' = [k \in Job |-> IF k = j THEN (IF accepted THEN "current" ELSE "candidate")
                          ELSE IF art[k] = "none" THEN "none" ELSE "candidate"]

\* _apply_artifact_current_selection, on the artifact just inserted for job j.
SelectCurrent(j, accepted) ==
    art' = [k \in Job |-> IF k = j THEN (IF accepted THEN "current" ELSE "candidate")
                          ELSE IF accepted /\ art[k] = "current" THEN "candidate"
                          ELSE art[k]]

\* Phase 3.  The request is locked, but its status is the one of the object the
\* session holds since Phase 1, so a status written since is not noticed.
Finalize(e, accepted) ==
    LET j == exec[e].job
    IN  /\ exec[e].pc = "finalizing"
        /\ exec[e].seen \notin {"FAILED", "CANCELLED"}
        /\ OwnsJob(e)
        /\ OutlastsPhase2(j)
        /\ ~VersionTaken(j)
        /\ SelectCurrent(j, accepted)
        /\ status' = "SUCCEEDED"
        /\ outcome' = IF accepted THEN "RENDERED" ELSE "BLOCKED"
        /\ job' = [job EXCEPT ![j].state = "SUCCEEDED", ![j].lease = "none"]
        /\ wake' = wake \cup {[job |-> j]}
        /\ exec' = [exec EXCEPT ![e].pc = "done", ![e].heart = "off"]
        /\ UNCHANGED <<plan, dispatch, sweep, calls>>

\* Phase 3 rejects the worker or fails, and rolls back.
FinalizeFails(e) ==
    /\ exec[e].pc = "finalizing"
    /\ exec' = [exec EXCEPT ![e].pc = "recordFinal"]
    /\ UNCHANGED <<request, job, art, dispatch, sweep, calls, wake>>

\* What _record_job_failure writes once its checks let it.
WriteFailure(j) ==
    /\ job' = [job EXCEPT ![j].state = "FAILED", ![j].lease = "none"]
    /\ FailRequestFor(j)

\* After a failed render: still the transaction and the objects of Phase 2, so
\* status, state and tokens are those of Phase 1, and only the expiry is asked of
\* the database.  Nothing stops the heartbeat thread.
RecordRenderFailure(e) ==
    LET j == exec[e].job
    IN  /\ exec[e].pc = "recordRender"
        /\ IF OutlastsPhase2(j) /\ exec[e].seen \notin {"FAILED", "CANCELLED"}
           THEN WriteFailure(j)
           ELSE UNCHANGED <<job, status, outcome, wake>>
        /\ exec' = [exec EXCEPT ![e].pc = "done"]
        /\ UNCHANGED <<plan, art, dispatch, sweep, calls>>

\* The database refuses the record, which the method swallows.
LoseRenderFailure(e) ==
    /\ RecordFaults
    /\ exec[e].pc = "recordRender"
    /\ exec' = [exec EXCEPT ![e].pc = "done"]
    /\ UNCHANGED <<request, job, art, dispatch, sweep, calls, wake>>

\* After a failed finalization: the rollback expired the objects and ended the
\* transaction, so every check is made afresh.  The heartbeat is stopped.
RecordFinalFailure(e) ==
    LET j == exec[e].job
    IN  /\ exec[e].pc = "recordFinal"
        /\ IF OwnsJob(e) /\ job[j].lease = "valid" /\ status \notin {"FAILED", "CANCELLED"}
           THEN WriteFailure(j)
           ELSE UNCHANGED <<job, status, outcome, wake>>
        /\ exec' = [exec EXCEPT ![e].pc = "done", ![e].heart = "off"]
        /\ UNCHANGED <<plan, art, dispatch, sweep, calls>>

\* Mutant: the heartbeat is stopped only once the failure is recorded.
LoseAndBeat(e) ==
    /\ exec[e].pc = "recordFinal"
    /\ exec' = [exec EXCEPT ![e].pc = "done"]
    /\ UNCHANGED <<request, job, art, dispatch, sweep, calls, wake>>

LoseFinalFailure(e) ==
    /\ exec[e].pc = "recordFinal"
    /\ exec' = [exec EXCEPT ![e].pc = "done", ![e].heart = "off"]
    /\ UNCHANGED <<request, job, art, dispatch, sweep, calls, wake>>

\* The worker process dies, and its heartbeat thread with it.
CrashWorker(e) ==
    /\ exec[e].pc # "idle"
    /\ exec[e].pc = "done" => exec[e].heart = "beating"
    /\ exec' = [exec EXCEPT ![e].pc = "done", ![e].heart = "off"]
    /\ UNCHANGED <<request, job, art, dispatch, sweep, calls, wake>>

-----------------------------------------------------------------------------
(* The heartbeat thread and the lease. *)

\* renew_lease_sync checks owner, fence and state, not the expiry.
Heartbeat(e) ==
    LET j == exec[e].job
    IN  /\ exec[e].heart = "beating"
        /\ \/ /\ OwnsJob(e) /\ job[j].lease # "valid"
              /\ job' = [job EXCEPT ![j].lease = "valid"]
              /\ UNCHANGED exec
           \/ /\ ~OwnsJob(e)
              /\ exec' = [exec EXCEPT ![e].heart = "lost"]
              /\ UNCHANGED job
        /\ UNCHANGED <<request, art, dispatch, sweep, calls, wake>>

\* No heartbeat has got through for WORKER_HEARTBEAT_FAILURE_ABORT_SECONDS.
SelfFence(e) ==
    /\ exec[e].heart = "beating"
    /\ exec' = [exec EXCEPT ![e].heart = "fenced"]
    /\ UNCHANGED <<request, job, art, dispatch, sweep, calls, wake>>

\* 70 s without a heartbeat fence the worker and 90 s end the lease, so a lease
\* lapses under a beating heart, or between the health check and the commit of
\* Phase 3, only when the process itself is held up.
HeldUp(j) == \E e \in Exec : /\ exec[e].job = j /\ job[j].token = e
                             /\ exec[e].heart = "beating" \/ exec[e].pc = "finalizing"

LeaseLapses(j) ==
    /\ job[j].state = "RUNNING" /\ job[j].lease = "valid"
    /\ HeldUp(j) => Pauses
    /\ job' = [job EXCEPT ![j].lease = "lapsed"]
    /\ UNCHANGED <<request, art, dispatch, exec, sweep, calls, wake>>

GraceEnds(j) ==
    /\ job[j].state = "RUNNING" /\ job[j].lease = "lapsed"
    /\ job' = [job EXCEPT ![j].lease = "overdue"]
    /\ UNCHANGED <<request, art, dispatch, exec, sweep, calls, wake>>

-----------------------------------------------------------------------------
(* The lease and orphan sweeps. *)

Overdue == {j \in Job : job[j].state = "RUNNING" /\ job[j].lease = "overdue"}

\* Mutant: leaves the lease on the rows.
ExpireStateOnly(D) == job' = [j \in Job |-> IF j \in D THEN [job[j] EXCEPT !.state = "FAILED"]
                                            ELSE job[j]]

Expire(D) == job' = [j \in Job |-> IF j \in D
                                   THEN [job[j] EXCEPT !.state = "FAILED", !.lease = "none",
                                                       !.fence = @ + 1]
                                   ELSE job[j]]

\* Mutant: leaves the request to the orphan sweep.
ExpireLeaseOnly(j) ==
    /\ j \in Overdue
    /\ Expire({j})
    /\ UNCHANGED <<request, wake, art, dispatch, exec, sweep, calls>>

\* expire_lease, for one candidate of reconcile_expired_leases.
ExpireLease(j) ==
    /\ j \in Overdue
    /\ Expire({j})
    /\ FailRequest(status)
    /\ UNCHANGED <<plan, art, dispatch, exec, sweep, calls>>

Succeeded == {j \in Job : job[j].state = "SUCCEEDED"}
LatestSucceeded(j) == j \in Succeeded /\ \A k \in Succeeded : k <= j
Busy == \E j \in Job : ActiveJob(j)

\* Mutant: takes any artifact of the succeeded job for its video.
ReconcileOnJobs ==
    /\ status = "RUNNING"
    /\ Overdue = {}
    /\ ~Busy \/ ownerFailed
    /\ Succeeded # {}
    /\ status' = "SUCCEEDED"
    /\ outcome' = "RENDERED"
    /\ wake' = wake \cup {[status |-> "SUCCEEDED"]}
    /\ UNCHANGED <<plan, job, art, dispatch, exec, sweep, calls>>

\* reconcile_production_request on a RUNNING request, as the orphan sweep calls
\* it.  Leases found overdue end the matter; otherwise the jobs decide.
ReconcileRequest ==
    /\ status = "RUNNING"
    /\ \/ /\ Overdue # {}
          /\ Expire(Overdue)
          /\ FailRequest(status)
       \/ /\ Overdue = {}
          /\ ~Busy \/ ownerFailed
          /\ \E j \in Job : LatestSucceeded(j) /\ art[j] = "current"
          /\ status' = "SUCCEEDED"
          /\ outcome' = "RENDERED"
          /\ wake' = wake \cup {[status |-> "SUCCEEDED"]}
          /\ UNCHANGED job
       \/ /\ Overdue = {}
          /\ ~Busy \/ ownerFailed
          /\ Succeeded = {}
          /\ FailRequest(status)
          /\ UNCHANGED job
    /\ UNCHANGED <<plan, art, dispatch, exec, sweep, calls>>

-----------------------------------------------------------------------------
(* Calls that read the request without locking it. *)

CancelRead(c) ==
    /\ cancel[c] = Unread
    /\ cancel' = [cancel EXCEPT ![c] = status]
    /\ UNCHANGED <<request, job, art, dispatch, exec, sweep, fail, ownerFailed, mission, wake>>

\* The UPDATE of the request is flushed before the jobs are read, and holds
\* its row until the commit.
CancelWrite(c) ==
    /\ cancel[c] \in Status
    /\ cancel' = [cancel EXCEPT ![c] = Returned]
    /\ IF cancel[c] \in Terminal
       THEN UNCHANGED <<status, outcome, job, wake>>
       ELSE /\ status' = "CANCELLED"
            /\ outcome' = "BLOCKED"
            /\ wake' = wake \cup {[status |-> "CANCELLED"]}
            /\ job' = [j \in Job |-> IF ActiveJob(j)
                                     THEN [job[j] EXCEPT !.state = "CANCELLED", !.fence = @ + 1,
                                                         !.lease = "lapsed"]
                                     ELSE job[j]]
    /\ UNCHANGED <<plan, art, dispatch, exec, sweep, fail, ownerFailed, mission>>

FailRead(f) ==
    /\ fail[f] = Unread
    /\ fail' = [fail EXCEPT ![f] = status]
    /\ UNCHANGED <<request, job, art, dispatch, exec, sweep, cancel, ownerFailed, mission,
                   wake>>

FailWrite(f) ==
    /\ fail[f] \in Status
    /\ fail' = [fail EXCEPT ![f] = Returned]
    /\ FailRequest(fail[f])
    /\ UNCHANGED <<plan, job, art, dispatch, exec, sweep, cancel, ownerFailed, mission>>

OwnerFails ==
    /\ OwnerMayFail /\ ~ownerFailed
    /\ ownerFailed' = TRUE
    /\ UNCHANGED <<request, job, art, dispatch, exec, sweep, cancel, fail, mission, wake>>

-----------------------------------------------------------------------------
Delivery(j, g) == \/ \E e \in Exec : StartRender(e, j, g)
                  \/ PreRenderHold(j, g)
                  \/ BootstrapFails(j, g)

Finalization(e) == \/ \E accepted \in BOOLEAN : Finalize(e, accepted)
                   \/ FinalizeFails(e)

Recording(e) == \/ RecordRenderFailure(e)
                \/ LoseRenderFailure(e)
                \/ RecordFinalFailure(e)
                \/ LoseFinalFailure(e)

Stalls(s) == \/ \E j \in Job : DiscoverStall(s, j)
             \/ \E j \in Job, g \in Gen : ReconcileStall(s, j, g)

Worker == \E e \in Exec : \/ EndRender(e)
                          \/ Finalization(e)
                          \/ Recording(e)
                          \/ CrashWorker(e)
                          \/ Heartbeat(e)
                          \/ SelfFence(e)

Sweeps == \/ \E s \in Sweeper : Stalls(s)
          \/ \E j \in Job : ExpireLease(j)
          \/ ReconcileRequest

Clock == \E j \in Job : \/ DispatchTimesOut(j)
                        \/ LeaseLapses(j)
                        \/ GraceEnds(j)

Callings == \/ Prepare
            \/ MissionReads
            \/ \E j \in Job, caller \in Callers : Allocate(j, caller)
            \/ \E c \in Canceller : CancelRead(c) \/ CancelWrite(c)
            \/ \E f \in Failer : FailRead(f) \/ FailWrite(f)
            \/ OwnerFails

Next == \/ Callings
        \/ \E m \in Message : Handoff(m) \/ Close(m)
        \/ \E j \in Job, g \in Gen : Delivery(j, g)
        \/ Worker
        \/ Sweeps
        \/ Clock

Spec == Init /\ [][Next]_vars

\* The relays close an intent (EventuallySettled of DurableDispatch), the sweeps
\* are run every minute, workers that live go on, and time passes.  A message may
\* be lost and a worker may die.
Fairness == /\ \A m \in Message : WF_vars(Close(m))
            /\ \A e \in Exec : WF_vars(EndRender(e) \/ Finalization(e) \/ Recording(e))
            /\ \A s \in Sweeper : WF_vars(Stalls(s))
            /\ \A j \in Job : /\ WF_vars(DispatchTimesOut(j))
                              /\ WF_vars(LeaseLapses(j))
                              /\ WF_vars(GraceEnds(j))
                              /\ WF_vars(ExpireLease(j))

FairSpec == Spec /\ Fairness

-----------------------------------------------------------------------------
(* What holds in every environment. *)

\* The generations of a job are dispatched one after the other: the current one
\* has an intent, committed with it, none is committed ahead of it, and an
\* earlier one was closed before it was given up.  No two relays can have live
\* messages of one job to send on the outbox's account.
DispatchFollowsGeneration ==
    \A m \in Message : LET row == job[m[1]]
                       IN  /\ m[2] > row.gen <=> intent[m] = "absent"
                           /\ m[2] < row.gen => intent[m] \in {"sent", "dead"}

Started(e) == exec[e].fence > 0

\* A render job is rendered by one execution in its whole life, however often
\* its messages are delivered, redispatched or relayed twice.
RenderedOnce == \A e, d \in Exec : Started(e) /\ Started(d) /\ exec[e].job = exec[d].job => e = d

\* A lease is held exactly while the job is RUNNING, or was cut short by a
\* cancel: what the expiry test of a stale worker rests on.
LeaseMarksRender ==
    \A j \in Job : /\ job[j].state = "RUNNING" <=> job[j].lease # "none" /\ job[j].state # "CANCELLED"
                   /\ job[j].state = "RUNNING" =>
                        /\ job[j].token # NoExec
                        /\ exec[job[j].token].job = j
                        /\ exec[job[j].token].fence = job[j].fence
                   /\ job[j].lease = "valid" => job[j].state = "RUNNING"

\* A RUNNING request has an unfinished job: the transaction that finishes a job,
\* whichever of a worker, a sweep or a call runs it, moves the request on.
RunningHasWork == status = "RUNNING" => Busy

\* A SUCCEEDED request has a SUCCEEDED job with its video, and a RENDERED one has
\* exactly one current video, of a SUCCEEDED job.
SuccessHasEvidence ==
    /\ \A j \in Job : art[j] # "none" <=> job[j].state = "SUCCEEDED"
    /\ \A j, k \in Job : art[j] = "current" /\ art[k] = "current" => j = k
    /\ status = "SUCCEEDED" => Succeeded # {}
    /\ outcome = "RENDERED" => \E j \in Job : art[j] = "current"

\* A job that SUCCEEDED or FAILED stays so, whatever late worker, sweep or cancel
\* comes after it.
FinishedJobsFrozen ==
    [][\A j \in Job : job[j].state \in {"SUCCEEDED", "FAILED"} => job'[j] = job[j]]_job

\* A current video gives way only to a newer accepted one; a blocked candidate or
\* a failed rerender never displaces it.
CurrentGivesWayToAccepted ==
    [][\A j \in Job : art[j] = "current" /\ art'[j] # "current" =>
          \E k \in Job : k # j /\ art[k] = "none" /\ art'[k] = "current"]_art

\* A request comes out of a terminal status into RUNNING only with a new job and
\* the intent that dispatches it, in one transaction.
ReopenedWithDispatch ==
    [][(status \in Terminal) /\ status' = "RUNNING" =>
          \E j \in Job : /\ job[j].state = "ABSENT" /\ job'[j].state = "QUEUED"
                         /\ intent'[<<j, job'[j].gen>>] = "active"]_vars

-----------------------------------------------------------------------------
(* The inductive strengthening the proofs use. *)

\* A job counts its dispatch generations from the moment it exists.
AllocatedInv == \A j \in Job : job[j].state = "ABSENT" <=> job[j].gen = 0

\* A job carries the token of the one execution that started it, for good.
TokenInv ==
    /\ \A e \in Exec : exec[e].pc = "idle" <=> ~Started(e)
    /\ \A e \in Exec : Started(e) => /\ job[exec[e].job].token = e
                                     /\ job[exec[e].job].state \notin {"ABSENT", "QUEUED"}
    /\ \A j \in Job : job[j].token \in Exec => /\ Started(job[j].token)
                                               /\ exec[job[j].token].job = j

IndInv == /\ TypeOK
          /\ AllocatedInv
          /\ DispatchFollowsGeneration
          /\ TokenInv
          /\ LeaseMarksRender
          /\ SuccessHasEvidence
          /\ RunningHasWork

-----------------------------------------------------------------------------
(* What needs an environment without the calls that break it. *)

\* A request becomes terminal only in a transaction that commits a new wake-up of
\* its Mission.
TerminalWakesMission == [][(status \notin Terminal) /\ status' \in Terminal => wake' # wake]_vars

\* Every render job reaches an end, though messages are lost and workers die.
JobsEnd == \A j \in Job : ActiveJob(j) ~> ~ActiveJob(j)

\* A RUNNING request does not stay RUNNING.
RequestsSettle == status = "RUNNING" ~> status # "RUNNING"

=============================================================================
