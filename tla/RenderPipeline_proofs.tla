------------------------ MODULE RenderPipeline_proofs ------------------------
(***************************************************************************)
(* Proofs about the render pipeline of one request, for any number of      *)
(* jobs, generations, executions, sweeps and calls, and every environment. *)
(***************************************************************************)
EXTENDS RenderPipeline, TLAPS

-----------------------------------------------------------------------------
(* What a step does to one row of production_render_jobs. *)

\* The row of j, but for the fields named by the kind of change, is as before.
SameIdentity(j) == /\ job'[j].gen = job[j].gen
                   /\ job'[j].version = job[j].version
                   /\ job'[j].token = job[j].token

\* Allocation, with the first dispatch intent.
Born(j) == /\ job[j].state = "ABSENT"
           /\ job'[j].state = "QUEUED" /\ job'[j].gen = 1 /\ job'[j].token = NoExec
           /\ job'[j].lease = "none"
           /\ intent[<<j, 1>>] = "absent"
           /\ intent' = [intent EXCEPT ![<<j, 1>>] = "active"]

\* A queued job is found late.
Stalled(j) == /\ job[j].state = "QUEUED" /\ job'[j].state = "QUEUED"
              /\ SameIdentity(j)
              /\ job'[j].lease = job[j].lease

\* A queued job is given to its next generation, whose intent is committed with it.
Redispatched(j) == /\ job[j].state = "QUEUED" /\ job'[j].state = "QUEUED"
                   /\ job'[j].gen = job[j].gen + 1
                   /\ job'[j].token = job[j].token
                   /\ job'[j].lease = job[j].lease
                   /\ intent[<<j, job[j].gen>>] # "active"
                   /\ intent[<<j, job[j].gen + 1>>] = "absent"
                   /\ intent' = [intent EXCEPT ![<<j, job[j].gen + 1>>] = "active"]

\* A queued job is given up before it started; its request is not RUNNING then.
Dropped(j) == /\ job[j].state = "QUEUED" /\ job'[j].state = "FAILED"
              /\ SameIdentity(j)
              /\ job'[j].lease = job[j].lease
              /\ status' # "RUNNING"

\* The lease of a running job is renewed, or runs out.
Leased(j) == /\ job[j].state = "RUNNING" /\ job'[j].state = "RUNNING"
             /\ SameIdentity(j)
             /\ job'[j].fence = job[j].fence
             /\ job'[j].lease # "none"

\* A job that holds a lease ends, and its request moves on.
Ended(j, end) == /\ job[j].lease # "none" /\ job'[j].state = end
                 /\ SameIdentity(j)
                 /\ job'[j].lease = "none"
                 /\ status' # "RUNNING"

\* The request is cancelled with its unfinished jobs.
Cancelled(j) == /\ ActiveJob(j) /\ job'[j].state = "CANCELLED"
                /\ SameIdentity(j)
                /\ job'[j].lease = "lapsed"
                /\ status' # "RUNNING"

RowStep(j) == \/ job'[j] = job[j]
              \/ Born(j) \/ Stalled(j) \/ Redispatched(j) \/ Dropped(j)
              \/ Leased(j) \/ Ended(j, "FAILED") \/ Cancelled(j)

Starts == \E e \in Exec, j \in Job, g \in Gen : StartRender(e, j, g)
Finalizes == \E e \in Exec, accepted \in BOOLEAN : Finalize(e, accepted)

-----------------------------------------------------------------------------
(* Type correctness. *)

\* The bounds are positive.
LEMMA Constants ==
  /\ MaxJobs \in Nat /\ MaxJobs >= 1 /\ MaxGen \in Nat /\ MaxGen >= 1
  /\ 1 \in Job /\ 1 \in Gen
  /\ NoJob \in JobRow
BY BoundsAssumption DEF Job, Gen, NoJob, JobRow, JobStates, Terminal, Leases

\* The literals the rows are written with.
LEMMA Literals ==
  /\ "QUEUED" \in JobStates /\ "RUNNING" \in JobStates /\ "SUCCEEDED" \in JobStates
  /\ "FAILED" \in JobStates /\ "CANCELLED" \in JobStates
  /\ "none" \in Leases /\ "valid" \in Leases /\ "lapsed" \in Leases /\ "overdue" \in Leases
BY DEF JobStates, Terminal, Leases

\* The initial state has its type, and no job is allocated.
LEMMA TypeInit == Init => TypeOK /\ AllocatedInv
<1> SUFFICES ASSUME Init PROVE TypeOK /\ AllocatedInv
  OBVIOUS
<1>1. IdleExec \in ExecState
  BY Constants DEF IdleExec, ExecState, Steps, Status
<1>2. /\ status \in Status /\ plan \in 0..MaxJobs
      /\ job \in [Job -> JobRow] /\ exec \in [Exec -> ExecState]
  BY <1>1, Constants DEF Init, Status
<1>3. /\ cancel \in [Canceller -> Status \cup {Unread, Returned}]
      /\ fail \in [Failer -> Status \cup {Unread, Returned}]
      /\ sweep \in [Sweeper -> Message \cup {<<>>}]
  BY DEF Init
<1>4. /\ art \in [Job -> {"none", "candidate", "current"}]
      /\ intent \in [Message -> {"absent", "active", "sent", "dead"}]
      /\ handed \subseteq Message /\ ownerFailed \in BOOLEAN /\ wake \subseteq WakeKey
      /\ mission \in {Unread, "READY", Returned} /\ outcome \in {"none", "RENDERED", "BLOCKED"}
  BY DEF Init
<1> QED
  BY <1>2, <1>3, <1>4 DEF Init, TypeOK, AllocatedInv, NoJob

\* The keys of the Mission's wake-ups.
LEMMA WakeKeys == /\ \A s \in {"SUCCEEDED", "FAILED", "CANCELLED"} : [status |-> s] \in WakeKey
                  /\ \A j \in Job : [job |-> j] \in WakeKey
BY DEF WakeKey, Terminal

\* fail_production_request, and the failure paths of the worker, write a
\* terminal status.
LEMMA FailType ==
  ASSUME TypeOK
  PROVE  /\ \A known \in Status : FailRequest(known) =>
              /\ status' \in Status /\ outcome' \in {"none", "RENDERED", "BLOCKED"}
              /\ wake' \subseteq WakeKey
         /\ \A j \in Job : FailRequestFor(j) =>
              /\ status' \in Status /\ outcome' \in {"none", "RENDERED", "BLOCKED"}
              /\ wake' \subseteq WakeKey
BY WakeKeys DEF TypeOK, FailRequest, FailRequestFor, Status, Terminal

\* A row, and the next fence of its lease.
LEMMA RowType ==
  ASSUME TypeOK, NEW j \in Job
  PROVE  job[j] \in JobRow /\ job[j].fence + 1 \in Nat
<1>1. job[j] \in JobRow
  BY DEF TypeOK
<1> QED
  BY <1>1 DEF JobRow

\* Cancelling or expiring a row keeps its type.
LEMMA EndedRow ==
  ASSUME TypeOK, NEW j \in Job
  PROVE  /\ LET new == [job[j] EXCEPT !.state = "CANCELLED", !.fence = @ + 1, !.lease = "lapsed"]
            IN  new \in JobRow /\ new.gen = job[j].gen /\ new.state = "CANCELLED"
         /\ LET new == [job[j] EXCEPT !.state = "FAILED", !.lease = "none", !.fence = @ + 1]
            IN  new \in JobRow /\ new.gen = job[j].gen /\ new.state = "FAILED"
BY RowType, Literals DEF JobRow

\* What the writes to one execution keep.
LEMMA ExecType ==
  ASSUME TypeOK, NEW e \in Exec
  PROVE  /\ exec[e] \in ExecState
         /\ exec[e].job \in Job /\ exec[e].fence \in Nat /\ exec[e].seen \in Status
         /\ \A pc \in Steps : [exec[e] EXCEPT !.pc = pc] \in ExecState
         /\ \A heart \in {"off", "beating", "lost", "fenced"} :
              /\ [exec[e] EXCEPT !.heart = heart] \in ExecState
              /\ \A pc \in Steps : [exec[e] EXCEPT !.pc = pc, !.heart = heart] \in ExecState
BY DEF TypeOK, ExecState

\* The calls keep the variables in their types.
LEMMA TypeCallings ==
  ASSUME TypeOK, AllocatedInv, Callings
  PROVE  TypeOK' /\ AllocatedInv'
<1> USE DEF TypeOK, AllocatedInv, request, dispatch, calls
<1>1. CASE Prepare
  <2>1. plan' \in 0..MaxJobs /\ status' \in Status
    BY <1>1, Constants DEF Prepare, Status
  <2> QED
    BY <1>1, <2>1 DEF Prepare
<1>2. CASE MissionReads
  BY <1>2 DEF MissionReads
<1>3. ASSUME NEW j \in Job, NEW caller \in Callers, Allocate(j, caller)
      PROVE  TypeOK' /\ AllocatedInv'
  <2>1. plan' \in 0..MaxJobs
    BY <1>3, Constants DEF Allocate
  <2>2. /\ [NoJob EXCEPT !.state = "QUEUED", !.gen = 1, !.version = plan'] \in JobRow
        /\ [NoJob EXCEPT !.state = "QUEUED", !.gen = 1, !.version = plan'].state = "QUEUED"
        /\ [NoJob EXCEPT !.state = "QUEUED", !.gen = 1, !.version = plan'].gen = 1
    <3>1. NoJob \in JobRow /\ "QUEUED" \in JobStates /\ 1 \in 0..MaxGen
      BY Constants, Literals
    <3> QED
      BY <2>1, <3>1 DEF JobRow
  <2>3. job' \in [Job -> JobRow] /\ AllocatedInv'
    BY <1>3, <2>2 DEF Allocate
  <2>4. intent' \in [Message -> {"absent", "active", "sent", "dead"}] /\ handed' = handed
    BY <1>3 DEF Allocate, EnqueueRender, Outbox!Enqueue
  <2>5. mission' \in {Unread, "READY", Returned} /\ status' \in Status
    BY <1>3 DEF Allocate, Status
  <2> QED
    BY <1>3, <2>1, <2>3, <2>4, <2>5 DEF Allocate
<1>4. ASSUME NEW c \in Canceller, CancelRead(c)
      PROVE  TypeOK' /\ AllocatedInv'
  BY <1>4 DEF CancelRead
<1>5. ASSUME NEW c \in Canceller, CancelWrite(c)
      PROVE  TypeOK' /\ AllocatedInv'
  <2>1. cancel' \in [Canceller -> Status \cup {Unread, Returned}]
    BY <1>5 DEF CancelWrite
  <2>2. CASE cancel[c] \in Terminal
    BY <1>5, <2>1, <2>2 DEF CancelWrite
  <2>3. CASE cancel[c] \notin Terminal
    <3>1. \A k \in Job : LET new == [job[k] EXCEPT !.state = "CANCELLED", !.fence = @ + 1,
                                                   !.lease = "lapsed"]
                         IN  new \in JobRow /\ new.gen = job[k].gen /\ new.state = "CANCELLED"
      BY EndedRow
    <3>2. job' = [k \in Job |-> IF ActiveJob(k)
                               THEN [job[k] EXCEPT !.state = "CANCELLED", !.fence = @ + 1,
                                                   !.lease = "lapsed"]
                               ELSE job[k]]
      BY <1>5, <2>3 DEF CancelWrite
    <3>4. job' \in [Job -> JobRow] /\ AllocatedInv'
      BY <3>1, <3>2 DEF ActiveJob
    <3>3. /\ status' \in Status /\ outcome' \in {"none", "RENDERED", "BLOCKED"}
          /\ wake' \subseteq WakeKey
      BY <1>5, <2>3, WakeKeys DEF CancelWrite, Status
    <3> QED
      BY <1>5, <2>1, <3>4, <3>3 DEF CancelWrite
  <2> QED
    BY <2>2, <2>3
<1>6. ASSUME NEW f \in Failer, FailRead(f)
      PROVE  TypeOK' /\ AllocatedInv'
  BY <1>6 DEF FailRead
<1>7. ASSUME NEW f \in Failer, FailWrite(f)
      PROVE  TypeOK' /\ AllocatedInv'
  BY <1>7, FailType DEF FailWrite
<1>8. CASE OwnerFails
  BY <1>8 DEF OwnerFails
<1> QED
  BY <1>1, <1>2, <1>3, <1>4, <1>5, <1>6, <1>7, <1>8 DEF Callings

\* The relays, the sweeps and the clock keep the variables in their types.
LEMMA TypeSweeps ==
  ASSUME TypeOK, AllocatedInv,
         \/ \E m \in Message : Handoff(m) \/ Close(m)
         \/ Sweeps
         \/ Clock
  PROVE  TypeOK' /\ AllocatedInv'
<1> USE DEF TypeOK, AllocatedInv, request, dispatch, calls
<1>1. ASSUME NEW m \in Message, Handoff(m) \/ Close(m)
      PROVE  TypeOK' /\ AllocatedInv'
  <2>1. intent' \in [Message -> {"absent", "active", "sent", "dead"}] /\ handed' \subseteq Message
    BY <1>1 DEF Handoff, Close, Outbox!Handoff, Outbox!Settle, Outbox!Abandon
  <2> QED
    BY <1>1, <2>1 DEF Handoff, Close
<1>2. ASSUME NEW s \in Sweeper, NEW j \in Job, DiscoverStall(s, j)
      PROVE  TypeOK' /\ AllocatedInv'
  <2>1. job[j].gen \in 0..MaxGen /\ job[j].gen # 0
    BY <1>2 DEF DiscoverStall, JobRow
  <2>2. <<j, job[j].gen>> \in Message
    BY <2>1, Constants DEF Message, Gen
  <2> QED
    BY <1>2, <2>2 DEF DiscoverStall
<1>3. ASSUME NEW s \in Sweeper, NEW j \in Job, NEW g \in Gen, ReconcileStall(s, j, g)
      PROVE  TypeOK' /\ AllocatedInv'
  <2>1. sweep' \in [Sweeper -> Message \cup {<<>>}]
    BY <1>3 DEF ReconcileStall
  <2>2. CASE UNCHANGED <<request, job, dispatch, wake>>
    BY <1>3, <2>1, <2>2 DEF ReconcileStall
  <2>3. CASE /\ g < MaxGen /\ StallConfirmed(j, g)
             /\ job' = [job EXCEPT ![j].gen = g + 1, ![j].stalled = FALSE]
             /\ EnqueueRender(j, g + 1)
             /\ UNCHANGED <<request, wake>>
    <3>1. g + 1 \in 0..MaxGen /\ g + 1 # 0 /\ job[j] \in JobRow
      BY <2>3, Constants DEF Gen
    <3>2. LET new == [job[j] EXCEPT !.gen = g + 1, !.stalled = FALSE]
          IN  new \in JobRow /\ new.gen = g + 1 /\ new.state = job[j].state
      BY <3>1 DEF JobRow
    <3>3. job' = [job EXCEPT ![j] = [job[j] EXCEPT !.gen = g + 1, !.stalled = FALSE]]
      BY <2>3
    <3>4. job[j].state = "QUEUED"
      BY <2>3 DEF StallConfirmed
    <3>5. job' \in [Job -> JobRow] /\ AllocatedInv'
      BY <3>1, <3>2, <3>3, <3>4
    <3>6. intent' \in [Message -> {"absent", "active", "sent", "dead"}] /\ handed' = handed
      BY <2>3 DEF EnqueueRender, Outbox!Enqueue
    <3> QED
      BY <1>3, <2>1, <2>3, <3>5, <3>6 DEF ReconcileStall
  <2>4. CASE /\ StallConfirmed(j, g)
             /\ job' = [job EXCEPT ![j].state = "FAILED"]
             /\ FailRequest(status)
             /\ UNCHANGED <<plan, dispatch>>
    <3>1. job[j].state = "QUEUED" /\ job' = [job EXCEPT ![j].state = "FAILED"]
      BY <2>4 DEF StallConfirmed
    <3>2. [job[j] EXCEPT !.state = "FAILED"] \in JobRow
      BY RowType, Literals DEF JobRow
    <3>3. job' \in [Job -> JobRow] /\ AllocatedInv'
      BY <3>1, <3>2, RowType DEF JobRow
    <3> QED
      BY <1>3, <2>1, <2>4, <3>3, FailType DEF ReconcileStall
  <2> QED
    BY <1>3, <2>2, <2>3, <2>4 DEF ReconcileStall
<1>4. ASSUME NEW D \in SUBSET Overdue, Expire(D)
      PROVE  job' \in [Job -> JobRow] /\ AllocatedInv'
  <2>1. \A k \in Job : LET new == [job[k] EXCEPT !.state = "FAILED", !.lease = "none",
                                                 !.fence = @ + 1]
                       IN  new \in JobRow /\ new.gen = job[k].gen /\ new.state = "FAILED"
    BY EndedRow
  <2>2. \A k \in D : job[k].state = "RUNNING"
    BY DEF Overdue
  <2> QED
    BY <1>4, <2>1, <2>2 DEF Expire
<1>5. ASSUME NEW j \in Job, ExpireLease(j)
      PROVE  TypeOK' /\ AllocatedInv'
  <2>1. {j} \in SUBSET Overdue /\ Expire({j})
    BY <1>5 DEF ExpireLease
  <2> QED
    BY <1>5, <2>1, <1>4, FailType DEF ExpireLease
<1>6. CASE ReconcileRequest
  <2>1. job' \in [Job -> JobRow] /\ AllocatedInv'
    BY <1>6, <1>4 DEF ReconcileRequest
  <2>2. /\ status' \in Status /\ outcome' \in {"none", "RENDERED", "BLOCKED"}
        /\ wake' \subseteq WakeKey
    BY <1>6, FailType, WakeKeys DEF ReconcileRequest, Status
  <2> QED
    BY <1>6, <2>1, <2>2 DEF ReconcileRequest
<1>7. CASE Clock
  <2>1. job' \in [Job -> JobRow] /\ AllocatedInv'
    <3>1. ASSUME NEW j \in Job, DispatchTimesOut(j)
          PROVE  job' \in [Job -> JobRow] /\ AllocatedInv'
      BY <3>1, RowType DEF DispatchTimesOut, JobRow
    <3>2. ASSUME NEW j \in Job, LeaseLapses(j)
          PROVE  job' \in [Job -> JobRow] /\ AllocatedInv'
      BY <3>2, RowType, Literals DEF LeaseLapses, JobRow
    <3>3. ASSUME NEW j \in Job, GraceEnds(j)
          PROVE  job' \in [Job -> JobRow] /\ AllocatedInv'
      BY <3>3, RowType, Literals DEF GraceEnds, JobRow
    <3> QED
      BY <1>7, <3>1, <3>2, <3>3 DEF Clock
  <2> QED
    BY <1>7, <2>1 DEF Clock, DispatchTimesOut, LeaseLapses, GraceEnds
<1> QED
  BY <1>1, <1>2, <1>3, <1>5, <1>6, <1>7 DEF Sweeps, Stalls

\* A delivery keeps the variables in their types.
LEMMA TypeDelivery ==
  ASSUME TypeOK, AllocatedInv, NEW j \in Job, NEW g \in Gen, Delivery(j, g)
  PROVE  TypeOK' /\ AllocatedInv'
<1> USE DEF TypeOK, AllocatedInv, request, dispatch, calls
<1>1. ASSUME NEW e \in Exec, StartRender(e, j, g)
      PROVE  TypeOK' /\ AllocatedInv'
  <2>1. [job[j] EXCEPT !.state = "RUNNING", !.token = e, !.lease = "valid",
                       !.fence = job[j].fence + 1] \in JobRow
    BY RowType, Literals DEF JobRow
  <2>2. job' = [job EXCEPT ![j] = [job[j] EXCEPT !.state = "RUNNING", !.token = e,
                                     !.lease = "valid", !.fence = job[j].fence + 1]]
    BY <1>1 DEF StartRender
  <2>3. job' \in [Job -> JobRow] /\ AllocatedInv'
    BY <1>1, <2>1, <2>2, RowType DEF StartRender, MayStart, JobRow
  <2>4. [pc |-> "rendering", job |-> j, fence |-> job[j].fence + 1,
         heart |-> "beating", seen |-> status] \in ExecState
    BY RowType DEF ExecState, Steps
  <2> QED
    BY <1>1, <2>3, <2>4 DEF StartRender
<1>2. ASSUME job[j].state = "QUEUED", job' = [job EXCEPT ![j].state = "FAILED"]
      PROVE  job' \in [Job -> JobRow] /\ AllocatedInv'
  <2>1. [job[j] EXCEPT !.state = "FAILED"] \in JobRow
    BY RowType, Literals DEF JobRow
  <2> QED
    BY <1>2, <2>1, RowType DEF JobRow
<1>3. CASE PreRenderHold(j, g)
  BY <1>2, <1>3, FailType DEF PreRenderHold, MayStart
<1>4. CASE BootstrapFails(j, g)
  BY <1>2, <1>4, FailType DEF BootstrapFails
<1> QED
  BY <1>1, <1>3, <1>4 DEF Delivery

\* The worker's writes to its row keep its type.
LEMMA WorkerRow ==
  ASSUME TypeOK, NEW j \in Job
  PROVE  /\ LET new == [job[j] EXCEPT !.state = "SUCCEEDED", !.lease = "none"]
            IN  new \in JobRow /\ new.gen = job[j].gen /\ new.state = "SUCCEEDED"
         /\ LET new == [job[j] EXCEPT !.state = "FAILED", !.lease = "none"]
            IN  new \in JobRow /\ new.gen = job[j].gen /\ new.state = "FAILED"
         /\ LET new == [job[j] EXCEPT !.lease = "valid"]
            IN  new \in JobRow /\ new.gen = job[j].gen /\ new.state = job[j].state
BY RowType, Literals DEF JobRow

\* The worker keeps the variables in their types.
LEMMA TypeWorker ==
  ASSUME TypeOK, AllocatedInv, NEW e \in Exec,
         EndRender(e) \/ Finalization(e) \/ Recording(e) \/ CrashWorker(e) \/ Heartbeat(e)
           \/ SelfFence(e),
         job[exec[e].job].lease # "none" => job[exec[e].job].state \in {"RUNNING", "CANCELLED"}
  PROVE  TypeOK' /\ AllocatedInv'
<1> USE DEF TypeOK, AllocatedInv, request, dispatch, calls
<1> DEFINE j == exec[e].job
<1>a. j \in Job
  BY ExecType
<1>b. /\ \A pc \in {"finalizing", "recordRender", "recordFinal", "done"} :
           /\ [exec[e] EXCEPT !.pc = pc] \in ExecState
           /\ [exec[e] EXCEPT !.pc = pc, !.heart = "off"] \in ExecState
      /\ \A heart \in {"lost", "fenced"} : [exec[e] EXCEPT !.heart = heart] \in ExecState
  BY ExecType DEF Steps
<1>1. CASE EndRender(e)
  BY <1>1, <1>b DEF EndRender
<1>2. ASSUME NEW accepted \in BOOLEAN, Finalize(e, accepted)
      PROVE  TypeOK' /\ AllocatedInv'
  <2>1. LET new == [job[j] EXCEPT !.state = "SUCCEEDED", !.lease = "none"]
        IN  new \in JobRow /\ new.gen = job[j].gen /\ new.state = "SUCCEEDED"
    BY <1>a, WorkerRow
  <2>2. job[j].state = "RUNNING" /\ job' = [job EXCEPT ![j].state = "SUCCEEDED", ![j].lease = "none"]
    BY <1>2 DEF Finalize, OwnsJob
  <2>3. job' \in [Job -> JobRow] /\ AllocatedInv'
    BY <1>a, <2>1, <2>2
  <2>4. art' \in [Job -> {"none", "candidate", "current"}]
    BY <1>2 DEF Finalize, SelectCurrent
  <2>5. status' \in Status /\ outcome' \in {"none", "RENDERED", "BLOCKED"} /\ wake' \subseteq WakeKey
    BY <1>2, <1>a, WakeKeys DEF Finalize, Status
  <2> QED
    BY <1>2, <1>b, <2>3, <2>4, <2>5 DEF Finalize
<1>3. CASE FinalizeFails(e)
  BY <1>3, <1>b DEF FinalizeFails
<1>4. ASSUME WriteFailure(j), job[j].lease # "none"
      PROVE  job' \in [Job -> JobRow] /\ AllocatedInv'
  <2>1. LET new == [job[j] EXCEPT !.state = "FAILED", !.lease = "none"]
        IN  new \in JobRow /\ new.gen = job[j].gen /\ new.state = "FAILED"
    BY <1>a, WorkerRow
  <2>2. job[j].state # "ABSENT" /\ job' = [job EXCEPT ![j].state = "FAILED", ![j].lease = "none"]
    BY <1>4 DEF WriteFailure
  <2> QED
    BY <1>a, <2>1, <2>2
<1>5. WriteFailure(j) => /\ status' \in Status /\ outcome' \in {"none", "RENDERED", "BLOCKED"}
                         /\ wake' \subseteq WakeKey
  BY <1>a, FailType DEF WriteFailure
<1>6. CASE RecordRenderFailure(e)
  <2>1. job' \in [Job -> JobRow] /\ AllocatedInv'
    BY <1>6, <1>4 DEF RecordRenderFailure, OutlastsPhase2
  <2> QED
    BY <1>6, <1>b, <1>5, <2>1 DEF RecordRenderFailure
<1>7. CASE RecordFinalFailure(e)
  <2>1. job' \in [Job -> JobRow] /\ AllocatedInv'
    BY <1>7, <1>4 DEF RecordFinalFailure
  <2> QED
    BY <1>7, <1>b, <1>5, <2>1 DEF RecordFinalFailure
<1>8. CASE LoseRenderFailure(e) \/ LoseFinalFailure(e) \/ CrashWorker(e) \/ SelfFence(e)
  <2>1. exec' \in [Exec -> ExecState]
    BY <1>8, <1>b DEF LoseRenderFailure, LoseFinalFailure, CrashWorker, SelfFence
  <2> QED
    BY <1>8, <2>1 DEF LoseRenderFailure, LoseFinalFailure, CrashWorker, SelfFence
<1>9. CASE Heartbeat(e)
  <2>1. LET new == [job[j] EXCEPT !.lease = "valid"]
        IN  new \in JobRow /\ new.gen = job[j].gen /\ new.state = job[j].state
    BY <1>a, WorkerRow
  <2>2. job' \in [Job -> JobRow] /\ AllocatedInv'
    <3>1. job' = [job EXCEPT ![j].lease = "valid"] => job' \in [Job -> JobRow] /\ AllocatedInv'
      BY <1>a, <2>1
    <3>2. job' = job => job' \in [Job -> JobRow] /\ AllocatedInv'
      OBVIOUS
    <3> QED
      BY <1>9, <3>1, <3>2 DEF Heartbeat
  <2>3. exec' \in [Exec -> ExecState]
    BY <1>9, <1>b DEF Heartbeat
  <2> QED
    BY <1>9, <2>2, <2>3 DEF Heartbeat
<1> QED
  BY <1>1, <1>2, <1>3, <1>6, <1>7, <1>8, <1>9 DEF Finalization, Recording

\* Every step keeps the variables in their types.
LEMMA TypeStep ==
  ASSUME TypeOK, AllocatedInv, LeaseMarksRender, [Next]_vars
  PROVE  TypeOK' /\ AllocatedInv'
<1>1. CASE Next
  <2>1. \A j \in Job : job[j].lease # "none" => job[j].state \in {"RUNNING", "CANCELLED"}
    BY DEF LeaseMarksRender
  <2>2. \A e \in Exec : exec[e].job \in Job
    BY ExecType
  <2> QED
    BY <1>1, <2>1, <2>2, TypeCallings, TypeSweeps, TypeDelivery, TypeWorker DEF Next, Worker
<1>2. CASE UNCHANGED vars
  BY <1>2 DEF vars, TypeOK, AllocatedInv
<1> QED
  BY <1>1, <1>2

-----------------------------------------------------------------------------
(* The rows and the executions, step by step. *)

\* fail_production_request leaves the request in a terminal status.
LEMMA FailEnds ==
  /\ \A known : FailRequest(known) => status' = "FAILED" \/ (known \in Terminal /\ status' = status)
  /\ \A j : FailRequestFor(j) => status' = "FAILED"
  /\ "RUNNING" \notin Terminal
<1>1. ASSUME NEW known, FailRequest(known)
      PROVE  status' = "FAILED" \/ (known \in Terminal /\ status' = status)
  BY <1>1 DEF FailRequest
<1>2. ASSUME NEW j, FailRequestFor(j)
      PROVE  status' = "FAILED"
  BY <1>2 DEF FailRequestFor
<1> QED
  BY <1>1, <1>2 DEF Terminal

\* A step other than the start and the finalization of a render does one of the
\* changes above to each row.
LEMMA RowSteps ==
  ASSUME TypeOK, Next, ~Starts, ~Finalizes, NEW k \in Job
  PROVE  RowStep(k)
<1> USE DEF SameIdentity
<1>k. job[k] \in JobRow
  BY RowType
<1>0. CASE job' = job
  BY <1>0 DEF RowStep
<1>1. ASSUME NEW j \in Job, NEW caller \in Callers, Allocate(j, caller)
      PROVE  RowStep(k)
  BY <1>1, <1>k DEF Allocate, RowStep, Born, NoJob, TypeOK, EnqueueRender, Outbox!Enqueue
<1>2. ASSUME NEW c \in Canceller, CancelWrite(c)
      PROVE  RowStep(k)
  BY <1>2, <1>k DEF CancelWrite, RowStep, Cancelled, JobRow
<1>3. ASSUME NEW j \in Job, DispatchTimesOut(j)
      PROVE  RowStep(k)
  BY <1>3, <1>k DEF DispatchTimesOut, RowStep, Stalled, JobRow, TypeOK
<1>4. ASSUME NEW s \in Sweeper, NEW j \in Job, NEW g \in Gen, ReconcileStall(s, j, g)
      PROVE  RowStep(k)
  <2>1. CASE /\ StallConfirmed(j, g) /\ EnqueueRender(j, g + 1)
             /\ job' = [job EXCEPT ![j].gen = g + 1, ![j].stalled = FALSE]
    BY <2>1, <1>k DEF StallConfirmed, RowStep, Redispatched, JobRow, TypeOK, Gen, EnqueueRender,
                      Outbox!Enqueue
  <2>2. CASE StallConfirmed(j, g) /\ job' = [job EXCEPT ![j].state = "FAILED"] /\ FailRequest(status)
    BY <2>2, <1>k, FailEnds DEF StallConfirmed, RowStep, Dropped, JobRow, TypeOK
  <2> QED
    BY <1>4, <1>0, <2>1, <2>2 DEF ReconcileStall
<1>5. ASSUME NEW j \in Job, NEW g \in Gen, PreRenderHold(j, g) \/ BootstrapFails(j, g)
      PROVE  RowStep(k)
  <2>1. job[j].state = "QUEUED" /\ job' = [job EXCEPT ![j].state = "FAILED"] /\ status' = "FAILED"
    BY <1>5, FailEnds DEF PreRenderHold, BootstrapFails, MayStart
  <2> QED
    BY <2>1, <1>k DEF RowStep, Dropped, JobRow, TypeOK
<1>6. ASSUME NEW j \in Job, WriteFailure(j), job[j].lease # "none"
      PROVE  RowStep(k)
  BY <1>6, <1>k, FailEnds DEF WriteFailure, RowStep, Ended, JobRow, TypeOK
<1>7. ASSUME NEW e \in Exec, RecordRenderFailure(e) \/ RecordFinalFailure(e)
      PROVE  RowStep(k)
  BY <1>7, <1>0, <1>6, ExecType DEF RecordRenderFailure, RecordFinalFailure, OutlastsPhase2
<1>8. ASSUME NEW e \in Exec, Heartbeat(e)
      PROVE  RowStep(k)
  <2>1. ASSUME NEW j \in Job, job[j].state = "RUNNING", job' = [job EXCEPT ![j].lease = "valid"]
        PROVE  RowStep(k)
    BY <2>1, <1>k DEF RowStep, Leased, JobRow, TypeOK
  <2> QED
    BY <1>8, <1>0, <2>1, ExecType DEF Heartbeat, OwnsJob
<1>9. ASSUME NEW j \in Job, LeaseLapses(j) \/ GraceEnds(j)
      PROVE  RowStep(k)
  BY <1>9, <1>k DEF LeaseLapses, GraceEnds, RowStep, Leased, JobRow, TypeOK
<1>10. ASSUME NEW D \in SUBSET Overdue, Expire(D), FailRequest(status)
       PROVE  RowStep(k)
  BY <1>10, <1>k, FailEnds DEF Expire, Overdue, RowStep, Ended, JobRow
<1>11. ASSUME NEW j \in Job, ExpireLease(j)
       PROVE  RowStep(k)
  BY <1>11, <1>10 DEF ExpireLease
<1>12. CASE ReconcileRequest
  BY <1>12, <1>10, <1>0 DEF ReconcileRequest
<1>13. ASSUME NEW e \in Exec, \/ EndRender(e) \/ FinalizeFails(e) \/ LoseRenderFailure(e)
                              \/ LoseFinalFailure(e) \/ CrashWorker(e) \/ SelfFence(e)
       PROVE  job' = job
  BY <1>13 DEF EndRender, FinalizeFails, LoseRenderFailure, LoseFinalFailure, CrashWorker, SelfFence
<1>14. CASE Callings
  BY <1>14, <1>0, <1>1, <1>2 DEF Callings, Prepare, MissionReads, CancelRead, FailRead, FailWrite,
                                 OwnerFails
<1>15. CASE \E m \in Message : Handoff(m) \/ Close(m)
  BY <1>15, <1>0 DEF Handoff, Close
<1>16. CASE \E j \in Job, g \in Gen : Delivery(j, g)
  BY <1>16, <1>5 DEF Delivery, Starts
<1>17. CASE Worker
  BY <1>17, <1>0, <1>7, <1>8, <1>13 DEF Worker, Finalization, Recording, Finalizes
<1>18. CASE Sweeps
  BY <1>18, <1>0, <1>4, <1>11, <1>12 DEF Sweeps, Stalls, DiscoverStall
<1>19. CASE Clock
  BY <1>19, <1>3, <1>9 DEF Clock
<1> QED
  BY <1>14, <1>15, <1>16, <1>17, <1>18, <1>19 DEF Next

\* A step other than the start of a render leaves every execution with the job
\* and the fence it has, and starts none.
LEMMA ExecSteps ==
  ASSUME TypeOK, Next, ~Starts, NEW d \in Exec
  PROVE  /\ exec'[d].job = exec[d].job /\ exec'[d].fence = exec[d].fence
         /\ exec'[d].pc = "idle" <=> exec[d].pc = "idle"
<1> DEFINE Kept == /\ exec'[d].job = exec[d].job /\ exec'[d].fence = exec[d].fence
                   /\ exec'[d].pc = "idle" <=> exec[d].pc = "idle"
<1>d. exec[d] \in ExecState /\ exec \in [Exec -> ExecState]
  BY DEF TypeOK
<1>0. CASE exec' = exec
  BY <1>0
<1>1. ASSUME NEW e \in Exec, NEW pc \in Steps, pc # "idle", exec[e].pc # "idle",
             \/ exec' = [exec EXCEPT ![e].pc = pc]
             \/ exec' = [exec EXCEPT ![e].pc = pc, ![e].heart = "off"]
      PROVE  Kept
  BY <1>1, <1>d DEF ExecState
<1>2. ASSUME NEW e \in Exec, NEW heart, exec' = [exec EXCEPT ![e].heart = heart]
      PROVE  Kept
  BY <1>2, <1>d DEF ExecState
<1>3. CASE Worker
  <2>1. {"rendering", "finalizing", "recordRender", "recordFinal", "done"} \subseteq Steps \ {"idle"}
    BY DEF Steps
  <2>2. PICK e \in Exec : EndRender(e) \/ Finalization(e) \/ Recording(e) \/ CrashWorker(e)
                            \/ Heartbeat(e) \/ SelfFence(e)
    BY <1>3 DEF Worker
  <2>3. CASE EndRender(e)
    BY <1>1, <2>1, <2>3 DEF EndRender
  <2>4. CASE Finalization(e)
    BY <1>1, <2>1, <2>4 DEF Finalization, Finalize, FinalizeFails
  <2>5. CASE Recording(e)
    BY <1>1, <2>1, <2>5 DEF Recording, RecordRenderFailure, RecordFinalFailure, LoseRenderFailure,
                            LoseFinalFailure
  <2>6. CASE CrashWorker(e)
    BY <1>1, <2>1, <2>6 DEF CrashWorker
  <2>7. CASE Heartbeat(e) \/ SelfFence(e)
    BY <1>0, <1>2, <2>7 DEF Heartbeat, SelfFence
  <2> QED
    BY <2>2, <2>3, <2>4, <2>5, <2>6, <2>7
<1>4. CASE ~Worker
  <2>1. exec' = exec
    <3>1. CASE Callings
      BY <3>1 DEF Callings, Prepare, MissionReads, Allocate, CancelRead, CancelWrite, FailRead,
                  FailWrite, OwnerFails
    <3>2. CASE (\E m \in Message : Handoff(m) \/ Close(m)) \/ Clock
      BY <3>2 DEF Handoff, Close, Clock, DispatchTimesOut, LeaseLapses, GraceEnds
    <3>3. CASE \E j \in Job, g \in Gen : Delivery(j, g)
      BY <3>3 DEF Delivery, Starts, PreRenderHold, BootstrapFails
    <3>4. CASE Sweeps
      BY <3>4 DEF Sweeps, Stalls, DiscoverStall, ReconcileStall, ExpireLease, ReconcileRequest
    <3> QED
      BY <1>4, <3>1, <3>2, <3>3, <3>4 DEF Next
  <2> QED
    BY <1>0, <2>1
<1> QED
  BY <1>3, <1>4

\* The start of a render changes one queued row and one idle execution.
LEMMA StartSteps ==
  ASSUME TypeOK, NEW e \in Exec, NEW j \in Job, NEW g \in Gen, StartRender(e, j, g)
  PROVE  /\ job[j].state = "QUEUED" /\ exec[e].pc = "idle"
         /\ job'[j].state = "RUNNING" /\ job'[j].token = e /\ job'[j].lease = "valid"
         /\ job'[j].gen = job[j].gen /\ job'[j].fence = job[j].fence + 1
         /\ \A k \in Job \ {j} : job'[k] = job[k]
         /\ exec'[e].job = j /\ exec'[e].fence = job[j].fence + 1 /\ exec'[e].pc = "rendering"
         /\ exec'[e].fence > 0
         /\ \A d \in Exec \ {e} : exec'[d] = exec[d]
         /\ UNCHANGED <<status, outcome, art, intent>>
<1>1. job[j] \in JobRow /\ job[j].fence \in Nat
  BY RowType DEF JobRow
<1> QED
  BY <1>1 DEF StartRender, MayStart, TypeOK, JobRow, request, dispatch

\* The finalization of a render ends its job, and selects its video if accepted.
LEMMA FinalizeSteps ==
  ASSUME TypeOK, NEW e \in Exec, NEW accepted \in BOOLEAN, Finalize(e, accepted)
  PROVE  LET j == exec[e].job
         IN  /\ j \in Job /\ job[j].state = "RUNNING" /\ Ended(j, "SUCCEEDED")
             /\ \A k \in Job \ {j} : job'[k] = job[k]
             /\ art'[j] = (IF accepted THEN "current" ELSE "candidate")
             /\ \A k \in Job \ {j} : art'[k] = IF accepted /\ art[k] = "current" THEN "candidate"
                                               ELSE art[k]
             /\ outcome' = IF accepted THEN "RENDERED" ELSE "BLOCKED"
             /\ intent' = intent
<1>1. PICK j \in Job : j = exec[e].job
  BY ExecType
<1>2. job[j] \in JobRow
  BY RowType
<1>3. /\ job[j].state = "RUNNING" /\ job[j].lease # "none" /\ status' = "SUCCEEDED"
      /\ job' = [job EXCEPT ![j].state = "SUCCEEDED", ![j].lease = "none"]
      /\ SelectCurrent(j, accepted)
      /\ outcome' = (IF accepted THEN "RENDERED" ELSE "BLOCKED")
      /\ intent' = intent
  BY <1>1 DEF Finalize, OwnsJob, OutlastsPhase2, dispatch
<1>4. /\ \A k \in Job \ {j} : job'[k] = job[k]
      /\ Ended(j, "SUCCEEDED")
  BY <1>2, <1>3 DEF Ended, SameIdentity, JobRow, TypeOK
<1> QED
  BY <1>1, <1>3, <1>4 DEF SelectCurrent

\* What a step may do to the intents of a job that it neither allocates nor
\* redispatches.
LEMMA IntentSteps ==
  ASSUME TypeOK, Next, NEW k \in Job, NEW h \in Gen, ~Born(k), ~Redispatched(k)
  PROVE  \/ intent'[<<k, h>>] = intent[<<k, h>>]
         \/ intent[<<k, h>>] = "active" /\ intent'[<<k, h>>] \in {"sent", "dead"}
<1> USE DEF dispatch
<1>0. CASE intent' = intent
  BY <1>0
<1>1. ASSUME NEW j \in Job, NEW caller \in Callers, Allocate(j, caller), j # k
      PROVE  intent'[<<k, h>>] = intent[<<k, h>>]
  BY <1>1 DEF Allocate, EnqueueRender, Outbox!Enqueue, TypeOK, Message
<1>2. ASSUME NEW caller \in Callers, Allocate(k, caller)
      PROVE  FALSE
  BY <1>2 DEF Allocate, Born, NoJob, TypeOK, EnqueueRender, Outbox!Enqueue
<1>3. ASSUME NEW s \in Sweeper, NEW j \in Job, NEW g \in Gen, ReconcileStall(s, j, g)
      PROVE  intent'[<<k, h>>] = intent[<<k, h>>]
  <2>1. CASE /\ StallConfirmed(j, g) /\ EnqueueRender(j, g + 1) /\ j # k
    BY <2>1 DEF EnqueueRender, Outbox!Enqueue, TypeOK, Message
  <2>2. ASSUME StallConfirmed(k, g), EnqueueRender(k, g + 1),
               job' = [job EXCEPT ![k].gen = g + 1, ![k].stalled = FALSE]
        PROVE  FALSE
    BY <2>2, RowType DEF StallConfirmed, Redispatched, JobRow, TypeOK, Gen, EnqueueRender,
                         Outbox!Enqueue
  <2> QED
    BY <1>3, <1>0, <2>1, <2>2 DEF ReconcileStall
<1>4. ASSUME NEW m \in Message, Handoff(m) \/ Close(m)
      PROVE  \/ intent'[<<k, h>>] = intent[<<k, h>>]
             \/ intent[<<k, h>>] = "active" /\ intent'[<<k, h>>] \in {"sent", "dead"}
  BY <1>4 DEF Handoff, Close, Outbox!Handoff, Outbox!Settle, Outbox!Abandon, TypeOK, Message
<1>5. CASE Callings
  BY <1>5, <1>0, <1>1, <1>2 DEF Callings, Prepare, MissionReads, CancelRead, CancelWrite, FailRead,
                                FailWrite, OwnerFails
<1>6. CASE Sweeps
  BY <1>6, <1>0, <1>3 DEF Sweeps, Stalls, DiscoverStall, ExpireLease, ReconcileRequest
<1>7. CASE Clock
  BY <1>7, <1>0 DEF Clock, DispatchTimesOut, LeaseLapses, GraceEnds
<1>8. CASE Worker
  BY <1>8, <1>0 DEF Worker, EndRender, Finalization, Finalize, FinalizeFails, Recording,
                    RecordRenderFailure, LoseRenderFailure, RecordFinalFailure, LoseFinalFailure,
                    CrashWorker, Heartbeat, SelfFence
<1>9. CASE \E j \in Job, g \in Gen : Delivery(j, g)
  BY <1>9, <1>0 DEF Delivery, StartRender, PreRenderHold, BootstrapFails
<1> QED
  BY <1>4, <1>5, <1>6, <1>7, <1>8, <1>9 DEF Next

\* What a step other than the finalization of a render does to the request.
LEMMA RequestSteps ==
  ASSUME TypeOK, Next, ~Finalizes
  PROVE  /\ art' = art
         /\ status' = "RUNNING" => status = "RUNNING" \/ \E j \in Job : Born(j)
         /\ status' = "SUCCEEDED" => \/ status = "SUCCEEDED"
                                     \/ \E j \in Job : job[j].state = "SUCCEEDED"
         /\ outcome' = "RENDERED" => \/ outcome = "RENDERED"
                                     \/ \E j \in Job : art[j] = "current"
<1> DEFINE Quiet == art' = art /\ status' = status /\ outcome' = outcome
           Fails == /\ art' = art /\ outcome' # "RENDERED"
                    /\ status' # "RUNNING" /\ status' # "SUCCEEDED"
<1> SUFFICES \/ Quiet
             \/ Fails
             \/ /\ art' = art
                /\ outcome' = "RENDERED" => \/ outcome = "RENDERED"
                                            \/ \E j \in Job : art[j] = "current"
                /\ status' = "SUCCEEDED" => \E j \in Job : job[j].state = "SUCCEEDED"
                /\ status' = "RUNNING" => \E j \in Job : Born(j)
  OBVIOUS
<1> USE DEF request
<1>1. \A known : FailRequest(known) => \/ status' = status /\ outcome' = outcome
                                       \/ status' = "FAILED" /\ outcome' = "BLOCKED"
  BY DEF FailRequest
<1>2. \A j : FailRequestFor(j) => status' = "FAILED" /\ outcome' = "BLOCKED"
  BY DEF FailRequestFor
<1>3. ASSUME NEW j \in Job, NEW caller \in Callers, Allocate(j, caller)
      PROVE  art' = art /\ status' = "RUNNING" /\ outcome' = outcome /\ Born(j)
  BY <1>3 DEF Allocate, Born, NoJob, TypeOK, EnqueueRender, Outbox!Enqueue
<1>4. CASE Callings
  <2>1. ASSUME NEW c \in Canceller, CancelRead(c) \/ CancelWrite(c)
        PROVE  Quiet \/ Fails
    BY <2>1 DEF CancelRead, CancelWrite
  <2>2. ASSUME NEW f \in Failer, FailRead(f) \/ FailWrite(f)
        PROVE  Quiet \/ Fails
    BY <2>2, <1>1 DEF FailRead, FailWrite
  <2>3. CASE Prepare
    BY <2>3 DEF Prepare
  <2> QED
    BY <1>4, <1>3, <2>1, <2>2, <2>3 DEF Callings, MissionReads, OwnerFails
<1>5. CASE Sweeps
  <2>1. ASSUME NEW s \in Sweeper, Stalls(s)
        PROVE  Quiet \/ Fails
    BY <2>1, <1>1 DEF Stalls, DiscoverStall, ReconcileStall
  <2>2. ASSUME NEW j \in Job, ExpireLease(j)
        PROVE  Quiet \/ Fails
    BY <2>2, <1>1 DEF ExpireLease
  <2>3. CASE ReconcileRequest
    <3>1. CASE FailRequest(status)
      BY <2>3, <3>1, <1>1 DEF ReconcileRequest
    <3>2. CASE status' = "SUCCEEDED" /\ \E j \in Job : LatestSucceeded(j) /\ art[j] = "current"
      BY <2>3, <3>2 DEF ReconcileRequest, LatestSucceeded, Succeeded
    <3> QED
      BY <2>3, <3>1, <3>2 DEF ReconcileRequest
  <2> QED
    BY <1>5, <2>1, <2>2, <2>3 DEF Sweeps
<1>6. CASE Worker
  <2>1. ASSUME NEW e \in Exec, Recording(e)
        PROVE  Quiet \/ Fails
    BY <2>1, <1>2 DEF Recording, RecordRenderFailure, LoseRenderFailure, RecordFinalFailure,
                      LoseFinalFailure, WriteFailure
  <2> QED
    BY <1>6, <2>1 DEF Worker, EndRender, Finalization, Finalizes, FinalizeFails, CrashWorker,
                      Heartbeat, SelfFence
<1>7. CASE \E j \in Job, g \in Gen : Delivery(j, g)
  BY <1>7, <1>2 DEF Delivery, StartRender, PreRenderHold, BootstrapFails
<1>8. CASE (\E m \in Message : Handoff(m) \/ Close(m)) \/ Clock
  BY <1>8 DEF Handoff, Close, Clock, DispatchTimesOut, LeaseLapses, GraceEnds
<1> QED
  BY <1>4, <1>5, <1>6, <1>7, <1>8 DEF Next

-----------------------------------------------------------------------------
(* The inductive invariant. *)

\* A row step leaves the token, except where a row is born.
LEMMA TokenKept ==
  ASSUME NEW j \in Job, RowStep(j) \/ Ended(j, "SUCCEEDED"), ~Born(j)
  PROVE  /\ job'[j].token = job[j].token
         /\ job[j].state \notin {"ABSENT", "QUEUED"} => job'[j].state \notin {"ABSENT", "QUEUED"}
BY DEF RowStep, Stalled, Redispatched, Dropped, Leased, Ended, Cancelled, SameIdentity

\* The three kinds of steps of a row: a start, a finalization, and the others.
LEMMA AnyRowStep ==
  ASSUME TypeOK, [Next]_vars, ~Starts, NEW j \in Job
  PROVE  RowStep(j) \/ Ended(j, "SUCCEEDED")
<1>1. CASE UNCHANGED vars
  BY <1>1 DEF vars, RowStep
<1>2. CASE Next /\ ~Finalizes
  BY <1>2, RowSteps
<1>3. CASE Finalizes
  BY <1>3, FinalizeSteps DEF Finalizes, RowStep
<1> QED
  BY <1>1, <1>2, <1>3

\* Likewise for an execution.
LEMMA AnyExecStep ==
  ASSUME TypeOK, [Next]_vars, ~Starts, NEW d \in Exec
  PROVE  /\ exec'[d].job = exec[d].job /\ exec'[d].fence = exec[d].fence
         /\ exec'[d].pc = "idle" <=> exec[d].pc = "idle"
BY ExecSteps DEF vars

\* A step keeps the generations and the intents of a job together.
LEMMA DispatchStep ==
  ASSUME TypeOK, AllocatedInv, DispatchFollowsGeneration, [Next]_vars
  PROVE  DispatchFollowsGeneration'
<1>1. CASE UNCHANGED vars
  BY <1>1 DEF vars, DispatchFollowsGeneration
<1>2. CASE Next
  <2> SUFFICES ASSUME NEW k \in Job, NEW h \in Gen
               PROVE  /\ h > job'[k].gen <=> intent'[<<k, h>>] = "absent"
                      /\ h < job'[k].gen => intent'[<<k, h>>] \in {"sent", "dead"}
    BY DEF DispatchFollowsGeneration, Message
  <2>1. /\ h > job[k].gen <=> intent[<<k, h>>] = "absent"
        /\ h < job[k].gen => intent[<<k, h>>] \in {"sent", "dead"}
    BY DEF DispatchFollowsGeneration, Message
  <2>2. <<k, h>> \in Message /\ h \in Nat /\ h > 0
    BY DEF Message, Gen
  <2>3. job[k].gen \in Nat /\ job[k] \in JobRow /\ job[k].gen <= MaxGen
    BY RowType DEF JobRow
  <2>4. intent \in [Message -> {"absent", "active", "sent", "dead"}]
    BY DEF TypeOK
  <2>5. CASE Born(k)
    <3>1. job[k].gen = 0
      BY <2>5 DEF Born, AllocatedInv
    <3> QED
      BY <2>1, <2>2, <2>4, <2>5, <3>1 DEF Born
  <2>6. CASE Redispatched(k)
    <3>1. h = job[k].gen => intent[<<k, h>>] \in {"sent", "dead"}
      BY <2>1, <2>2, <2>3, <2>4, <2>6 DEF Redispatched
    <3>2. CASE h = job[k].gen + 1
      BY <2>2, <2>3, <2>4, <2>6, <3>2 DEF Redispatched
    <3>3. CASE h # job[k].gen + 1
      <4>1. intent'[<<k, h>>] = intent[<<k, h>>] /\ job'[k].gen = job[k].gen + 1
        BY <2>2, <2>3, <2>4, <2>6, <3>3 DEF Redispatched
      <4> QED
        BY <2>1, <2>2, <2>3, <3>1, <3>3, <4>1
    <3> QED
      BY <3>2, <3>3
  <2>7. CASE ~Born(k) /\ ~Redispatched(k)
    <3>1. \/ intent'[<<k, h>>] = intent[<<k, h>>]
          \/ intent[<<k, h>>] = "active" /\ intent'[<<k, h>>] \in {"sent", "dead"}
      BY <1>2, <2>7, IntentSteps
    <3>2. job'[k].gen = job[k].gen
      <4>1. CASE Starts
        BY <4>1, StartSteps DEF Starts
      <4>2. CASE ~Starts
        BY <1>2, <2>7, <4>2, AnyRowStep DEF RowStep, Stalled, Dropped, Leased, Ended, Cancelled,
                                            SameIdentity
      <4> QED
        BY <4>1, <4>2
    <3> QED
      BY <2>1, <2>3, <3>1, <3>2
  <2> QED
    BY <2>5, <2>6, <2>7
<1> QED
  BY <1>1, <1>2

\* A step leaves every started job with the token of its one execution.
LEMMA TokenStep ==
  ASSUME TypeOK, TokenInv, [Next]_vars
  PROVE  TokenInv'
<1>a. NoExec \notin Exec /\ \A d \in Exec : exec[d].job \in Job
  BY NoExecAssumption, ExecType
<1>1. ASSUME NEW e \in Exec, NEW j \in Job, NEW g \in Gen, StartRender(e, j, g)
      PROVE  TokenInv'
  <2>1. /\ job[j].state = "QUEUED" /\ exec[e].pc = "idle"
        /\ job'[j].state = "RUNNING" /\ job'[j].token = e
        /\ \A k \in Job \ {j} : job'[k] = job[k]
        /\ exec'[e].job = j /\ exec'[e].pc = "rendering" /\ exec'[e].fence > 0
        /\ \A d \in Exec \ {e} : exec'[d] = exec[d]
    BY <1>1, StartSteps
  <2>2. ~Started(e) /\ \A d \in Exec : Started(d) => exec[d].job # j
    BY <2>1 DEF TokenInv
  <2>3. \A d \in Exec : exec'[d].pc = "idle" <=> ~Started(d)'
    BY <2>1 DEF TokenInv, Started
  <2>4. \A d \in Exec : Started(d)' => /\ job'[exec'[d].job].token = d
                                       /\ job'[exec'[d].job].state \notin {"ABSENT", "QUEUED"}
    <3> SUFFICES ASSUME NEW d \in Exec, Started(d)', d # e
                 PROVE  /\ job'[exec'[d].job].token = d
                        /\ job'[exec'[d].job].state \notin {"ABSENT", "QUEUED"}
      BY <2>1
    <3>1. exec'[d] = exec[d] /\ Started(d)
      BY <2>1 DEF Started
    <3>2. job'[exec[d].job] = job[exec[d].job]
      BY <1>a, <2>1, <2>2, <3>1
    <3> QED
      BY <3>1, <3>2 DEF TokenInv
  <2>5. \A k \in Job : job'[k].token \in Exec => /\ exec'[job'[k].token].fence > 0
                                                 /\ exec'[job'[k].token].job = k
    <3> SUFFICES ASSUME NEW k \in Job, job'[k].token \in Exec, k # j
                 PROVE  exec'[job'[k].token].fence > 0 /\ exec'[job'[k].token].job = k
      BY <2>1 DEF Started
    <3>1. Started(job[k].token) /\ exec[job[k].token].job = k /\ job[k].token \in Exec
      BY <2>1 DEF TokenInv
    <3>2. exec'[job[k].token] = exec[job[k].token]
      BY <2>1, <2>2, <3>1
    <3> QED
      BY <2>1, <3>1, <3>2 DEF Started
  <2> QED
    BY <2>3, <2>4, <2>5 DEF TokenInv, Started
<1>2. CASE ~Starts
  <2>1. \A d \in Exec : /\ exec'[d].job = exec[d].job /\ (Started(d)' <=> Started(d))
                        /\ exec'[d].pc = "idle" <=> exec[d].pc = "idle"
    BY <1>2, AnyExecStep DEF Started
  <2>2. \A k \in Job : Born(k) => \A d \in Exec : Started(d) => exec[d].job # k
    BY DEF TokenInv, Born
  <2>3. \A k \in Job : Born(k) => job'[k].token \notin Exec
    BY <1>a DEF Born
  <2>4. \A k \in Job : ~Born(k) =>
           /\ job'[k].token = job[k].token
           /\ job[k].state \notin {"ABSENT", "QUEUED"} => job'[k].state \notin {"ABSENT", "QUEUED"}
    BY <1>2, AnyRowStep, TokenKept
  <2>5. \A d \in Exec : Started(d)' => /\ job'[exec'[d].job].token = d
                                       /\ job'[exec'[d].job].state \notin {"ABSENT", "QUEUED"}
    BY <1>a, <2>1, <2>2, <2>4 DEF TokenInv
  <2>6. \A k \in Job : job'[k].token \in Exec => /\ exec'[job'[k].token].fence > 0
                                                 /\ exec'[job'[k].token].job = k
    BY <2>1, <2>3, <2>4 DEF TokenInv, Started
  <2> QED
    BY <2>1, <2>5, <2>6 DEF TokenInv, Started
<1> QED
  BY <1>1, <1>2 DEF Starts

\* A step leaves a lease exactly on the jobs that render or were cut short.
LEMMA LeaseStep ==
  ASSUME TypeOK, TokenInv, LeaseMarksRender, [Next]_vars
  PROVE  LeaseMarksRender'
<1> DEFINE Marked(j) == /\ job[j].state = "RUNNING" <=> job[j].lease # "none" /\ job[j].state # "CANCELLED"
                        /\ job[j].state = "RUNNING" =>
                             /\ job[j].token # NoExec
                             /\ exec[job[j].token].job = j
                             /\ exec[job[j].token].fence = job[j].fence
                        /\ job[j].lease = "valid" => job[j].state = "RUNNING"
           MarkedNext(j) ==
             /\ job'[j].state = "RUNNING" <=> job'[j].lease # "none" /\ job'[j].state # "CANCELLED"
             /\ job'[j].state = "RUNNING" =>
                  /\ job'[j].token # NoExec
                  /\ exec'[job'[j].token].job = j
                  /\ exec'[job'[j].token].fence = job'[j].fence
             /\ job'[j].lease = "valid" => job'[j].state = "RUNNING"
<1> SUFFICES ASSUME NEW k \in Job PROVE MarkedNext(k)
  BY DEF LeaseMarksRender
<1>a. Marked(k)
  BY DEF LeaseMarksRender
<1>b. job[k].state = "RUNNING" => job[k].token \in Exec
  BY <1>a, RowType DEF JobRow
<1>1. ASSUME NEW e \in Exec, NEW j \in Job, NEW g \in Gen, StartRender(e, j, g)
      PROVE  MarkedNext(k)
  <2>1. CASE k = j
    BY <1>1, <2>1, StartSteps, NoExecAssumption
  <2>2. CASE k # j
    <3>1. job'[k] = job[k]
      BY <1>1, <2>2, StartSteps
    <3>2. job[k].state = "RUNNING" => exec'[job[k].token] = exec[job[k].token]
      <4>1. exec[e].pc = "idle" /\ \A d \in Exec \ {e} : exec'[d] = exec[d]
        BY <1>1, StartSteps
      <4>2. job[k].state = "RUNNING" => job[k].token # e
        BY <1>b, <4>1 DEF TokenInv
      <4> QED
        BY <1>b, <4>1, <4>2
    <3> QED
      BY <1>a, <3>1, <3>2
  <2> QED
    BY <2>1, <2>2
<1>2. CASE ~Starts
  <2>1. RowStep(k) \/ Ended(k, "SUCCEEDED")
    BY <1>2, AnyRowStep
  <2>2. job[k].state = "RUNNING" => /\ exec'[job[k].token].job = exec[job[k].token].job
                                    /\ exec'[job[k].token].fence = exec[job[k].token].fence
    BY <1>2, <1>b, AnyExecStep
  <2>3. CASE job'[k] = job[k]
    BY <1>a, <2>2, <2>3
  <2>4. CASE Leased(k)
    BY <1>a, <2>2, <2>4 DEF Leased, SameIdentity
  <2>5. CASE Born(k) \/ Stalled(k) \/ Redispatched(k) \/ Dropped(k)
    BY <1>a, <2>5 DEF Born, Stalled, Redispatched, Dropped
  <2>6. CASE Ended(k, "FAILED") \/ Ended(k, "SUCCEEDED") \/ Cancelled(k)
    BY <2>6 DEF Ended, Cancelled
  <2> QED
    BY <2>1, <2>3, <2>4, <2>5, <2>6 DEF RowStep
<1> QED
  BY <1>1, <1>2 DEF Starts

\* A job that has ended in SUCCEEDED or FAILED holds no lease, so no step changes it.
LEMMA Frozen ==
  ASSUME TypeOK, LeaseMarksRender, [Next]_vars, NEW j \in Job,
         job[j].state \in {"SUCCEEDED", "FAILED"}
  PROVE  job'[j] = job[j]
<1>1. job[j].lease = "none"
  BY DEF LeaseMarksRender
<1>2. CASE Starts
  <2>1. PICK e \in Exec, k \in Job, g \in Gen : StartRender(e, k, g)
    BY <1>2 DEF Starts
  <2> QED
    BY <2>1, StartSteps
<1>3. CASE ~Starts
  BY <1>1, <1>3, AnyRowStep DEF RowStep, Born, Stalled, Redispatched, Dropped, Leased, Ended,
                                Cancelled, ActiveJob
<1> QED
  BY <1>2, <1>3

\* A step keeps the videos and the outcome of the request with the jobs' results.
LEMMA EvidenceStep ==
  ASSUME TypeOK, LeaseMarksRender, SuccessHasEvidence, [Next]_vars
  PROVE  SuccessHasEvidence'
<1>1. CASE UNCHANGED vars
  BY <1>1 DEF vars, SuccessHasEvidence, Succeeded
<1>2. ASSUME NEW e \in Exec, NEW accepted \in BOOLEAN, Finalize(e, accepted)
      PROVE  SuccessHasEvidence'
  <2>1. PICK j \in Job : j = exec[e].job
    BY ExecType
  <2>2. /\ job[j].state = "RUNNING" /\ job'[j].state = "SUCCEEDED"
        /\ \A k \in Job \ {j} : job'[k] = job[k]
        /\ art'[j] = (IF accepted THEN "current" ELSE "candidate")
        /\ \A k \in Job \ {j} : art'[k] = IF accepted /\ art[k] = "current" THEN "candidate"
                                          ELSE art[k]
        /\ outcome' = IF accepted THEN "RENDERED" ELSE "BLOCKED"
    BY <1>2, <2>1, FinalizeSteps DEF Ended
  <2>3. \A k \in Job : art'[k] # "none" <=> job'[k].state = "SUCCEEDED"
    BY <2>2 DEF SuccessHasEvidence
  <2>4. \A k, l \in Job : art'[k] = "current" /\ art'[l] = "current" => k = l
    BY <2>2 DEF SuccessHasEvidence
  <2>5. Succeeded' # {}
    BY <2>2 DEF Succeeded
  <2>6. outcome' = "RENDERED" => art'[j] = "current"
    BY <2>2
  <2> QED
    BY <2>3, <2>4, <2>5, <2>6 DEF SuccessHasEvidence
<1>3. CASE Next /\ ~Finalizes
  <2>1. /\ art' = art
        /\ status' = "SUCCEEDED" => \/ status = "SUCCEEDED"
                                    \/ \E j \in Job : job[j].state = "SUCCEEDED"
        /\ outcome' = "RENDERED" => \/ outcome = "RENDERED"
                                    \/ \E j \in Job : art[j] = "current"
    BY <1>3, RequestSteps
  <2>2. \A k \in Job : job'[k].state = "SUCCEEDED" <=> job[k].state = "SUCCEEDED"
    <3> SUFFICES ASSUME NEW k \in Job
                 PROVE  job'[k].state = "SUCCEEDED" <=> job[k].state = "SUCCEEDED"
      OBVIOUS
    <3>1. CASE job[k].state = "SUCCEEDED"
      BY <3>1, Frozen
    <3>2. CASE job[k].state # "SUCCEEDED" /\ Starts
      <4>1. PICK e \in Exec, j \in Job, g \in Gen : StartRender(e, j, g)
        BY <3>2 DEF Starts
      <4> QED
        BY <3>2, <4>1, StartSteps
    <3>3. CASE job[k].state # "SUCCEEDED" /\ ~Starts
      BY <1>3, <3>3, RowSteps DEF RowStep, Born, Stalled, Redispatched, Dropped, Leased, Ended,
                                  Cancelled
    <3> QED
      BY <3>1, <3>2, <3>3
  <2>3. status' = "SUCCEEDED" => \E j \in Job : job'[j].state = "SUCCEEDED"
    BY <2>1, <2>2 DEF SuccessHasEvidence, Succeeded
  <2>4. \A k \in Job : art'[k] # "none" <=> job'[k].state = "SUCCEEDED"
    BY <2>1, <2>2 DEF SuccessHasEvidence
  <2>5. /\ \A k, l \in Job : art'[k] = "current" /\ art'[l] = "current" => k = l
        /\ outcome' = "RENDERED" => \E k \in Job : art'[k] = "current"
    BY <2>1 DEF SuccessHasEvidence
  <2> QED
    BY <2>3, <2>4, <2>5 DEF SuccessHasEvidence, Succeeded
<1> QED
  BY <1>1, <1>2, <1>3 DEF Finalizes

\* A step that leaves the request RUNNING leaves it an unfinished job.
LEMMA WorkStep ==
  ASSUME TypeOK, LeaseMarksRender, RunningHasWork, [Next]_vars
  PROVE  RunningHasWork'
<1>1. CASE UNCHANGED vars
  BY <1>1 DEF vars, RunningHasWork, Busy, ActiveJob
<1>2. CASE Next /\ status' = "RUNNING"
  <2>1. CASE Finalizes
    BY <1>2, <2>1, FinalizeSteps DEF Finalizes, Ended
  <2>2. CASE \E j \in Job : Born(j)
    BY <2>2 DEF Born, RunningHasWork, Busy, ActiveJob
  <2>3. CASE ~Finalizes /\ ~(\E j \in Job : Born(j))
    <3>1. PICK j \in Job : ActiveJob(j)
      BY <1>2, <2>3, RequestSteps DEF RunningHasWork, Busy
    <3>2. ActiveJob(j)'
      <4>1. CASE Starts
        <5>1. PICK e \in Exec, k \in Job, g \in Gen : StartRender(e, k, g)
          BY <4>1 DEF Starts
        <5> QED
          BY <3>1, <5>1, StartSteps DEF ActiveJob
      <4>2. CASE ~Starts
        BY <1>2, <2>3, <3>1, <4>2, RowSteps DEF RowStep, Born, Stalled, Redispatched, Dropped,
                                               Leased, Ended, Cancelled, ActiveJob
      <4> QED
        BY <4>1, <4>2
    <3> QED
      BY <3>2 DEF RunningHasWork, Busy
  <2> QED
    BY <2>1, <2>2, <2>3
<1> QED
  BY <1>1, <1>2 DEF RunningHasWork

\* The invariant holds at first, and every step keeps it.
LEMMA IndInit == Init => IndInv
<1> SUFFICES ASSUME Init PROVE IndInv
  OBVIOUS
<1>1. TypeOK /\ AllocatedInv
  BY TypeInit
<1>2. \A j \in Job : job[j] = NoJob
  BY DEF Init
<1>3. /\ \A j \in Job : /\ job[j].state = "ABSENT" /\ job[j].lease = "none" /\ job[j].gen = 0
                        /\ job[j].token = NoExec
      /\ \A e \in Exec : exec[e].pc = "idle" /\ exec[e].fence = 0
  BY <1>2 DEF Init, NoJob, IdleExec
<1>4. DispatchFollowsGeneration
  BY <1>3 DEF DispatchFollowsGeneration, Init, Message, Gen
<1>5. TokenInv
  BY <1>3, NoExecAssumption DEF TokenInv, Started
<1>6. LeaseMarksRender /\ SuccessHasEvidence /\ RunningHasWork
  BY <1>3 DEF LeaseMarksRender, SuccessHasEvidence, RunningHasWork, Init
<1> QED
  BY <1>1, <1>4, <1>5, <1>6 DEF IndInv

\* Every step, and every stutter, keeps the invariant.
LEMMA IndStep == IndInv /\ [Next]_vars => IndInv'
BY TypeStep, DispatchStep, TokenStep, LeaseStep, EvidenceStep, WorkStep DEF IndInv

\* The inductive invariant holds in every behaviour.
THEOREM Inductive == Spec => []IndInv
BY IndInit, IndStep, PTL DEF Spec

-----------------------------------------------------------------------------
(* What the invariant gives. *)

\* Every variable of the pipeline keeps its type.
THEOREM RenderTypeCorrect == Spec => []TypeOK
<1>1. IndInv => TypeOK
  BY DEF IndInv
<1> QED
  BY <1>1, Inductive, PTL

\* allocate_and_enqueue_render and the stall sweep dispatch the generations of a
\* job one after the other, each closed before the next is committed.
THEOREM DispatchIsSequential == Spec => []DispatchFollowsGeneration
<1>1. IndInv => DispatchFollowsGeneration
  BY DEF IndInv
<1> QED
  BY <1>1, Inductive, PTL

\* However often a message is delivered or a job redispatched, Phase 1 lets one
\* execution render it.
THEOREM OneRenderPerJob == Spec => []RenderedOnce
<1>1. IndInv => RenderedOnce
  BY DEF IndInv, TokenInv, RenderedOnce
<1> QED
  BY <1>1, Inductive, PTL

\* A job holds a lease while it is rendered and not after it succeeded or failed.
THEOREM LeasesMarkRenders == Spec => []LeaseMarksRender
<1>1. IndInv => LeaseMarksRender
  BY DEF IndInv
<1> QED
  BY <1>1, Inductive, PTL

\* No worker, sweep or call leaves a RUNNING request without an unfinished job.
THEOREM NoRunningOrphan == Spec => []RunningHasWork
<1>1. IndInv => RunningHasWork
  BY DEF IndInv
<1> QED
  BY <1>1, Inductive, PTL

\* A SUCCEEDED request has a SUCCEEDED job, a RENDERED one exactly one current video.
THEOREM EvidenceKept == Spec => []SuccessHasEvidence
<1>1. IndInv => SuccessHasEvidence
  BY DEF IndInv
<1> QED
  BY <1>1, Inductive, PTL

\* No late worker, sweep or cancel changes a job that SUCCEEDED or FAILED.
THEOREM FinishedStaysFinished == Spec => FinishedJobsFrozen
<1>1. IndInv /\ [Next]_vars =>
        [\A j \in Job : job[j].state \in {"SUCCEEDED", "FAILED"} => job'[j] = job[j]]_job
  BY Frozen DEF IndInv
<1> QED
  BY <1>1, Inductive, PTL DEF Spec, FinishedJobsFrozen

\* _apply_artifact_current_selection displaces a current video only for a new one.
THEOREM CurrentIsDisplacedByNewer == Spec => CurrentGivesWayToAccepted
<1>1. ASSUME IndInv, [Next]_vars, NEW j \in Job, art[j] = "current", art'[j] # "current"
      PROVE  \E k \in Job : k # j /\ art[k] = "none" /\ art'[k] = "current"
  <2>1. Finalizes
    BY <1>1, RequestSteps DEF IndInv, vars
  <2>2. PICK e \in Exec, accepted \in BOOLEAN : Finalize(e, accepted)
    BY <2>1 DEF Finalizes
  <2>3. PICK k \in Job : k = exec[e].job
    BY <1>1, ExecType DEF IndInv
  <2>4. /\ job[k].state = "RUNNING"
        /\ art'[k] = (IF accepted THEN "current" ELSE "candidate")
        /\ \A l \in Job \ {k} : art'[l] = IF accepted /\ art[l] = "current" THEN "candidate"
                                          ELSE art[l]
    BY <1>1, <2>2, <2>3, FinalizeSteps DEF IndInv
  <2>5. art[k] = "none" /\ k # j
    BY <1>1, <2>4 DEF IndInv, SuccessHasEvidence
  <2>6. accepted
    BY <1>1, <2>4, <2>5
  <2> QED
    BY <2>4, <2>5, <2>6
<1>2. IndInv /\ [Next]_vars =>
        [\A j \in Job : art[j] = "current" /\ art'[j] # "current" =>
            \E k \in Job : k # j /\ art[k] = "none" /\ art'[k] = "current"]_art
  BY <1>1
<1> QED
  BY <1>2, Inductive, PTL DEF Spec, CurrentGivesWayToAccepted

\* Only the allocation of a new job, with the intent that dispatches it, brings a
\* terminal request back to RUNNING.
THEOREM ReopeningIsDispatched == Spec => ReopenedWithDispatch
<1>1. ASSUME IndInv, [Next]_vars, status \in Terminal, status' = "RUNNING"
      PROVE  \E j \in Job : /\ job[j].state = "ABSENT" /\ job'[j].state = "QUEUED"
                            /\ intent'[<<j, job'[j].gen>>] = "active"
  <2>1. Next /\ status # "RUNNING"
    BY <1>1 DEF vars, Terminal
  <2>2. ~Finalizes
    BY <1>1 DEF Finalizes, Finalize
  <2>3. PICK j \in Job : Born(j)
    BY <1>1, <2>1, <2>2, RequestSteps DEF IndInv
  <2>4. <<j, 1>> \in Message /\ intent \in [Message -> {"absent", "active", "sent", "dead"}]
    BY <1>1, Constants DEF IndInv, TypeOK, Message
  <2> QED
    BY <2>3, <2>4 DEF Born
<1>2. IndInv /\ [Next]_vars =>
        [(status \in Terminal) /\ status' = "RUNNING" =>
            \E j \in Job : /\ job[j].state = "ABSENT" /\ job'[j].state = "QUEUED"
                           /\ intent'[<<j, job'[j].gen>>] = "active"]_vars
  BY <1>1
<1> QED
  BY <1>2, Inductive, PTL DEF Spec, ReopenedWithDispatch
-----------------------------------------------------------------------------
(* The wake-ups of a request with one render job, that at most one cancel call *)
(* and no unlocked fail call meets.                                            *)

OneJob == MaxJobs = 1 /\ Failer = {} /\ \A c, d \in Canceller : c = d

\* The keys under which the sweeps wake the Mission.
SweepKeys == {[status |-> "FAILED"], [status |-> "SUCCEEDED"]}

\* A key tells what has happened: a job's that it ended, the cancel's that it
\* returned, a sweep's that the request is terminal with its one job allocated.
WakeInv ==
    /\ \A j \in Job : [job |-> j] \in wake => job[j].state \in {"SUCCEEDED", "FAILED"}
    /\ [status |-> "CANCELLED"] \in wake => \E c \in Canceller : cancel[c] = Returned
    /\ wake \cap SweepKeys # {} => status \in Terminal /\ \A j \in Job : job[j].state # "ABSENT"
    /\ \A j \in Job : job[j].state # "ABSENT" => plan > 0

\* The wake-ups a step may commit.
JobWakes(j) == /\ wake' = wake \cup {[job |-> j]}
               /\ job[j].state \notin {"SUCCEEDED", "FAILED"} /\ job'[j].state \in {"SUCCEEDED", "FAILED"}
               /\ job[j].state # "ABSENT"
SweepWakes(k) == /\ wake' = wake \cup {k} /\ k \in SweepKeys
                 /\ status \notin Terminal /\ status' \in Terminal
                 /\ \E j \in Job : job[j].state # "ABSENT"
CancelWakes == /\ wake' = wake \cup {[status |-> "CANCELLED"]}
               /\ \E c \in Canceller : cancel[c] \in Status /\ cancel'[c] = Returned
               /\ status' \in Terminal
Silent == /\ wake' = wake
          /\ \/ status' = status
             \/ plan = 0 /\ status' \notin Terminal
             \/ (\E j \in Job : job[j].state = "ABSENT") /\ status' \notin Terminal

Wakes == \/ \E j \in Job : JobWakes(j) /\ status' \in Terminal
         \/ \E k \in SweepKeys : SweepWakes(k)
         \/ CancelWakes
         \/ Silent

LEMMA FailWakes ==
  /\ FailRequest(status) => \/ wake' = wake /\ status' = status
                            \/ /\ status \notin Terminal /\ status' = "FAILED"
                               /\ wake' = wake \cup {[status |-> "FAILED"]}
  /\ {"SUCCEEDED", "FAILED", "CANCELLED"} \subseteq Terminal /\ "RUNNING" \notin Terminal /\ "READY" \notin Terminal
BY DEF FailRequest, Terminal

LEMMA WakeSteps ==
  ASSUME IndInv, OneJob, Next
  PROVE  Wakes
<1> USE DEF IndInv
<1>1. ASSUME NEW j \in Job, FailRequest(status), job[j].state # "ABSENT"
      PROVE  Wakes
  BY <1>1, FailWakes DEF Wakes, Silent, SweepWakes, SweepKeys
<1>2. ASSUME wake' = wake, status' = status
      PROVE  Wakes
  BY <1>2 DEF Wakes, Silent
<1>3. ASSUME NEW j \in Job, FailRequestFor(j), job[j].state \in {"QUEUED", "RUNNING", "CANCELLED"},
             job'[j].state = "FAILED"
      PROVE  Wakes
  BY <1>3, FailWakes DEF Wakes, JobWakes, FailRequestFor
<1>4. CASE Callings
  <2>1. CASE Prepare
    BY <2>1, FailWakes DEF Prepare, Wakes, Silent
  <2>2. ASSUME NEW j \in Job, NEW caller \in Callers, Allocate(j, caller)
        PROVE  Wakes
    BY <2>2, FailWakes DEF Allocate, Wakes, Silent
  <2>3. ASSUME NEW c \in Canceller, CancelRead(c)
        PROVE  Wakes
    BY <1>2, <2>3 DEF CancelRead, request
  <2>4. ASSUME NEW c \in Canceller, CancelWrite(c)
        PROVE  Wakes
    <3>1. cancel[c] \in Status /\ cancel'[c] = Returned
      BY <2>4 DEF CancelWrite, TypeOK
    <3> QED
      BY <1>2, <2>4, <3>1, FailWakes DEF CancelWrite, Wakes, CancelWakes
  <2> QED
    BY <1>2, <1>4, <2>1, <2>2, <2>3, <2>4 DEF Callings, MissionReads, OwnerFails, OneJob, request
<1>5. CASE Sweeps
  <2>1. ASSUME NEW s \in Sweeper, Stalls(s)
        PROVE  Wakes
    <3>1. CASE \E j \in Job : DiscoverStall(s, j)
      BY <1>2, <3>1 DEF DiscoverStall, request
    <3>2. ASSUME NEW j \in Job, NEW g \in Gen, ReconcileStall(s, j, g)
          PROVE  Wakes
      <4>1. UNCHANGED <<status, wake>> \/ (StallConfirmed(j, g) /\ FailRequest(status))
        BY <3>2 DEF ReconcileStall, request
      <4> QED
        BY <1>1, <1>2, <4>1 DEF StallConfirmed
    <3> QED
      BY <2>1, <3>1, <3>2 DEF Stalls
  <2>2. ASSUME NEW j \in Job, ExpireLease(j)
        PROVE  Wakes
    BY <1>1, <2>2 DEF ExpireLease, Overdue
  <2>3. CASE ReconcileRequest
    <3>1. PICK j \in Job : job[j].state # "ABSENT"
      BY <2>3 DEF ReconcileRequest, RunningHasWork, Busy, ActiveJob
    <3>2. CASE FailRequest(status)
      BY <1>1, <3>1, <3>2
    <3>3. CASE status' = "SUCCEEDED" /\ wake' = wake \cup {[status |-> "SUCCEEDED"]}
      BY <2>3, <3>1, <3>3, FailWakes DEF ReconcileRequest, Wakes, SweepWakes, SweepKeys
    <3> QED
      BY <2>3, <3>2, <3>3 DEF ReconcileRequest
  <2> QED
    BY <1>5, <2>1, <2>2, <2>3 DEF Sweeps
<1>6. CASE Worker
  <2>1. PICK e \in Exec : EndRender(e) \/ Finalization(e) \/ Recording(e) \/ CrashWorker(e)
                            \/ Heartbeat(e) \/ SelfFence(e)
    BY <1>6 DEF Worker
  <2>2. CASE EndRender(e) \/ FinalizeFails(e) \/ LoseRenderFailure(e) \/ LoseFinalFailure(e)
               \/ CrashWorker(e) \/ Heartbeat(e) \/ SelfFence(e)
    BY <1>2, <2>2 DEF EndRender, FinalizeFails, LoseRenderFailure, LoseFinalFailure, CrashWorker,
                      Heartbeat, SelfFence, request
  <2> PICK j \in Job : j = exec[e].job
    BY ExecType
  <2>3. ASSUME NEW accepted \in BOOLEAN, Finalize(e, accepted)
        PROVE  Wakes
    <3>1. job[j].state = "RUNNING" /\ job'[j].state = "SUCCEEDED"
      BY <2>3, FinalizeSteps DEF Ended
    <3>2. wake' = wake \cup {[job |-> j]} /\ status' = "SUCCEEDED"
      BY <2>3 DEF Finalize
    <3> QED
      BY <3>1, <3>2, FailWakes DEF Wakes, JobWakes
  <2>4. CASE RecordRenderFailure(e) \/ RecordFinalFailure(e)
    <3>1. CASE WriteFailure(j) /\ job[j].lease # "none"
      <4>1. job[j].state \in {"RUNNING", "CANCELLED"}
        BY <3>1 DEF LeaseMarksRender
      <4>2. job'[j].state = "FAILED"
        BY <3>1, RowType DEF WriteFailure, JobRow, TypeOK
      <4> QED
        BY <1>3, <3>1, <4>1, <4>2 DEF WriteFailure
    <3>2. CASE UNCHANGED <<job, status, outcome, wake>>
      BY <1>2, <3>2
    <3> QED
      BY <2>4, <3>1, <3>2 DEF RecordRenderFailure, RecordFinalFailure, OutlastsPhase2
  <2> QED
    BY <2>1, <2>2, <2>3, <2>4 DEF Finalization, Recording
<1>7. ASSUME NEW j \in Job, NEW g \in Gen, Delivery(j, g)
      PROVE  Wakes
  <2>1. CASE \E e \in Exec : StartRender(e, j, g)
    BY <1>2, <2>1 DEF StartRender, request
  <2>2. CASE PreRenderHold(j, g) \/ BootstrapFails(j, g)
    <3>1. FailRequestFor(j) /\ job[j].state = "QUEUED" /\ job' = [job EXCEPT ![j].state = "FAILED"]
      BY <2>2 DEF PreRenderHold, BootstrapFails, MayStart
    <3>2. job'[j].state = "FAILED"
      BY <3>1, RowType DEF JobRow, TypeOK
    <3> QED
      BY <1>3, <3>1, <3>2
  <2> QED
    BY <1>7, <2>1, <2>2 DEF Delivery
<1>8. CASE (\E m \in Message : Handoff(m) \/ Close(m)) \/ Clock
  BY <1>2, <1>8 DEF Handoff, Close, Clock, DispatchTimesOut, LeaseLapses, GraceEnds, request
<1> QED
  BY <1>4, <1>5, <1>6, <1>7, <1>8 DEF Next

\* Only an allocation makes a job, and it asks for a plan.
LEMMA PlanSteps ==
  ASSUME IndInv, Next
  PROVE  \/ \E j \in Job, caller \in Callers : Allocate(j, caller)
         \/ Prepare
         \/ plan' = plan /\ \A k \in Job : job[k].state = "ABSENT" => job'[k].state = "ABSENT"
<1> DEFINE Kept == plan' = plan /\ \A k \in Job : job[k].state = "ABSENT" => job'[k].state = "ABSENT"
<1> USE DEF IndInv
<1>1. ASSUME plan' = plan, job' = job PROVE Kept
  BY <1>1
<1>2. ASSUME plan' = plan, NEW j \in Job, job[j].state # "ABSENT",
             \A k \in Job \ {j} : job'[k] = job[k]
      PROVE  Kept
  BY <1>2
<1>3. CASE Callings
  <2>1. ASSUME NEW c \in Canceller, CancelRead(c) PROVE Kept
    BY <2>1 DEF CancelRead, request
  <2>2. ASSUME NEW c \in Canceller, CancelWrite(c) PROVE Kept
    BY <2>2 DEF CancelWrite, ActiveJob
  <2>3. ASSUME NEW f \in Failer, FailRead(f) \/ FailWrite(f) PROVE Kept
    BY <2>3 DEF FailRead, FailWrite, request
  <2> QED
    BY <1>3, <2>1, <2>2, <2>3 DEF Callings, MissionReads, OwnerFails, request
<1>4. CASE Sweeps
  <2>1. ASSUME NEW s \in Sweeper, Stalls(s) PROVE Kept
    <3>1. CASE \E j \in Job : DiscoverStall(s, j)
      BY <3>1 DEF DiscoverStall, request
    <3>2. ASSUME NEW j \in Job, NEW g \in Gen, ReconcileStall(s, j, g) PROVE Kept
      <4>1. CASE job' = job
        BY <3>2, <4>1 DEF ReconcileStall, request
      <4>2. CASE StallConfirmed(j, g) /\ (\/ job' = [job EXCEPT ![j].gen = g + 1, ![j].stalled = FALSE]
                                          \/ job' = [job EXCEPT ![j].state = "FAILED"])
        <5>1. plan' = plan /\ job[j].state # "ABSENT" /\ \A k \in Job \ {j} : job'[k] = job[k]
          BY <3>2, <4>2 DEF ReconcileStall, StallConfirmed, request, TypeOK
        <5> QED
          BY <5>1
      <4> QED
        BY <3>2, <4>1, <4>2 DEF ReconcileStall
    <3> QED
      BY <2>1, <3>1, <3>2 DEF Stalls
  <2>2. ASSUME NEW j \in Job, ExpireLease(j) PROVE Kept
    BY <2>2 DEF ExpireLease, Expire, Overdue
  <2>3. CASE ReconcileRequest
    BY <2>3 DEF ReconcileRequest, Expire, Overdue
  <2> QED
    BY <1>4, <2>1, <2>2, <2>3 DEF Sweeps
<1>5. CASE Worker
  <2>1. PICK e \in Exec : EndRender(e) \/ Finalization(e) \/ Recording(e) \/ CrashWorker(e)
                            \/ Heartbeat(e) \/ SelfFence(e)
    BY <1>5 DEF Worker
  <2> PICK j \in Job : j = exec[e].job
    BY ExecType
  <2>2. plan' = plan /\ \A k \in Job \ {j} : job'[k] = job[k]
    BY <2>1 DEF EndRender, Finalization, Finalize, FinalizeFails, Recording, RecordRenderFailure,
                RecordFinalFailure, LoseRenderFailure, LoseFinalFailure, WriteFailure, CrashWorker,
                Heartbeat, SelfFence, request, TypeOK
  <2>3. job' = job \/ job[j].state # "ABSENT"
    BY <2>1 DEF EndRender, Finalization, Finalize, FinalizeFails, Recording, RecordRenderFailure,
                RecordFinalFailure, LoseRenderFailure, LoseFinalFailure, WriteFailure, CrashWorker,
                Heartbeat, SelfFence, OwnsJob, OutlastsPhase2, LeaseMarksRender
  <2> QED
    BY <2>2, <2>3
<1>6. ASSUME NEW j \in Job, NEW g \in Gen, Delivery(j, g) PROVE Kept
  <2>1. plan' = plan /\ \A k \in Job \ {j} : job'[k] = job[k]
    BY <1>6 DEF Delivery, StartRender, PreRenderHold, BootstrapFails, request, TypeOK
  <2>2. job[j].state # "ABSENT"
    BY <1>6 DEF Delivery, StartRender, PreRenderHold, BootstrapFails, MayStart
  <2> QED
    BY <2>1, <2>2
<1>7. CASE \E m \in Message : Handoff(m) \/ Close(m)
  BY <1>7 DEF Handoff, Close, request
<1>8. CASE Clock
  <2>1. PICK j \in Job : DispatchTimesOut(j) \/ LeaseLapses(j) \/ GraceEnds(j)
    BY <1>8 DEF Clock
  <2>2. plan' = plan /\ job[j].state # "ABSENT" /\ \A k \in Job \ {j} : job'[k] = job[k]
    BY <2>1 DEF DispatchTimesOut, LeaseLapses, GraceEnds, request, TypeOK
  <2> QED
    BY <2>2
<1> QED
  BY <1>3, <1>4, <1>5, <1>6, <1>7, <1>8 DEF Next

LEMMA PlanKept ==
  ASSUME IndInv, Next, \A j \in Job : job[j].state # "ABSENT" => plan > 0
  PROVE  /\ \A j \in Job : job'[j].state # "ABSENT" => plan' > 0
         /\ plan > 0 => plan' > 0
<1>1. plan \in Nat
  BY Constants DEF IndInv, TypeOK
<1>2. CASE Prepare
  BY <1>2 DEF Prepare
<1>3. CASE \E j \in Job, caller \in Callers : Allocate(j, caller)
  BY <1>1, <1>3 DEF Allocate
<1>4. CASE plan' = plan /\ \A k \in Job : job[k].state = "ABSENT" => job'[k].state = "ABSENT"
  BY <1>4
<1> QED
  BY <1>2, <1>3, <1>4, PlanSteps

\* A job that is there stays.
LEMMA JobStays ==
  ASSUME IndInv, [Next]_vars, NEW j \in Job, job[j].state # "ABSENT"
  PROVE  job'[j].state # "ABSENT"
<1>1. CASE Starts
  BY <1>1, StartSteps DEF Starts, IndInv
<1>2. CASE ~Starts
  BY <1>2, AnyRowStep DEF IndInv, RowStep, Born, Stalled, Redispatched, Dropped, Leased, Ended, Cancelled
<1> QED
  BY <1>1, <1>2

LEMMA CancelSteps ==
  ASSUME IndInv, Next, NEW c \in Canceller, cancel[c] = Returned
  PROVE  cancel'[c] = Returned
<1>1. CASE cancel' = cancel
  BY <1>1
<1>2. ASSUME NEW d \in Canceller, CancelRead(d) \/ CancelWrite(d)
      PROVE  cancel'[c] = Returned
  <2>1. cancel[d] # Returned
    BY <1>2 DEF CancelRead, CancelWrite, Unread, Returned, Status
  <2> QED
    BY <1>2, <2>1 DEF CancelRead, CancelWrite, IndInv, TypeOK
<1>3. CASE Callings
  BY <1>1, <1>2, <1>3 DEF Callings, Prepare, MissionReads, Allocate, FailRead, FailWrite, OwnerFails, calls
<1>4. CASE Sweeps \/ Clock \/ \E m \in Message : Handoff(m) \/ Close(m)
  <2>1. cancel' = cancel
    BY <1>4 DEF Sweeps, Stalls, DiscoverStall, ReconcileStall, ExpireLease, ReconcileRequest, Clock,
                DispatchTimesOut, LeaseLapses, GraceEnds, Handoff, Close, calls
  <2> QED
    BY <1>1, <2>1
<1>5. CASE Worker
  <2>1. cancel' = cancel
    BY <1>5 DEF Worker, EndRender, Finalization, Finalize, FinalizeFails, Recording, RecordRenderFailure,
                RecordFinalFailure, LoseRenderFailure, LoseFinalFailure, CrashWorker, Heartbeat, SelfFence,
                calls
  <2> QED
    BY <1>1, <2>1
<1>6. CASE \E j \in Job, g \in Gen : Delivery(j, g)
  <2>1. cancel' = cancel
    BY <1>6 DEF Delivery, StartRender, PreRenderHold, BootstrapFails, calls
  <2> QED
    BY <1>1, <2>1
<1> QED
  BY <1>3, <1>4, <1>5, <1>6 DEF Next

\* Keys of different origin differ.
LEMMA KeysDiffer ==
  /\ \A j, s : [job |-> j] # [status |-> s]
  /\ \A j, k : [job |-> j] = [job |-> k] => j = k
  /\ [status |-> "CANCELLED"] \notin SweepKeys
<1>1. \A j, s : [job |-> j] # [status |-> s]
  <2> TAKE j, s
  <2>1. DOMAIN [job |-> j] = {"job"} /\ DOMAIN [status |-> s] = {"status"}
    OBVIOUS
  <2>2. "job" # "status"
    OBVIOUS
  <2> QED
    BY <2>1, <2>2
<1>2. \A j, k : [job |-> j] = [job |-> k] => j = k
  <2> TAKE j, k
  <2>1. [job |-> j].job = j /\ [job |-> k].job = k
    OBVIOUS
  <2> QED
    BY <2>1
<1>3. \A k \in SweepKeys : k.status # "CANCELLED"
  BY DEF SweepKeys
<1>4. [status |-> "CANCELLED"].status = "CANCELLED"
  OBVIOUS
<1> QED
  BY <1>1, <1>2, <1>3, <1>4

LEMMA WakeStep ==
  ASSUME IndInv, WakeInv, OneJob, [Next]_vars
  PROVE  /\ WakeInv'
         /\ (status \notin Terminal) /\ status' \in Terminal => wake' # wake
<1>1. CASE UNCHANGED vars
  <2>1. UNCHANGED <<status, plan, job, cancel, wake>>
    BY <1>1 DEF vars
  <2> QED
    BY <2>1 DEF WakeInv
<1>2. CASE Next
  <2>1. Wakes
    BY <1>2, WakeSteps
  <2>2. \A j \in Job : job'[j].state # "ABSENT" => plan' > 0
    BY <1>2, PlanKept DEF WakeInv
  <2>3. \A j \in Job : job[j].state # "ABSENT" => job'[j].state # "ABSENT"
    BY <1>2, JobStays
  <2>4. \A j \in Job : job[j].state \in {"SUCCEEDED", "FAILED"} => job'[j].state = job[j].state
    BY <1>2, Frozen DEF IndInv
  <2>5. \A c \in Canceller : cancel[c] = Returned => cancel'[c] = Returned
    BY <1>2, CancelSteps
  <2>6. Job = {1}
    BY DEF Job, OneJob
  <2>7. wake' = wake \/ \E k : wake' = wake \cup {k}
    BY <2>1 DEF Wakes, JobWakes, SweepWakes, CancelWakes, Silent
  <2>8. ASSUME NEW j \in Job, [job |-> j] \in wake'
        PROVE  job'[j].state \in {"SUCCEEDED", "FAILED"}
    <3>1. CASE [job |-> j] \in wake
      BY <2>4, <3>1 DEF WakeInv
    <3>2. CASE [job |-> j] \notin wake
      <4>1. \A s : [job |-> j] # [status |-> s]
        BY KeysDiffer
      <4>2. PICK k \in Job : JobWakes(k)
        BY <2>1, <2>8, <3>2, <4>1 DEF Wakes, SweepWakes, CancelWakes, Silent, SweepKeys
      <4>3. j = k
        BY <2>8, <3>2, <4>2, KeysDiffer DEF JobWakes
      <4> QED
        BY <4>2, <4>3 DEF JobWakes
    <3> QED
      BY <3>1, <3>2
  <2>9. ASSUME [status |-> "CANCELLED"] \in wake'
        PROVE  \E c \in Canceller : cancel'[c] = Returned
    <3>1. CASE [status |-> "CANCELLED"] \in wake
      BY <2>5, <3>1 DEF WakeInv
    <3>2. CASE [status |-> "CANCELLED"] \notin wake
      <4>1. CancelWakes
        BY <2>1, <2>9, <3>2, KeysDiffer DEF Wakes, SweepWakes, JobWakes, Silent
      <4> QED
        BY <4>1 DEF CancelWakes
    <3> QED
      BY <3>1, <3>2
  <2>10. ASSUME wake' \cap SweepKeys # {}
         PROVE  status' \in Terminal /\ \A j \in Job : job'[j].state # "ABSENT"
    <3>1. CASE wake \cap SweepKeys # {}
      <4>1. status \in Terminal /\ 1 \in Job /\ job[1].state # "ABSENT" /\ plan # 0
        BY <2>6, <3>1, Constants DEF WakeInv, IndInv, TypeOK
      <4>2. status' \in Terminal
        BY <2>1, <2>6, <4>1 DEF Wakes, SweepWakes, CancelWakes, Silent
      <4> QED
        BY <2>3, <2>6, <4>1, <4>2
    <3>2. CASE wake \cap SweepKeys = {}
      <4>1. PICK k \in SweepKeys : k \in wake' /\ k \notin wake
        BY <2>10, <3>2
      <4>2. k # [status |-> "CANCELLED"] /\ \A j : k # [job |-> j]
        BY <4>1, KeysDiffer DEF SweepKeys
      <4>3. PICK l \in SweepKeys : SweepWakes(l)
        BY <2>1, <4>1, <4>2 DEF Wakes, JobWakes, CancelWakes, Silent
      <4>4. \A j \in Job : job[j].state # "ABSENT"
        BY <2>6, <4>3 DEF SweepWakes
      <4> QED
        BY <2>3, <4>3, <4>4 DEF SweepWakes
    <3> QED
      BY <3>1, <3>2
  <2>11. ASSUME status \notin Terminal, status' \in Terminal
         PROVE  wake' # wake
    <3>1. ASSUME NEW j \in Job, JobWakes(j) PROVE wake' # wake
      <4>1. [job |-> j] \notin wake
        BY <3>1 DEF WakeInv, JobWakes
      <4> QED
        BY <3>1, <4>1 DEF JobWakes
    <3>2. ASSUME NEW k \in SweepKeys, SweepWakes(k) PROVE wake' # wake
      <4>1. k \notin wake
        BY <2>11 DEF WakeInv
      <4> QED
        BY <3>2, <4>1 DEF SweepWakes
    <3>3. CASE CancelWakes
      <4>1. PICK c \in Canceller : cancel[c] \in Status
        BY <3>3 DEF CancelWakes
      <4>2. cancel[c] # Returned /\ \A d \in Canceller : d = c
        BY <4>1 DEF Status, Returned, OneJob
      <4>3. [status |-> "CANCELLED"] \notin wake
        BY <4>2 DEF WakeInv
      <4> QED
        BY <3>3, <4>3 DEF CancelWakes
    <3>4. ~Silent
      BY <2>11 DEF Silent
    <3> QED
      BY <2>1, <3>1, <3>2, <3>3, <3>4 DEF Wakes
  <2>12. WakeInv'
    BY <2>2, <2>8, <2>9, <2>10 DEF WakeInv
  <2> QED
    BY <2>11, <2>12
<1> QED
  BY <1>1, <1>2

\* A request with one render job, which one cancel call may meet and no unlocked
\* fail call, becomes terminal only in a transaction that commits a new wake-up of
\* its Mission, whichever of worker, sweep or cancel comes first.
THEOREM TerminalIsAnnounced ==
  ASSUME MaxJobs = 1, Failer = {}, \A c, d \in Canceller : c = d
  PROVE  Spec => TerminalWakesMission
<1>1. OneJob
  BY DEF OneJob
<1>2. Init => WakeInv
  BY DEF Init, WakeInv, NoJob
<1>3. IndInv /\ WakeInv /\ [Next]_vars => WakeInv'
  BY <1>1, WakeStep
<1>4. IndInv /\ WakeInv /\ [Next]_vars => [(status \notin Terminal) /\ status' \in Terminal => wake' # wake]_vars
  BY <1>1, WakeStep
<1> QED
  BY <1>2, <1>3, <1>4, Inductive, PTL DEF Spec, TerminalWakesMission
=============================================================================
