------------------------------- MODULE Mission -------------------------------
(***************************************************************************)
(* One Mission of OMEGA: its DAG of tasks, the orchestrator that evaluates *)
(* the DAG in several transactions around an unlocked Guardian check, the  *)
(* workers that execute tasks, and the user calls that plan, start, pause, *)
(* resume, cancel, approve and reject.                                     *)
(*                                                                         *)
(* Every session is made with expire_on_commit=False and no query asks for *)
(* populate_existing, so a row that a session has read once keeps, for     *)
(* that session, the values of its first read: SELECT ... FOR UPDATE locks *)
(* the row and does not refresh the object.  `mem` is this identity map.   *)
(* An UPDATE carries only the attributes that differ from it.              *)
(*                                                                         *)
(* The dispatch intents go through DurableDispatch: `keys` are those that  *)
(* exist, `fresh` the tasks with a message not yet delivered.  `due` says  *)
(* that an evaluation message is under way.  No code makes a task BLOCKED. *)
(* MissionExecution.state follows Mission.state and guards nothing here,   *)
(* so it is left out.                                                      *)
(***************************************************************************)
EXTENDS Naturals, FiniteSets

CONSTANTS
    Task,           \* the planned tasks
    Prereq,         \* Prereq[t]: the tasks t depends on
    Approval,       \* tasks with requires_approval
    Production,     \* tasks of type production
    MaxRetries,     \* max_retries of a task
    MaxEpoch,       \* bound: guardian_epoch
    Evaluator,      \* bound: evaluations at a time
    Worker,         \* bound: task executions at a time
    Resumer,        \* bound: resume calls at a time
    Calls,          \* calls users make: subset of {"pause", "cancel", "reject"}
    Verdicts,       \* what the Guardian may decide
    MaxRepeats,     \* bound: messages delivered again
    Crashes,        \* workers and evaluations may die
    PolicyHolds,    \* a schedule policy may hold tasks back
    SlowRenders     \* a render outlasts the commit that correlates it

ASSUME TaskAssumption == /\ Prereq \in [Task -> SUBSET Task]
                         /\ Approval \subseteq Task
                         /\ Production \subseteq Task
ASSUME BoundsAssumption == {MaxRetries, MaxRepeats} \subseteq Nat /\ MaxEpoch \in Nat \ {0}
ASSUME EnvironmentAssumption ==
    /\ Calls \subseteq {"pause", "cancel", "reject"}
    /\ Verdicts \subseteq {"allow", "hold", "pause", "fail"}
    /\ {Crashes, PolicyHolds, SlowRenders} \subseteq BOOLEAN

VARIABLES
    state,      \* Mission.state
    epoch,      \* Mission.guardian_epoch
    task,       \* task[t]: the tasks row
    render,     \* render[t]: the render job of production task t
    keys,       \* idempotency keys of the task dispatch intents
    fresh,
    due,
    repeats,    \* messages delivered again so far
    eval,       \* eval[e]: an evaluate_mission call and its session
    work,       \* work[w]: an execute_task call
    resume,     \* resume[r]: the epoch a resume call has read, 0 outside a call
    done,       \* history: tasks that have SUCCEEDED
    approved,   \* history: tasks a user has approved
    forced      \* history: the Guardian has forced the Mission to fail

mission == <<state, epoch>>
messages == <<keys, fresh, due, repeats>>
history == <<done, approved, forced>>
vars == <<state, epoch, task, render, keys, fresh, due, repeats, eval, work, resume,
          done, approved, forced>>

MissionStates == {"DRAFT", "READY", "RUNNING", "PAUSED", "SUCCEEDED", "FAILED", "CANCELLED"}
Terminal == {"SUCCEEDED", "FAILED", "CANCELLED"}
TaskStates == {"PENDING", "READY", "QUEUED", "RUNNING", "WAITING_APPROVAL"} \cup Terminal

Epoch == 1..MaxEpoch
Key == Task \X (0..MaxRetries) \X Epoch \X BOOLEAN

\* dispatched: dispatched_epoch, 0 for NULL.  output: the correlation with the
\* render job is on the row.
TaskRow == [state : TaskStates \cup {"ABSENT"}, retries : 0..MaxRetries,
            dispatched : 0..MaxEpoch, output : BOOLEAN]
NoTask == [state |-> "ABSENT", retries |-> 0, dispatched |-> 0, output |-> FALSE]
Unread == [NoTask EXCEPT !.state = "UNREAD"]

\* api: the evaluation runs in the session of an approve or reject call.
EvalState == [pc : {"idle", "begin", "guard", "dispatch", "complete", "terminal", "succeed"},
              mem : [Task -> TaskRow \cup {Unread}], epoch : 0..MaxEpoch, api : BOOLEAN]
IdleEval == [pc |-> "idle", mem |-> [t \in Task |-> Unread], epoch |-> 0, api |-> FALSE]

WorkState == [pc : {"running", "pending"}, task : Task] \cup {[pc |-> "idle"]}
IdleWork == [pc |-> "idle"]

TypeOK == /\ state \in MissionStates
          /\ epoch \in Epoch
          /\ task \in [Task -> TaskRow]
          /\ render \in [Task -> {"none", "active", "succeeded", "failed"}]
          /\ keys \subseteq Key
          /\ fresh \subseteq Task
          /\ due \in BOOLEAN
          /\ repeats \in 0..MaxRepeats
          /\ eval \in [Evaluator -> EvalState]
          /\ work \in [Worker -> WorkState]
          /\ resume \in [Resumer -> 0..MaxEpoch]
          /\ done \subseteq Task
          /\ approved \subseteq Task
          /\ forced \in BOOLEAN

Init == /\ state = "DRAFT" /\ epoch = 1
        /\ task = [t \in Task |-> NoTask]
        /\ render = [t \in Task |-> "none"]
        /\ keys = {} /\ fresh = {} /\ due = FALSE /\ repeats = 0
        /\ eval = [e \in Evaluator |-> IdleEval]
        /\ work = [w \in Worker |-> IdleWork]
        /\ resume = [r \in Resumer |-> 0]
        /\ done = {} /\ approved = {} /\ forced = FALSE

Dispatched(t) == \E k \in keys : k[1] = t

\* A message is delivered for the first time, or one once sent is delivered again.
Taken(waiting, sent) ==
    \/ waiting /\ UNCHANGED repeats
    \/ /\ sent /\ repeats < MaxRepeats
       /\ repeats' = repeats + 1

-----------------------------------------------------------------------------
(* User calls that read and write the Mission under its lock. *)

Plan ==
    /\ state = "DRAFT"
    /\ state' = "READY"
    /\ task' = [t \in Task |-> [NoTask EXCEPT !.state = "PENDING"]]
    /\ UNCHANGED <<epoch, render, messages, eval, work, resume, history>>

Start ==
    /\ state = "READY"
    /\ state' = "RUNNING"
    /\ due' = TRUE
    /\ UNCHANGED <<epoch, task, render, keys, fresh, repeats, eval, work, resume, history>>

Pause ==
    /\ "pause" \in Calls
    /\ state = "RUNNING" /\ epoch < MaxEpoch
    /\ state' = "PAUSED"
    /\ epoch' = epoch + 1
    /\ UNCHANGED <<task, render, messages, eval, work, resume, history>>

\* Leaves RUNNING tasks alone.
Cancel ==
    /\ "cancel" \in Calls
    /\ state \in {"READY", "RUNNING", "PAUSED"}
    /\ state' = "CANCELLED"
    /\ task' = [t \in Task |->
                  IF task[t].state \in {"PENDING", "READY", "WAITING_APPROVAL", "QUEUED"}
                  THEN [task[t] EXCEPT !.state = "CANCELLED"] ELSE task[t]]
    /\ UNCHANGED <<epoch, render, messages, eval, work, resume, history>>

\* approve_task and reject_task commit their write of t and go on to evaluate the
\* Mission in the same session.
Decide(e, t, new) ==
    /\ task[t].state = "WAITING_APPROVAL"
    /\ eval[e].pc = "idle"
    /\ task' = [task EXCEPT ![t].state = new]
    /\ eval' = [eval EXCEPT ![e] =
                  [IdleEval EXCEPT !.pc = "begin", !.api = TRUE,
                                   !.mem = [@ EXCEPT ![t] = task'[t]]]]

ApproveTask(e, t) ==
    /\ Decide(e, t, "READY")
    /\ approved' = approved \cup {t}
    /\ UNCHANGED <<mission, render, messages, work, resume, done, forced>>

RejectTask(e, t) ==
    /\ "reject" \in Calls
    /\ Decide(e, t, "FAILED")
    /\ UNCHANGED <<mission, render, messages, work, resume, history>>

-----------------------------------------------------------------------------
(* The Guardian: its decision writes the Mission whatever its state is. *)

Verdict(v) ==
    /\ v \in Verdicts
    /\ v \in {"pause", "fail"} => epoch < MaxEpoch
    /\ epoch' = IF v \in {"pause", "fail"} THEN epoch + 1 ELSE epoch
    /\ state' = CASE v = "pause" -> "PAUSED" [] v = "fail" -> "FAILED" [] OTHER -> state
    /\ forced' = (forced \/ v = "fail")

-----------------------------------------------------------------------------
(* resume_mission: reads, has the Guardian check again, and writes. *)

ResumeRead(r) ==
    /\ resume[r] = 0
    /\ state \in {"READY", "PAUSED"}
    /\ resume' = [resume EXCEPT ![r] = epoch]
    /\ UNCHANGED <<mission, task, render, messages, eval, work, history>>

ResumeBlocked(r, v) ==
    /\ resume[r] # 0
    /\ v # "allow"
    /\ Verdict(v)
    /\ resume' = [resume EXCEPT ![r] = 0]
    /\ UNCHANGED <<task, render, messages, eval, work, done, approved>>

\* State and epoch are computed from the object read at the beginning.  The
\* evaluation message is not an intent: it is sent after the commit, or lost.
ResumeWrite(r) ==
    /\ resume[r] \in 1..(MaxEpoch - 1)
    /\ "allow" \in Verdicts
    /\ state' = "RUNNING"
    /\ epoch' = resume[r] + 1
    /\ due' \in IF Crashes THEN {TRUE, due} ELSE {TRUE}
    /\ resume' = [resume EXCEPT ![r] = 0]
    /\ UNCHANGED <<task, render, keys, fresh, repeats, eval, work, history>>

-----------------------------------------------------------------------------
(* The evaluation of the DAG. *)

View(e) == [t \in Task |-> IF eval[e].mem[t] = Unread THEN task[t] ELSE eval[e].mem[t]]

AllSucceeded(seen, t) == \A p \in Prereq[t] : seen[p].state = "SUCCEEDED"
AnyFailed(seen, C, t) == \E p \in Prereq[t] : seen[p].state \in {"FAILED", "CANCELLED"} \/ p \in C

\* Mutant: a prerequisite that has not failed will do.
ReadyUnlessFailed(seen, t) ==
    /\ seen[t].state = "PENDING"
    /\ ~AnyFailed(seen, {}, t)

BecomesReady(seen, t) ==
    /\ seen[t].state = "PENDING"
    /\ AllSucceeded(seen, t)

\* Mutant: does not ask whether the task still waits for the render.
RenderKnown(seen, t) ==
    /\ t \in Production
    /\ seen[t].output
    /\ render[t] \in {"succeeded", "failed"}

RenderReported(seen, t) ==
    /\ t \in Production
    /\ seen[t].state = "RUNNING" /\ seen[t].output
    /\ render[t] \in {"succeeded", "failed"}

\* Mutant: does not ask for approval.
ReadyState(t) == "READY"

GateState(t) == IF t \in Approval THEN "WAITING_APPROVAL" ELSE "READY"

\* The states step 4 gives the tasks.  C are those cancelled after a
\* prerequisite; the rows come unordered, so one cancelled in the same pass
\* counts for the tasks that happen to follow it.
Evaluated(seen, C) ==
    [t \in Task |-> [seen[t] EXCEPT !.state =
        IF t \in C THEN "CANCELLED"
        ELSE IF BecomesReady(seen, t) THEN GateState(t)
        ELSE IF RenderReported(seen, t) THEN "READY"
        ELSE @]]

Cancelled(seen, C) ==
    /\ C \subseteq {t \in Task : seen[t].state = "PENDING"}
    /\ \A t \in C : AnyFailed(seen, C, t)
    /\ \A t \in Task \ C : seen[t].state = "PENDING" => ~AnyFailed(seen, {}, t)

\* An UPDATE writes what differs from the session's memory.
Changed(row, old, new) ==
    [row EXCEPT !.state = IF new.state # old.state THEN new.state ELSE @,
                !.dispatched = IF new.dispatched # old.dispatched THEN new.dispatched ELSE @]

Flush(old, new) == task' = [t \in Task |-> Changed(task[t], old[t], new[t])]

Called(e) == \/ /\ eval[e].pc = "begin"
                /\ UNCHANGED <<due, repeats>>
             \/ /\ eval[e].pc = "idle"
                /\ Taken(due, state \notin {"DRAFT", "READY"})
                /\ due' = FALSE

Return(e) == eval' = [eval EXCEPT ![e] = IdleEval]

SkipEvaluation(e) ==
    /\ Called(e)
    /\ state # "RUNNING"
    /\ Return(e)
    /\ UNCHANGED <<mission, task, render, keys, fresh, work, resume, history>>

BeginEvaluation(e) ==
    /\ Called(e)
    /\ state = "RUNNING"
    /\ \E C \in SUBSET Task :
          LET seen == View(e)
              new == Evaluated(seen, C)
          IN  /\ Cancelled(seen, C)
              /\ Flush(seen, new)
              /\ eval' = [eval EXCEPT ![e] =
                            [@ EXCEPT !.mem = new, !.epoch = epoch,
                                      !.pc = IF \E t \in Task : new[t].state = "READY"
                                             THEN "guard" ELSE "dispatch"]]
    /\ UNCHANGED <<state, epoch, render, keys, fresh, work, resume, history>>

\* PRE_TASK_DISPATCH or MISSION_TERMINAL, without the lock.
GuardianCheck(e, v) ==
    /\ eval[e].pc \in {"guard", "terminal"}
    /\ Verdict(v)
    /\ IF v = "allow"
       THEN eval' = [eval EXCEPT ![e].pc = IF @ = "guard" THEN "dispatch" ELSE "succeed"]
       ELSE Return(e)
    /\ UNCHANGED <<task, render, messages, work, resume, done, approved>>

\* The logical identity of a dispatch, from the session's memory of the task.
KeyOf(e, t) == LET row == eval[e].mem[t]
               IN  <<t, row.retries, eval[e].epoch, row.output>>

\* Mutant: a task has one intent, whatever the epoch.
EnqueueFirst(e, D) ==
    /\ keys' = keys \cup {KeyOf(e, t) : t \in {u \in D : \A k \in keys : k[1] # u}}
    /\ fresh' = fresh \cup D

\* A key that exists is adopted, and sends no second message.
Enqueue(e, D) ==
    /\ keys' = keys \cup {KeyOf(e, t) : t \in D}
    /\ fresh' = fresh \cup {t \in D : KeyOf(e, t) \notin keys}

\* The Mission's state is not looked at again, and the tasks are those of the
\* session's memory.
DispatchTasks(e) ==
    LET mem == eval[e].mem
        ready == {t \in Task : mem[t].state = "READY"}
    IN  /\ eval[e].pc = "dispatch"
        /\ \E D \in SUBSET ready :
              LET new == [t \in Task |-> IF t \in D
                                         THEN [mem[t] EXCEPT !.state = "QUEUED",
                                                             !.dispatched = eval[e].epoch]
                                         ELSE mem[t]]
              IN  /\ D # ready => PolicyHolds /\ eval[e].api
                  /\ Flush(mem, new)
                  /\ Enqueue(e, D)
                  /\ eval' = [eval EXCEPT ![e].pc = "complete", ![e].mem = new]
        /\ UNCHANGED <<mission, render, due, repeats, work, resume, history>>

Exhausted(row) == row.state = "FAILED" /\ row.retries >= MaxRetries

\* Mutant: a task that is FAILED counts as finished.
AllFinished(mem) == \A t \in Task : mem[t].state \in {"SUCCEEDED", "FAILED"}

AllDone(mem) == \A t \in Task : mem[t].state = "SUCCEEDED"

AnyExhausted(mem) == \E t \in Task : Exhausted(mem[t])

FailMission(e) ==
    /\ eval[e].pc = "complete"
    /\ AnyExhausted(eval[e].mem)
    /\ state' = "FAILED"
    /\ Return(e)
    /\ UNCHANGED <<epoch, task, render, messages, work, resume, history>>

EndEvaluation(e) ==
    LET mem == eval[e].mem
    IN  /\ eval[e].pc = "complete"
        /\ ~AnyExhausted(mem)
        /\ eval' = [eval EXCEPT ![e] = IF AllDone(mem) THEN [IdleEval EXCEPT !.pc = "terminal"]
                                    ELSE IdleEval]
        /\ UNCHANGED <<mission, task, render, messages, work, resume, history>>

CompleteMission(e) ==
    /\ eval[e].pc = "succeed"
    /\ state' = "SUCCEEDED"
    /\ Return(e)
    /\ UNCHANGED <<epoch, task, render, messages, work, resume, history>>

CrashEvaluation(e) ==
    /\ Crashes
    /\ eval[e].pc # "idle"
    /\ Return(e)
    /\ UNCHANGED <<mission, task, render, messages, work, resume, history>>

-----------------------------------------------------------------------------
(* execute_task *)

Delivered(w, t) ==
    /\ work[w] = IdleWork
    /\ Taken(t \in fresh, Dispatched(t))
    /\ fresh' = fresh \ {t}

Admits(t) ==
    /\ state = "RUNNING"
    /\ task[t].dispatched \in {0, epoch}
    /\ task[t].state = "QUEUED"

StartTask(w, t) ==
    /\ Delivered(w, t)
    /\ Admits(t)
    /\ task' = [task EXCEPT ![t].state = "RUNNING"]
    /\ work' = [work EXCEPT ![w] = [pc |-> "running", task |-> t]]
    /\ UNCHANGED <<mission, render, keys, due, eval, resume, history>>

\* The message is gone, and the task stays as it is.
RefuseTask(w, t) ==
    /\ Delivered(w, t)
    /\ ~Admits(t)
    /\ UNCHANGED <<mission, task, render, keys, due, eval, work, resume, history>>

\* The production task allocates its render job, or finds it still active.
StartOrAwaitRender(w) ==
    LET t == work[w].task
    IN  /\ work[w].pc = "running"
        /\ t \in Production
        /\ render[t] \in {"none", "active"}
        /\ render' = [render EXCEPT ![t] = "active"]
        /\ work' = [work EXCEPT ![w].pc = "pending"]
        /\ UNCHANGED <<mission, task, messages, eval, resume, history>>

\* Only now does the row name the job.  The checks before it ask the objects the
\* session read when the task started, and never fail.
Correlate(w) ==
    /\ work[w].pc = "pending"
    /\ task' = [task EXCEPT ![work[w].task].output = TRUE]
    /\ work' = [work EXCEPT ![w] = IdleWork]
    /\ UNCHANGED <<mission, render, messages, eval, resume, history>>

\* Written without a look at the task's state.
TaskSucceeds(w) ==
    LET t == work[w].task
    IN  /\ work[w].pc = "running"
        /\ t \in Production => render[t] = "succeeded"
        /\ task' = [task EXCEPT ![t].state = "SUCCEEDED",
                                ![t].output = @ \/ t \in Production]
        /\ due' = TRUE
        /\ done' = done \cup {t}
        /\ work' = [work EXCEPT ![w] = IdleWork]
        /\ UNCHANGED <<mission, render, keys, fresh, repeats, eval, resume, approved, forced>>

\* Mutant: never gives up.
RetryAlways(row) == [row EXCEPT !.state = "READY", !.retries = @ + 1]

Retried(row) == IF row.retries < MaxRetries
                THEN [row EXCEPT !.state = "READY", !.retries = @ + 1]
                ELSE [row EXCEPT !.state = "FAILED"]

TaskFails(w) ==
    /\ work[w].pc # "idle"
    /\ task' = [task EXCEPT ![work[w].task] = Retried(@)]
    /\ due' = TRUE
    /\ work' = [work EXCEPT ![w] = IdleWork]
    /\ UNCHANGED <<mission, render, keys, fresh, repeats, eval, resume, history>>

CrashWorker(w) ==
    /\ Crashes
    /\ work[w].pc # "idle"
    /\ work' = [work EXCEPT ![w] = IdleWork]
    /\ UNCHANGED <<mission, task, render, messages, eval, resume, history>>

\* Mutant: the wake-up is lost.
RenderEndsSilently(t) ==
    /\ render[t] = "active"
    /\ SlowRenders => task[t].output
    /\ \E end \in {"succeeded", "failed"} : render' = [render EXCEPT ![t] = end]
    /\ UNCHANGED <<mission, task, messages, eval, work, resume, history>>

\* The render pipeline ends the job and wakes the Mission.
RenderEnds(t) ==
    /\ render[t] = "active"
    /\ SlowRenders => task[t].output
    /\ \E end \in {"succeeded", "failed"} : render' = [render EXCEPT ![t] = end]
    /\ due' = TRUE
    /\ UNCHANGED <<mission, task, keys, fresh, repeats, eval, work, resume, history>>

-----------------------------------------------------------------------------
Users == \/ Plan \/ Start \/ Pause \/ Cancel
         \/ \E e \in Evaluator, t \in Task : ApproveTask(e, t) \/ RejectTask(e, t)
         \/ \E r \in Resumer : \/ ResumeRead(r)
                               \/ \E v \in Verdicts : ResumeBlocked(r, v)
                               \/ ResumeWrite(r)

Evaluate(e) == \/ SkipEvaluation(e)
               \/ BeginEvaluation(e)
               \/ \E v \in Verdicts : GuardianCheck(e, v)
               \/ DispatchTasks(e)
               \/ FailMission(e)
               \/ EndEvaluation(e)
               \/ CompleteMission(e)

Execute(w) == \/ StartOrAwaitRender(w)
              \/ Correlate(w)
              \/ TaskSucceeds(w)
              \/ TaskFails(w)

Deliver(t) == \E w \in Worker : StartTask(w, t) \/ RefuseTask(w, t)

Next == \/ Users
        \/ \E e \in Evaluator : Evaluate(e) \/ CrashEvaluation(e)
        \/ \E w \in Worker : Execute(w) \/ CrashWorker(w)
        \/ \E t \in Task : Deliver(t) \/ RenderEnds(t)

Spec == Init /\ [][Next]_vars

\* Evaluations and executions that live go on, the outbox delivers what is
\* enqueued, and the render pipeline ends its jobs (JobsEnd).  Users owe nothing.
Fairness == /\ \A e \in Evaluator : WF_vars(Evaluate(e))
            /\ \A w \in Worker : WF_vars(Execute(w))
            /\ \A t \in Task : WF_vars(Deliver(t)) /\ WF_vars(RenderEnds(t))

FairSpec == Spec /\ Fairness

-----------------------------------------------------------------------------
(* What holds in every environment. *)

\* A task is dispatched only after each of its prerequisites has SUCCEEDED,
\* whatever evaluations overlap and however old the rows they remember are.
PrerequisitesFirst == \A t \in Task : Dispatched(t) => Prereq[t] \subseteq done

\* No task that requires approval is dispatched before a user has approved it.
ApprovalFirst == \A t \in Task \cap Approval : Dispatched(t) => t \in approved

\* A Mission is SUCCEEDED only if every task has SUCCEEDED, and FAILED only if a
\* task has spent its retries or the Guardian forced it.
OutcomeIsEarned ==
    /\ state = "SUCCEEDED" => done = Task
    /\ state = "FAILED" => forced \/ \E t \in Task : task[t].retries = MaxRetries

\* A task that waits for a worker has an intent of the epoch it was dispatched
\* in, so the fencing token it carries is one that a message was sent for.
QueuedHasIntent ==
    \A t \in Task : task[t].state = "QUEUED" =>
        \E k \in keys : k[1] = t /\ k[3] = task[t].dispatched

-----------------------------------------------------------------------------
(* The inductive strengthening the proofs use. *)

Free(t) == Prereq[t] \subseteq done
Allowed(t) == Free(t) /\ (t \in Approval => t \in approved)

\* What the state of a row, fresh or remembered, vouches for.
Sound(t, s) == /\ s = "SUCCEEDED" => t \in done
               /\ s = "WAITING_APPROVAL" => Free(t)
               /\ s \in {"READY", "QUEUED", "RUNNING"} => Allowed(t)

OrderInv == /\ \A t \in Task : Sound(t, task[t].state)
            /\ \A e \in Evaluator, t \in Task : Sound(t, eval[e].mem[t].state)
            /\ \A w \in Worker : work[w].pc # "idle" => Allowed(work[w].task)
            /\ \A k \in keys : Allowed(k[1])

\* The token of a row always has its intent, and a row once dispatched stays so.
TokenInv == /\ \A t \in Task : task[t].dispatched # 0 =>
                  \E k \in keys : k[1] = t /\ k[3] = task[t].dispatched
            /\ \A t \in Task : task[t].state = "QUEUED" => task[t].dispatched # 0
            /\ \A e \in Evaluator, t \in Task :
                  eval[e].mem[t].dispatched # 0 => task[t].dispatched # 0
            /\ \A e \in Evaluator : eval[e].pc \in {"guard", "dispatch"} => eval[e].epoch \in Epoch

\* Memory is behind in the count of retries, never ahead.
OutcomeInv == /\ OutcomeIsEarned
              /\ \A e \in Evaluator : eval[e].pc \in {"terminal", "succeed"} => done = Task
              /\ \A e \in Evaluator, t \in Task : eval[e].mem[t].retries <= task[t].retries
              /\ state = "DRAFT" => /\ task = [t \in Task |-> NoTask]
                                    /\ \A e \in Evaluator : eval[e] = IdleEval
                                    /\ \A w \in Worker : work[w] = IdleWork

IndInv == TypeOK /\ OrderInv /\ TokenInv /\ OutcomeInv

-----------------------------------------------------------------------------
(* What needs users who stay away and messages that come once. *)

LegalTransition ==
    {<<"ABSENT", "PENDING">>}
    \cup {"PENDING"} \X {"READY", "WAITING_APPROVAL", "CANCELLED"}
    \cup {"WAITING_APPROVAL"} \X {"READY", "FAILED", "CANCELLED"}
    \cup {"READY"} \X {"QUEUED", "CANCELLED"}
    \cup {"QUEUED"} \X {"RUNNING", "FAILED", "CANCELLED"}
    \cup {"RUNNING"} \X {"SUCCEEDED", "FAILED", "READY", "CANCELLED"}

\* The orchestrator and the workers, which never call validate_task_transition,
\* make only the transitions of VALID_TASK_TRANSITIONS while nobody cancels.
TransitionsLegal ==
    [][\A t \in Task : \/ task'[t].state = task[t].state
                       \/ <<task[t].state, task'[t].state>> \in LegalTransition]_task

\* A RUNNING Mission ends, or waits for a user's approval.
MissionSettles ==
    state = "RUNNING" ~> \/ state # "RUNNING"
                         \/ \E t \in Task : task[t].state = "WAITING_APPROVAL"
=============================================================================
