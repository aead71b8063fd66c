--------------------------- MODULE Mission_proofs ---------------------------
(***************************************************************************)
(* The safety of Mission for every DAG, every number of evaluations,       *)
(* workers and resume calls, and every environment.                        *)
(***************************************************************************)
EXTENDS Mission, TLAPS

USE DEF Epoch

\* An action that touches none of these keeps every part of the invariant.
quiet == <<task, keys, eval, work, done, approved>>

LEMMA Rows ==
    /\ NoTask \in TaskRow
    /\ Unread \notin TaskRow
    /\ Unread.state = "UNREAD" /\ Unread.retries = 0 /\ Unread.dispatched = 0
    /\ IdleEval \in EvalState
    /\ IdleWork \in WorkState
    /\ IdleEval.pc = "idle"
    /\ \A t \in Task : IdleEval.mem[t] = Unread
<1>1. /\ NoTask \in TaskRow
      /\ Unread \notin TaskRow
      /\ Unread.state = "UNREAD" /\ Unread.retries = 0 /\ Unread.dispatched = 0
  BY BoundsAssumption DEF NoTask, TaskRow, Unread, TaskStates, Terminal
<1>2. IdleEval \in EvalState /\ IdleEval.pc = "idle" /\ \A t \in Task : IdleEval.mem[t] = Unread
  BY BoundsAssumption DEF IdleEval, EvalState
<1>3. IdleWork \in WorkState
  BY DEF IdleWork, WorkState
<1> QED
  BY <1>1, <1>2, <1>3

LEMMA EpochPositive == \A n \in Epoch : n # 0
BY BoundsAssumption

LEMMA TypeInit == Init => TypeOK
<1> HAVE Init
<1>1. task \in [Task -> TaskRow] /\ eval \in [Evaluator -> EvalState] /\ work \in [Worker -> WorkState]
  BY Rows DEF Init
<1>2. /\ state \in MissionStates /\ epoch \in Epoch /\ keys \subseteq Key
      /\ resume \in [Resumer -> 0..MaxEpoch] /\ repeats \in 0..MaxRepeats
  BY BoundsAssumption DEF Init, MissionStates
<1>3. /\ render \in [Task -> {"none", "active", "succeeded", "failed"}]
      /\ fresh \subseteq Task /\ due \in BOOLEAN
      /\ done \subseteq Task /\ approved \subseteq Task /\ forced \in BOOLEAN
  BY DEF Init
<1> QED
  BY <1>1, <1>2, <1>3 DEF TypeOK

\* What a session writes and remembers are rows.
LEMMA RowType ==
    ASSUME TypeOK, NEW e \in Evaluator
    PROVE  /\ \A t \in Task : View(e)[t] \in TaskRow
           /\ \A C \in SUBSET Task : Evaluated(View(e), C) \in [Task -> TaskRow]
<1>1. \A t \in Task : View(e)[t] \in TaskRow
  BY DEF TypeOK, View, EvalState
<1>2. ASSUME NEW C \in SUBSET Task
      PROVE  Evaluated(View(e), C) \in [Task -> TaskRow]
  <2> SUFFICES ASSUME NEW t \in Task PROVE Evaluated(View(e), C)[t] \in TaskRow
    BY DEF Evaluated
  <2>1. View(e)[t] \in TaskRow
    BY <1>1
  <2> QED
    BY <2>1 DEF Evaluated, TaskRow, TaskStates, Terminal, GateState
<1> QED
  BY <1>1, <1>2

LEMMA ReadRow ==
    ASSUME TypeOK
    PROVE  \A e \in Evaluator, t \in Task :
             eval[e].mem[t].state # "UNREAD" => eval[e].mem[t] \in TaskRow
<1> TAKE e \in Evaluator, t \in Task
<1>1. eval[e].mem[t] \in TaskRow \cup {Unread}
  BY DEF TypeOK, EvalState
<1> QED
  BY <1>1, Rows

LEMMA ChangedType ==
    ASSUME NEW row \in TaskRow, NEW old \in TaskRow, NEW new \in TaskRow
    PROVE  Changed(row, old, new) \in TaskRow
BY DEF Changed, TaskRow

LEMMA VerdictType ==
    ASSUME TypeOK, NEW v \in Verdicts, Verdict(v)
    PROVE  state' \in MissionStates /\ epoch' \in Epoch /\ forced' \in BOOLEAN
BY BoundsAssumption DEF TypeOK, Verdict, MissionStates

LEMMA TakenType ==
    ASSUME TypeOK, NEW b \in BOOLEAN, NEW c \in BOOLEAN, Taken(b, c)
    PROVE  repeats' \in 0..MaxRepeats
BY BoundsAssumption DEF TypeOK, Taken

LEMMA UsersType == TypeOK /\ Users => TypeOK'
<1> SUFFICES ASSUME TypeOK, Users PROVE TypeOK'
  OBVIOUS
<1>0. \A t \in Task, s \in TaskStates : [task[t] EXCEPT !.state = s] \in TaskRow
  BY DEF TypeOK, TaskRow
<1>1. CASE Plan
  <2>1. [NoTask EXCEPT !.state = "PENDING"] \in TaskRow
    BY Rows DEF TaskRow, TaskStates
  <2> QED
    BY <1>1, <2>1 DEF TypeOK, Plan, messages, history, MissionStates
<1>2. CASE Start
  BY <1>2 DEF TypeOK, Start, history, MissionStates
<1>3. CASE Pause
  BY <1>3, BoundsAssumption DEF TypeOK, Pause, messages, history, MissionStates
<1>4. CASE Cancel
  <2>1. task' \in [Task -> TaskRow]
    BY <1>0, <1>4 DEF TypeOK, Cancel, TaskStates, Terminal
  <2> QED
    BY <1>4, <2>1 DEF TypeOK, Cancel, messages, history, MissionStates
<1>5. ASSUME NEW e \in Evaluator, NEW t \in Task, ApproveTask(e, t) \/ RejectTask(e, t)
      PROVE  TypeOK'
  <2> PICK new \in {"READY", "FAILED"} : Decide(e, t, new)
    BY <1>5 DEF ApproveTask, RejectTask
  <2>1. task' \in [Task -> TaskRow]
    BY <1>0 DEF TypeOK, Decide, TaskStates, Terminal
  <2>2. [IdleEval EXCEPT !.pc = "begin", !.api = TRUE, !.mem = [@ EXCEPT ![t] = task'[t]]]
          \in EvalState
    <3> DEFINE m == [IdleEval.mem EXCEPT ![t] = task'[t]]
    <3>1. m \in [Task -> TaskRow \cup {Unread}]
      BY <2>1 DEF IdleEval
    <3> HIDE DEF m
    <3>2. [IdleEval EXCEPT !.pc = "begin", !.api = TRUE, !.mem = m] \in EvalState
      BY <3>1, Rows DEF EvalState
    <3> QED
      BY <3>2 DEF m
  <2>3. eval' \in [Evaluator -> EvalState]
    BY <2>2 DEF TypeOK, Decide
  <2> QED
    BY <1>5, <2>1, <2>3 DEF TypeOK, ApproveTask, RejectTask, mission, messages, history
<1>6. ASSUME NEW r \in Resumer, ResumeRead(r)
      PROVE  TypeOK'
  BY <1>6, BoundsAssumption DEF TypeOK, ResumeRead, mission, messages, history
<1>7. ASSUME NEW r \in Resumer, NEW v \in Verdicts, ResumeBlocked(r, v)
      PROVE  TypeOK'
  <2>1. state' \in MissionStates /\ epoch' \in Epoch /\ forced' \in BOOLEAN
    BY <1>7, VerdictType DEF ResumeBlocked
  <2> QED
    BY <1>7, <2>1, BoundsAssumption DEF TypeOK, ResumeBlocked, messages
<1>8. ASSUME NEW r \in Resumer, ResumeWrite(r)
      PROVE  TypeOK'
  <2>1. epoch' \in Epoch /\ due' \in BOOLEAN
    <3>1. epoch' = resume[r] + 1 /\ resume[r] \in 1..(MaxEpoch - 1) /\ due' \in {TRUE, due}
      BY <1>8 DEF ResumeWrite
    <3>2. due' \in BOOLEAN
      BY <3>1 DEF TypeOK
    <3>3. epoch' \in Epoch
      BY <3>1, BoundsAssumption
    <3> QED
      BY <3>2, <3>3
  <2> QED
    BY <1>8, <2>1, BoundsAssumption DEF TypeOK, ResumeWrite, history, MissionStates
<1> QED
  BY <1>1, <1>2, <1>3, <1>4, <1>5, <1>6, <1>7, <1>8 DEF Users

LEMMA EvaluateType ==
    ASSUME TypeOK, TokenInv, NEW e \in Evaluator, Evaluate(e) \/ CrashEvaluation(e)
    PROVE  TypeOK'
<1>0. Return(e) => eval' \in [Evaluator -> EvalState]
  BY Rows DEF TypeOK, Return
<1>1. CASE SkipEvaluation(e)
  <2>1. repeats' \in 0..MaxRepeats /\ due' \in BOOLEAN
    BY <1>1, TakenType DEF SkipEvaluation, Called, TypeOK
  <2> QED
    BY <1>0, <1>1, <2>1 DEF TypeOK, SkipEvaluation, mission, history
<1>2. CASE BeginEvaluation(e)
  <2>1. repeats' \in 0..MaxRepeats /\ due' \in BOOLEAN
    BY <1>2, TakenType DEF BeginEvaluation, Called, TypeOK
  <2> DEFINE seen == View(e)
             new(C) == Evaluated(seen, C)
  <2> PICK C \in SUBSET Task :
          /\ Flush(seen, new(C))
          /\ eval' = [eval EXCEPT ![e] =
                        [@ EXCEPT !.mem = new(C), !.epoch = epoch,
                                  !.pc = IF \E t \in Task : new(C)[t].state = "READY"
                                         THEN "guard" ELSE "dispatch"]]
    BY <1>2 DEF BeginEvaluation
  <2>2. new(C) \in [Task -> TaskRow] /\ \A t \in Task : seen[t] \in TaskRow
    BY RowType
  <2>3. task' \in [Task -> TaskRow]
    BY <2>2, ChangedType DEF Flush, TypeOK
  <2>4. eval' \in [Evaluator -> EvalState]
    <3> DEFINE pc == IF \E t \in Task : new(C)[t].state = "READY" THEN "guard" ELSE "dispatch"
    <3> HIDE DEF new
    <3>1. pc \in {"guard", "dispatch"}
      OBVIOUS
    <3> HIDE DEF pc
    <3>2. [eval[e] EXCEPT !.mem = new(C), !.epoch = epoch, !.pc = pc] \in EvalState
      <4>1. new(C) \in [Task -> TaskRow \cup {Unread}] /\ epoch \in 0..MaxEpoch
        BY <2>2, BoundsAssumption DEF TypeOK
      <4>2. eval[e] \in EvalState
        BY DEF TypeOK
      <4> QED
        BY <3>1, <4>1, <4>2 DEF EvalState
    <3>3. eval' = [eval EXCEPT ![e] = [eval[e] EXCEPT !.mem = new(C), !.epoch = epoch, !.pc = pc]]
      BY DEF pc
    <3> QED
      BY <3>2, <3>3 DEF TypeOK
  <2> QED
    BY <1>2, <2>1, <2>3, <2>4 DEF TypeOK, BeginEvaluation, history
<1>3. ASSUME NEW v \in Verdicts, GuardianCheck(e, v)
      PROVE  TypeOK'
  <2>1. state' \in MissionStates /\ epoch' \in Epoch /\ forced' \in BOOLEAN
    BY <1>3, VerdictType DEF GuardianCheck
  <2>2. eval' \in [Evaluator -> EvalState]
    BY <1>0, <1>3 DEF TypeOK, GuardianCheck, EvalState
  <2> QED
    BY <1>3, <2>1, <2>2 DEF TypeOK, GuardianCheck, messages
<1>4. CASE DispatchTasks(e)
  <2> DEFINE mem == eval[e].mem
             ready == {t \in Task : mem[t].state = "READY"}
             new(D) == [t \in Task |-> IF t \in D
                                       THEN [mem[t] EXCEPT !.state = "QUEUED",
                                                           !.dispatched = eval[e].epoch]
                                       ELSE mem[t]]
  <2> PICK D \in SUBSET ready :
          /\ Flush(mem, new(D))
          /\ Enqueue(e, D)
          /\ eval' = [eval EXCEPT ![e].pc = "complete", ![e].mem = new(D)]
    BY <1>4 DEF DispatchTasks
  <2>1. \A t \in D : mem[t] \in TaskRow
    BY ReadRow
  <2>2. \A t \in D : new(D)[t] \in TaskRow
    BY <2>1 DEF TypeOK, EvalState, TaskRow, TaskStates
  <2>3. task' \in [Task -> TaskRow]
    <3> SUFFICES ASSUME NEW t \in Task
                 PROVE  Changed(task[t], mem[t], new(D)[t]) \in TaskRow
      BY DEF Flush
    <3>1. CASE t \in D
      <4> HIDE DEF new, mem
      <4> QED
        BY <3>1, <2>1, <2>2, ChangedType DEF TypeOK
    <3>2. CASE t \notin D
      <4>1. new(D)[t] = mem[t]
        BY <3>2
      <4> HIDE DEF new, mem
      <4> QED
        BY <4>1 DEF Changed, TypeOK, TaskRow
    <3> QED
      BY <3>1, <3>2
  <2>4. keys' \subseteq Key /\ fresh' \subseteq Task
    <3>1. \A t \in D : KeyOf(e, t) \in Key
      BY <2>1, <1>4 DEF KeyOf, Key, TaskRow, TokenInv, DispatchTasks
    <3> QED
      BY <3>1 DEF Enqueue, TypeOK
  <2>5. eval' \in [Evaluator -> EvalState]
    <3>1. new(D) \in [Task -> TaskRow \cup {Unread}]
      <4>1. mem \in [Task -> TaskRow \cup {Unread}]
        BY DEF TypeOK, EvalState
      <4> SUFFICES ASSUME NEW t \in Task PROVE new(D)[t] \in TaskRow \cup {Unread}
        OBVIOUS
      <4>2. t \notin D => new(D)[t] = mem[t]
        OBVIOUS
      <4> HIDE DEF new, mem
      <4> QED
        BY <2>2, <4>1, <4>2
    <3> HIDE DEF new
    <3>2. [eval[e] EXCEPT !.pc = "complete", !.mem = new(D)] \in EvalState
      BY <3>1 DEF TypeOK, EvalState
    <3>3. eval' = [eval EXCEPT ![e] = [eval[e] EXCEPT !.pc = "complete", !.mem = new(D)]]
      OBVIOUS
    <3> QED
      BY <3>2, <3>3 DEF TypeOK
  <2> QED
    BY <1>4, <2>3, <2>4, <2>5 DEF TypeOK, DispatchTasks, mission, history
<1>5. CASE FailMission(e)
  BY <1>0, <1>5 DEF TypeOK, FailMission, messages, history, MissionStates
<1>6. CASE EndEvaluation(e)
  <2>1. [IdleEval EXCEPT !.pc = "terminal"] \in EvalState
    BY Rows DEF EvalState
  <2>2. eval' \in [Evaluator -> EvalState]
    BY <1>6, <2>1, Rows DEF TypeOK, EndEvaluation
  <2> QED
    BY <1>6, <2>2 DEF TypeOK, EndEvaluation, mission, messages, history
<1>7. CASE CompleteMission(e)
  BY <1>0, <1>7 DEF TypeOK, CompleteMission, messages, history, MissionStates
<1>8. CASE CrashEvaluation(e)
  BY <1>0, <1>8 DEF TypeOK, CrashEvaluation, mission, messages, history
<1> QED
  BY <1>1, <1>2, <1>3, <1>4, <1>5, <1>6, <1>7, <1>8 DEF Evaluate

LEMMA WorkType ==
    ASSUME TypeOK,
           NEW w \in Worker,
           \/ Execute(w) \/ CrashWorker(w)
           \/ \E t \in Task : StartTask(w, t) \/ RefuseTask(w, t)
    PROVE  TypeOK'
<1>0. [work EXCEPT ![w] = IdleWork] \in [Worker -> WorkState]
  BY Rows DEF TypeOK
<1>1. work[w].pc # "idle" => work[w] \in [pc : {"running", "pending"}, task : Task]
  BY DEF TypeOK, WorkState
<1>2. CASE StartOrAwaitRender(w)
  <2>1. work' \in [Worker -> WorkState]
    BY <1>1, <1>2 DEF StartOrAwaitRender, TypeOK, WorkState
  <2> QED
    BY <1>2, <2>1 DEF TypeOK, StartOrAwaitRender, mission, messages, history
<1>3. CASE Correlate(w)
  <2>1. task' \in [Task -> TaskRow]
    BY <1>1, <1>3 DEF Correlate, TypeOK, TaskRow
  <2> QED
    BY <1>0, <1>3, <2>1 DEF TypeOK, Correlate, mission, messages, history
<1>4. CASE TaskSucceeds(w)
  <2>1. work[w].task \in Task
    BY <1>1, <1>4 DEF TaskSucceeds
  <2>2. task' \in [Task -> TaskRow]
    BY <1>4, <2>1 DEF TaskSucceeds, TypeOK, TaskRow, TaskStates, Terminal
  <2> QED
    BY <1>0, <1>4, <2>1, <2>2 DEF TypeOK, TaskSucceeds, mission
<1>5. CASE TaskFails(w)
  <2>1. Retried(task[work[w].task]) \in TaskRow
    <3> DEFINE row == task[work[w].task]
    <3>1. row \in TaskRow
      BY <1>1, <1>5 DEF TaskFails, TypeOK
    <3> HIDE DEF row
    <3>2. [row EXCEPT !.state = "FAILED"] \in TaskRow
      BY <3>1 DEF TaskRow, TaskStates, Terminal
    <3>3. row.retries < MaxRetries => [row EXCEPT !.state = "READY", !.retries = @ + 1] \in TaskRow
      <4>1. row.retries < MaxRetries => row.retries + 1 \in 0..MaxRetries
        BY <3>1, BoundsAssumption DEF TaskRow
      <4> QED
        BY <3>1, <4>1 DEF TaskRow, TaskStates
    <3>4. Retried(row) \in TaskRow
      BY <3>2, <3>3 DEF Retried
    <3> QED
      BY <3>4 DEF row
  <2>2. task' \in [Task -> TaskRow]
    BY <1>5, <2>1 DEF TaskFails, TypeOK
  <2> QED
    BY <1>0, <1>5, <2>2 DEF TypeOK, TaskFails, mission, history
<1>6. CASE CrashWorker(w)
  BY <1>0, <1>6 DEF TypeOK, CrashWorker, mission, messages, history
<1>7. ASSUME NEW t \in Task, StartTask(w, t)
      PROVE  TypeOK'
  <2>1. task' \in [Task -> TaskRow] /\ work' \in [Worker -> WorkState]
    BY <1>7 DEF StartTask, TypeOK, TaskRow, TaskStates, WorkState
  <2>2. repeats' \in 0..MaxRepeats /\ fresh' \subseteq Task
    BY <1>7, BoundsAssumption DEF StartTask, Delivered, Taken, TypeOK
  <2> QED
    BY <1>7, <2>1, <2>2 DEF TypeOK, StartTask, mission, history
<1>8. ASSUME NEW t \in Task, RefuseTask(w, t)
      PROVE  TypeOK'
  <2>1. repeats' \in 0..MaxRepeats /\ fresh' \subseteq Task
    BY <1>8, BoundsAssumption DEF RefuseTask, Delivered, Taken, TypeOK
  <2> QED
    BY <1>8, <2>1 DEF TypeOK, RefuseTask, mission, history
<1> QED
  BY <1>2, <1>3, <1>4, <1>5, <1>6, <1>7, <1>8 DEF Execute

LEMMA TypeStep == TypeOK /\ TokenInv /\ [Next]_vars => TypeOK'
<1> SUFFICES ASSUME TypeOK, TokenInv, [Next]_vars PROVE TypeOK'
  OBVIOUS
<1>1. ASSUME NEW t \in Task, RenderEnds(t)
      PROVE  TypeOK'
  BY <1>1 DEF TypeOK, RenderEnds, mission, history
<1>2. CASE UNCHANGED vars
  BY <1>2 DEF TypeOK, vars
<1> QED
  BY <1>1, <1>2, UsersType, EvaluateType, WorkType DEF Next, Deliver

-----------------------------------------------------------------------------
(* The order of the DAG and the approval gate. *)

LEMMA OrderUsers == TypeOK /\ OrderInv /\ Users => OrderInv'
<1> SUFFICES ASSUME TypeOK, OrderInv, Users PROVE OrderInv'
  OBVIOUS
<1> USE DEF OrderInv, Sound, Allowed, Free
<1>1. ASSUME UNCHANGED quiet PROVE OrderInv'
  BY <1>1 DEF quiet
<1>2. CASE Plan
  <2>1. \A t \in Task : task'[t].state = "PENDING"
    BY <1>2 DEF Plan, NoTask
  <2> QED
    BY <1>2, <2>1 DEF Plan, messages, history
<1>3. CASE Cancel
  <2>1. \A t \in Task : task'[t].state \in {task[t].state, "CANCELLED"}
    BY <1>3 DEF Cancel, TypeOK, TaskRow
  <2> QED
    BY <1>3, <2>1 DEF Cancel, messages, history
<1>4. ASSUME NEW e \in Evaluator, NEW t \in Task, ApproveTask(e, t)
      PROVE  OrderInv'
  <2>1. \A u \in Task : task'[u].state = IF u = t THEN "READY" ELSE task[u].state
    BY <1>4 DEF ApproveTask, Decide, TypeOK, TaskRow
  <2>2. \A d \in Evaluator, u \in Task :
          eval'[d].mem[u] = IF d # e THEN eval[d].mem[u]
                            ELSE IF u = t THEN task'[t] ELSE Unread
    BY <1>4 DEF ApproveTask, Decide, TypeOK, IdleEval
  <2>3. Free(t) /\ done' = done /\ approved' = approved \cup {t}
    BY <1>4 DEF ApproveTask, Decide
  <2>4. \A u \in Task : Sound(u, task[u].state)'
    BY <2>1, <2>3
  <2>5. \A d \in Evaluator, u \in Task : Sound(u, eval[d].mem[u].state)'
    BY <2>1, <2>2, <2>3, Rows
  <2>6. UNCHANGED <<work, keys>>
    BY <1>4 DEF ApproveTask, messages
  <2> QED
    BY <2>3, <2>4, <2>5, <2>6
<1>5. ASSUME NEW e \in Evaluator, NEW t \in Task, RejectTask(e, t)
      PROVE  OrderInv'
  <2>1. \A u \in Task : task'[u].state = IF u = t THEN "FAILED" ELSE task[u].state
    BY <1>5 DEF RejectTask, Decide, TypeOK, TaskRow
  <2>2. \A d \in Evaluator, u \in Task :
          eval'[d].mem[u] = IF d # e THEN eval[d].mem[u]
                            ELSE IF u = t THEN task'[t] ELSE Unread
    BY <1>5 DEF RejectTask, Decide, TypeOK, IdleEval
  <2>3. UNCHANGED <<work, keys, done, approved>>
    BY <1>5 DEF RejectTask, messages, history
  <2> QED
    BY <2>1, <2>2, <2>3, Rows
<1>6. ASSUME \/ Start \/ Pause
             \/ \E r \in Resumer : \/ ResumeRead(r) \/ ResumeWrite(r)
                                   \/ \E v \in Verdicts : ResumeBlocked(r, v)
      PROVE  UNCHANGED quiet
  BY <1>6 DEF quiet, Start, Pause, ResumeRead, ResumeWrite, ResumeBlocked, messages, history
<1> QED
  BY <1>1, <1>2, <1>3, <1>4, <1>5, <1>6 DEF Users

\* What step 4 of the evaluation writes is as well founded as what it has read.
LEMMA EvaluatedSound ==
    ASSUME NEW seen, NEW C \in SUBSET Task,
           \A t \in Task : seen[t] \in TaskRow /\ Sound(t, seen[t].state)
    PROVE  \A t \in Task : Sound(t, Evaluated(seen, C)[t].state)
<1> TAKE t \in Task
<1>1. /\ Evaluated(seen, C)[t].state =
          IF t \in C THEN "CANCELLED"
          ELSE IF BecomesReady(seen, t) THEN GateState(t)
          ELSE IF RenderReported(seen, t) THEN "READY"
          ELSE seen[t].state
  BY DEF Evaluated, TaskRow
<1>2. BecomesReady(seen, t) => Free(t)
  <2>1. \A p \in Prereq[t] : p \in Task
    BY TaskAssumption
  <2> QED
    BY <2>1 DEF BecomesReady, AllSucceeded, Free, Sound
<1>3. BecomesReady(seen, t) => Sound(t, GateState(t))
  BY <1>2 DEF Sound, GateState, Allowed
<1>4. RenderReported(seen, t) => Sound(t, "READY")
  BY DEF RenderReported, Sound
<1> QED
  BY <1>1, <1>3, <1>4 DEF Sound

\* A row takes its state from the memory of a session or keeps its own.
LEMMA FlushState ==
    ASSUME NEW old, NEW new, Flush(old, new), TypeOK
    PROVE  \A t \in Task : /\ task'[t].state \in {task[t].state, new[t].state}
                           /\ task'[t].retries = task[t].retries
                           /\ task'[t].output = task[t].output
BY DEF Flush, Changed, TypeOK, TaskRow

LEMMA OrderEvaluate ==
    ASSUME TypeOK, OrderInv, NEW e \in Evaluator, Evaluate(e) \/ CrashEvaluation(e)
    PROVE  OrderInv'
<1> USE DEF OrderInv
<1>1. ASSUME UNCHANGED <<task, keys, work, done, approved>>,
             \A d \in Evaluator, t \in Task : eval'[d].mem[t] \in {eval[d].mem[t], Unread}
      PROVE  OrderInv'
  BY <1>1, Rows DEF Sound, Allowed, Free
<1>2. CASE BeginEvaluation(e)
  <2> DEFINE seen == View(e)
             new(C) == Evaluated(seen, C)
  <2> PICK C \in SUBSET Task :
          /\ Flush(seen, new(C))
          /\ eval' = [eval EXCEPT ![e] =
                        [@ EXCEPT !.mem = new(C), !.epoch = epoch,
                                  !.pc = IF \E t \in Task : new(C)[t].state = "READY"
                                         THEN "guard" ELSE "dispatch"]]
    BY <1>2 DEF BeginEvaluation
  <2>1. \A t \in Task : seen[t] \in TaskRow /\ Sound(t, seen[t].state)
    BY RowType DEF View
  <2>2. \A t \in Task : Sound(t, new(C)[t].state)
    BY <2>1, EvaluatedSound
  <2> HIDE DEF seen, new
  <2>3. \A t \in Task : Sound(t, task'[t].state)
    BY <2>2, FlushState
  <2>4. \A d \in Evaluator : eval'[d].mem = IF d = e THEN new(C) ELSE eval[d].mem
    BY DEF TypeOK, EvalState
  <2>5. UNCHANGED <<keys, work, done, approved>>
    BY <1>2 DEF BeginEvaluation, history
  <2> QED
    BY <2>2, <2>3, <2>4, <2>5 DEF Sound, Allowed, Free
<1>3. CASE DispatchTasks(e)
  <2> DEFINE mem == eval[e].mem
             new(D) == [t \in Task |-> IF t \in D
                                       THEN [mem[t] EXCEPT !.state = "QUEUED",
                                                           !.dispatched = eval[e].epoch]
                                       ELSE mem[t]]
  <2> PICK D \in SUBSET {t \in Task : mem[t].state = "READY"} :
          /\ Flush(mem, new(D))
          /\ Enqueue(e, D)
          /\ eval' = [eval EXCEPT ![e].pc = "complete", ![e].mem = new(D)]
    BY <1>3 DEF DispatchTasks
  <2>1. \A t \in D : Allowed(t)
    BY DEF Sound
  <2>2. \A t \in Task : Sound(t, new(D)[t].state)
    <3>1. \A t \in D : new(D)[t].state = "QUEUED"
      <4>1. \A t \in D : mem[t] \in TaskRow
        BY ReadRow
      <4> HIDE DEF mem
      <4> QED
        BY <4>1 DEF TaskRow
    <3>2. \A t \in Task \ D : new(D)[t] = mem[t]
      OBVIOUS
    <3> QED
      BY <2>1, <3>1, <3>2 DEF Sound
  <2> HIDE DEF new
  <2>3. \A t \in Task : Sound(t, task'[t].state)
    BY <2>2, FlushState
  <2>4. \A d \in Evaluator : eval'[d].mem = IF d = e THEN new(D) ELSE eval[d].mem
    BY DEF TypeOK, EvalState
  <2>5. \A k \in keys' : Allowed(k[1])
    BY <2>1 DEF Enqueue, KeyOf
  <2>6. UNCHANGED <<work, done, approved>>
    BY <1>3 DEF DispatchTasks, history
  <2> QED
    BY <2>2, <2>3, <2>4, <2>5, <2>6 DEF Sound, Allowed, Free
<1>4. ASSUME NEW v \in Verdicts, GuardianCheck(e, v)
      PROVE  OrderInv'
  <2>1. \/ eval' = [eval EXCEPT ![e].pc = IF @ = "guard" THEN "dispatch" ELSE "succeed"]
        \/ eval' = [eval EXCEPT ![e] = IdleEval]
    BY <1>4 DEF GuardianCheck, Return
  <2>2. \A d \in Evaluator : eval'[d].mem = eval[d].mem \/ eval'[d] = IdleEval
    BY <2>1 DEF TypeOK, EvalState
  <2>3. UNCHANGED <<task, keys, work, done, approved>>
    BY <1>4 DEF GuardianCheck, messages
  <2> QED
    BY <1>1, <2>2, <2>3, Rows
<1>5. ASSUME SkipEvaluation(e) \/ FailMission(e) \/ EndEvaluation(e)
                \/ CompleteMission(e) \/ CrashEvaluation(e)
      PROVE  OrderInv'
  <2>1. eval'[e].mem = [t \in Task |-> Unread] /\ \A d \in Evaluator \ {e} : eval'[d] = eval[d]
    BY <1>5 DEF SkipEvaluation, FailMission, EndEvaluation, CompleteMission, CrashEvaluation,
                Return, IdleEval, TypeOK
  <2>2. UNCHANGED <<task, keys, work, done, approved>>
    BY <1>5 DEF SkipEvaluation, FailMission, EndEvaluation, CompleteMission, CrashEvaluation,
                messages, history
  <2> QED
    BY <1>1, <2>1, <2>2
<1> QED
  BY <1>2, <1>3, <1>4, <1>5 DEF Evaluate

LEMMA OrderWork ==
    ASSUME TypeOK, OrderInv,
           NEW w \in Worker,
           \/ Execute(w) \/ CrashWorker(w)
           \/ \E t \in Task : StartTask(w, t) \/ RefuseTask(w, t)
    PROVE  OrderInv'
<1> USE DEF OrderInv, Sound, Allowed, Free
<1>1. work[w].pc # "idle" => work[w] \in [pc : {"running", "pending"}, task : Task]
  BY DEF TypeOK, WorkState
<1>2. work' = [work EXCEPT ![w] = IdleWork] =>
        \A d \in Worker : work'[d].pc # "idle" => work'[d] = work[d]
  BY DEF TypeOK, IdleWork
<1>3. CASE StartOrAwaitRender(w)
  <2>1. \A d \in Worker : /\ work'[d].pc # "idle" => work[d].pc # "idle"
                          /\ work'[d].task = work[d].task
    BY <1>1, <1>3 DEF StartOrAwaitRender, TypeOK, WorkState
  <2> QED
    BY <1>3, <2>1 DEF StartOrAwaitRender, messages, history
<1>4. CASE Correlate(w)
  <2>1. \A t \in Task : task'[t].state = task[t].state
    BY <1>4 DEF Correlate, TypeOK, TaskRow
  <2> QED
    BY <1>2, <1>4, <2>1 DEF Correlate, messages, history
<1>5. CASE TaskSucceeds(w)
  <2>1. \A t \in Task : task'[t].state = IF t = work[w].task THEN "SUCCEEDED" ELSE task[t].state
    BY <1>5 DEF TaskSucceeds, TypeOK, TaskRow
  <2> QED
    <3>1. /\ done' = done \cup {work[w].task}
          /\ work' = [work EXCEPT ![w] = IdleWork]
          /\ UNCHANGED <<eval, keys, approved>>
      BY <1>5 DEF TaskSucceeds
    <3>2. \A t \in Task : Sound(t, task[t].state)'
      BY <2>1, <3>1
    <3>3. \A d \in Worker : work'[d].pc # "idle" => work'[d] = work[d] /\ Allowed(work[d].task)
      BY <1>2, <3>1
    <3> QED
      BY <3>1, <3>2, <3>3
<1>6. CASE TaskFails(w)
  <2>1. \A t \in Task : /\ t # work[w].task => task'[t].state = task[t].state
                        /\ t = work[w].task => task'[t].state \in {"READY", "FAILED"}
    BY <1>6 DEF TaskFails, Retried, TypeOK, TaskRow
  <2> QED
    <3>1. /\ work' = [work EXCEPT ![w] = IdleWork] /\ work[w].pc # "idle"
          /\ UNCHANGED <<eval, keys, done, approved>>
      BY <1>6 DEF TaskFails, history
    <3>2. \A t \in Task : t = work[w].task => Allowed(t)
      BY <3>1
    <3>3. \A t \in Task : Sound(t, task[t].state)'
      <4> SUFFICES ASSUME NEW t \in Task PROVE Sound(t, task[t].state)'
        OBVIOUS
      <4>1. CASE t = work[w].task
        BY <2>1, <3>1, <3>2, <4>1
      <4>2. CASE t # work[w].task
        BY <2>1, <3>1, <4>2
      <4> QED
        BY <4>1, <4>2
    <3>4. \A d \in Worker : work'[d].pc # "idle" => work'[d] = work[d] /\ Allowed(work[d].task)
      BY <1>2, <3>1
    <3> QED
      BY <3>1, <3>3, <3>4
<1>7. CASE CrashWorker(w)
  BY <1>2, <1>7 DEF CrashWorker, messages, history
<1>8. ASSUME NEW t \in Task, StartTask(w, t)
      PROVE  OrderInv'
  <2>1. Allowed(t)
    BY <1>8 DEF StartTask, Admits
  <2>2. \A u \in Task : task'[u].state = IF u = t THEN "RUNNING" ELSE task[u].state
    BY <1>8 DEF StartTask, TypeOK, TaskRow
  <2>3. \A d \in Worker : work'[d] = IF d = w THEN [pc |-> "running", task |-> t] ELSE work[d]
    BY <1>8 DEF StartTask, TypeOK
  <2>4. UNCHANGED <<eval, keys, done, approved>>
    BY <1>8 DEF StartTask, history
  <2> QED
    BY <2>1, <2>2, <2>3, <2>4
<1>9. ASSUME NEW t \in Task, RefuseTask(w, t)
      PROVE  OrderInv'
  BY <1>9 DEF RefuseTask, mission, history
<1> QED
  BY <1>3, <1>4, <1>5, <1>6, <1>7, <1>8, <1>9 DEF Execute

LEMMA OrderStep == TypeOK /\ OrderInv /\ [Next]_vars => OrderInv'
<1> SUFFICES ASSUME TypeOK, OrderInv, [Next]_vars PROVE OrderInv'
  OBVIOUS
<1>1. ASSUME UNCHANGED quiet PROVE OrderInv'
  BY <1>1 DEF quiet, OrderInv, Sound, Allowed, Free
<1>2. ASSUME NEW t \in Task, RenderEnds(t)
      PROVE  UNCHANGED quiet
  BY <1>2 DEF RenderEnds, quiet, history
<1>3. CASE UNCHANGED vars
  BY <1>1, <1>3 DEF vars, quiet
<1> QED
  BY <1>1, <1>2, <1>3, OrderUsers, OrderEvaluate, OrderWork DEF Next, Deliver

-----------------------------------------------------------------------------
(* Tokens and outcomes: most steps keep them by what they leave alone. *)

\* No row is queued, no token written or forgotten.
KeepsTokens ==
    /\ keys \subseteq keys'
    /\ \A t \in Task : /\ task'[t].dispatched = task[t].dispatched
                       /\ task'[t].state = "QUEUED" => task[t].state = "QUEUED"
    /\ \A e \in Evaluator, t \in Task :
          eval'[e].mem[t].dispatched \in {0, eval[e].mem[t].dispatched, task[t].dispatched}
    /\ \A e \in Evaluator : eval'[e].pc \in {"guard", "dispatch"} => eval'[e].epoch \in Epoch

\* Nothing is undone, and the Mission ends only for a reason.
KeepsOutcome ==
    /\ done \subseteq done' /\ done' \subseteq Task
    /\ forced => forced'
    /\ \A t \in Task : task[t].retries <= task'[t].retries
    /\ \A e \in Evaluator, t \in Task :
          eval'[e].mem[t].retries \in {0, eval[e].mem[t].retries, task[t].retries}
    /\ \A e \in Evaluator : eval'[e].pc \in {"terminal", "succeed"} =>
          eval[e].pc \in {"terminal", "succeed"} \/ done = Task
    /\ state' = "SUCCEEDED" => state = "SUCCEEDED" \/ done = Task
    /\ state' = "FAILED" => \/ state = "FAILED"
                            \/ forced'
                            \/ \E t \in Task : task[t].retries = MaxRetries
    /\ state' = "DRAFT" => state = "DRAFT" /\ UNCHANGED <<task, eval, work>>

LEMMA TokensKept == TokenInv /\ KeepsTokens => TokenInv'
<1> SUFFICES ASSUME TokenInv, KeepsTokens PROVE TokenInv'
  OBVIOUS
<1>1. ASSUME NEW t \in Task, task'[t].dispatched # 0
      PROVE  \E k \in keys' : k[1] = t /\ k[3] = task'[t].dispatched
  <2>1. task'[t].dispatched = task[t].dispatched /\ keys \subseteq keys'
    BY DEF KeepsTokens
  <2>2. PICK k \in keys : k[1] = t /\ k[3] = task[t].dispatched
    BY <1>1, <2>1 DEF TokenInv
  <2> QED
    BY <2>1, <2>2
<1>2. ASSUME NEW t \in Task, task'[t].state = "QUEUED"
      PROVE  task'[t].dispatched # 0
  BY <1>2 DEF TokenInv, KeepsTokens
<1>3. ASSUME NEW e \in Evaluator, NEW t \in Task, eval'[e].mem[t].dispatched # 0
      PROVE  task'[t].dispatched # 0
  <2>1. /\ task'[t].dispatched = task[t].dispatched
        /\ eval'[e].mem[t].dispatched \in {0, eval[e].mem[t].dispatched, task[t].dispatched}
    BY DEF KeepsTokens
  <2>2. eval[e].mem[t].dispatched # 0 => task[t].dispatched # 0
    BY DEF TokenInv
  <2> QED
    BY <1>3, <2>1, <2>2
<1>4. \A e \in Evaluator : eval'[e].pc \in {"guard", "dispatch"} => eval'[e].epoch \in Epoch
  BY DEF KeepsTokens
<1> QED
  BY <1>1, <1>2, <1>3, <1>4 DEF TokenInv

LEMMA OutcomeKept == TypeOK /\ TypeOK' /\ OutcomeInv /\ KeepsOutcome => OutcomeInv'
<1> SUFFICES ASSUME TypeOK, TypeOK', OutcomeInv, KeepsOutcome PROVE OutcomeInv'
  OBVIOUS
<1>1. \A t \in Task : /\ task[t].retries \in 0..MaxRetries
                      /\ task'[t].retries \in 0..MaxRetries
  BY DEF TypeOK, TaskRow
<1>2. \A t \in Task : task[t].retries = MaxRetries => task'[t].retries = MaxRetries
  BY <1>1, BoundsAssumption DEF KeepsOutcome
<1>3. OutcomeIsEarned'
  BY <1>2 DEF OutcomeInv, OutcomeIsEarned, KeepsOutcome
<1>4. (\A e \in Evaluator, t \in Task : eval[e].mem[t].retries <= task[t].retries)'
  <2> SUFFICES ASSUME NEW e \in Evaluator, NEW t \in Task
               PROVE  eval'[e].mem[t].retries <= task'[t].retries
    OBVIOUS
  <2>1. eval[e].mem[t].retries \in Nat
    <3>1. eval[e].mem[t] \in TaskRow \cup {Unread}
      BY DEF TypeOK, EvalState
    <3> QED
      BY <3>1, Rows, BoundsAssumption DEF TaskRow
  <2>2. /\ eval[e].mem[t].retries <= task[t].retries
        /\ task[t].retries <= task'[t].retries
        /\ eval'[e].mem[t].retries \in {0, eval[e].mem[t].retries, task[t].retries}
    BY DEF OutcomeInv, KeepsOutcome
  <2> QED
    BY <1>1, <2>1, <2>2
<1>5. (\A e \in Evaluator : eval[e].pc \in {"terminal", "succeed"} => done = Task)'
  BY DEF OutcomeInv, KeepsOutcome
<1>6. (state = "DRAFT" => /\ task = [t \in Task |-> NoTask]
                          /\ \A e \in Evaluator : eval[e] = IdleEval
                          /\ \A w \in Worker : work[w] = IdleWork)'
  BY DEF OutcomeInv, KeepsOutcome
<1> QED
  BY <1>3, <1>4, <1>5, <1>6 DEF OutcomeInv

\* A step that leaves the rows alone keeps the tokens, and keeps the outcome as
\* far as the state and the Guardian's verdict do.
LEMMA QuietKeeps ==
    ASSUME TypeOK, TokenInv, UNCHANGED quiet
    PROVE  /\ KeepsTokens
           /\ \/ state' = state /\ (forced => forced')
              \/ state' \in {"READY", "RUNNING", "PAUSED", "CANCELLED"} /\ (forced => forced')
              \/ state' = "FAILED" /\ forced'
              => KeepsOutcome
<1>1. \A t \in Task : task[t].retries \in Nat
  BY BoundsAssumption DEF TypeOK, TaskRow
<1>2. UNCHANGED <<task, keys, eval, work, done>>
  BY DEF quiet
<1>3. KeepsTokens
  BY <1>2 DEF KeepsTokens, TokenInv
<1>4. \A t \in Task : task[t].retries <= task[t].retries
  BY <1>1
<1>5. done \subseteq Task
  BY DEF TypeOK
<1> QED
  BY <1>2, <1>3, <1>4, <1>5 DEF KeepsOutcome

LEMMA UsersKeep == IndInv /\ Users => KeepsTokens /\ KeepsOutcome
<1> SUFFICES ASSUME IndInv, Users PROVE KeepsTokens /\ KeepsOutcome
  OBVIOUS
<1> USE DEF IndInv
<1>0. /\ done \subseteq Task
      /\ \A t \in Task : task[t].retries \in Nat
      /\ \A e \in Evaluator : eval[e].pc \in {"guard", "dispatch"} => eval[e].epoch \in Epoch
  BY BoundsAssumption DEF TypeOK, TaskRow, TokenInv
<1>1. CASE Plan
  <2>1. /\ task = [t \in Task |-> NoTask] /\ state' = "READY"
        /\ task' = [t \in Task |-> [NoTask EXCEPT !.state = "PENDING"]]
        /\ UNCHANGED <<keys, eval, done, forced>>
    BY <1>1 DEF Plan, OutcomeInv, messages, history
  <2>2. \A t \in Task : /\ task'[t].dispatched = task[t].dispatched
                        /\ task'[t].retries = task[t].retries
                        /\ task'[t].state = "PENDING"
    BY <2>1 DEF NoTask
  <2>3. KeepsTokens
    BY <1>0, <2>1, <2>2 DEF KeepsTokens
  <2>4. KeepsOutcome
    BY <1>0, <2>1, <2>2 DEF KeepsOutcome
  <2> QED
    BY <2>3, <2>4
<1>2. CASE Cancel
  <2>1. \A t \in Task : /\ task'[t].dispatched = task[t].dispatched
                        /\ task'[t].retries = task[t].retries
                        /\ task'[t].state \in {task[t].state, "CANCELLED"}
    BY <1>2 DEF Cancel, TypeOK, TaskRow
  <2>2. state' = "CANCELLED" /\ UNCHANGED <<keys, eval, done, forced>>
    BY <1>2 DEF Cancel, messages, history
  <2>3. KeepsTokens
    BY <1>0, <2>1, <2>2 DEF KeepsTokens
  <2>4. KeepsOutcome
    BY <1>0, <2>1, <2>2 DEF KeepsOutcome
  <2> QED
    BY <2>3, <2>4
<1>3. ASSUME NEW e \in Evaluator, NEW t \in Task, ApproveTask(e, t) \/ RejectTask(e, t)
      PROVE  KeepsTokens /\ KeepsOutcome
  <2> PICK new \in {"READY", "FAILED"} : Decide(e, t, new)
    BY <1>3 DEF ApproveTask, RejectTask
  <2>1. \A u \in Task : /\ task'[u].dispatched = task[u].dispatched
                        /\ task'[u].retries = task[u].retries
                        /\ task'[u].state \in {task[u].state, "READY", "FAILED"}
    BY DEF Decide, TypeOK, TaskRow
  <2>2. /\ \A d \in Evaluator, u \in Task :
             eval'[d].mem[u] = IF d # e THEN eval[d].mem[u]
                               ELSE IF u = t THEN task'[t] ELSE Unread
        /\ \A d \in Evaluator : d # e => eval'[d] = eval[d]
        /\ eval'[e].pc = "begin"
    BY DEF Decide, TypeOK, IdleEval
  <2>3. /\ state' = state /\ UNCHANGED <<keys, done, forced>>
        /\ state # "DRAFT"
    <3>1. task[t].state = "WAITING_APPROVAL"
      BY DEF Decide
    <3> QED
      BY <1>3, <3>1 DEF ApproveTask, RejectTask, mission, messages, history, OutcomeInv, NoTask
  <2>4. KeepsTokens
    BY <1>0, <2>1, <2>2, <2>3, Rows DEF KeepsTokens
  <2>5. KeepsOutcome
    BY <1>0, <2>1, <2>2, <2>3, Rows DEF KeepsOutcome
  <2> QED
    BY <2>4, <2>5
<1>4. ASSUME \/ Start \/ Pause
             \/ \E r \in Resumer : ResumeRead(r) \/ ResumeWrite(r)
      PROVE  KeepsTokens /\ KeepsOutcome
  <2>1. /\ UNCHANGED quiet /\ forced' = forced
        /\ state' = state \/ state' \in {"RUNNING", "PAUSED"}
    BY <1>4 DEF Start, Pause, ResumeRead, ResumeWrite, quiet, mission, messages, history
  <2> QED
    BY <2>1, QuietKeeps
<1>5. ASSUME NEW r \in Resumer, NEW v \in Verdicts, ResumeBlocked(r, v)
      PROVE  KeepsTokens /\ KeepsOutcome
  <2>1. UNCHANGED quiet
    BY <1>5 DEF ResumeBlocked, quiet, messages
  <2>2. \/ state' = state /\ (forced => forced')
        \/ state' = "PAUSED" /\ (forced => forced')
        \/ state' = "FAILED" /\ forced'
    BY <1>5 DEF ResumeBlocked, Verdict
  <2> QED
    BY <2>1, <2>2, QuietKeeps
<1> QED
  BY <1>1, <1>2, <1>3, <1>4, <1>5 DEF Users

LEMMA EvaluateKeeps ==
    ASSUME IndInv, NEW e \in Evaluator, Evaluate(e) \/ CrashEvaluation(e)
    PROVE  /\ KeepsTokens \/ DispatchTasks(e)
           /\ KeepsOutcome
<1> USE DEF IndInv
<1>0. /\ done \subseteq Task
      /\ \A t \in Task : task[t].retries \in Nat
      /\ \A d \in Evaluator : eval[d].pc \in {"guard", "dispatch"} => eval[d].epoch \in Epoch
      /\ epoch \in Epoch
  BY BoundsAssumption DEF TypeOK, TaskRow, TokenInv
<1>1. ASSUME UNCHANGED <<task, keys, done>>,
             \A d \in Evaluator : \/ eval'[d] = eval[d]
                                  \/ eval'[d] = IdleEval
                                  \/ /\ eval'[d].mem = eval[d].mem \/ eval'[d].mem = IdleEval.mem
                                     /\ eval'[d].epoch = eval[d].epoch
                                     /\ \/ eval'[d].pc = "dispatch" /\ eval[d].pc = "guard"
                                        \/ eval'[d].pc = "succeed" /\ eval[d].pc = "terminal"
                                        \/ eval'[d].pc = "terminal" /\ done = Task,
             state' = "DRAFT" => UNCHANGED <<state, eval, work>>,
             state' = "SUCCEEDED" => state = "SUCCEEDED" \/ done = Task,
             state' = "FAILED" => \/ state = "FAILED"
                                  \/ forced'
                                  \/ \E t \in Task : task[t].retries = MaxRetries,
             forced => forced'
      PROVE  KeepsTokens /\ KeepsOutcome
  <2>1. \A t \in Task : task[t].retries <= task[t].retries
    BY <1>0
  <2>2. KeepsTokens
    <3>1. \A d \in Evaluator : eval'[d].pc \in {"guard", "dispatch"} => eval'[d].epoch \in Epoch
      BY <1>0, <1>1, Rows
    <3>2. \A d \in Evaluator, t \in Task : eval'[d].mem[t].dispatched \in {0, eval[d].mem[t].dispatched}
      BY <1>1, Rows
    <3> QED
      BY <1>1, <3>1, <3>2 DEF KeepsTokens
  <2>3. KeepsOutcome
    <3>1. \A d \in Evaluator : eval'[d].pc \in {"terminal", "succeed"} =>
            eval[d].pc \in {"terminal", "succeed"} \/ done = Task
      BY <1>1, Rows
    <3>2. \A d \in Evaluator, t \in Task : eval'[d].mem[t].retries \in {0, eval[d].mem[t].retries}
      BY <1>1, Rows
    <3> QED
      BY <1>0, <1>1, <2>1, <3>1, <3>2 DEF KeepsOutcome
  <2> QED
    BY <2>2, <2>3
<1>2. Return(e) => \A d \in Evaluator : eval'[d] = IF d = e THEN IdleEval ELSE eval[d]
  BY DEF Return, TypeOK
<1>3. CASE SkipEvaluation(e)
  <2>1. UNCHANGED <<state, task, keys, work, done, forced>> /\ Return(e)
    BY <1>3 DEF SkipEvaluation, mission, history
  <2>2. state = "DRAFT" => eval' = eval
    <3> HAVE state = "DRAFT"
    <3>1. eval[e] = IdleEval
      BY DEF OutcomeInv
    <3> QED
      BY <2>1, <3>1 DEF Return, TypeOK
  <2> QED
    BY <1>1, <1>2, <2>1, <2>2
<1>4. CASE BeginEvaluation(e)
  <2> DEFINE seen == View(e)
             new(C) == Evaluated(seen, C)
  <2> PICK C \in SUBSET Task :
          /\ Flush(seen, new(C))
          /\ eval' = [eval EXCEPT ![e] =
                        [@ EXCEPT !.mem = new(C), !.epoch = epoch,
                                  !.pc = IF \E t \in Task : new(C)[t].state = "READY"
                                         THEN "guard" ELSE "dispatch"]]
    BY <1>4 DEF BeginEvaluation
  <2>1. \A t \in Task : seen[t] \in TaskRow
    BY RowType
  <2>2. \A t \in Task : /\ new(C)[t].dispatched = seen[t].dispatched
                        /\ new(C)[t].retries = seen[t].retries
                        /\ new(C)[t].state = "QUEUED" => seen[t].state = "QUEUED"
    BY <2>1 DEF Evaluated, GateState, TaskRow
  <2>3. \A t \in Task : seen[t] \in {eval[e].mem[t], task[t]}
    BY DEF View
  <2> HIDE DEF seen, new
  <2>4. \A t \in Task : /\ task'[t].dispatched = task[t].dispatched
                        /\ task'[t].retries = task[t].retries
                        /\ task'[t].state = "QUEUED" => task[t].state = "QUEUED"
    <3> SUFFICES ASSUME NEW t \in Task
                 PROVE  /\ task'[t].dispatched = task[t].dispatched
                        /\ task'[t].retries = task[t].retries
                        /\ task'[t].state = "QUEUED" => task[t].state = "QUEUED"
      OBVIOUS
    <3>1. task[t] \in TaskRow /\ task'[t] = Changed(task[t], seen[t], new(C)[t])
      BY DEF Flush, TypeOK
    <3> QED
      BY <2>2, <3>1 DEF Changed, TaskRow
  <2>5. /\ \A d \in Evaluator : d # e => eval'[d] = eval[d]
        /\ eval'[e].mem = new(C) /\ eval'[e].epoch = epoch
        /\ eval'[e].pc \in {"guard", "dispatch"}
    BY DEF TypeOK, EvalState
  <2>6. state = "RUNNING" /\ UNCHANGED <<state, keys, done, forced>>
    BY <1>4 DEF BeginEvaluation, history
  <2>7. KeepsTokens
    BY <1>0, <2>2, <2>3, <2>4, <2>5, <2>6 DEF KeepsTokens
  <2>8. KeepsOutcome
    BY <1>0, <2>2, <2>3, <2>4, <2>5, <2>6 DEF KeepsOutcome
  <2> QED
    BY <2>7, <2>8
<1>5. ASSUME NEW v \in Verdicts, GuardianCheck(e, v)
      PROVE  KeepsTokens /\ KeepsOutcome
  <2>1. UNCHANGED <<task, keys, done>> /\ eval[e].pc \in {"guard", "terminal"}
    BY <1>5 DEF GuardianCheck, messages
  <2>2. \/ Return(e)
        \/ eval' = [eval EXCEPT ![e].pc = IF @ = "guard" THEN "dispatch" ELSE "succeed"]
    BY <1>5 DEF GuardianCheck
  <2>3. \A d \in Evaluator : \/ eval'[d] = eval[d]
                             \/ eval'[d] = IdleEval
                             \/ /\ eval'[d].mem = eval[d].mem /\ eval'[d].epoch = eval[d].epoch
                                /\ \/ eval'[d].pc = "dispatch" /\ eval[d].pc = "guard"
                                   \/ eval'[d].pc = "succeed" /\ eval[d].pc = "terminal"
    BY <1>2, <2>1, <2>2 DEF TypeOK, EvalState
  <2>4. state # "DRAFT"
    BY <2>1, Rows DEF OutcomeInv
  <2>5. /\ state' = state \/ state' = "PAUSED" \/ (state' = "FAILED" /\ forced')
        /\ forced => forced'
    <3>1. Verdict(v)
      BY <1>5 DEF GuardianCheck
    <3>2. forced' = (forced \/ v = "fail")
      BY <3>1 DEF Verdict
    <3>3. forced => forced'
      BY <3>2, Zenon
    <3>4. v = "fail" => state' = "FAILED" /\ forced'
      BY <3>1 DEF Verdict
    <3>5. v # "fail" => state' = state \/ state' = "PAUSED"
      <4>1. state' = CASE v = "pause" -> "PAUSED" [] v = "fail" -> "FAILED" [] OTHER -> state
        BY <3>1 DEF Verdict
      <4> QED
        BY <4>1
    <3> QED
      BY <3>3, <3>4, <3>5
  <2> QED
    BY <1>1, <2>1, <2>3, <2>4, <2>5
<1>6. CASE DispatchTasks(e)
  <2> DEFINE mem == eval[e].mem
             new(D) == [t \in Task |-> IF t \in D
                                       THEN [mem[t] EXCEPT !.state = "QUEUED",
                                                           !.dispatched = eval[e].epoch]
                                       ELSE mem[t]]
  <2> PICK D \in SUBSET {t \in Task : mem[t].state = "READY"} :
          /\ Flush(mem, new(D))
          /\ eval' = [eval EXCEPT ![e].pc = "complete", ![e].mem = new(D)]
    BY <1>6 DEF DispatchTasks
  <2>1. \A t \in Task : new(D)[t].retries = mem[t].retries
    BY ReadRow DEF TaskRow
  <2> HIDE DEF new
  <2>2. \A t \in Task : task'[t].retries = task[t].retries
    BY FlushState
  <2>3. /\ \A d \in Evaluator : d # e => eval'[d] = eval[d]
        /\ eval'[e].mem = new(D) /\ eval'[e].pc = "complete"
    BY DEF TypeOK, EvalState
  <2>4. state # "DRAFT" /\ UNCHANGED <<state, done, forced>>
    BY <1>6, Rows DEF DispatchTasks, OutcomeInv, mission, history
  <2>5. \A t \in Task : task[t].retries <= task'[t].retries
    BY <1>0, <2>2
  <2>6. \A d \in Evaluator, t \in Task : eval'[d].mem[t].retries = eval[d].mem[t].retries
    BY <2>1, <2>3
  <2>7. KeepsOutcome
    BY <1>0, <2>3, <2>4, <2>5, <2>6 DEF KeepsOutcome
  <2> QED
    BY <1>6, <2>7
<1>7. CASE FailMission(e)
  <2>1. \E t \in Task : task[t].retries = MaxRetries
    <3>1. PICK t \in Task : Exhausted(eval[e].mem[t])
      BY <1>7 DEF FailMission, AnyExhausted
    <3>2. eval[e].mem[t] \in TaskRow
      BY <3>1, ReadRow DEF Exhausted
    <3>3. eval[e].mem[t].retries <= task[t].retries /\ task[t] \in TaskRow
      BY DEF OutcomeInv, TypeOK
    <3> QED
      BY <3>1, <3>2, <3>3, BoundsAssumption DEF Exhausted, TaskRow
  <2>2. UNCHANGED <<task, keys, done, forced>> /\ Return(e) /\ state' = "FAILED"
    BY <1>7 DEF FailMission, messages, history
  <2> QED
    BY <1>1, <1>2, <2>1, <2>2
<1>8. CASE EndEvaluation(e)
  <2>1. AllDone(eval[e].mem) => done = Task
    BY <1>0 DEF AllDone, OrderInv, Sound
  <2>2. /\ UNCHANGED <<state, task, keys, done, forced>>
        /\ eval' = [eval EXCEPT ![e] = IF AllDone(eval[e].mem)
                                       THEN [IdleEval EXCEPT !.pc = "terminal"] ELSE IdleEval]
        /\ eval[e].pc = "complete"
    BY <1>8 DEF EndEvaluation, mission, messages, history
  <2>3. state # "DRAFT"
    BY <2>2, Rows DEF OutcomeInv
  <2>4. \A d \in Evaluator :
          \/ eval'[d] = eval[d]
          \/ eval'[d] = IdleEval
          \/ eval'[d] = [IdleEval EXCEPT !.pc = "terminal"] /\ done = Task
    BY <2>1, <2>2 DEF TypeOK
  <2>5. [IdleEval EXCEPT !.pc = "terminal"].mem = IdleEval.mem
    BY DEF IdleEval
  <2>6. [IdleEval EXCEPT !.pc = "terminal"].pc = "terminal"
    BY DEF IdleEval
  <2>7. KeepsTokens
    BY <1>0, <2>2, <2>4, <2>5, <2>6, Rows DEF KeepsTokens
  <2>8. KeepsOutcome
    <3>1. \A d \in Evaluator, t \in Task : eval'[d].mem[t].retries \in {0, eval[d].mem[t].retries}
      <4> SUFFICES ASSUME NEW d \in Evaluator, NEW t \in Task
                   PROVE  eval'[d].mem[t].retries \in {0, eval[d].mem[t].retries}
        OBVIOUS
      <4>1. eval'[d] = eval[d] \/ eval'[d].mem = IdleEval.mem
        BY <2>4, <2>5
      <4>2. IdleEval.mem[t].retries = 0
        BY Rows
      <4> QED
        BY <4>1, <4>2
    <3>2. \A d \in Evaluator : eval'[d].pc \in {"terminal", "succeed"} =>
            eval[d].pc \in {"terminal", "succeed"} \/ done = Task
      BY <2>4, Rows
    <3>3. \A t \in Task : task[t].retries <= task[t].retries
      BY <1>0
    <3> QED
      BY <1>0, <2>2, <2>3, <3>1, <3>2, <3>3 DEF KeepsOutcome
  <2> QED
    BY <2>7, <2>8
<1>9. CASE CompleteMission(e)
  <2>1. UNCHANGED <<task, keys, done, forced>> /\ Return(e) /\ state' = "SUCCEEDED" /\ done = Task
    BY <1>9 DEF CompleteMission, messages, history, OutcomeInv
  <2> QED
    BY <1>1, <1>2, <2>1
<1>10. CASE CrashEvaluation(e)
  <2>1. UNCHANGED <<state, task, keys, done, forced>> /\ Return(e) /\ state # "DRAFT"
    BY <1>10, Rows DEF CrashEvaluation, mission, messages, history, OutcomeInv
  <2> QED
    BY <1>1, <1>2, <2>1
<1> QED
  BY <1>3, <1>4, <1>5, <1>6, <1>7, <1>8, <1>9, <1>10 DEF Evaluate

LEMMA WorkKeeps ==
    ASSUME IndInv,
           NEW w \in Worker,
           \/ Execute(w) \/ CrashWorker(w)
           \/ \E t \in Task : StartTask(w, t) \/ RefuseTask(w, t)
    PROVE  KeepsTokens /\ (TypeOK' => KeepsOutcome)
<1> USE DEF IndInv
<1>0. /\ \A t \in Task : task[t].retries \in Nat
      /\ \A d \in Evaluator : eval[d].pc \in {"guard", "dispatch"} => eval[d].epoch \in Epoch
  BY BoundsAssumption DEF TypeOK, TaskRow, TokenInv
<1>1. ASSUME UNCHANGED <<state, keys, eval, forced>>,
             done \subseteq done',
             state # "DRAFT" \/ UNCHANGED <<task, work>>,
             \A t \in Task : /\ task'[t].dispatched = task[t].dispatched
                             /\ task'[t].retries \in {task[t].retries, task[t].retries + 1}
                             /\ task'[t].state = "QUEUED" => task[t].state = "QUEUED"
      PROVE  KeepsTokens /\ (TypeOK' => KeepsOutcome)
  <2>1. \A t \in Task : task[t].retries <= task'[t].retries
    BY <1>0, <1>1
  <2>2. KeepsTokens
    BY <1>0, <1>1 DEF KeepsTokens
  <2>3. ASSUME TypeOK' PROVE KeepsOutcome
    BY <1>1, <2>1, <2>3 DEF KeepsOutcome, TypeOK
  <2> QED
    BY <2>2, <2>3
<1>2. work[w] # IdleWork => state # "DRAFT"
  BY DEF OutcomeInv
<1>3. work[w].pc # "idle" => state # "DRAFT"
  BY <1>2, Rows DEF IdleWork
<1>4. CASE StartOrAwaitRender(w) \/ CrashWorker(w)
  <2>1. UNCHANGED <<state, task, keys, eval, done, forced>> /\ work[w].pc # "idle"
    BY <1>4 DEF StartOrAwaitRender, CrashWorker, mission, messages, history
  <2> QED
    BY <1>1, <1>3, <2>1
<1>5. CASE \E t \in Task : RefuseTask(w, t)
  <2>1. UNCHANGED <<state, task, work, keys, eval, done, forced>>
    BY <1>5 DEF RefuseTask, mission, history
  <2> QED
    BY <1>1, <2>1
<1>6. CASE Correlate(w)
  <2>1. UNCHANGED <<state, keys, eval, done, forced>> /\ work[w].pc # "idle"
    BY <1>6 DEF Correlate, mission, messages, history
  <2>2. \A t \in Task : /\ task'[t].dispatched = task[t].dispatched
                        /\ task'[t].retries = task[t].retries
                        /\ task'[t].state = task[t].state
    BY <1>6 DEF Correlate, TypeOK, TaskRow
  <2> QED
    BY <1>1, <1>3, <2>1, <2>2
<1>7. CASE TaskSucceeds(w)
  <2>1. UNCHANGED <<state, keys, eval, forced>> /\ done \subseteq done' /\ work[w].pc # "idle"
    BY <1>7 DEF TaskSucceeds, mission
  <2>2. \A t \in Task : /\ task'[t].dispatched = task[t].dispatched
                        /\ task'[t].retries = task[t].retries
                        /\ task'[t].state \in {task[t].state, "SUCCEEDED"}
    BY <1>7 DEF TaskSucceeds, TypeOK, TaskRow
  <2> QED
    BY <1>1, <1>3, <2>1, <2>2
<1>8. CASE TaskFails(w)
  <2>1. UNCHANGED <<state, keys, eval, done, forced>> /\ work[w].pc # "idle"
    BY <1>8 DEF TaskFails, mission, history
  <2>2. \A t \in Task : /\ task'[t].dispatched = task[t].dispatched
                        /\ task'[t].retries \in {task[t].retries, task[t].retries + 1}
                        /\ task'[t].state \in {task[t].state, "READY", "FAILED"}
    BY <1>8 DEF TaskFails, Retried, TypeOK, TaskRow
  <2> QED
    BY <1>1, <1>3, <2>1, <2>2
<1>9. ASSUME NEW t \in Task, StartTask(w, t)
      PROVE  KeepsTokens /\ (TypeOK' => KeepsOutcome)
  <2>1. UNCHANGED <<state, keys, eval, done, forced>> /\ state # "DRAFT"
    BY <1>9 DEF StartTask, Admits, mission, history
  <2>2. \A u \in Task : /\ task'[u].dispatched = task[u].dispatched
                        /\ task'[u].retries = task[u].retries
                        /\ task'[u].state \in {task[u].state, "RUNNING"}
    BY <1>9 DEF StartTask, TypeOK, TaskRow
  <2> QED
    BY <1>1, <2>1, <2>2
<1> QED
  BY <1>4, <1>5, <1>6, <1>7, <1>8, <1>9 DEF Execute

\* The one step that writes tokens commits their intents with them.
LEMMA DispatchTokens ==
    ASSUME IndInv, NEW e \in Evaluator, DispatchTasks(e)
    PROVE  TokenInv'
<1> USE DEF IndInv
<1> DEFINE mem == eval[e].mem
           new(D) == [t \in Task |-> IF t \in D
                                     THEN [mem[t] EXCEPT !.state = "QUEUED",
                                                         !.dispatched = eval[e].epoch]
                                     ELSE mem[t]]
<1> PICK D \in SUBSET {t \in Task : mem[t].state = "READY"} :
        /\ Flush(mem, new(D))
        /\ Enqueue(e, D)
        /\ eval' = [eval EXCEPT ![e].pc = "complete", ![e].mem = new(D)]
  BY DEF DispatchTasks
<1>1. eval[e].epoch \in Epoch /\ eval[e].epoch # 0
  <2>1. eval[e].pc = "dispatch"
    BY DEF DispatchTasks
  <2>2. eval[e].epoch \in Epoch
    BY <2>1 DEF TokenInv
  <2> QED
    BY <2>2, EpochPositive
<1>2. \A t \in D : new(D)[t].dispatched = eval[e].epoch /\ new(D)[t].state = "QUEUED"
  BY ReadRow DEF TaskRow
<1>3. \A t \in Task \ D : new(D)[t] = mem[t]
  OBVIOUS
<1> HIDE DEF new
<1>4. \A t \in Task : task'[t] = Changed(task[t], mem[t], new(D)[t]) /\ task[t] \in TaskRow
  BY DEF Flush, TypeOK
<1>5. \A t \in Task \ D : /\ task'[t].dispatched = task[t].dispatched
                          /\ task'[t].state = task[t].state
  BY <1>3, <1>4 DEF Changed, TaskRow
<1>6. \A t \in D : task'[t].dispatched = IF mem[t].dispatched = eval[e].epoch
                                         THEN task[t].dispatched ELSE eval[e].epoch
  <2> TAKE t \in D
  <2>1. t \in Task /\ new(D)[t].dispatched = eval[e].epoch
    BY <1>2
  <2>2. task'[t] = Changed(task[t], mem[t], new(D)[t]) /\ task[t] \in TaskRow
    BY <1>4, <2>1
  <2> HIDE DEF mem
  <2>3. Changed(task[t], mem[t], new(D)[t]).dispatched =
          IF new(D)[t].dispatched # mem[t].dispatched THEN new(D)[t].dispatched
          ELSE task[t].dispatched
    BY <2>2 DEF Changed, TaskRow
  <2> QED
    BY <2>1, <2>2, <2>3
<1>7. /\ keys \subseteq keys'
      /\ \A t \in D : \E k \in keys' : k[1] = t /\ k[3] = eval[e].epoch
  <2>1. keys' = keys \cup {KeyOf(e, t) : t \in D}
    BY DEF Enqueue
  <2>2. \A t \in D : KeyOf(e, t)[1] = t /\ KeyOf(e, t)[3] = eval[e].epoch
    BY DEF KeyOf
  <2> QED
    BY <2>1, <2>2
<1>8. \A t \in D : task'[t].dispatched # 0
  BY <1>1, <1>6 DEF TokenInv
<1>9. ASSUME NEW t \in Task, task'[t].dispatched # 0
      PROVE  \E k \in keys' : k[1] = t /\ k[3] = task'[t].dispatched
  <2>1. CASE task'[t].dispatched = task[t].dispatched
    <3>1. PICK k \in keys : k[1] = t /\ k[3] = task[t].dispatched
      BY <1>9, <2>1 DEF TokenInv
    <3> QED
      BY <1>7, <2>1, <3>1
  <2>2. CASE t \in D /\ task'[t].dispatched = eval[e].epoch
    BY <1>7, <2>2
  <2> QED
    BY <1>5, <1>6, <2>1, <2>2
<1>10. ASSUME NEW t \in Task, task'[t].state = "QUEUED"
       PROVE  task'[t].dispatched # 0
  BY <1>5, <1>8, <1>10 DEF TokenInv
<1>11. ASSUME NEW d \in Evaluator, NEW t \in Task, eval'[d].mem[t].dispatched # 0
       PROVE  task'[t].dispatched # 0
  <2>1. eval'[d].mem = IF d = e THEN new(D) ELSE eval[d].mem
    BY DEF TypeOK, EvalState
  <2>2. t \notin D => eval'[d].mem[t] = eval[d].mem[t]
    BY <1>3, <2>1
  <2>3. eval[d].mem[t].dispatched # 0 => task[t].dispatched # 0
    BY DEF TokenInv
  <2> QED
    BY <1>5, <1>8, <1>11, <2>2, <2>3
<1>12. ASSUME NEW d \in Evaluator, eval'[d].pc \in {"guard", "dispatch"}
       PROVE  eval'[d].epoch \in Epoch
  <2>1. d # e /\ eval'[d] = eval[d]
    BY <1>12 DEF TypeOK, EvalState
  <2> QED
    BY <1>12, <2>1 DEF TokenInv
<1> QED
  BY <1>9, <1>10, <1>11, <1>12 DEF TokenInv

-----------------------------------------------------------------------------
(* The theorems. *)

LEMMA InitInd == Init => IndInv
<1> SUFFICES ASSUME Init PROVE IndInv
  OBVIOUS
<1>1. TypeOK
  BY TypeInit
<1>2. /\ \A t \in Task : task[t] = NoTask
      /\ \A e \in Evaluator : eval[e] = IdleEval
      /\ \A w \in Worker : work[w] = IdleWork
      /\ keys = {} /\ state = "DRAFT"
  BY DEF Init
<1>3. NoTask.state = "ABSENT" /\ NoTask.retries = 0 /\ NoTask.dispatched = 0
  BY DEF NoTask
<1>4. OrderInv
  BY <1>2, <1>3, Rows DEF OrderInv, Sound, IdleWork
<1>5. TokenInv
  BY <1>2, <1>3, Rows DEF TokenInv
<1>6. OutcomeInv
  BY <1>2, <1>3, Rows DEF Init, OutcomeInv, OutcomeIsEarned
<1> QED
  BY <1>1, <1>4, <1>5, <1>6 DEF IndInv

LEMMA NextInd == IndInv /\ [Next]_vars => IndInv'
<1> SUFFICES ASSUME IndInv, [Next]_vars PROVE IndInv'
  OBVIOUS
<1> USE DEF IndInv
<1>1. TypeOK' /\ OrderInv'
  BY TypeStep, OrderStep
<1>2. (KeepsTokens \/ TokenInv') /\ KeepsOutcome => TokenInv' /\ OutcomeInv'
  BY <1>1, TokensKept, OutcomeKept
<1>3. CASE Users
  <2>1. KeepsTokens /\ KeepsOutcome
    BY <1>3, UsersKeep
  <2> QED
    BY <1>1, <1>2, <2>1
<1>4. ASSUME NEW e \in Evaluator, Evaluate(e) \/ CrashEvaluation(e)
      PROVE  TokenInv' /\ OutcomeInv'
  BY <1>2, <1>4, EvaluateKeeps, DispatchTokens
<1>5. ASSUME NEW w \in Worker,
             \/ Execute(w) \/ CrashWorker(w)
             \/ \E t \in Task : StartTask(w, t) \/ RefuseTask(w, t)
      PROVE  TokenInv' /\ OutcomeInv'
  BY <1>1, <1>2, <1>5, WorkKeeps
<1>6. ASSUME NEW t \in Task, RenderEnds(t)
      PROVE  TokenInv' /\ OutcomeInv'
  <2>1. UNCHANGED quiet /\ state' = state /\ forced' = forced
    BY <1>6 DEF RenderEnds, quiet, mission, history
  <2> QED
    <3>1. KeepsTokens /\ KeepsOutcome
      BY <2>1, QuietKeeps
    <3> QED
      BY <1>2, <3>1
<1>7. CASE UNCHANGED vars
  <2>1. UNCHANGED quiet /\ state' = state /\ forced' = forced
    BY <1>7 DEF vars, quiet
  <2> QED
    <3>1. KeepsTokens /\ KeepsOutcome
      BY <2>1, QuietKeeps
    <3> QED
      BY <1>1, <1>2, <3>1
<1> QED
  BY <1>1, <1>3, <1>4, <1>5, <1>6, <1>7 DEF Next, Deliver

\* Whatever the users, the evaluations, the workers, the Guardian and the messages
\* do, the rows, the sessions' memory of them and the intents stay in step.
THEOREM Inductive == Spec => []IndInv
<1> QED
  BY InitInd, NextInd, PTL DEF Spec

\* Every row the orchestrator, the workers and the users write is a row, and every
\* fencing token a call carries is an epoch the Mission has had.
THEOREM MissionTypeCorrect == Spec => []TypeOK
<1>1. IndInv => TypeOK
  BY DEF IndInv
<1> QED
  BY <1>1, Inductive, PTL

\* In every DAG a task is dispatched only after all its prerequisites SUCCEEDED,
\* however many evaluations overlap on rows remembered from before.
THEOREM PrerequisitesHold == Spec => []PrerequisitesFirst
<1>1. IndInv => PrerequisitesFirst
  BY DEF IndInv, OrderInv, Allowed, Free, PrerequisitesFirst, Dispatched
<1> QED
  BY <1>1, Inductive, PTL

\* A task that requires approval is dispatched only after approve_task was called
\* for it: neither a retry, nor an adopted render, nor an old row goes round the gate.
THEOREM ApprovalsHold == Spec => []ApprovalFirst
<1>1. IndInv => ApprovalFirst
  BY DEF IndInv, OrderInv, Allowed, ApprovalFirst, Dispatched
<1> QED
  BY <1>1, Inductive, PTL

\* A Mission SUCCEEDED has had every task succeed, and one FAILED has a task without
\* retries left or a verdict of the Guardian, whatever memory the evaluation had.
THEOREM OutcomesAreEarned == Spec => []OutcomeIsEarned
<1>1. IndInv => OutcomeIsEarned
  BY DEF IndInv, OutcomeInv
<1> QED
  BY <1>1, Inductive, PTL

\* The dispatched_epoch of a QUEUED row is one an intent was committed for.
THEOREM QueuedTasksHaveIntents == Spec => []QueuedHasIntent
<1>1. IndInv => QueuedHasIntent
  BY DEF IndInv, TokenInv, QueuedHasIntent
<1> QED
  BY <1>1, Inductive, PTL
-----------------------------------------------------------------------------
(* Plans in a line: the planner's, in which every task depends on the one    *)
(* before it.  As long as messages come once and nobody cancels or resumes,  *)
(* one thing at a time carries such a Mission on.                            *)

Line(pos) == /\ pos \in [Task -> Nat]
             /\ \A t, u \in Task : pos[t] = pos[u] => t = u
             /\ \A t, u \in Task : pos[u] < pos[t] => \E p \in Prereq[t] : pos[u] <= pos[p] /\ pos[p] < pos[t]

Undisturbed == "cancel" \notin Calls /\ Resumer = {} /\ MaxRepeats = 0 /\ SlowRenders

\* An evaluation that has a task to dispatch, or may come to have one.
Holds(e) == \/ eval[e].pc = "begin"
            \/ eval[e].pc \in {"guard", "dispatch"} /\ \E t \in Task : eval[e].mem[t].state = "READY"

Gated(t) == task[t].state = "WAITING_APPROVAL"
Rendering(t) == render[t] = "active" /\ task[t].output
Planned == state \in {"DRAFT", "READY"}

\* What carries the Mission on.
Carriers == {c \in {<<"planned">>} : Planned}
            \cup {c \in {<<"due">>} : due}
            \cup {<<"message", t>> : t \in fresh}
            \cup {<<"work", w>> : w \in {v \in Worker : work[v].pc # "idle"}}
            \cup {<<"evaluation", e>> : e \in {d \in Evaluator : Holds(d)}}
            \cup {<<"gate", t>> : t \in {u \in Task : Gated(u)}}
            \cup {<<"render", t>> : t \in {u \in Task : Rendering(u)}}

OneCarrier == \A a, b \in Carriers : a = b

\* A task that has been reached has all before it behind it.
Reached(t) == task[t].state \notin {"ABSENT", "PENDING", "CANCELLED"}
InOrder(pos) == \A t, u \in Task : pos[u] < pos[t] /\ Reached(t) => task[u].state = "SUCCEEDED"

\* What carries a task finds it in the state it takes it from.
Remembered(e) ==
    /\ eval[e].pc \in {"guard", "dispatch"} =>
          \A t \in Task : eval[e].mem[t].state = "READY" => task[t].state = "READY"
    /\ eval[e].pc = "begin" =>
          \A t \in Task : eval[e].mem[t] # Unread => /\ eval[e].mem[t].state = task[t].state
                                                     /\ task[t].state \in {"READY", "FAILED"}
    /\ eval[e].pc = "idle" => eval[e] = IdleEval

Working(w) == /\ work[w].pc # "idle" => task[work[w].task].state = "RUNNING"
              /\ work[w].pc = "pending" => render[work[w].task] = "active"

RenderInv == \A t \in Task : /\ Rendering(t) => task[t].state = "RUNNING"
                             /\ task[t].output => render[t] # "none"
                             /\ render[t] # "none" => t \in Production

CarriedInv == /\ \A t \in fresh : task[t].state = "QUEUED"
              /\ \A w \in Worker : Working(w)
              /\ \A e \in Evaluator : Remembered(e)
              /\ RenderInv

LineInv(pos) == OneCarrier /\ InOrder(pos) /\ CarriedInv

Legal == \A t \in Task : \/ task'[t].state = task[t].state
                         \/ <<task[t].state, task'[t].state>> \in LegalTransition

LEMMA Messages == ASSUME TypeOK, Undisturbed, NEW b \in BOOLEAN, NEW c \in BOOLEAN, Taken(b, c) PROVE b
  BY DEF TypeOK, Undisturbed, Taken

\* Whoever carries is alone.
LEMMA Alone ==
    ASSUME OneCarrier, NEW c \in Carriers
    PROVE  /\ Planned => c = <<"planned">>
           /\ due => c = <<"due">>
           /\ \A t \in fresh : c = <<"message", t>>
           /\ \A w \in Worker : work[w].pc # "idle" => c = <<"work", w>>
           /\ \A e \in Evaluator : Holds(e) => c = <<"evaluation", e>>
           /\ \A t \in Task : Gated(t) => c = <<"gate", t>>
           /\ \A t \in Task : Rendering(t) => c = <<"render", t>>
<1>1. \A a \in Carriers : a = c
  BY DEF OneCarrier
<1>2. /\ Planned => <<"planned">> \in Carriers
      /\ due => <<"due">> \in Carriers
  BY DEF Carriers
<1>3. /\ \A t \in fresh : <<"message", t>> \in Carriers
      /\ \A w \in Worker : work[w].pc # "idle" => <<"work", w>> \in Carriers
      /\ \A e \in Evaluator : Holds(e) => <<"evaluation", e>> \in Carriers
      /\ \A t \in Task : Gated(t) => <<"gate", t>> \in Carriers
      /\ \A t \in Task : Rendering(t) => <<"render", t>> \in Carriers
  BY DEF Carriers
<1> QED
  BY <1>1, <1>2, <1>3

\* The only one after a step.
LEMMA OnlyOne ==
    ASSUME NEW c,
           Planned' => c = <<"planned">>,
           due' => c = <<"due">>,
           \A t \in fresh' : c = <<"message", t>>,
           \A w \in Worker : work'[w].pc # "idle" => c = <<"work", w>>,
           \A e \in Evaluator : Holds(e)' => c = <<"evaluation", e>>,
           \A t \in Task : Gated(t)' => c = <<"gate", t>>,
           \A t \in Task : Rendering(t)' => c = <<"render", t>>
    PROVE  OneCarrier'
<1>1. \A a \in Carriers' : a = c
  BY DEF Carriers
<1> QED
  BY <1>1 DEF OneCarrier

\* A step that hands nothing on.
LEMMA NoneNew ==
    ASSUME OneCarrier,
           Planned' => Planned,
           due' => due,
           fresh' \subseteq fresh,
           \A w \in Worker : work'[w].pc # "idle" => work[w].pc # "idle",
           \A e \in Evaluator : Holds(e)' => Holds(e),
           \A t \in Task : Gated(t)' => Gated(t),
           \A t \in Task : Rendering(t)' => Rendering(t)
    PROVE  OneCarrier'
<1>1. CASE Carriers = {}
  <2>1. /\ ~Planned /\ ~due /\ fresh = {} /\ \A w \in Worker : work[w].pc = "idle"
        /\ \A e \in Evaluator : ~Holds(e)
        /\ \A t \in Task : ~Gated(t) /\ ~Rendering(t)
    <3>1. ~Planned /\ ~due
      BY <1>1 DEF Carriers
    <3>2. fresh = {} /\ \A w \in Worker : work[w].pc = "idle"
      BY <1>1 DEF Carriers
    <3>3. \A e \in Evaluator : ~Holds(e)
      BY <1>1 DEF Carriers
    <3>4. \A t \in Task : ~Gated(t) /\ ~Rendering(t)
      BY <1>1 DEF Carriers
    <3> QED
      BY <3>1, <3>2, <3>3, <3>4
  <2> QED
    BY <2>1, OnlyOne
<1>2. CASE Carriers # {}
  <2> PICK c \in Carriers : TRUE
    BY <1>2
  <2> QED
    BY Alone, OnlyOne
<1> QED
  BY <1>1, <1>2

Behind(pos, t) == \A u \in Task : pos[u] < pos[t] => task[u].state = "SUCCEEDED"

LEMMA ReachedBehind ==
    ASSUME NEW pos, InOrder(pos), NEW t \in Task, Reached(t)
    PROVE  Behind(pos, t)
  BY DEF InOrder, Behind

LEMMA OneFront ==
    ASSUME NEW pos, Line(pos), NEW t \in Task, NEW u \in Task,
           Behind(pos, t), Behind(pos, u), task[t].state # "SUCCEEDED", task[u].state # "SUCCEEDED"
    PROVE  t = u
<1>1. pos[t] \in Nat /\ pos[u] \in Nat /\ ~(pos[t] < pos[u]) /\ ~(pos[u] < pos[t])
  BY DEF Line, Behind
<1>2. pos[t] = pos[u]
  BY <1>1
<1> QED
  BY <1>2 DEF Line

LEMMA OrderKept ==
    ASSUME NEW pos, InOrder(pos),
           \A t \in Task : \/ task'[t].state = task[t].state
                           \/ task[t].state # "SUCCEEDED" /\ (Reached(t)' => Behind(pos, t))
    PROVE  InOrder(pos)'
<1> SUFFICES ASSUME NEW t \in Task, NEW u \in Task, pos[u] < pos[t], Reached(t)'
             PROVE  task'[u].state = "SUCCEEDED"
  BY DEF InOrder
<1>1. Behind(pos, t)
  BY ReachedBehind DEF Reached
<1>2. task[u].state = "SUCCEEDED"
  BY <1>1 DEF Behind
<1> QED
  BY <1>2

\* A task whose prerequisites have all succeeded has all before it behind it.
LEMMA ReadyBehind ==
    ASSUME NEW pos, Line(pos), InOrder(pos), NEW t \in Task,
           \A p \in Prereq[t] : task[p].state = "SUCCEEDED"
    PROVE  Behind(pos, t)
<1> SUFFICES ASSUME NEW u \in Task, pos[u] < pos[t] PROVE task[u].state = "SUCCEEDED"
  BY DEF Behind
<1>1. PICK p \in Prereq[t] : pos[u] <= pos[p] /\ pos[p] < pos[t]
  BY DEF Line
<1>2. p \in Task /\ task[p].state = "SUCCEEDED"
  BY TaskAssumption
<1>3. CASE pos[u] < pos[p]
  BY <1>2, <1>3 DEF InOrder, Reached
<1>4. CASE pos[u] = pos[p]
  BY <1>2, <1>4 DEF Line
<1>5. pos[u] \in Nat /\ pos[p] \in Nat
  BY <1>2 DEF Line
<1> QED
  BY <1>1, <1>3, <1>4, <1>5

-----------------------------------------------------------------------------
(* One step on a line. *)

\* A step that writes no task.
LEMMA NoRowWritten ==
    ASSUME NEW pos, InOrder(pos), UNCHANGED task
    PROVE  InOrder(pos)' /\ Legal
  BY OrderKept DEF Legal

\* Nothing but the one that carries has to be looked at once it has handed on.
LEMMA IdleSession ==
    ASSUME TypeOK, NEW e \in Evaluator, eval' = [eval EXCEPT ![e] = IdleEval]
    PROVE  /\ eval'[e] = IdleEval /\ ~Holds(e)' /\ Remembered(e)'
           /\ \A d \in Evaluator \ {e} : eval'[d] = eval[d]
<1>1. eval'[e] = IdleEval /\ \A d \in Evaluator \ {e} : eval'[d] = eval[d]
  BY DEF TypeOK
<1>2. IdleEval.pc = "idle"
  BY Rows
<1> QED
  BY <1>1, <1>2 DEF Holds, Remembered

\* A session that writes nothing.
LEMMA SessionMoves ==
    ASSUME TypeOK, NEW pos, LineInv(pos), NEW e \in Evaluator,
           \A d \in Evaluator \ {e} : eval'[d] = eval[d],
           Holds(e)' => Holds(e), Remembered(e)',
           UNCHANGED <<task, render, work, fresh>>, due' => due, Planned' => Planned
    PROVE  LineInv(pos)' /\ Legal
<1>1. OneCarrier'
  <2>1. \A d \in Evaluator : Holds(d)' => Holds(d)
    BY DEF Holds
  <2>2. \A t \in Task : (Gated(t)' => Gated(t)) /\ (Rendering(t)' => Rendering(t))
    BY DEF Gated, Rendering
  <2> QED
    BY <2>1, <2>2, NoneNew DEF LineInv
<1>2. CarriedInv'
  <2>1. \A d \in Evaluator : Remembered(d)'
    BY DEF LineInv, CarriedInv, Remembered
  <2> QED
    BY <2>1 DEF LineInv, CarriedInv, Working, RenderInv, Rendering
<1> QED
  BY <1>1, <1>2, NoRowWritten DEF LineInv

LEMMA SessionEnds ==
    ASSUME TypeOK, NEW pos, LineInv(pos), NEW e \in Evaluator, Return(e),
           UNCHANGED <<task, render, work, fresh>>, due' => due, Planned' => Planned
    PROVE  LineInv(pos)' /\ Legal
<1>1. eval' = [eval EXCEPT ![e] = IdleEval]
  BY DEF Return
<1>2. /\ ~Holds(e)' /\ Remembered(e)' /\ \A d \in Evaluator \ {e} : eval'[d] = eval[d]
  BY <1>1, IdleSession
<1> QED
  BY <1>2, SessionMoves

\* What a session does not hold, another step cannot take from it.
LEMMA OthersRemember ==
    ASSUME \A d \in Evaluator : Remembered(d), NEW e \in Evaluator,
           \A d \in Evaluator \ {e} : eval'[d] = eval[d] /\ ~Holds(d)
    PROVE  \A d \in Evaluator \ {e} : Remembered(d)' /\ ~Holds(d)'
  BY DEF Remembered, Holds

\* The same when no session moves.
LEMMA NoneRemembers ==
    ASSUME \A d \in Evaluator : Remembered(d) /\ ~Holds(d), UNCHANGED eval
    PROVE  \A d \in Evaluator : Remembered(d)' /\ ~Holds(d)'
  BY DEF Remembered, Holds

LEMMA UsersLine ==
    ASSUME IndInv, Undisturbed, NEW pos, LineInv(pos), Users
    PROVE  LineInv(pos)' /\ Legal
<1> USE DEF IndInv
<1>1. CASE Plan
  <2>0. /\ task = [t \in Task |-> NoTask] /\ \A e \in Evaluator : eval[e] = IdleEval
        /\ \A w \in Worker : work[w] = IdleWork
    BY <1>1 DEF Plan, OutcomeInv
  <2>1. /\ UNCHANGED <<render, fresh, due, eval, work>> /\ Planned /\ Planned'
        /\ \A t \in Task : task[t] = NoTask /\ task'[t] = [NoTask EXCEPT !.state = "PENDING"]
    BY <1>1, <2>0 DEF Plan, messages, Planned
  <2>2. \A t \in Task : task[t].state = "ABSENT" /\ task'[t].state = "PENDING"
                        /\ ~task[t].output /\ ~task'[t].output
    BY <2>1 DEF NoTask
  <2>3. OneCarrier'
    BY <2>1, <2>2, NoneNew DEF LineInv, Holds, Gated, Rendering
  <2>4. InOrder(pos)' /\ Legal
    BY <2>2, OrderKept DEF LineInv, Reached, Legal, LegalTransition
  <2>5. CarriedInv'
    <3>1. \A t \in fresh : t \in Task /\ task[t].state = "QUEUED"
      BY DEF LineInv, CarriedInv, TypeOK
    <3>2. fresh' = {}
      BY <2>1, <2>2, <3>1
    <3>3. /\ \A e \in Evaluator : eval'[e] = IdleEval /\ eval'[e].pc = "idle"
          /\ \A w \in Worker : work'[w].pc = "idle"
      BY <2>0, <2>1, Rows DEF IdleWork
    <3>4. RenderInv'
      BY <2>1, <2>2 DEF LineInv, CarriedInv, RenderInv, Rendering
    <3> QED
      BY <3>2, <3>3, <3>4 DEF CarriedInv, Working, Remembered
  <2> QED
    BY <2>3, <2>4, <2>5 DEF LineInv
<1>2. CASE Start
  <2>1. UNCHANGED <<task, render, fresh, eval, work>> /\ Planned /\ ~Planned' /\ due'
    BY <1>2 DEF Start, Planned
  <2>2. <<"planned">> \in Carriers
    BY <2>1 DEF Carriers
  <2>3. OneCarrier'
    <3>1. /\ fresh = {} /\ \A w \in Worker : work[w].pc = "idle"
          /\ \A e \in Evaluator : ~Holds(e)
          /\ \A t \in Task : ~Gated(t) /\ ~Rendering(t)
      BY <2>2, Alone DEF LineInv
    <3>2. /\ \A e \in Evaluator : ~Holds(e)'
          /\ \A t \in Task : ~Gated(t)' /\ ~Rendering(t)'
      BY <2>1, <3>1 DEF Holds, Gated, Rendering
    <3> QED
      BY <2>1, <3>1, <3>2, OnlyOne
  <2> QED
    BY <2>1, <2>3, NoRowWritten DEF LineInv, CarriedInv, Working, Remembered, RenderInv, Rendering
<1>3. CASE Pause
  <2>1. UNCHANGED <<task, render, fresh, due, eval, work>> /\ ~Planned'
    BY <1>3 DEF Pause, Planned, messages
  <2>2. OneCarrier'
    BY <2>1, NoneNew DEF LineInv, Holds, Gated, Rendering
  <2> QED
    BY <2>1, <2>2, NoRowWritten DEF LineInv, CarriedInv, Working, Remembered, RenderInv, Rendering
<1>4. CASE Cancel
  BY <1>4 DEF Cancel, Undisturbed
<1>5. ASSUME NEW e \in Evaluator, NEW t \in Task, ApproveTask(e, t) \/ RejectTask(e, t)
      PROVE  LineInv(pos)' /\ Legal
  <2>1. PICK new \in {"READY", "FAILED"} : Decide(e, t, new) /\ UNCHANGED <<state, render, fresh, due, work>>
    BY <1>5 DEF ApproveTask, RejectTask, mission, messages
  <2>2. /\ Gated(t) /\ eval[e].pc = "idle" /\ task'[t].state = new /\ task'[t].output = task[t].output
        /\ \A u \in Task \ {t} : task'[u] = task[u]
    BY <2>1 DEF Decide, Gated, TypeOK, TaskRow
  <2>3. \A d \in Evaluator \ {e} : eval'[d] = eval[d]
    BY <2>1 DEF Decide, TypeOK
  <2>4. /\ eval'[e].pc = "begin" /\ eval'[e].mem[t] = task'[t]
        /\ \A u \in Task \ {t} : eval'[e].mem[u] = Unread
    BY <2>1 DEF Decide, TypeOK, IdleEval
  <2>5. <<"gate", t>> \in Carriers
    BY <2>2 DEF Carriers
  <2>6. /\ ~Planned /\ ~due /\ fresh = {} /\ \A w \in Worker : work[w].pc = "idle"
        /\ \A d \in Evaluator : ~Holds(d)
        /\ \A u \in Task : (Gated(u) => u = t) /\ ~Rendering(u)
    BY <2>5, Alone DEF LineInv
  <2>7. OneCarrier'
    <3>1. \A u \in Task : ~Gated(u)' /\ ~Rendering(u)'
      BY <2>1, <2>2, <2>6 DEF Gated, Rendering
    <3>2. \A d \in Evaluator : Holds(d)' => d = e
      BY <2>3, <2>6 DEF Holds
    <3> QED
      BY <2>1, <2>6, <3>1, <3>2, OnlyOne DEF Planned
  <2>8. Behind(pos, t)
    BY <2>2, ReachedBehind DEF LineInv, Gated, Reached
  <2>9. InOrder(pos)' /\ Legal
    BY <2>2, <2>8, OrderKept DEF LineInv, Gated, Legal, LegalTransition
  <2>10. CarriedInv'
    <3>1. Remembered(e)'
      BY <2>2, <2>4 DEF Remembered
    <3>2. ASSUME NEW d \in Evaluator \ {e} PROVE Remembered(d)'
      BY <2>3, <2>6 DEF LineInv, CarriedInv, Remembered, Holds
    <3>3. RenderInv'
      BY <2>1, <2>2, <2>6 DEF LineInv, CarriedInv, RenderInv, Rendering
    <3> QED
      BY <2>1, <2>6, <3>1, <3>2, <3>3, TypeStep DEF LineInv, CarriedInv, Working, TypeOK, WorkState
  <2> QED
    BY <2>7, <2>9, <2>10 DEF LineInv
<1>6. ASSUME NEW r \in Resumer PROVE FALSE
  BY DEF Undisturbed
<1> QED
  BY <1>1, <1>2, <1>3, <1>4, <1>5, <1>6 DEF Users

-----------------------------------------------------------------------------
(* The evaluation on a line. *)

\* An evaluation that begins is alone, and sees the states the tasks are in.
LEMMA Beginning ==
    ASSUME IndInv, Undisturbed, NEW pos, LineInv(pos), NEW e \in Evaluator, Called(e)
    PROVE  /\ ~due' /\ ~Planned /\ fresh = {} /\ \A w \in Worker : work[w].pc = "idle"
           /\ \A d \in Evaluator \ {e} : ~Holds(d)
           /\ \A t \in Task : ~Gated(t) /\ ~Rendering(t)
           /\ \A t \in Task : View(e)[t].state = task[t].state
<1> USE DEF IndInv
<1>1. CASE eval[e].pc = "begin" /\ UNCHANGED <<due, repeats>>
  <2>1. <<"evaluation", e>> \in Carriers
    BY <1>1 DEF Carriers, Holds
  <2>2. /\ ~Planned /\ ~due /\ fresh = {} /\ \A w \in Worker : work[w].pc = "idle"
        /\ \A d \in Evaluator \ {e} : ~Holds(d)
        /\ \A t \in Task : ~Gated(t) /\ ~Rendering(t)
    BY <2>1, Alone DEF LineInv
  <2>3. \A t \in Task : View(e)[t].state = task[t].state
    BY <1>1 DEF LineInv, CarriedInv, Remembered, View
  <2> QED
    BY <1>1, <2>2, <2>3
<1>2. CASE eval[e].pc = "idle" /\ Taken(due, state \notin {"DRAFT", "READY"}) /\ due' = FALSE
  <2>1. due
    <3>1. due \in BOOLEAN /\ (state \notin {"DRAFT", "READY"}) \in BOOLEAN
      BY DEF TypeOK
    <3> QED
      BY <1>2, <3>1, Messages
  <2>2. <<"due">> \in Carriers
    BY <2>1 DEF Carriers
  <2>3. /\ ~Planned /\ fresh = {} /\ \A w \in Worker : work[w].pc = "idle"
        /\ \A d \in Evaluator : ~Holds(d)
        /\ \A t \in Task : ~Gated(t) /\ ~Rendering(t)
    BY <2>2, Alone DEF LineInv
  <2>4. eval[e] = IdleEval
    BY <1>2 DEF LineInv, CarriedInv, Remembered
  <2>5. \A t \in Task : View(e)[t] = task[t]
    BY <2>4 DEF View, IdleEval
  <2> QED
    BY <1>2, <2>3, <2>5
<1> QED
  BY <1>1, <1>2 DEF Called

\* On a line one task at most can go on.
Foremost(pos, t) == Behind(pos, t) /\ task[t].state # "SUCCEEDED"

LEMMA BeginLine ==
    ASSUME IndInv, Undisturbed, NEW pos, Line(pos), LineInv(pos), NEW e \in Evaluator, BeginEvaluation(e)
    PROVE  LineInv(pos)' /\ Legal
<1> USE DEF IndInv
<1>1. /\ ~due' /\ ~Planned /\ fresh = {} /\ \A w \in Worker : work[w].pc = "idle"
      /\ \A d \in Evaluator \ {e} : ~Holds(d)
      /\ \A t \in Task : ~Gated(t) /\ ~Rendering(t)
      /\ \A t \in Task : View(e)[t].state = task[t].state
  BY Beginning DEF BeginEvaluation
<1>2. PICK C \in SUBSET Task :
          LET new == Evaluated(View(e), C)
          IN  /\ Cancelled(View(e), C)
              /\ Flush(View(e), new)
              /\ eval' = [eval EXCEPT ![e] =
                            [@ EXCEPT !.mem = new, !.epoch = epoch,
                                      !.pc = IF \E t \in Task : new[t].state = "READY"
                                             THEN "guard" ELSE "dispatch"]]
  BY DEF BeginEvaluation
<1> PICK new : new = Evaluated(View(e), C)
  OBVIOUS
<1>3. UNCHANGED <<state, render, fresh, work>>
  BY DEF BeginEvaluation
<1>4. \A t \in Task : View(e)[t] \in TaskRow /\ new[t] \in TaskRow
  BY RowType
<1>5. \A t \in Task : task'[t].state = new[t].state /\ task'[t].output = task[t].output
  <2>1. \A t \in Task : task'[t] = Changed(task[t], View(e)[t], new[t]) /\ task[t] \in TaskRow
    BY <1>2 DEF Flush, TypeOK
  <2> QED
    BY <1>1, <2>1 DEF Changed, TaskRow
<1>6. \A t \in Task : \/ new[t].state = task[t].state
                      \/ task[t].state = "PENDING" /\ new[t].state = "CANCELLED"
                      \/ /\ task[t].state = "PENDING" /\ new[t].state \in {"READY", "WAITING_APPROVAL"}
                         /\ \A p \in Prereq[t] : task[p].state = "SUCCEEDED"
                      \/ task[t].state = "RUNNING" /\ new[t].state = "READY"
  <2> SUFFICES ASSUME NEW t \in Task
               PROVE  \/ new[t].state = task[t].state
                      \/ task[t].state = "PENDING" /\ new[t].state = "CANCELLED"
                      \/ /\ task[t].state = "PENDING" /\ new[t].state \in {"READY", "WAITING_APPROVAL"}
                         /\ \A p \in Prereq[t] : task[p].state = "SUCCEEDED"
                      \/ task[t].state = "RUNNING" /\ new[t].state = "READY"
    OBVIOUS
  <2>1. new[t].state = IF t \in C THEN "CANCELLED"
                       ELSE IF BecomesReady(View(e), t) THEN GateState(t)
                       ELSE IF RenderReported(View(e), t) THEN "READY"
                       ELSE View(e)[t].state
    BY <1>4 DEF Evaluated, TaskRow
  <2>2. t \in C => task[t].state = "PENDING"
    BY <1>1, <1>2 DEF Cancelled
  <2>3. BecomesReady(View(e), t) => /\ task[t].state = "PENDING" /\ GateState(t) \in {"READY", "WAITING_APPROVAL"}
                                    /\ \A p \in Prereq[t] : task[p].state = "SUCCEEDED"
    BY <1>1, TaskAssumption DEF BecomesReady, AllSucceeded, GateState
  <2>4. RenderReported(View(e), t) => task[t].state = "RUNNING"
    BY <1>1 DEF RenderReported
  <2> QED
    BY <1>1, <2>1, <2>2, <2>3, <2>4
<1>7. \A t \in Task : new[t].state \in {"READY", "WAITING_APPROVAL"} => Foremost(pos, t)
  <2> SUFFICES ASSUME NEW t \in Task, new[t].state \in {"READY", "WAITING_APPROVAL"} PROVE Foremost(pos, t)
    OBVIOUS
  <2>1. CASE task[t].state = "PENDING"
    <3>1. \A p \in Prereq[t] : task[p].state = "SUCCEEDED"
      BY <1>6, <2>1
    <3>2. Behind(pos, t)
      BY <3>1, ReadyBehind DEF LineInv
    <3> QED
      BY <2>1, <3>2 DEF Foremost
  <2>2. CASE task[t].state # "PENDING"
    <3>1. Reached(t) /\ task[t].state # "SUCCEEDED"
      BY <1>6, <2>2 DEF Reached
    <3>2. Behind(pos, t)
      BY <3>1, ReachedBehind DEF LineInv
    <3> QED
      BY <3>1, <3>2 DEF Foremost
  <2> QED
    BY <2>1, <2>2
<1>8. \A t, u \in Task : Foremost(pos, t) /\ Foremost(pos, u) => t = u
  BY OneFront DEF Foremost
<1>9. /\ \A d \in Evaluator \ {e} : eval'[d] = eval[d]
      /\ eval'[e].mem = new /\ eval'[e].pc \in {"guard", "dispatch"}
  BY <1>2 DEF TypeOK, EvalState
<1>10. \A d \in Evaluator \ {e} : Remembered(d)' /\ ~Holds(d)'
  BY <1>1, <1>9, OthersRemember DEF LineInv, CarriedInv
<1>11. /\ ~Planned' /\ fresh' = {} /\ \A w \in Worker : work'[w].pc = "idle"
       /\ \A t \in Task : ~Rendering(t)'
  BY <1>1, <1>3, <1>5 DEF Planned, Rendering
<1>12. Holds(e)' => \E t \in Task : new[t].state = "READY"
  BY <1>9 DEF Holds
<1>13. \A t \in Task : Gated(t)' => new[t].state = "WAITING_APPROVAL"
  BY <1>5 DEF Gated
<1>14. OneCarrier'
  <2>1. CASE \E t \in Task : new[t].state = "READY"
    <3>1. \A t \in Task : ~Gated(t)'
      BY <2>1, <1>7, <1>8, <1>13
    <3> QED
      BY <1>1, <1>10, <1>11, <3>1, OnlyOne
  <2>2. CASE ~\E t \in Task : new[t].state = "READY"
    <3>1. \A d \in Evaluator : ~Holds(d)'
      BY <2>2, <1>10, <1>12
    <3>2. CASE \E t \in Task : Gated(t)'
      <4> PICK t \in Task : Gated(t)'
        BY <3>2
      <4>1. \A u \in Task : Gated(u)' => u = t
        BY <1>7, <1>8, <1>13
      <4> QED
        BY <1>1, <1>11, <3>1, <4>1, OnlyOne
    <3>3. CASE ~\E t \in Task : Gated(t)'
      BY <1>1, <1>11, <3>1, <3>3, OnlyOne
    <3> QED
      BY <3>2, <3>3
  <2> QED
    BY <2>1, <2>2
<1>15. InOrder(pos)'
  <2>1. ASSUME NEW t \in Task
        PROVE  \/ task'[t].state = task[t].state
               \/ task[t].state # "SUCCEEDED" /\ (Reached(t)' => Behind(pos, t))
    <3>1. CASE new[t].state \in {"READY", "WAITING_APPROVAL"}
      BY <3>1, <1>7 DEF Foremost
    <3>2. CASE new[t].state \notin {"READY", "WAITING_APPROVAL"}
      BY <3>2, <1>5, <1>6 DEF Reached
    <3> QED
      BY <3>1, <3>2
  <2> QED
    BY <2>1, OrderKept DEF LineInv
<1>16. Legal
  BY <1>5, <1>6 DEF Legal, LegalTransition
<1>17. CarriedInv'
  <2>1. Remembered(e)'
    BY <1>5, <1>9 DEF Remembered
  <2>2. RenderInv'
    BY <1>3, <1>5, <1>11 DEF LineInv, CarriedInv, RenderInv
  <2> QED
    BY <2>1, <2>2, <1>10, <1>11 DEF CarriedInv, Working
<1> QED
  BY <1>14, <1>15, <1>16, <1>17 DEF LineInv

LEMMA DispatchLine ==
    ASSUME IndInv, Undisturbed, NEW pos, Line(pos), LineInv(pos), NEW e \in Evaluator, DispatchTasks(e)
    PROVE  LineInv(pos)' /\ Legal
<1> USE DEF IndInv
<1> DEFINE mem == eval[e].mem
           new(D) == [t \in Task |-> IF t \in D
                                     THEN [mem[t] EXCEPT !.state = "QUEUED", !.dispatched = eval[e].epoch]
                                     ELSE mem[t]]
<1> PICK D \in SUBSET {t \in Task : mem[t].state = "READY"} :
        /\ Flush(mem, new(D))
        /\ Enqueue(e, D)
        /\ eval' = [eval EXCEPT ![e].pc = "complete", ![e].mem = new(D)]
  BY DEF DispatchTasks
<1>1. /\ \A t \in D : t \in Task /\ mem[t].state = "READY"
      /\ \A t \in D : task'[t] = Changed(task[t], mem[t], [mem[t] EXCEPT !.state = "QUEUED", !.dispatched = eval[e].epoch])
      /\ \A t \in Task \ D : task'[t] = Changed(task[t], mem[t], mem[t])
      /\ task' = [t \in Task |-> task'[t]]
  BY DEF Flush
<1>2. eval[e].pc = "dispatch" /\ UNCHANGED <<state, render, due, work>>
  BY DEF DispatchTasks, mission
<1>3. /\ \A d \in Evaluator \ {e} : eval'[d] = eval[d]
      /\ eval'[e].pc = "complete"
  BY DEF TypeOK, EvalState
<1>0. fresh' \subseteq fresh \cup D /\ (D = {} => fresh' = fresh)
  BY DEF Enqueue
<1> HIDE DEF mem, new
<1>4. ~Holds(e)' /\ Remembered(e)'
  BY <1>3 DEF Holds, Remembered
<1>5. /\ \A t \in D : task[t].state = "READY" /\ task'[t].state = "QUEUED"
      /\ \A t \in Task \ D : task'[t] = task[t]
      /\ \A t \in Task : task'[t].output = task[t].output
  <2>1. \A t \in D : mem[t] \in TaskRow
    BY <1>1, ReadRow DEF mem
  <2>2. \A t \in D : task[t].state = "READY"
    BY <1>1, <1>2 DEF LineInv, CarriedInv, Remembered, mem
  <2>3. ASSUME NEW t \in D PROVE task'[t].state = "QUEUED" /\ task'[t].output = task[t].output
    <3>1. task'[t] = Changed(task[t], mem[t], [mem[t] EXCEPT !.state = "QUEUED", !.dispatched = eval[e].epoch])
      BY <1>1, <2>3
    <3>2. task[t] \in TaskRow /\ mem[t] \in TaskRow /\ mem[t].state = "READY"
      BY <1>1, <2>1, <2>3 DEF TypeOK
    <3> QED
      BY <3>1, <3>2 DEF Changed, TaskRow
  <2>4. ASSUME NEW t \in Task \ D PROVE task'[t] = task[t]
    <3>1. task'[t] = Changed(task[t], mem[t], mem[t])
      BY <1>1
    <3> QED
      BY <3>1 DEF Changed, TypeOK, TaskRow
  <2> QED
    BY <2>2, <2>3, <2>4
<1>6. CASE D = {}
  <2>1. task' = task
    BY <1>1, <1>5, <1>6 DEF TypeOK
  <2>2. fresh' = fresh
    BY <1>0, <1>6
  <2> QED
    BY <1>2, <1>3, <1>4, <2>1, <2>2, SessionMoves DEF Planned
<1>7. CASE D # {}
  <2> PICK t \in D : TRUE
    BY <1>7
  <2>1. <<"evaluation", e>> \in Carriers
    BY <1>1, <1>2 DEF Carriers, Holds, mem
  <2>2. /\ ~Planned /\ ~due /\ fresh = {} /\ \A w \in Worker : work[w].pc = "idle"
        /\ \A d \in Evaluator \ {e} : ~Holds(d)
        /\ \A u \in Task : ~Gated(u) /\ ~Rendering(u)
    BY <2>1, Alone DEF LineInv
  <2>3. \A u \in D : Behind(pos, u)
    BY <1>5, ReachedBehind DEF LineInv, Reached
  <2>4. D = {t}
    <3>1. \A u \in D : u = t
      BY <1>5, <2>3, OneFront
    <3> QED
      BY <3>1
  <2>5. fresh' \subseteq {t}
    BY <1>0, <2>2, <2>4
  <2>6. \A d \in Evaluator \ {e} : Remembered(d)' /\ ~Holds(d)'
    BY <1>3, <2>2, OthersRemember DEF LineInv, CarriedInv
  <2>7. \A u \in Task : ~Gated(u)' /\ ~Rendering(u)'
    BY <1>2, <1>5, <2>2 DEF Gated, Rendering
  <2>8. OneCarrier'
    <3>1. ~Planned' /\ ~due'
      BY <1>2, <2>2 DEF Planned
    <3>2. /\ \A u \in fresh' : <<"message", t>> = <<"message", u>>
          /\ \A w \in Worker : work'[w].pc = "idle"
          /\ \A d \in Evaluator : ~Holds(d)'
      BY <1>2, <1>4, <2>2, <2>5, <2>6
    <3> QED
      BY <2>7, <3>1, <3>2, OnlyOne
  <2>9. InOrder(pos)' /\ Legal
    <3>1. \A u \in Task : u \in D \/ task'[u].state = task[u].state
      BY <1>5
    <3> QED
      BY <1>5, <2>3, <3>1, OrderKept DEF LineInv, Legal, LegalTransition
  <2>10. RenderInv'
    BY <1>2, <1>5, <2>7 DEF LineInv, CarriedInv, RenderInv
  <2>11. CarriedInv'
    BY <1>2, <1>4, <1>5, <2>2, <2>5, <2>6, <2>10 DEF CarriedInv, Working
  <2> QED
    BY <2>8, <2>9, <2>11 DEF LineInv
<1> QED
  BY <1>6, <1>7

LEMMA EvaluateLine ==
    ASSUME IndInv, Undisturbed, NEW pos, Line(pos), LineInv(pos), NEW e \in Evaluator,
           Evaluate(e) \/ CrashEvaluation(e)
    PROVE  LineInv(pos)' /\ Legal
<1> USE DEF IndInv
<1>1. CASE SkipEvaluation(e)
  <2>1. ~due'
    BY <1>1, Beginning DEF SkipEvaluation
  <2> QED
    BY <1>1, <2>1, SessionEnds DEF SkipEvaluation, mission, Planned
<1>2. CASE BeginEvaluation(e)
  BY <1>2, BeginLine
<1>3. ASSUME NEW v \in Verdicts, GuardianCheck(e, v)
      PROVE  LineInv(pos)' /\ Legal
  <2>1. UNCHANGED <<task, render, work, fresh, due>> /\ (Planned' => Planned)
    BY <1>3 DEF GuardianCheck, Verdict, messages, Planned
  <2>2. CASE v = "allow"
    <3>1. eval' = [eval EXCEPT ![e].pc = IF @ = "guard" THEN "dispatch" ELSE "succeed"]
      BY <1>3, <2>2 DEF GuardianCheck
    <3>2. /\ \A d \in Evaluator \ {e} : eval'[d] = eval[d]
          /\ eval'[e].mem = eval[e].mem
          /\ eval[e].pc = "guard" => eval'[e].pc = "dispatch"
          /\ eval[e].pc # "guard" => eval'[e].pc = "succeed"
      BY <3>1 DEF TypeOK, EvalState
    <3>3. Holds(e)' => Holds(e)
      BY <3>2 DEF Holds
    <3>4. Remembered(e)'
      BY <2>1, <3>2 DEF LineInv, CarriedInv, Remembered
    <3> QED
      BY <2>1, <3>2, <3>3, <3>4, SessionMoves
  <2>3. CASE v # "allow"
    BY <1>3, <2>1, <2>3, SessionEnds DEF GuardianCheck
  <2> QED
    BY <2>2, <2>3
<1>4. CASE DispatchTasks(e)
  BY <1>4, DispatchLine
<1>5. CASE FailMission(e) \/ CompleteMission(e) \/ CrashEvaluation(e)
  <2>1. UNCHANGED <<task, render, work, fresh, due>> /\ (Planned' => Planned) /\ Return(e)
    BY <1>5 DEF FailMission, CompleteMission, CrashEvaluation, messages, mission, Planned
  <2> QED
    BY <2>1, SessionEnds
<1>6. CASE EndEvaluation(e)
  <2>1. UNCHANGED <<task, render, work, fresh, due>> /\ (Planned' => Planned)
    BY <1>6 DEF EndEvaluation, messages, mission, Planned
  <2>2. PICK s \in {IdleEval, [IdleEval EXCEPT !.pc = "terminal"]} : eval' = [eval EXCEPT ![e] = s]
    BY <1>6 DEF EndEvaluation
  <2>3. CASE s = IdleEval
    BY <2>1, <2>2, <2>3, SessionEnds DEF Return
  <2>4. CASE s = [IdleEval EXCEPT !.pc = "terminal"]
    <3>1. eval'[e].pc = "terminal" /\ \A d \in Evaluator \ {e} : eval'[d] = eval[d]
      BY <2>2, <2>4 DEF TypeOK, IdleEval
    <3>2. ~Holds(e)' /\ Remembered(e)'
      BY <3>1 DEF Holds, Remembered
    <3> QED
      BY <2>1, <3>1, <3>2, SessionMoves
  <2> QED
    BY <2>2, <2>3, <2>4
<1> QED
  BY <1>1, <1>2, <1>3, <1>4, <1>5, <1>6 DEF Evaluate

-----------------------------------------------------------------------------
(* Work and renders on a line. *)

\* What a worker that has a task may take for granted: it is alone, and its task
\* is RUNNING with all before it behind it.
LEMMA AtWork ==
    ASSUME IndInv, NEW pos, LineInv(pos), NEW w \in Worker, work[w].pc # "idle"
    PROVE  /\ ~Planned /\ ~due /\ fresh = {} /\ \A v \in Worker \ {w} : work[v].pc = "idle"
           /\ \A d \in Evaluator : ~Holds(d)
           /\ \A t \in Task : ~Gated(t) /\ ~Rendering(t)
           /\ work[w].task \in Task /\ task[work[w].task].state = "RUNNING" /\ Behind(pos, work[w].task)
<1> USE DEF IndInv
<1>1. <<"work", w>> \in Carriers
  BY DEF Carriers
<1>2. /\ ~Planned /\ ~due /\ fresh = {} /\ \A v \in Worker \ {w} : work[v].pc = "idle"
      /\ \A d \in Evaluator : ~Holds(d)
      /\ \A t \in Task : ~Gated(t) /\ ~Rendering(t)
  BY <1>1, Alone DEF LineInv
<1>3. work[w].task \in Task
  BY DEF TypeOK, WorkState
<1>4. task[work[w].task].state = "RUNNING"
  BY DEF LineInv, CarriedInv, Working
<1>5. Behind(pos, work[w].task)
  BY <1>3, <1>4, ReachedBehind DEF LineInv, Reached
<1> QED
  BY <1>2, <1>3, <1>4, <1>5

\* A task ends, succeeds or is to be tried again.
LEMMA TaskEndsLine ==
    ASSUME IndInv, NEW pos, LineInv(pos), NEW w \in Worker, work[w].pc # "idle",
           NEW s \in {"SUCCEEDED", "READY", "FAILED"}, task'[work[w].task].state = s,
           \A t \in Task \ {work[w].task} : task'[t] = task[t],
           \A t \in Task : /\ task'[t].output => task[t].output \/ (t \in Production /\ render[t] = "succeeded")
                           /\ render[t] = "active" => (task'[t].output => task[t].output),
           work' = [work EXCEPT ![w] = IdleWork], due',
           UNCHANGED <<state, render, fresh, eval>>
    PROVE  LineInv(pos)' /\ Legal
<1> USE DEF IndInv
<1> PICK t \in Task : t = work[w].task
  BY AtWork
<1>1. /\ ~Planned /\ ~due /\ fresh = {} /\ \A v \in Worker \ {w} : work[v].pc = "idle"
      /\ \A d \in Evaluator : ~Holds(d)
      /\ \A u \in Task : ~Gated(u) /\ ~Rendering(u)
      /\ task[t].state = "RUNNING" /\ Behind(pos, t)
  BY AtWork
<1>2. \A v \in Worker : work'[v].pc = "idle"
  BY <1>1 DEF TypeOK, IdleWork
<1>3. \A d \in Evaluator : Remembered(d)' /\ ~Holds(d)'
  BY <1>1, NoneRemembers DEF LineInv, CarriedInv
<1>4. \A u \in Task : ~Gated(u)'
  BY <1>1 DEF Gated
<1>5. \A u \in Task : ~Rendering(u)'
  BY <1>1 DEF Rendering
<1>6. OneCarrier'
  <2>1. ~Planned' /\ fresh' = {}
    BY <1>1 DEF Planned
  <2> QED
    BY <1>2, <1>3, <1>4, <1>5, <2>1, OnlyOne
<1>7. InOrder(pos)' /\ Legal
  <2>1. \A u \in Task : u = t \/ task'[u].state = task[u].state
    OBVIOUS
  <2> QED
    BY <1>1, <2>1, OrderKept DEF LineInv, Legal, LegalTransition
<1>8. RenderInv'
  BY <1>5 DEF LineInv, CarriedInv, RenderInv
<1> QED
  BY <1>1, <1>2, <1>3, <1>6, <1>7, <1>8 DEF LineInv, CarriedInv, Working

LEMMA StartLine ==
    ASSUME IndInv, Undisturbed, NEW pos, LineInv(pos), NEW w \in Worker, NEW t \in Task,
           StartTask(w, t) \/ RefuseTask(w, t)
    PROVE  LineInv(pos)' /\ Legal
<1> USE DEF IndInv
<1>1. t \in fresh /\ fresh' = fresh \ {t}
  <2>1. Taken(t \in fresh, Dispatched(t)) /\ fresh' = fresh \ {t}
    BY DEF StartTask, RefuseTask, Delivered
  <2>2. (t \in fresh) \in BOOLEAN /\ Dispatched(t) \in BOOLEAN
    BY DEF Dispatched
  <2> QED
    BY <2>1, <2>2, Messages
<1>2. <<"message", t>> \in Carriers
  BY <1>1 DEF Carriers
<1>3. /\ ~Planned /\ ~due /\ \A u \in fresh : u = t
      /\ \A v \in Worker : work[v].pc = "idle"
      /\ \A d \in Evaluator : ~Holds(d)
      /\ \A u \in Task : ~Gated(u) /\ ~Rendering(u)
  BY <1>2, Alone DEF LineInv
<1>4. fresh' = {}
  BY <1>1, <1>3
<1>5. UNCHANGED <<state, render, due, eval>>
  BY DEF StartTask, RefuseTask, mission
<1>6. \A d \in Evaluator : Remembered(d)' /\ ~Holds(d)'
  BY <1>3, <1>5, NoneRemembers DEF LineInv, CarriedInv
<1>7. CASE RefuseTask(w, t)
  <2>1. UNCHANGED <<task, work>>
    BY <1>7 DEF RefuseTask
  <2>2. \A u \in Task : ~Gated(u)' /\ ~Rendering(u)'
    BY <1>3, <1>5, <2>1 DEF Gated, Rendering
  <2>3. OneCarrier'
    BY <1>3, <1>4, <1>5, <1>6, <2>1, <2>2, OnlyOne DEF Planned
  <2>4. RenderInv'
    BY <1>5, <2>1, <2>2 DEF LineInv, CarriedInv, RenderInv
  <2>5. CarriedInv'
    BY <1>3, <1>4, <1>6, <2>1, <2>4 DEF CarriedInv, Working
  <2> QED
    BY <2>1, <2>3, <2>5, NoRowWritten DEF LineInv
<1>8. CASE StartTask(w, t)
  <2>1. /\ task[t].state = "QUEUED" /\ task'[t].state = "RUNNING" /\ task'[t].output = task[t].output
        /\ \A u \in Task \ {t} : task'[u] = task[u]
    BY <1>8 DEF StartTask, Admits, TypeOK, TaskRow
  <2>2. /\ work'[w] = [pc |-> "running", task |-> t]
        /\ \A v \in Worker \ {w} : work'[v].pc = "idle"
    BY <1>3, <1>8 DEF StartTask, TypeOK
  <2>3. \A u \in Task : ~Gated(u)' /\ ~Rendering(u)'
    BY <1>3, <1>5, <2>1 DEF Gated, Rendering
  <2>4. OneCarrier'
    <3>1. ~Planned' /\ ~due'
      BY <1>3, <1>5 DEF Planned
    <3> QED
      BY <1>4, <1>6, <2>2, <2>3, <3>1, OnlyOne
  <2>5. Behind(pos, t)
    BY <2>1, ReachedBehind DEF LineInv, Reached
  <2>6. InOrder(pos)' /\ Legal
    <3>1. \A u \in Task : u = t \/ task'[u].state = task[u].state
      BY <2>1
    <3> QED
      BY <2>1, <2>5, <3>1, OrderKept DEF LineInv, Legal, LegalTransition
  <2>7. RenderInv'
    BY <1>5, <2>1, <2>3 DEF LineInv, CarriedInv, RenderInv
  <2>8. \A v \in Worker : Working(v)'
    BY <2>1, <2>2 DEF Working
  <2> QED
    BY <1>4, <1>6, <2>4, <2>6, <2>7, <2>8 DEF LineInv, CarriedInv
<1> QED
  BY <1>7, <1>8

LEMMA ExecuteLine ==
    ASSUME IndInv, NEW pos, LineInv(pos), NEW w \in Worker, Execute(w) \/ CrashWorker(w)
    PROVE  LineInv(pos)' /\ Legal
<1> USE DEF IndInv
<1>1. work[w].pc # "idle"
  BY DEF Execute, StartOrAwaitRender, Correlate, TaskSucceeds, TaskFails, CrashWorker
<1> PICK t \in Task : t = work[w].task
  BY <1>1, AtWork
<1>2. /\ ~Planned /\ ~due /\ fresh = {} /\ \A v \in Worker \ {w} : work[v].pc = "idle"
      /\ \A d \in Evaluator : ~Holds(d)
      /\ \A u \in Task : ~Gated(u) /\ ~Rendering(u)
      /\ task[t].state = "RUNNING" /\ Behind(pos, t)
  BY <1>1, AtWork
<1>3. UNCHANGED eval => \A d \in Evaluator : Remembered(d)' /\ ~Holds(d)'
  BY <1>2, NoneRemembers DEF LineInv, CarriedInv
<1>4. CASE StartOrAwaitRender(w)
  <2>1. /\ UNCHANGED <<state, task, fresh, due, eval>>
        /\ render' = [render EXCEPT ![t] = "active"] /\ work' = [work EXCEPT ![w].pc = "pending"]
        /\ t \in Production /\ render[t] \in {"none", "active"}
    BY <1>4 DEF StartOrAwaitRender, mission, messages
  <2>2. ~task[t].output
    BY <1>2, <2>1 DEF LineInv, CarriedInv, RenderInv, Rendering
  <2>3. render'[t] = "active" /\ \A u \in Task \ {t} : render'[u] = render[u]
    BY <2>1 DEF TypeOK
  <2>4. \A u \in Task : ~Gated(u)' /\ ~Rendering(u)'
    BY <1>2, <2>1, <2>2, <2>3 DEF Gated, Rendering
  <2>5. /\ work'[w].pc = "pending" /\ work'[w].task = t
        /\ \A v \in Worker \ {w} : work'[v].pc = "idle"
    BY <1>1, <1>2, <2>1 DEF TypeOK, WorkState
  <2>6. OneCarrier'
    <3>1. ~Planned' /\ ~due' /\ fresh' = {}
      BY <1>2, <2>1 DEF Planned
    <3> QED
      BY <1>3, <2>1, <2>4, <2>5, <3>1, OnlyOne
  <2>7. RenderInv'
    BY <2>1, <2>2, <2>3, <2>4 DEF LineInv, CarriedInv, RenderInv
  <2>8. \A v \in Worker : Working(v)'
    BY <1>2, <2>1, <2>3, <2>5 DEF Working
  <2> QED
    BY <1>2, <1>3, <2>1, <2>6, <2>7, <2>8, NoRowWritten DEF LineInv, CarriedInv
<1>5. CASE Correlate(w)
  <2>1. /\ UNCHANGED <<state, render, fresh, due, eval>>
        /\ task' = [task EXCEPT ![t].output = TRUE] /\ work' = [work EXCEPT ![w] = IdleWork]
        /\ work[w].pc = "pending"
    BY <1>5 DEF Correlate, mission, messages
  <2>2. render[t] = "active"
    BY <2>1 DEF LineInv, CarriedInv, Working
  <2>3. /\ \A u \in Task : task'[u].state = task[u].state
        /\ \A u \in Task \ {t} : task'[u].output = task[u].output
    BY <2>1 DEF TypeOK, TaskRow
  <2>4. /\ \A u \in Task : ~Gated(u)'
        /\ \A u \in Task : Rendering(u)' => u = t
    BY <1>2, <2>1, <2>3 DEF Gated, Rendering
  <2>5. \A v \in Worker : work'[v].pc = "idle"
    BY <1>2, <2>1 DEF TypeOK, IdleWork
  <2>6. OneCarrier'
    <3>1. ~Planned' /\ ~due' /\ fresh' = {}
      BY <1>2, <2>1 DEF Planned
    <3>2. \A u \in Task : Rendering(u)' => <<"render", t>> = <<"render", u>>
      BY <2>4
    <3> QED
      BY <1>3, <2>1, <2>4, <2>5, <3>1, <3>2, OnlyOne
  <2>7. InOrder(pos)' /\ Legal
    BY <2>3, OrderKept DEF LineInv, Legal
  <2>8. RenderInv'
    BY <1>2, <2>1, <2>2, <2>3, <2>4 DEF LineInv, CarriedInv, RenderInv
  <2> QED
    BY <1>2, <1>3, <2>1, <2>5, <2>6, <2>7, <2>8 DEF LineInv, CarriedInv, Working
<1>6. CASE TaskSucceeds(w)
  <2>1. /\ UNCHANGED <<state, render, fresh, eval>> /\ due'
        /\ work' = [work EXCEPT ![w] = IdleWork]
        /\ t \in Production => render[t] = "succeeded"
        /\ task' = [task EXCEPT ![t].state = "SUCCEEDED", ![t].output = @ \/ t \in Production]
    BY <1>6 DEF TaskSucceeds, mission
  <2>2. /\ task'[t].state = "SUCCEEDED"
        /\ task'[t].output => task[t].output \/ t \in Production
        /\ \A u \in Task \ {t} : task'[u] = task[u]
    BY <2>1 DEF TypeOK, TaskRow
  <2>3. \A u \in Task : /\ task'[u].output => task[u].output \/ (u \in Production /\ render[u] = "succeeded")
                        /\ render[u] = "active" => (task'[u].output => task[u].output)
    BY <2>1, <2>2
  <2> QED
    BY <1>1, <2>1, <2>2, <2>3, TaskEndsLine
<1>7. CASE TaskFails(w)
  <2>1. /\ UNCHANGED <<state, render, fresh, eval>> /\ due'
        /\ work' = [work EXCEPT ![w] = IdleWork]
        /\ task' = [task EXCEPT ![t] = Retried(@)]
    BY <1>7 DEF TaskFails, mission
  <2>2. /\ task'[t].state \in {"READY", "FAILED"} /\ task'[t].output = task[t].output
        /\ \A u \in Task \ {t} : task'[u] = task[u]
    BY <2>1 DEF TypeOK, TaskRow, Retried
  <2>3. \A u \in Task : /\ task'[u].output => task[u].output \/ (u \in Production /\ render[u] = "succeeded")
                        /\ render[u] = "active" => (task'[u].output => task[u].output)
    BY <2>2
  <2> QED
    BY <1>1, <2>1, <2>2, <2>3, TaskEndsLine
<1>8. CASE CrashWorker(w)
  <2>1. UNCHANGED <<state, task, render, fresh, due, eval>> /\ work' = [work EXCEPT ![w] = IdleWork]
    BY <1>8 DEF CrashWorker, mission, messages
  <2>2. \A v \in Worker : work'[v].pc = "idle"
    BY <1>2, <2>1 DEF TypeOK, IdleWork
  <2>3. \A u \in Task : ~Gated(u)' /\ ~Rendering(u)'
    BY <1>2, <2>1 DEF Gated, Rendering
  <2>4. OneCarrier'
    <3>1. ~Planned' /\ ~due' /\ fresh' = {}
      BY <1>2, <2>1 DEF Planned
    <3> QED
      BY <1>3, <2>1, <2>2, <2>3, <3>1, OnlyOne
  <2>5. RenderInv'
    BY <2>1, <2>3 DEF LineInv, CarriedInv, RenderInv
  <2> QED
    BY <1>2, <1>3, <2>1, <2>2, <2>4, <2>5, NoRowWritten DEF LineInv, CarriedInv, Working
<1> QED
  BY <1>4, <1>5, <1>6, <1>7, <1>8 DEF Execute

LEMMA RenderLine ==
    ASSUME IndInv, Undisturbed, NEW pos, LineInv(pos), NEW t \in Task, RenderEnds(t)
    PROVE  LineInv(pos)' /\ Legal
<1> USE DEF IndInv
<1>1. /\ UNCHANGED <<state, task, fresh, eval, work>> /\ due'
      /\ render[t] = "active" /\ task[t].output
      /\ \E end \in {"succeeded", "failed"} : render' = [render EXCEPT ![t] = end]
  BY DEF RenderEnds, mission, Undisturbed
<1>2. /\ render'[t] \in {"succeeded", "failed"}
      /\ \A u \in Task \ {t} : render'[u] = render[u]
  BY <1>1 DEF TypeOK
<1>3. <<"render", t>> \in Carriers
  BY <1>1 DEF Carriers, Rendering
<1>4. /\ ~Planned /\ ~due /\ fresh = {} /\ \A v \in Worker : work[v].pc = "idle"
      /\ \A d \in Evaluator : ~Holds(d)
      /\ \A u \in Task : ~Gated(u)
      /\ \A u \in Task \ {t} : ~Rendering(u)
  BY <1>3, Alone DEF LineInv
<1>5. \A d \in Evaluator : Remembered(d)' /\ ~Holds(d)'
  BY <1>1, <1>4, NoneRemembers DEF LineInv, CarriedInv
<1>6. \A u \in Task : ~Gated(u)' /\ ~Rendering(u)'
  BY <1>1, <1>2, <1>4 DEF Gated, Rendering
<1>7. OneCarrier'
  <2>1. ~Planned' /\ fresh' = {} /\ \A w \in Worker : work'[w].pc = "idle"
    BY <1>1, <1>4 DEF Planned
  <2> QED
    BY <1>5, <1>6, <2>1, OnlyOne
<1>8. RenderInv'
  BY <1>1, <1>2, <1>6 DEF LineInv, CarriedInv, RenderInv, Rendering
<1> QED
  BY <1>1, <1>4, <1>5, <1>7, <1>8, NoRowWritten DEF LineInv, CarriedInv, Working

LEMMA InitLine == ASSUME NEW pos, Init PROVE LineInv(pos)
<1>1. /\ \A t \in Task : task[t] = NoTask /\ render[t] = "none"
      /\ fresh = {} /\ ~due
      /\ \A e \in Evaluator : eval[e] = IdleEval
      /\ \A w \in Worker : work[w] = IdleWork
  BY DEF Init
<1>2. /\ \A t \in Task : task[t].state = "ABSENT" /\ ~task[t].output /\ render[t] = "none"
      /\ \A e \in Evaluator : eval[e].pc = "idle"
      /\ \A w \in Worker : work[w].pc = "idle"
  BY <1>1, Rows DEF NoTask, IdleWork
<1>3. \A c \in Carriers : c = <<"planned">>
  BY <1>1, <1>2 DEF Carriers, Holds, Gated, Rendering
<1> QED
  BY <1>1, <1>2, <1>3 DEF LineInv, OneCarrier, InOrder, Reached, CarriedInv, Working, Remembered, RenderInv, Rendering

\* On a plan in a line, and while nobody cancels or resumes and each message comes
\* once, the orchestrator and the workers make only the transitions of
\* VALID_TASK_TRANSITIONS, whatever evaluations overlap, die or find the Mission paused.
THEOREM TransitionsAreLegal ==
    ASSUME NEW CONSTANT pos, Line(pos), Undisturbed
    PROVE  Spec => TransitionsLegal
<1>1. Init => LineInv(pos)
  BY InitLine
<1>2. IndInv /\ LineInv(pos) /\ [Next]_vars => LineInv(pos)' /\ Legal
  <2> SUFFICES ASSUME IndInv, LineInv(pos), [Next]_vars PROVE LineInv(pos)' /\ Legal
    OBVIOUS
  <2>1. CASE Users
    BY <2>1, UsersLine
  <2>2. ASSUME NEW e \in Evaluator, Evaluate(e) \/ CrashEvaluation(e) PROVE LineInv(pos)' /\ Legal
    BY <2>2, EvaluateLine
  <2>3. ASSUME NEW w \in Worker, Execute(w) \/ CrashWorker(w) PROVE LineInv(pos)' /\ Legal
    BY <2>3, ExecuteLine
  <2>4. ASSUME NEW t \in Task, Deliver(t) PROVE LineInv(pos)' /\ Legal
    BY <2>4, StartLine DEF Deliver
  <2>5. ASSUME NEW t \in Task, RenderEnds(t) PROVE LineInv(pos)' /\ Legal
    BY <2>5, RenderLine
  <2>6. CASE UNCHANGED vars
    <3>1. UNCHANGED <<state, task, render, fresh, due, eval, work>>
      BY <2>6 DEF vars
    <3> QED
      BY <3>1 DEF LineInv, OneCarrier, Carriers, Holds, Gated, Rendering, Planned, InOrder, Reached, CarriedInv,
                  Working, Remembered, RenderInv, Legal
  <2> QED
    BY <2>1, <2>2, <2>3, <2>4, <2>5, <2>6 DEF Next
<1>3. IndInv /\ LineInv(pos) /\ [Next]_vars
        => [\A t \in Task : \/ task'[t].state = task[t].state
                            \/ <<task[t].state, task'[t].state>> \in LegalTransition]_task
  BY <1>2 DEF Legal
<1> QED
  BY <1>1, <1>2, <1>3, Inductive, PTL DEF Spec, TransitionsLegal
=============================================================================
