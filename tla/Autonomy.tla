------------------------------ MODULE Autonomy ------------------------------
(***************************************************************************)
(* The autonomous loop of a mission: application/autonomy.                 *)
(*                                                                         *)
(* One loop has one pointer row (its operational state and the iteration   *)
(* it is in), one budget ledger, and per iteration one action plan.  The   *)
(* tick of worker/tasks.py opens an iteration, plans and dispatches in one *)
(* session; the dispatch commits three times (PREPARED with the budget     *)
(* reservation, DISPATCH_INTENT_COMMITTED, the outcome) with the call of   *)
(* the subsystem between the second and the third commit, so the user's    *)
(* pause, resume and cancel, another tick, and the death of the worker     *)
(* fall in between.  Callers of the services other than the tick plan and  *)
(* dispatch in separate transactions, with a proposal of their own.        *)
(*                                                                         *)
(* An iteration, its plan, its attempt and its reservation have the same   *)
(* index: the plan's unique keys and the correlation key allow one of      *)
(* each.  Amounts are quarters of a dollar.  The cooldown and the hourly   *)
(* limit only make an allocation later; the model lets it be at any time.  *)
(***************************************************************************)
EXTENDS Integers

CONSTANTS
    MaxIterations,  \* bound: iterations allocated
    LastDay,        \* bound: midnights that pass
    LifetimeCap, DailyCap,
    Kinds,          \* the plans that can be made
    Cost(_),        \* estimated_cost_usd of a plan of the kind
    NeedsApproval(_),
    Answers(_)      \* how the call of the kind's subsystem may end

Iterations == 1 .. MaxIterations
Days == 0 .. LastDay
None == "NONE"
Outcomes == {"RESULT_CONFIRMED", "DETERMINISTIC_FAILURE", "RECONCILIATION_REQUIRED"}
Reconciled == {"RECONCILED_CONFIRMED", "RECONCILED_ABSENT"}

ASSUME BoundsAssumption ==
    /\ MaxIterations \in Nat /\ LastDay \in Nat
    /\ LifetimeCap \in Nat /\ DailyCap \in Nat
ASSUME KindsAssumption ==
    /\ None \notin Kinds
    /\ \A k \in Kinds : /\ Cost(k) \in Nat
                        /\ NeedsApproval(k) \in BOOLEAN
                        /\ Answers(k) \subseteq Outcomes

VARIABLES
    state,      \* pointer.operational_state
    current,    \* pointer.current_iteration_sequence; 0 before the first
    phase,      \* iteration -> "none", "open" (completed_at is null) or "closed"
    plan,       \* iteration -> the kind of its action plan
    outcomes,   \* iteration -> the statuses in its attempt's journal
    worker,     \* iteration -> what its dispatching worker does next
    calls,      \* iteration -> how often the subsystem was called
    funds,      \* iteration -> its reservation: status and budget day
    ledger,     \* lifetime_spend_usd, daily_spend_usd, current_day_utc
    today,      \* the date of the database clock
    events      \* event_dedupe_keys of the state changes: <<sequence, name>>

vars == <<state, current, phase, plan, outcomes, worker, calls, funds, ledger, today, events>>
pointer == <<state, current, phase, events>>
budget == <<funds, ledger>>
attempts == <<outcomes, worker, calls>>

----------------------------------------------------------------------------
(* The state machine of domain/autonomy.py *)

States == {"IDLE", "OBSERVING", "PLANNING", "WAITING_APPROVAL", "EXECUTING", "VERIFYING",
           "WAITING_SIGNAL", "PAUSED", "BLOCKED", "COMPLETED", "FAILED", "CANCELLED"}
Terminal == {"COMPLETED", "CANCELLED"}
Closing == Terminal \cup {"IDLE", "FAILED", "PAUSED", "BLOCKED"}

LegalFrom(s) ==
    CASE s = "IDLE"             -> {"OBSERVING", "PAUSED", "CANCELLED"}
      [] s = "OBSERVING"        -> {"PLANNING", "PAUSED", "BLOCKED", "FAILED", "CANCELLED"}
      [] s = "PLANNING"         -> {"WAITING_APPROVAL", "EXECUTING", "WAITING_SIGNAL", "COMPLETED",
                                    "PAUSED", "BLOCKED", "FAILED", "CANCELLED"}
      [] s = "WAITING_APPROVAL" -> {"EXECUTING", "PLANNING", "PAUSED", "BLOCKED", "CANCELLED"}
      [] s = "EXECUTING"        -> {"VERIFYING", "WAITING_SIGNAL", "FAILED", "BLOCKED", "PAUSED",
                                    "CANCELLED"}
      [] s = "VERIFYING"        -> {"WAITING_SIGNAL", "OBSERVING", "IDLE", "EXECUTING", "FAILED",
                                    "PAUSED", "BLOCKED", "CANCELLED"}
      [] s = "WAITING_SIGNAL"   -> {"OBSERVING", "IDLE", "PAUSED", "BLOCKED", "FAILED", "CANCELLED"}
      [] s \in {"PAUSED", "BLOCKED", "FAILED"} -> {"IDLE", "CANCELLED"}
      [] s \in Terminal         -> {}

\* Every change of state writes an event whose key is unique: the name with the
\* iteration's sequence.  A second one of the same name rolls the change back.
Logged(seq, names) ==
    /\ \A n \in names : <<seq, n>> \notin events
    /\ events' = events \cup {<<seq, n>> : n \in names}

Close == IF current = 0 THEN phase ELSE [phase EXCEPT ![current] = "closed"]

----------------------------------------------------------------------------
(* loop_service.py, as the routes of api/autonomy.py and the tests call it *)

\* update_operational_state, without the iteration the caller expects.
UpdateOperationalState(new) ==
    /\ new \in LegalFrom(state)
    /\ state' = new
    /\ phase' = IF new \in Closing THEN Close ELSE phase
    /\ Logged(current, {new})
    /\ UNCHANGED <<current, plan, attempts, budget, today>>

Pause  == UpdateOperationalState("PAUSED")
Resume == UpdateOperationalState("IDLE")
Cancel == UpdateOperationalState("CANCELLED")

CompleteIteration ==
    /\ current # 0
    /\ "IDLE" \in LegalFrom(state)
    /\ state' = "IDLE"
    /\ phase' = Close
    /\ Logged(current, {"ITERATION_COMPLETED"})
    /\ UNCHANGED <<current, plan, attempts, budget, today>>

ResetFailure ==
    /\ state = "FAILED"
    /\ state' = "IDLE"
    /\ Logged(current, {"FAILURE_RESET"})
    /\ UNCHANGED <<current, phase, plan, attempts, budget, today>>

\* Mutant: an IDLE loop is taken for one without an open iteration.
WheneverIdle == state = "IDLE" /\ current < MaxIterations

\* allocate_iteration and create_plan: every state but IDLE is refused, and so
\* is an IDLE loop whose last iteration was never completed.
MayAllocate ==
    /\ state = "IDLE"
    /\ current # 0 => phase[current] = "closed"
    /\ current < MaxIterations

\* The next iteration with its plan, and the loop in new after events of names.
Allocated(k, new, names) ==
    /\ MayAllocate
    /\ current' = current + 1
    /\ phase' = [phase EXCEPT ![current + 1] = "open"]
    /\ plan' = [plan EXCEPT ![current + 1] = k]
    /\ state' = new
    /\ Logged(current + 1, names)

----------------------------------------------------------------------------
(* budget_service.py *)

Liable == {"RESERVED", "RECONCILIATION_REQUIRED"}
Free == [status |-> None, day |-> 0]

Unresolved == {i \in Iterations : funds[i].status \in Liable}
UnresolvedToday == {i \in Unresolved : funds[i].day = today}

\* The sums of the first n amounts of c.
Sums(c) == LET sum[n \in 0 .. MaxIterations] == IF n = 0 THEN 0 ELSE sum[n - 1] + c[n] IN sum
CostOf(S) == Sums([i \in Iterations |-> IF i \in S THEN Cost(plan[i]) ELSE 0])[MaxIterations]

\* The ledger after the rollover that only a reservation performs.
RolledOver == IF today > ledger.day THEN [ledger EXCEPT !.daily = 0, !.day = today] ELSE ledger

\* Mutant: what an earlier day left unresolved is forgotten.
FitsToday(c) ==
    /\ ledger.lifetime + CostOf(UnresolvedToday) + c <= LifetimeCap
    /\ RolledOver.daily + CostOf(UnresolvedToday) + c <= DailyCap

\* reserve_budget for a plan of amount c: under both caps.
Fits(c) ==
    /\ ledger.lifetime + CostOf(Unresolved) + c <= LifetimeCap
    /\ RolledOver.daily + CostOf(UnresolvedToday) + c <= DailyCap

\* A plan that costs nothing reserves nothing.
Reserve(i, k) ==
    IF Cost(k) = 0
    THEN UNCHANGED budget
    ELSE /\ Fits(Cost(k))
         /\ funds' = [funds EXCEPT ![i] = [status |-> "RESERVED", day |-> today]]
         /\ ledger' = RolledOver

\* capture_reservation, which adds to the day's spend whatever day the
\* reservation was made on.
Capture(i) ==
    /\ funds' = [funds EXCEPT ![i].status = "CAPTURED"]
    /\ ledger' = [ledger EXCEPT !.lifetime = @ + Cost(plan[i]), !.daily = @ + Cost(plan[i])]

Settle(i, status) ==
    /\ funds' = [funds EXCEPT ![i].status = status]
    /\ UNCHANGED ledger

----------------------------------------------------------------------------
(* dispatch_service.py *)

Dispatchable == {"PLANNING", "EXECUTING", "WAITING_APPROVAL"}

\* Mutant: the PREPARED outcome of a second dispatch is stored too.
PreparedAgain(i, k) ==
    /\ Reserve(i, k)
    /\ outcomes' = [outcomes EXCEPT ![i] = @ \cup {"PREPARED"}]
    /\ worker' = [worker EXCEPT ![i] = "intent"]
    /\ UNCHANGED calls

\* Transaction A for iteration i with a plan of kind k: the reservation, the
\* attempt and its PREPARED outcome, whose key allows one per attempt.
Prepared(i, k) ==
    /\ outcomes[i] = {}
    /\ Reserve(i, k)
    /\ outcomes' = [outcomes EXCEPT ![i] = {"PREPARED"}]
    /\ worker' = [worker EXCEPT ![i] = "intent"]
    /\ UNCHANGED calls

\* prepare_and_dispatch called for a plan that is already committed.  An approval
\* is looked up by the plan's id among requests, which have ids of their own, so
\* a plan that needs one is never found approved.
Dispatch(i) ==
    /\ plan[i] # None
    /\ state \in Dispatchable
    /\ UNCHANGED <<current, phase, plan, today, events>>
    /\ \/ /\ ~NeedsApproval(plan[i])
          /\ Prepared(i, plan[i])
          /\ state' = "EXECUTING"
       \/ /\ NeedsApproval(plan[i])
          /\ state' = "WAITING_APPROVAL"
          /\ UNCHANGED <<attempts, budget>>
       \/ \* the guardian's context is no longer the observed one
          /\ state' = "PLANNING"
          /\ UNCHANGED <<attempts, budget>>

\* Transaction A2.
CommitIntent(i) ==
    /\ worker[i] = "intent"
    /\ outcomes' = [outcomes EXCEPT ![i] = @ \cup {"DISPATCH_INTENT_COMMITTED"}]
    /\ worker' = [worker EXCEPT ![i] = "call"]
    /\ UNCHANGED <<pointer, plan, calls, budget, today>>

CallSubsystem(i) ==
    /\ worker[i] = "call"
    /\ calls' = [calls EXCEPT ![i] = @ + 1]
    /\ \E o \in Answers(plan[i]) : worker' = [worker EXCEPT ![i] = o]
    /\ UNCHANGED <<pointer, plan, outcomes, budget, today>>

\* Mutant: the loop takes the outcome's name for its state.
NamedAfter(o) == o

StateAfter(o) ==
    CASE o = "RESULT_CONFIRMED"        -> "VERIFYING"
      [] o = "RECONCILIATION_REQUIRED" -> "BLOCKED"
      [] o = "DETERMINISTIC_FAILURE"   -> "FAILED"

\* What the outcome does to the reservation, if there is one.
Resolve(i, o) ==
    IF Cost(plan[i]) = 0 THEN UNCHANGED budget
    ELSE CASE o = "RESULT_CONFIRMED"        -> Capture(i)
           [] o = "RECONCILIATION_REQUIRED" -> Settle(i, o)
           [] o = "DETERMINISTIC_FAILURE"   -> Settle(i, "RELEASED")

\* Transaction B: whatever became of the loop since transaction A.
RecordOutcome(i) ==
    /\ worker[i] \in Outcomes
    /\ outcomes' = [outcomes EXCEPT ![i] = @ \cup {worker[i]}]
    /\ Resolve(i, worker[i])
    /\ state' = StateAfter(worker[i])
    /\ worker' = [worker EXCEPT ![i] = None]
    /\ UNCHANGED <<current, phase, events, plan, calls, today>>

\* The worker's process ends between two of its transactions; nobody takes over.
Die(i) ==
    /\ worker[i] # None
    /\ worker' = [worker EXCEPT ![i] = None]
    /\ UNCHANGED <<pointer, plan, outcomes, calls, budget, today>>

----------------------------------------------------------------------------
(* The sweeps of worker/tasks.py *)

\* autonomy_tick_sweep_task: one session up to the first commit of the dispatch.
Tick(k) ==
    /\ UNCHANGED today
    /\ \/ /\ ~NeedsApproval(k)
          /\ Allocated(k, "EXECUTING", {"PLANNING"})
          /\ Prepared(current + 1, k)
       \/ /\ NeedsApproval(k)
          /\ Allocated(k, "WAITING_APPROVAL", {"PLANNING", "WAITING_APPROVAL"})
          /\ UNCHANGED <<attempts, budget>>

\* The services called one by one, or a tick whose dispatch found the guardian's
\* context changed: the iteration and its plan are committed without an attempt.
PlanOnly(k) ==
    /\ Allocated(k, "PLANNING", {"PLANNING"})
    /\ UNCHANGED <<attempts, budget, today>>

\* autonomy_reconciliation_sweep_task and reconcile_attempt: the subsystems hold
\* a row with the attempt's correlation key, or not.
Reconcile(i) ==
    /\ "RECONCILIATION_REQUIRED" \in outcomes[i]
    /\ \E r \in Reconciled :
         /\ outcomes' = [outcomes EXCEPT ![i] = @ \cup {r}]
         /\ IF funds[i].status \notin Liable THEN UNCHANGED budget
            ELSE IF r = "RECONCILED_CONFIRMED" THEN Capture(i) ELSE Settle(i, "RELEASED")
    /\ UNCHANGED <<pointer, plan, worker, calls, today>>

Midnight ==
    /\ today < LastDay
    /\ today' = today + 1
    /\ UNCHANGED <<pointer, plan, attempts, budget>>

----------------------------------------------------------------------------
\* create_loop.
Init ==
    /\ state = "IDLE" /\ current = 0 /\ today = 0 /\ events = {}
    /\ phase = [i \in Iterations |-> "none"]
    /\ plan = [i \in Iterations |-> None]
    /\ outcomes = [i \in Iterations |-> {}]
    /\ worker = [i \in Iterations |-> None]
    /\ calls = [i \in Iterations |-> 0]
    /\ funds = [i \in Iterations |-> Free]
    /\ ledger = [lifetime |-> 0, daily |-> 0, day |-> 0]

Next ==
    \/ Pause \/ Resume \/ Cancel \/ CompleteIteration \/ ResetFailure \/ Midnight
    \/ \E k \in Kinds : Tick(k) \/ PlanOnly(k)
    \/ \E i \in Iterations : \/ Dispatch(i) \/ CommitIntent(i) \/ CallSubsystem(i)
                             \/ RecordOutcome(i) \/ Die(i) \/ Reconcile(i)

Spec == Init /\ [][Next]_vars

----------------------------------------------------------------------------
(* Properties *)

TypeOK ==
    /\ state \in States
    /\ current \in 0 .. MaxIterations
    /\ phase \in [Iterations -> {"none", "open", "closed"}]
    /\ plan \in [Iterations -> Kinds \cup {None}]
    /\ outcomes \in [Iterations -> SUBSET ({"PREPARED", "DISPATCH_INTENT_COMMITTED"}
                                            \cup Outcomes \cup Reconciled)]
    /\ worker \in [Iterations -> {None, "intent", "call"} \cup Outcomes]
    /\ calls \in [Iterations -> Nat]
    /\ funds \in [Iterations -> [status : Liable \cup {None, "CAPTURED", "RELEASED"}, day : Days]]
    /\ ledger \in [lifetime : Nat, daily : Nat, day : Days]
    /\ today \in Days

\* The spend and everything that may still be spent never pass the lifetime cap,
\* with several dispatches in flight, workers that died holding a reservation, and
\* reservations of an earlier day.
LiabilityWithinCap == ledger.lifetime + CostOf(Unresolved) <= LifetimeCap

\* An iteration that is not completed is the loop's current one: neither a reset
\* of a failed loop nor the outcome of a dispatch that the loop has moved past
\* lets a second iteration begin beside it.
OneOpenIteration == \A i \in Iterations : phase[i] = "open" => i = current

\* A plan's action is handed to its subsystem at most once, whatever dies and
\* whoever dispatches the plan again.
CalledOnce == \A i \in Iterations : calls[i] <= 1

=============================================================================
