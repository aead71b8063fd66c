--------------------------- MODULE ScheduleDispatch ---------------------------
(***************************************************************************)
(* The scheduler of one channel: evaluations that reserve slots, the       *)
(* calendar that an operator keeps for publications, the sweeps that       *)
(* dispatch, expire and recover reservations, and the outbox relay that    *)
(* sends what was dispatched to the workers.                               *)
(*                                                                         *)
(* Times are left out: any reservation may be due, expired or stale.  A    *)
(* sweep handles a batch in one transaction and keeps its rows locked, so  *)
(* the model takes one row at a time.                                      *)
(***************************************************************************)
EXTENDS Integers, FiniteSets, FiniteSetsExt, Sequences

CONSTANTS
    Target,         \* tasks of one Mission
    Publication,    \* those that publish, each with a PublishIntent
    Slot,           \* windows of a day that do not overlap, in order
    Limit,          \* the lower of the global and the channel limit
    Gap,            \* slots that must lie between two of the channel, 0: no rule
    DailyCap,       \* max_scheduled_items_per_day
    MaxSends,       \* SchedulerDispatchOutbox.max_attempts
    Evaluator,      \* bound: evaluations at a time
    Relay,          \* bound: relays at a time
    MaxReservations, MaxEpoch, MaxQueue, MaxFaults   \* bounds

ASSUME ScheduleAssumption ==
    /\ Publication \subseteq Target /\ Target # {} /\ Slot \subseteq Nat
    /\ {Gap, MaxFaults} \subseteq Nat
    /\ {Limit, DailyCap, MaxSends, MaxReservations, MaxEpoch, MaxQueue} \subseteq Nat \ {0}

VARIABLES
    mission,        \* state and guardian_epoch of the Mission
    reservation,    \* ScheduleReservation rows, in the order of creation
    outbox,         \* outbox[r]: the SchedulerDispatchOutbox row of reservation r
    task,           \* task[t]: state and dispatched_epoch
    intent,         \* intent[p]: PublishIntent state, and whether an attempt exists
    queue,          \* queue[t]: messages of t at the broker
    faults,         \* messages lost and relays dead so far
    evaluator,      \* evaluator[v]: an evaluation between its reads and its insert
    relay           \* relay[q]: the row a relay has claimed

vars == <<mission, reservation, outbox, task, intent, queue, faults, evaluator, relay>>

Category(t) == IF t \in Publication THEN "EXTERNAL_PUBLISH" ELSE "TASK_EXECUTION"
Categories == {Category(t) : t \in Target}
Rows == DOMAIN reservation
Epoch == 1..MaxEpoch

\* kind: target_type.  named: its decision names the task.  allocated: made by
\* the allocator, not by the calendar.  current: the policy it pins is the active
\* one of its category.  CLOSED: RELEASED, EXPIRED or CANCELLED, which nothing
\* tells apart; HELD: RELEASED by a manual hold.
Reservation == [target : Target, kind : {"TASK", "INTENT"}, slot : Slot, epoch : Epoch,
                current : BOOLEAN, named : BOOLEAN, allocated : BOOLEAN,
                state : {"ACTIVE", "DISPATCHING", "CONSUMED", "CLOSED", "HELD"}]

Waiting == {"PENDING", "RETRY"}
OutboxRow == [status : Waiting \cup {"NONE", "SENT", "DEAD_LETTER"}, sends : 0..MaxSends]
NoRow == [status |-> "NONE", sends |-> 0]

\* read, sends: what the relay's copy of the row says.
RelayState == [pc : {"idle", "send", "sent", "failed"}, row : 0..MaxReservations,
               read : Waiting, sends : 0..MaxSends]
IdleRelay == [pc |-> "idle", row |-> 0, read |-> "PENDING", sends |-> 0]

EvaluatorState == [pc : {"idle", "insert"}, target : Target, kind : {"TASK", "INTENT"},
                   slot : {0} \cup Slot, epoch : Epoch, current : BOOLEAN]
IdleEvaluator == [pc |-> "idle", target |-> CHOOSE t \in Target : TRUE, kind |-> "TASK",
                  slot |-> 0, epoch |-> 1, current |-> TRUE]

InState(states) == {r \in Rows : reservation[r].state \in states}

TypeOK == /\ mission \in [state : {"RUNNING", "PAUSED"}, epoch : Epoch]
          /\ reservation \in Seq(Reservation) /\ Len(reservation) <= MaxReservations
          /\ outbox \in [1..MaxReservations -> OutboxRow]
          /\ \A r \in InState({"DISPATCHING", "CONSUMED"}) : outbox[r].status # "NONE"
          /\ task \in [Target -> [state : {"READY", "QUEUED", "RUNNING", "SUCCEEDED"},
                                  epoch : 0..MaxEpoch]]
          /\ intent \in [Publication -> [state : {"APPROVED", "CLAIMED", "PUBLISHED"}, tried : BOOLEAN]]
          /\ queue \in [Target -> 0..MaxQueue]
          /\ faults \in 0..MaxFaults
          /\ evaluator \in [Evaluator -> EvaluatorState]
          /\ relay \in [Relay -> RelayState]

Init == /\ mission = [state |-> "RUNNING", epoch |-> 1]
        /\ reservation = <<>>
        /\ outbox = [r \in 1..MaxReservations |-> NoRow]
        /\ task = [t \in Target |-> [state |-> "READY", epoch |-> 0]]
        /\ intent = [p \in Publication |-> [state |-> "APPROVED", tried |-> FALSE]]
        /\ queue = [t \in Target |-> 0]
        /\ faults = 0
        /\ evaluator = [v \in Evaluator |-> IdleEvaluator]
        /\ relay = [q \in Relay |-> IdleRelay]

\* What a closed reservation pinned plays no part any more.
Without(r) == [reservation EXCEPT ![r] =
    [target |-> @.target, kind |-> "TASK", slot |-> Min(Slot), epoch |-> 1, current |-> FALSE,
     named |-> FALSE, allocated |-> FALSE, state |-> "CLOSED"]]
Close(r) == reservation' = Without(r)
Move(r, state) == reservation' = [reservation EXCEPT ![r].state = state]

-----------------------------------------------------------------------------
(* evaluate_schedule and the slot allocator. *)

Live == {"ACTIVE", "DISPATCHING"}
Counted == Live \cup {"CONSUMED"}
Near(a, b) == Gap > 0 /\ (IF a > b THEN a - b ELSE b - a) <= Gap

\* Overlaps are counted within the category, the gap and the daily cap over all.
Fits(t, s) ==
    /\ Cardinality({r \in InState(Live) : /\ Category(reservation[r].target) = Category(t)
                                          /\ reservation[r].slot = s}) < Limit
    /\ ~\E r \in InState(Counted) : Near(reservation[r].slot, s)
    /\ Cardinality(InState(Counted)) < DailyCap

\* Mutant: the slots are counted before the advisory lock is taken.
NoLock(t) == TRUE

\* The advisory lock of the category is kept from the counts to the commit.
LockFree(t) == \A v \in Evaluator :
    evaluator[v].pc = "insert" => Category(evaluator[v].target) # Category(t)

EvaluatorGoto(v, fields) == evaluator' = [evaluator EXCEPT ![v] = fields]

\* The Mission and the policy are read without a lock.  A decision of the same
\* request with a live reservation is returned; the requests of the orchestrator
\* and of a retry handoff differ from one to the next in their earliest start.
Evaluate(v) ==
    /\ evaluator[v].pc = "idle" /\ mission.state = "RUNNING"
    /\ \E t \in Target, kind \in {"TASK", "INTENT"}, s \in Slot :
        /\ kind = "INTENT" => t \in Publication
        /\ LockFree(t) /\ Fits(t, s)
        /\ EvaluatorGoto(v, [pc |-> "insert", target |-> t, kind |-> kind, slot |-> s,
                             epoch |-> mission.epoch, current |-> TRUE])
    /\ UNCHANGED <<mission, reservation, outbox, task, intent, queue, faults, relay>>

Insert(v) ==
    /\ evaluator[v].pc = "insert" /\ Len(reservation) < MaxReservations
    /\ LET e == evaluator[v] IN
       reservation' = Append(reservation,
           [target |-> e.target, kind |-> e.kind, slot |-> e.slot, epoch |-> e.epoch, current |-> e.current,
            named |-> TRUE, allocated |-> TRUE, state |-> "ACTIVE"])
    /\ EvaluatorGoto(v, IdleEvaluator)
    /\ UNCHANGED <<mission, outbox, task, intent, queue, faults, relay>>

\* activate_policy: what pins the policy before it is stale.
ActivatePolicy(c) ==
    /\ reservation' = [r \in Rows |-> [reservation[r] EXCEPT
            !.current = @ /\ Category(reservation[r].target) # c]]
    /\ evaluator' = [v \in Evaluator |-> IF evaluator[v].pc = "idle" THEN evaluator[v]
            ELSE [evaluator[v] EXCEPT !.current = @ /\ Category(evaluator[v].target) # c]]
    /\ UNCHANGED <<mission, outbox, task, intent, queue, faults, relay>>

-----------------------------------------------------------------------------
(* PublishCalendarService, which asks nothing of the allocator. *)

ActiveEntries(p) == {r \in InState({"ACTIVE"}) : reservation[r].target = p /\ reservation[r].kind = "INTENT"}
OnlyCalendar == UNCHANGED <<mission, outbox, task, intent, queue, faults, evaluator, relay>>

\* The epoch of a calendar entry is 1, whatever the Mission's is.
ScheduleIntent(p) ==
    /\ intent[p].state = "APPROVED" /\ ActiveEntries(p) = {}
    /\ Len(reservation) < MaxReservations
    /\ \E s \in Slot :
        reservation' = Append(reservation,
            [target |-> p, kind |-> "INTENT", slot |-> s, epoch |-> 1, current |-> TRUE,
             named |-> TRUE, allocated |-> FALSE, state |-> "ACTIVE"])
    /\ OnlyCalendar

\* A new entry takes the pins of the old one, and its decision names no task.
Again(rows, old) ==
    /\ Len(reservation) < MaxReservations
    /\ \E s \in Slot :
        reservation' = Append(rows, [reservation[old] EXCEPT !.slot = s, !.named = FALSE,
                                                   !.allocated = FALSE, !.state = "ACTIVE"])

RescheduleIntent(p) ==
    /\ Cardinality(ActiveEntries(p)) = 1
    /\ LET old == Max(ActiveEntries(p)) IN Again(Without(old), old)
    /\ OnlyCalendar

CancelSchedule(p) ==
    /\ Cardinality(ActiveEntries(p)) = 1
    /\ Close(Max(ActiveEntries(p)))
    /\ OnlyCalendar

SetManualHold(p) ==
    /\ Cardinality(ActiveEntries(p)) = 1
    /\ Move(Max(ActiveEntries(p)), "HELD")
    /\ OnlyCalendar

\* The latest entry that was ever held, which stays one that was held.  (Two
\* such calls at a time, neither of which sees the entry of the other, are left
\* out.)
ReleaseManualHold(p) ==
    LET held == {r \in InState({"HELD"}) : reservation[r].target = p} IN
    /\ ActiveEntries(p) = {} /\ held # {}
    /\ Again(reservation, Max(held))
    /\ OnlyCalendar

\* The release endpoint, which leaves the outbox row of a dispatch as it is.
ReleaseReservation(r) ==
    /\ r \in InState(Live)
    /\ Close(r)
    /\ OnlyCalendar

-----------------------------------------------------------------------------
(* run_dispatch_sweep with the dispatch fence, run_expiration_sweep. *)

Knows(r) == reservation[r].kind = "TASK" \/ reservation[r].named

\* The Mission runs under the pinned epoch and the task it knows of is READY.
TaskPins(r) == /\ mission.state = "RUNNING" /\ reservation[r].epoch = mission.epoch
               /\ Knows(r) => task[reservation[r].target].state = "READY"

Newer(r) == {n \in InState({"ACTIVE"}) : /\ n > r /\ reservation[n].target = reservation[r].target
                                         /\ reservation[n].kind = reservation[r].kind}

Fence(r) == LET t == reservation[r].target IN
    CASE ~TaskPins(r) -> "released"
      [] TaskPins(r) /\ t \in Publication /\ intent[t].state = "CLAIMED" -> "left"
      [] TaskPins(r) /\ t \in Publication /\ intent[t].state = "PUBLISHED" -> "released"
      [] OTHER -> IF ~reservation[r].current THEN "released"
                  ELSE IF Newer(r) = {} THEN "proceed"
                  ELSE IF Cardinality(Newer(r)) = 1 THEN "released"
                  ELSE "raises"

\* A fence that raises ends the batch with nothing changed.
RejectDue(r) ==
    /\ r \in InState({"ACTIVE"})
    /\ Fence(r) = "released"
    /\ Close(r)
    /\ OnlyCalendar

\* Mutant: the row of the relay is left to a later transaction.
NothingToSend(r) == outbox

WithRow(r) == [outbox EXCEPT ![r].status = "PENDING"]

DispatchDue(r) ==
    /\ r \in InState({"ACTIVE"})
    /\ Fence(r) = "proceed"
    /\ Move(r, "DISPATCHING")
    /\ task' = [task EXCEPT ![reservation[r].target] = [state |-> "QUEUED", epoch |-> reservation[r].epoch]]
    /\ outbox' = WithRow(r)
    /\ UNCHANGED <<mission, intent, queue, faults, evaluator, relay>>

\* Also what the fence does with an expired one.
Expire(r) ==
    /\ r \in InState({"ACTIVE"})
    /\ Close(r)
    /\ OnlyCalendar

-----------------------------------------------------------------------------
(* run_stale_dispatching_recovery_sweep. *)

Evidence(t) == t \in Publication /\ (intent[t].state # "APPROVED" \/ intent[t].tried)

Started(r) == Knows(r) /\ task[reservation[r].target].state \in {"RUNNING", "SUCCEEDED"}

Consume(r) ==
    /\ r \in InState({"DISPATCHING"}) /\ Started(r)
    /\ Move(r, "CONSUMED")
    /\ OnlyCalendar

ReleaseDead(r) ==
    /\ r \in InState({"DISPATCHING"}) /\ ~Started(r)
    /\ outbox[r].status = "DEAD_LETTER"
    /\ Close(r)
    /\ OnlyCalendar

Undelivered(r) == /\ ~Started(r) /\ Knows(r)
                  /\ outbox[r].status = "SENT"
                  /\ task[reservation[r].target].state = "QUEUED"
                  /\ ~Evidence(reservation[r].target)

SendAgain(r) ==
    /\ r \in InState({"DISPATCHING"}) /\ Undelivered(r)
    /\ outbox' = [outbox EXCEPT ![r].status = "PENDING"]
    /\ UNCHANGED <<mission, reservation, task, intent, queue, faults, evaluator, relay>>

-----------------------------------------------------------------------------
(* The outbox relay. *)

RelayGoto(q, fields) == relay' = [relay EXCEPT ![q] = fields]
OneMore(n) == Min({n + 1, MaxSends})

\* The claim changes no status: the row can be claimed again as soon as the
\* transaction has ended.
ClaimRow(q, r) ==
    /\ relay[q].pc = "idle" /\ outbox[r].status \in Waiting
    /\ outbox' = [outbox EXCEPT ![r].sends = OneMore(@)]
    /\ RelayGoto(q, [pc |-> "send", row |-> r, read |-> outbox[r].status, sends |-> OneMore(outbox[r].sends)])
    /\ UNCHANGED <<mission, reservation, task, intent, queue, faults, evaluator>>

\* The broker takes the message, loses it, or refuses it.
SendTask(q) ==
    LET t == reservation[relay[q].row].target IN
    /\ relay[q].pc = "send"
    /\ \/ /\ queue[t] < MaxQueue
          /\ queue' = [queue EXCEPT ![t] = @ + 1]
          /\ RelayGoto(q, [relay[q] EXCEPT !.pc = "sent"])
          /\ UNCHANGED faults
       \/ /\ faults < MaxFaults /\ faults' = faults + 1
          /\ \E pc \in {"sent", "failed"} : RelayGoto(q, [relay[q] EXCEPT !.pc = pc])
          /\ UNCHANGED queue
    /\ UNCHANGED <<mission, reservation, outbox, task, intent, evaluator>>

\* The row is written as the relay's copy says: RETRY over RETRY is no change.
Acknowledge(q) ==
    LET r == relay[q].row IN
    /\ relay[q].pc \in {"sent", "failed"}
    /\ outbox' = [outbox EXCEPT ![r].status =
            IF relay[q].pc = "sent" THEN "SENT"
            ELSE IF relay[q].sends >= MaxSends THEN "DEAD_LETTER"
            ELSE IF relay[q].read = "RETRY" THEN @ ELSE "RETRY"]
    /\ RelayGoto(q, IdleRelay)
    /\ UNCHANGED <<mission, reservation, task, intent, queue, faults, evaluator>>

RelayDies(q) ==
    /\ relay[q].pc # "idle" /\ faults < MaxFaults
    /\ faults' = faults + 1
    /\ RelayGoto(q, IdleRelay)
    /\ UNCHANGED <<mission, reservation, outbox, task, intent, queue, evaluator>>

\* redrive_sent_item: an operator sends a publication once more.
Redrive(r) ==
    LET t == reservation[r].target IN
    /\ r \in InState({"DISPATCHING"}) /\ t \in Publication
    /\ outbox[r].status = "SENT" /\ task[t].state = "QUEUED"
    /\ ~Evidence(t) /\ queue[t] < MaxQueue
    /\ outbox' = [outbox EXCEPT ![r].sends = OneMore(@)]
    /\ queue' = [queue EXCEPT ![t] = @ + 1]
    /\ UNCHANGED <<mission, reservation, task, intent, faults, evaluator, relay>>

-----------------------------------------------------------------------------
(* What the workers, the Guardian and the publisher do. *)

\* execute_task: a message that finds the task out of order is dropped.
RunTask(t) ==
    /\ t \notin Publication /\ queue[t] > 0
    /\ queue' = [queue EXCEPT ![t] = @ - 1]
    /\ task' = [task EXCEPT ![t].state =
            IF @ = "QUEUED" /\ mission.state = "RUNNING" /\ task[t].epoch = mission.epoch THEN "RUNNING" ELSE @]
    /\ UNCHANGED <<mission, reservation, outbox, intent, faults, evaluator, relay>>

\* A task that fails is READY again when it is retried.
EndTask(t) ==
    /\ task[t].state = "RUNNING"
    /\ \E end \in {"SUCCEEDED", "READY"} : task' = [task EXCEPT ![t].state = end]
    /\ UNCHANGED <<mission, reservation, outbox, intent, queue, faults, evaluator, relay>>

\* execute_publish leaves the task as it is.
RunPublish(p) ==
    /\ queue[p] > 0
    /\ queue' = [queue EXCEPT ![p] = @ - 1]
    /\ intent' = [intent EXCEPT ![p] = IF @.state = "APPROVED" THEN [state |-> "CLAIMED", tried |-> TRUE] ELSE @]
    /\ UNCHANGED <<mission, reservation, outbox, task, faults, evaluator, relay>>

EndPublish(p) ==
    /\ intent[p].state = "CLAIMED"
    /\ \E end \in {"PUBLISHED", "APPROVED"} : intent' = [intent EXCEPT ![p].state = end]
    /\ UNCHANGED <<mission, reservation, outbox, task, queue, faults, evaluator, relay>>

\* A Mission that ends is one that is not resumed.
MissionMoves ==
    /\ \/ /\ mission.state = "RUNNING" /\ mission.epoch < MaxEpoch
          /\ mission' = [state |-> "PAUSED", epoch |-> mission.epoch + 1]
       \/ mission.state = "PAUSED" /\ mission' = [mission EXCEPT !.state = "RUNNING"]
    /\ UNCHANGED <<reservation, outbox, task, intent, queue, faults, evaluator, relay>>

-----------------------------------------------------------------------------
Calendar(p) == \/ ScheduleIntent(p) \/ RescheduleIntent(p) \/ CancelSchedule(p)
               \/ SetManualHold(p) \/ ReleaseManualHold(p)

Recover(r) == Consume(r) \/ ReleaseDead(r) \/ SendAgain(r)

Next == \/ \E v \in Evaluator : Evaluate(v) \/ Insert(v)
        \/ MissionMoves
        \/ \E c \in Categories : ActivatePolicy(c)
        \/ \E p \in Publication : Calendar(p) \/ RunPublish(p) \/ EndPublish(p)
        \/ \E t \in Target : RunTask(t) \/ EndTask(t)
        \/ \E r \in Rows : \/ ReleaseReservation(r) \/ RejectDue(r) \/ DispatchDue(r) \/ Expire(r)
                           \/ Recover(r) \/ Redrive(r)
                           \/ \E q \in Relay : ClaimRow(q, r)
        \/ \E q \in Relay : SendTask(q) \/ Acknowledge(q) \/ RelayDies(q)

Spec == Init /\ [][Next]_vars

-----------------------------------------------------------------------------
\* Evaluations that run at the same time, while sweeps and operators move what
\* they count, never give out more of a slot or of the day than the policy
\* allows.  This is of what the allocator made for one category: its locks are
\* of a category, and the calendar asks for none.
SlotsWithinLimits ==
    \A r \in InState(Live) :
        LET same == {s \in InState(Live) : /\ reservation[s].allocated
                                           /\ Category(reservation[s].target) = Category(reservation[r].target)}
        IN /\ Cardinality({s \in same : reservation[s].slot = reservation[r].slot}) <= Limit
           /\ Cardinality(same) <= DailyCap
           /\ r \in same => \A s \in same \ {r} : ~Near(reservation[s].slot, reservation[r].slot)
=============================================================================
