-------------------------- MODULE RecurringSchedule --------------------------
(***************************************************************************)
(* A recurring schedule and the occurrences it makes: the life cycle and   *)
(* versions of the schedule, the sweep that materializes what is due and   *)
(* dispatches what is pending, and the reconciliation of stale rows.  An   *)
(* occurrence makes a standalone Mission or admits one item of the         *)
(* campaign of module Campaign, under the locks of that module.            *)
(*                                                                         *)
(* A sweep locks the pending rows it selects, and its first commit gives   *)
(* the locks back.  It goes on to dispatch the other rows as it read them, *)
(* so another sweep may have dispatched them meanwhile.                    *)
(***************************************************************************)
EXTENDS Campaign

CONSTANTS
    MaxVersion,     \* bound: the versions an operator writes
    Definition,     \* Definition[v]: what version v says
    MaxTime,        \* bound: the end of the schedule, in its finest steps
    MaxBacklog,     \* the most occurrences a sweep collects, 50 in the code
    MaxAttempts,    \* scheduler_max_dispatch_attempts
    Sweep           \* bound: due sweeps at a time

Time == 1..MaxTime
Version == 1..MaxVersion
Policies == {"SKIP_MISSED", "RUN_LATEST_ONLY", "RUN_ALL_BOUNDED"}

\* every: interval, or 0 for a cron expression, which then matches the times at.
Definitions == [every : Nat, at : SUBSET Time, policy : Policies, most : Nat \ {0},
                target : {"STANDALONE_MISSION", "CAMPAIGN_ADMISSION"}]

ASSUME RecurringAssumption ==
    /\ {MaxVersion, MaxTime, MaxBacklog, MaxAttempts} \subseteq Nat \ {0}
    /\ \A v \in Version : Definition[v] \in Definitions

VARIABLES
    now,        \* clock_timestamp()
    schedule,   \* the RecurringSchedule row
    occurrence, \* occurrence[t]: the row of the schedule for time t
    bound,      \* bound[t]: what its binding row names
    made,       \* made[t]: standalone Missions made for it
    sweep       \* sweep[s]: phase 2 of an execute_due_sweep

recurringVars == <<now, schedule, occurrence, bound, made, sweep>>
vars == <<campaignVars, recurringVars>>

Nothing == 0
MissionBinding == -1

Terminal == {"DISPATCHED", "SKIPPED", "FAILED"}
ScheduleRow == [status : {"DRAFT", "ACTIVE", "PAUSED", "COMPLETED", "CANCELLED"},
                version : Version, next : 0..MaxTime]
OccurrenceRow == [status : Terminal \cup {"ABSENT", "PENDING", "WAITING", "DISPATCHING"},
                  version : Version, attempts : 0..MaxAttempts]
NoOccurrence == [status |-> "ABSENT", version |-> 1, attempts |-> 0]

\* copy: the attempt_count each selected row had.  fresh: nothing was committed
\* since, so the rows are still locked.
SweepState == [pc : {"idle", "next", "adapt", "bind", "failed"}, rows : SUBSET Time, at : 0..MaxTime,
               copy : [Time -> 0..MaxAttempts], fresh : BOOLEAN]
Resting == [pc |-> "idle", rows |-> {}, at |-> 0, copy |-> [t \in Time |-> 0], fresh |-> FALSE]

RecurringTypeOK == /\ now \in 0..MaxTime
                   /\ schedule \in ScheduleRow
                   /\ occurrence \in [Time -> OccurrenceRow]
                   /\ bound \in [Time -> {Nothing, MissionBinding} \cup Item]
                   /\ made \in [Time -> 0..2]
                   /\ sweep \in [Sweep -> SweepState]

RecurringInit == /\ now = 0
                 /\ schedule = [status |-> "DRAFT", version |-> 1, next |-> 0]
                 /\ occurrence = [t \in Time |-> NoOccurrence]
                 /\ bound = [t \in Time |-> Nothing]
                 /\ made = [t \in Time |-> 0]
                 /\ sweep = [s \in Sweep |-> Resting]

-----------------------------------------------------------------------------
(* calculate_next_occurrence, and the partition of what was missed. *)

Matches(v, ref) == IF Definition[v].every > 0 THEN {ref + Definition[v].every} \cap Time
                                              ELSE {t \in Definition[v].at : t > ref}

\* The next occurrence after ref, 0 when the schedule ends before it.
NextOccurrence(v, ref) == IF Matches(v, ref) = {} THEN 0 ELSE Min(Matches(v, ref))

\* Mutant: a time that is due this moment is left to the next sweep.
BeforeSeen(v, due, seen) ==
    {due} \cup {t \in Definition[v].at : t > due /\ t < seen}

\* The ticks from the one that is due to seen, at most MaxBacklog of them.
MissedTicks(v, due, seen) ==
    LET tick[n \in 1..MaxBacklog] ==
            IF n = 1 THEN due
            ELSE IF tick[n - 1] = 0 \/ NextOccurrence(v, tick[n - 1]) > seen THEN 0
            ELSE NextOccurrence(v, tick[n - 1])
    IN {tick[n] : n \in 1..MaxBacklog} \ {0}

\* The latest n members of a set of times.
Latest(n, ticks) == {t \in ticks : Cardinality({u \in ticks : u > t}) < n}

ToDispatch(v, ticks) == CASE Definition[v].policy = "SKIP_MISSED" -> {}
                          [] Definition[v].policy = "RUN_LATEST_ONLY" -> Latest(1, ticks)
                          [] OTHER -> Latest(Definition[v].most, ticks)

-----------------------------------------------------------------------------
(* The schedule. *)

Tick == /\ now < MaxTime
        /\ now' = now + 1
        /\ UNCHANGED <<campaignVars, schedule, occurrence, bound, made, sweep>>

\* activate_schedule and resume_schedule: paused time makes no occurrences.
\* Without a next occurrence the row would break chk_schedule_active_executable.
Activate ==
    /\ schedule.status \in {"DRAFT", "PAUSED"}
    /\ NextOccurrence(schedule.version, now) # 0
    /\ schedule' = [schedule EXCEPT !.status = "ACTIVE",
                                    !.next = NextOccurrence(schedule.version, now)]
    /\ UNCHANGED <<campaignVars, now, occurrence, bound, made, sweep>>

PauseSchedule ==
    /\ schedule.status = "ACTIVE"
    /\ schedule' = [schedule EXCEPT !.status = "PAUSED", !.next = 0]
    /\ UNCHANGED <<campaignVars, now, occurrence, bound, made, sweep>>

CancelSchedule ==
    /\ schedule.status # "CANCELLED"
    /\ schedule' = [schedule EXCEPT !.status = "CANCELLED", !.next = 0]
    /\ UNCHANGED <<campaignVars, now, occurrence, bound, made, sweep>>

\* edit_schedule: a new version, from which an active schedule goes on.
Edit ==
    LET v == schedule.version + 1 IN
    /\ v \in Version
    /\ schedule.status \in {"DRAFT", "ACTIVE", "PAUSED"}
    /\ IF schedule.status = "ACTIVE"
       THEN /\ NextOccurrence(v, now) # 0
            /\ schedule' = [schedule EXCEPT !.version = v, !.next = NextOccurrence(v, now)]
       ELSE schedule' = [schedule EXCEPT !.version = v]
    /\ UNCHANGED <<campaignVars, now, occurrence, bound, made, sweep>>

-----------------------------------------------------------------------------
(* Phase 1 of the sweep. *)

NextDue(v, ticks, seen) == NextOccurrence(v, IF seen > Max(ticks) THEN seen ELSE Max(ticks))

\* The ticks are collected up to a clock reading from before the due schedules
\* were selected.  The schedule row stays locked to the commit.
MaterializeDue ==
    /\ schedule.status = "ACTIVE" /\ schedule.next <= now
    /\ \E seen \in {now - 1, now} :
        LET v == schedule.version
            ticks == MissedTicks(v, schedule.next, seen)
            run == ToDispatch(v, ticks)
            next == NextDue(v, run \cup {schedule.next}, seen) IN
        /\ occurrence' = [t \in Time |->
                IF t \in ticks
                THEN [status |-> IF t \in run THEN "PENDING" ELSE "SKIPPED", version |-> v, attempts |-> 0]
                ELSE occurrence[t]]
        /\ schedule' = [schedule EXCEPT !.next = next, !.status = IF next = 0 THEN "COMPLETED" ELSE @]
    /\ UNCHANGED <<campaignVars, now, bound, made, sweep>>

-----------------------------------------------------------------------------
(* Phase 2 of the sweep. *)

SweepGoto(s, fields) == sweep' = [sweep EXCEPT ![s] = fields]
SetStatus(t, new) == occurrence' = [occurrence EXCEPT ![t].status = new]

LockedRows == UNION {sweep[s].rows : s \in {r \in Sweep : sweep[r].fresh}}
Selectable == {t \in Time : occurrence[t].status = "PENDING"} \ LockedRows

SelectPending(s) ==
    /\ sweep[s].pc = "idle" /\ Selectable # {}
    /\ SweepGoto(s, [pc |-> "next", rows |-> Selectable, at |-> 0, fresh |-> TRUE,
                     copy |-> [t \in Time |-> IF t \in Selectable THEN occurrence[t].attempts ELSE 0]])
    /\ UNCHANGED <<campaignVars, now, schedule, occurrence, bound, made>>

\* The row becomes DISPATCHING whatever it is by now, with the attempt counted
\* on from what was read.
Mark(s) ==
    /\ sweep[s].pc = "next"
    /\ LET t == Min(sweep[s].rows) IN
       /\ \A r \in Sweep \ {s} : ~(sweep[r].fresh /\ t \in sweep[r].rows)
       /\ occurrence' = [occurrence EXCEPT ![t].status = "DISPATCHING", ![t].attempts = sweep[s].copy[t] + 1]
       /\ SweepGoto(s, [sweep[s] EXCEPT !.pc = "adapt", !.at = t, !.rows = @ \ {t}, !.copy[t] = 0,
                                        !.fresh = FALSE])
    /\ UNCHANGED <<campaignVars, now, schedule, bound, made>>

NextRow(s) == IF sweep[s].rows = {} THEN Resting ELSE [sweep[s] EXCEPT !.pc = "next", !.at = 0]

TargetOf(s) == Definition[occurrence[sweep[s].at].version].target

\* Both adapters look for a binding first, and leave the row as it is when
\* there is one.
CheckBinding(s) ==
    /\ sweep[s].pc = "adapt"
    /\ SweepGoto(s, IF bound[sweep[s].at] # Nothing THEN NextRow(s) ELSE [sweep[s] EXCEPT !.pc = "bind"])
    /\ UNCHANGED <<campaignVars, now, schedule, occurrence, bound, made>>

\* Mutant: the occurrence_id of a binding is not unique.
Rebindable(t) == TRUE

Bindable(t) == bound[t] = Nothing

\* One transaction makes, plans, starts and binds the Mission and marks the row.
MakeMission(s) ==
    LET t == sweep[s].at IN
    /\ sweep[s].pc = "bind" /\ TargetOf(s) = "STANDALONE_MISSION"
    /\ Bindable(t)
    /\ made' = [made EXCEPT ![t] = @ + 1]
    /\ bound' = [bound EXCEPT ![t] = MissionBinding]
    /\ SetStatus(t, "DISPATCHED")
    /\ SweepGoto(s, NextRow(s))
    /\ UNCHANGED <<campaignVars, now, schedule>>

\* admit_schedule_occurrence under the campaign's locks: reserve, materialize,
\* start and bind in one transaction.
AdmitItem(s) ==
    LET t == sweep[s].at IN
    /\ sweep[s].pc = "bind" /\ TargetOf(s) = "CAMPAIGN_ADMISSION"
    /\ lock = Unlocked
    /\ status = "RUNNING" /\ ~Full /\ Reservable # {}
    /\ Bindable(t)
    /\ LET i == Min(Reservable) IN
       /\ item' = Enter({i}, "MATERIALIZED")
       /\ mission' = [mission EXCEPT ![i] = "RUNNING"]
       /\ bound' = [bound EXCEPT ![t] = i]
    /\ SetStatus(t, "DISPATCHED")
    /\ SweepGoto(s, NextRow(s))
    /\ UNCHANGED <<status, caller, lock, now, schedule, made>>

\* The admission finds the campaign full, not running or out of items.
AdmitNothing(s) ==
    LET t == sweep[s].at IN
    /\ sweep[s].pc = "bind" /\ TargetOf(s) = "CAMPAIGN_ADMISSION"
    /\ lock = Unlocked
    /\ \/ status = "RUNNING" /\ Full /\ SetStatus(t, "WAITING")
       \/ (status = "RUNNING" => ~Full /\ Reservable = {}) /\ SetStatus(t, "SKIPPED")
    /\ SweepGoto(s, NextRow(s))
    /\ UNCHANGED <<campaignVars, now, schedule, bound, made>>

\* The transaction of the adapter is rolled back, by a second binding or
\* anything else that raises.
AdapterRaises(s) ==
    /\ sweep[s].pc = "bind"
    /\ SweepGoto(s, [sweep[s] EXCEPT !.pc = "failed"])
    /\ UNCHANGED <<campaignVars, now, schedule, occurrence, bound, made>>

\* Mutant: a failed dispatch is always tried again.
AlwaysAgain(t) == "PENDING"

AfterFailure(t) == IF occurrence[t].attempts >= MaxAttempts THEN "FAILED" ELSE "PENDING"

\* The handler does not ask what the row has become.  After the rollback every
\* row is read again, which the sweep may not survive.
HandleException(s) ==
    /\ sweep[s].pc = "failed"
    /\ SetStatus(sweep[s].at, AfterFailure(sweep[s].at))
    /\ SweepGoto(s, NextRow(s))
    /\ UNCHANGED <<campaignVars, now, schedule, bound, made>>

SweepDies(s) ==
    /\ sweep[s].pc # "idle"
    /\ SweepGoto(s, Resting)
    /\ UNCHANGED <<campaignVars, now, schedule, occurrence, bound, made>>

-----------------------------------------------------------------------------
(* reconcile_stale_occurrences. *)

ExpireWait(t) ==
    /\ occurrence[t].status = "WAITING"
    /\ SetStatus(t, "SKIPPED")
    /\ UNCHANGED <<campaignVars, now, schedule, bound, made, sweep>>

Converged(t) == IF bound[t] # Nothing THEN "DISPATCHED" ELSE AfterFailure(t)

\* A row is stale after a minute: a sweep that dispatches it may be slow.
RecoverStale(t) ==
    /\ occurrence[t].status = "DISPATCHING"
    /\ SetStatus(t, Converged(t))
    /\ UNCHANGED <<campaignVars, now, schedule, bound, made, sweep>>

-----------------------------------------------------------------------------
Dispatch(s) == \/ SelectPending(s) \/ Mark(s) \/ CheckBinding(s) \/ MakeMission(s) \/ AdmitItem(s)
               \/ AdmitNothing(s) \/ AdapterRaises(s) \/ HandleException(s)

Init == CampaignInit /\ RecurringInit

Next == \/ CampaignNext /\ UNCHANGED recurringVars
        \/ Tick \/ Activate \/ PauseSchedule \/ CancelSchedule \/ Edit \/ MaterializeDue
        \/ \E s \in Sweep : Dispatch(s) \/ SweepDies(s)
        \/ \E t \in Time : ExpireWait(t) \/ RecoverStale(t)

Spec == Init /\ [][Next]_vars

TypeOK == CampaignTypeOK /\ RecurringTypeOK

-----------------------------------------------------------------------------
\* An occurrence takes effect at most once, and it is called DISPATCHED only
\* after it did: when two sweeps hold its row, one dies, one is slow and is
\* recovered beside it, or its commit comes after its status was set back.
OccurrenceOnce ==
    \A t \in Time : /\ made[t] <= 1
                    /\ occurrence[t].status = "DISPATCHED" => bound[t] # Nothing
                    /\ bound[t] # Nothing => occurrence[t].status # "ABSENT"

\* When a cron schedule moves on, each of its times up to the next has a row,
\* dispatched or skipped: a late sweep, whose clock reading is older than the
\* rows it selects, passes none over as long as MaxBacklog or fewer were missed.
MovesOn == /\ schedule.status = "ACTIVE" /\ schedule'.status \in {"ACTIVE", "COMPLETED"}
           /\ schedule'.version = schedule.version
           /\ Definition[schedule.version].every = 0

Passed == {t \in Definition[schedule.version].at :
               schedule.next <= t /\ (t < schedule'.next \/ schedule'.next = 0)}

TicksRecorded ==
    [][MovesOn /\ Cardinality(Passed) <= MaxBacklog
       => \A t \in Passed : occurrence'[t].status # "ABSENT"]_vars
=============================================================================
