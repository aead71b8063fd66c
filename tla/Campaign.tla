------------------------------- MODULE Campaign -------------------------------
(***************************************************************************)
(* A lazily admitted content campaign: its items, the Missions made of     *)
(* them, and the reconciler that admits, materializes, starts and          *)
(* finalizes beside the calls of the API.                                  *)
(*                                                                         *)
(* Every path first takes the advisory lock of the channel and then the    *)
(* Campaign row.  The reconciler takes them once: its first commit gives   *)
(* them back, and it goes on with the rows it has read, which a later      *)
(* SELECT FOR UPDATE does not refresh.  So after that its checks of the    *)
(* Campaign and of its items always pass, whatever the rows have become.   *)
(***************************************************************************)
EXTENDS Integers, FiniteSets, FiniteSetsExt

CONSTANTS
    MaxItems,       \* items of the campaign, by position
    MaxConcurrent,  \* the lower of the campaign's and the channel's limit
    MaxTries,       \* campaign_materialization_max_attempts
    Caller          \* bound: reconcilers and cancel calls at a time

ASSUME CampaignAssumption == {MaxItems, MaxConcurrent, MaxTries} \subseteq Nat \ {0}

VARIABLES
    status,     \* ContentCampaign.status
    item,       \* item[i]: ContentCampaignItem i
    mission,    \* mission[i]: state of the Mission bound to item i
    caller,     \* caller[c]: a reconcile_campaign or cancel_campaign call
    lock        \* the caller that holds the channel and Campaign locks

campaignVars == <<status, item, mission, caller, lock>>

Item == 1..MaxItems
Unlocked == "none"

Finished == {"SUCCEEDED", "PARTIAL", "FAILED", "CANCELLED"}
Statuses == Finished \cup {"READY", "RUNNING", "PAUSED", "CANCELLING"}
ItemRow == [state : {"PENDING", "ADMITTED", "MATERIALIZED", "FAILED", "CANCELLED"}, tries : 0..MaxTries]
MissionActive == {"READY", "RUNNING"}
MissionEnded == {"SUCCEEDED", "FAILED", "CANCELLED"}

\* todo: items to materialize, or whose Missions to cancel.  last: the one
\* reservation of the round was tried.
CallerState == [pc : {"idle", "grow", "start", "reserving", "cancel"}, todo : SUBSET Item,
                at : 0..MaxItems, last : BOOLEAN]
Idle == [pc |-> "idle", todo |-> {}, at |-> 0, last |-> FALSE]

CampaignTypeOK == /\ status \in Statuses
                  /\ item \in [Item -> ItemRow]
                  /\ mission \in [Item -> {"NONE"} \cup MissionActive \cup MissionEnded]
                  /\ caller \in [Caller -> CallerState]
                  /\ lock \in Caller \cup {Unlocked}

CampaignInit == /\ status = "READY"
                /\ item = [i \in Item |-> [state |-> "PENDING", tries |-> 0]]
                /\ mission = [i \in Item |-> "NONE"]
                /\ caller = [c \in Caller |-> Idle]
                /\ lock = Unlocked

InState(states) == {i \in Item : item[i].state \in states}
Unbound == {i \in Item : mission[i] = "NONE"}
Enter(items, state) == [i \in Item |-> IF i \in items THEN [item[i] EXCEPT !.state = state] ELSE item[i]]

\* reserve_one counts the admitted items and the active Missions.
Full == Cardinality({i \in Item : item[i].state = "ADMITTED" \/ mission[i] \in MissionActive})
            >= MaxConcurrent

\* Items whose row an open transaction has locked are skipped.
Reserved == {caller[c].at : c \in {d \in Caller : caller[d].pc = "reserving"}}
Reservable == InState({"PENDING"}) \ Reserved

Goto(c, fields) == caller' = [caller EXCEPT ![c] = fields]
Return(c) == Goto(c, Idle)
Free(c) == lock \in {c, Unlocked}
Commit(c) == lock' = IF lock = c THEN Unlocked ELSE lock

-----------------------------------------------------------------------------
(* Calls of the API. *)

StartCampaign ==
    /\ lock = Unlocked /\ status = "READY"
    /\ status' = "RUNNING"
    /\ UNCHANGED <<item, mission, caller, lock>>

\* Items that were admitted and not yet materialized go back.
PauseCampaign ==
    /\ lock = Unlocked /\ status = "RUNNING"
    /\ status' = "PAUSED"
    /\ item' = Enter(InState({"ADMITTED"}) \cap Unbound, "PENDING")
    /\ UNCHANGED <<mission, caller, lock>>

ResumeCampaign ==
    /\ lock = Unlocked /\ status = "PAUSED"
    /\ status' = "RUNNING"
    /\ UNCHANGED <<item, mission, caller, lock>>

\* The reconciler delegates a CANCELLING campaign to the same call.  An item
\* row that a reservation has locked is waited for, or one of the two aborts.
CancelCampaign(c) ==
    /\ caller[c].pc = "idle" /\ lock = Unlocked
    /\ status \in {"READY", "RUNNING", "PAUSED", "CANCELLING"}
    /\ Reserved \cap InState({"PENDING"}) = {}
    /\ status' = "CANCELLING"
    /\ item' = Enter(InState({"PENDING", "ADMITTED"}) \cap Unbound, "CANCELLED")
    /\ Goto(c, [Idle EXCEPT !.pc = "cancel", !.todo = Item \ Unbound])
    /\ UNCHANGED <<mission, lock>>

CancelMission(c) ==
    /\ caller[c].pc = "cancel"
    /\ \E i \in caller[c].todo :
        /\ Goto(c, [caller[c] EXCEPT !.todo = @ \ {i}])
        /\ mission' = [mission EXCEPT ![i] = IF @ \in MissionActive THEN "CANCELLED" ELSE @]
    /\ UNCHANGED <<status, item, lock>>

-----------------------------------------------------------------------------
(* finalize_campaign. *)

\* Mutant: items that wait to be materialized are forgotten.
NoneWaiting == /\ InState({"PENDING"}) = {}
               /\ \A i \in Item : mission[i] \notin MissionActive

Resolved == /\ InState({"PENDING", "ADMITTED"}) = {}
            /\ \A i \in Item : mission[i] \notin MissionActive

Succeeded == {i \in Item : mission[i] = "SUCCEEDED"}
Unsuccessful == {i \in Item : item[i].state = "FAILED" \/ mission[i] \in {"FAILED", "CANCELLED"}}

Outcome == CASE Succeeded = Item -> "SUCCEEDED"
             [] Succeeded = {} /\ Unsuccessful # {} -> "FAILED"
             [] OTHER -> "PARTIAL"

\* The call that cancels knows the campaign as CANCELLING.
FinishCancel(c) ==
    /\ caller[c].pc = "cancel" /\ caller[c].todo = {} /\ lock = Unlocked
    /\ status' = IF Resolved THEN "CANCELLED" ELSE status
    /\ Return(c)
    /\ UNCHANGED <<item, mission, lock>>

\* A reconciler knows it as RUNNING, since it began.
Finalize(c) ==
    /\ caller[c].pc = "grow" /\ caller[c].todo = {} /\ caller[c].last
    /\ Free(c)
    /\ status' = IF Resolved THEN Outcome ELSE status
    /\ Return(c)
    /\ Commit(c)
    /\ UNCHANGED <<item, mission>>

-----------------------------------------------------------------------------
(* reconcile_campaign. *)

\* Under the locks: a resolved campaign is finalized; a running one grows.  An
\* item that failed before may not be due yet.
Reconcile(c) ==
    /\ caller[c].pc = "idle" /\ lock = Unlocked
    /\ status \in {"RUNNING", "PAUSED"}
    /\ IF Resolved
       THEN status' = Outcome /\ UNCHANGED <<caller, lock>>
       ELSE /\ status = "RUNNING"
            /\ \E due \in SUBSET InState({"ADMITTED"}) :
                /\ \A i \in InState({"ADMITTED"}) : item[i].tries = 0 => i \in due
                /\ Goto(c, [Idle EXCEPT !.pc = "grow", !.todo = due])
            /\ lock' = c
            /\ UNCHANGED status
    /\ UNCHANGED <<item, mission>>

\* The Mission is created and planned with its binding, unless there is one.
Bind(i) == /\ item' = Enter({i}, "MATERIALIZED")
           /\ mission' = [mission EXCEPT ![i] = IF @ = "NONE" THEN "READY" ELSE @]

Materialize(c) ==
    /\ caller[c].pc = "grow" /\ caller[c].todo # {} /\ Free(c)
    /\ LET i == Min(caller[c].todo) IN
       /\ Bind(i)
       /\ Goto(c, [caller[c] EXCEPT !.pc = "start", !.at = i, !.todo = @ \ {i}])
    /\ Commit(c)
    /\ UNCHANGED status

\* persist_materialization_failure: a concurrent binding wins, a transient
\* failure leaves the item to a later round.
FailureOf(i, transient) ==
    IF mission[i] # "NONE" THEN [item[i] EXCEPT !.state = "MATERIALIZED"]
    ELSE [state |-> IF transient /\ item[i].tries + 1 < MaxTries THEN item[i].state ELSE "FAILED",
          tries |-> item[i].tries + 1]

\* After the rollback every row is read again, which the reconciler does not
\* survive: it may end before the failure is recorded, and it ends after.
MaterializeFails(c) ==
    /\ caller[c].pc = "grow" /\ caller[c].todo # {} /\ Free(c)
    /\ LET i == Min(caller[c].todo) IN
       \/ /\ item[i].tries < MaxTries
          /\ \E transient \in BOOLEAN : item' = [item EXCEPT ![i] = FailureOf(i, transient)]
       \/ UNCHANGED item
    /\ Return(c)
    /\ Commit(c)
    /\ UNCHANGED <<status, mission>>

\* start_mission refuses a Mission that has ended, which ends the round.
StartMission(c) ==
    /\ caller[c].pc = "start"
    /\ LET i == caller[c].at IN
       IF mission[i] \in MissionActive
       THEN /\ mission' = [mission EXCEPT ![i] = "RUNNING"]
            /\ Goto(c, [caller[c] EXCEPT !.pc = "grow", !.at = 0])
       ELSE /\ Return(c)
            /\ UNCHANGED mission
    /\ UNCHANGED <<status, item, lock>>

Grown(c) == caller[c].pc = "grow" /\ caller[c].todo = {} /\ ~caller[c].last

\* Missions whose start was lost by a reconciler that died.
StartReady(c) ==
    /\ Grown(c)
    /\ \E i \in Item :
        /\ mission[i] = "READY"
        /\ mission' = [mission EXCEPT ![i] = "RUNNING"]
    /\ Commit(c)
    /\ UNCHANGED <<status, item, caller>>

\* The reservation writes the Campaign row, so its commit waits for that lock.
Reserve(c) ==
    /\ Grown(c)
    /\ \A i \in Item : mission[i] # "READY"
    /\ IF Full \/ Reservable = {}
       THEN Goto(c, [caller[c] EXCEPT !.last = TRUE])
       ELSE Goto(c, [caller[c] EXCEPT !.pc = "reserving", !.at = Min(Reservable)])
    /\ UNCHANGED <<status, item, mission, lock>>

CommitReserve(c) ==
    /\ caller[c].pc = "reserving" /\ Free(c)
    /\ item' = Enter({caller[c].at}, "ADMITTED")
    /\ Goto(c, [Idle EXCEPT !.pc = "grow", !.todo = {caller[c].at}, !.last = TRUE])
    /\ Commit(c)
    /\ UNCHANGED <<status, mission>>

\* The process dies, the database aborts it or a call of it raises.
CallerDies(c) ==
    /\ caller[c].pc # "idle"
    /\ Return(c)
    /\ Commit(c)
    /\ UNCHANGED <<status, item, mission>>

-----------------------------------------------------------------------------
\* The orchestrator and the users of the Mission.
MissionEnds(i) ==
    /\ \/ mission[i] = "RUNNING" /\ \E end \in MissionEnded : mission' = [mission EXCEPT ![i] = end]
       \/ mission[i] = "READY" /\ mission' = [mission EXCEPT ![i] = "CANCELLED"]
    /\ UNCHANGED <<status, item, caller, lock>>

Grow(c) == \/ Materialize(c) \/ MaterializeFails(c) \/ StartMission(c) \/ StartReady(c)
           \/ Reserve(c) \/ CommitReserve(c) \/ Finalize(c)

CampaignNext ==
    \/ StartCampaign \/ PauseCampaign \/ ResumeCampaign
    \/ \E c \in Caller : \/ CancelCampaign(c) \/ CancelMission(c) \/ FinishCancel(c)
                         \/ Reconcile(c) \/ Grow(c) \/ CallerDies(c)
    \/ \E i \in Item : MissionEnds(i)

-----------------------------------------------------------------------------
\* A campaign that a reconciler has finalized is over: no item waits for its turn
\* or its Mission, and no Mission goes on, whatever pauses, occurrences of a
\* schedule and dying rounds came between the checks and the result.  (With one
\* reconciler or cancel call at a time; two can break it.)
FinalizedIsOver ==
    status \in Finished \ {"CANCELLED"} =>
        \A i \in Item : /\ item[i].state \notin {"PENDING", "ADMITTED"}
                        /\ mission[i] \notin {"READY", "RUNNING"}
                        /\ status = "SUCCEEDED" => mission[i] = "SUCCEEDED"
=============================================================================
