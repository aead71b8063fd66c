----------------------- MODULE RecurringSchedule_proofs -----------------------
(***************************************************************************)
(* The safety of RecurringSchedule and of the campaign that it extends, for *)
(* every number of items, callers, sweeps, versions and times.              *)
(***************************************************************************)
EXTENDS RecurringSchedule, WellFoundedInduction, FiniteSetTheorems, TLAPS

-----------------------------------------------------------------------------
(* The first and the last of a set of times or items. *)

LEMMA MinOf ==
    ASSUME NEW S \in SUBSET Nat, S # {}
    PROVE  Min(S) \in S /\ \A n \in S : Min(S) <= n
<1> DEFINE R == OpToRel(<, Nat)
<1>1. IsWellFoundedOn(R, Nat)
  BY NatLessThanWellFounded
<1>2. \A m, n \in Nat : n < m => <<n, m>> \in R
  BY DEF OpToRel
<1> HIDE DEF R
<1>3. PICK m \in S : \A n \in S : ~(<<n, m>> \in R)
  BY <1>1, WFMin
<1>4. \A n \in S : m <= n
  <2> SUFFICES ASSUME NEW n \in S PROVE m <= n
    OBVIOUS
  <2>1. m \in Nat /\ n \in Nat /\ ~(n < m)
    BY <1>2, <1>3
  <2> QED
    BY <2>1
<1> QED
  BY <1>4 DEF Min

LEMMA MaxOf ==
    ASSUME NEW top \in Nat, NEW S \in SUBSET (0..top), S # {}
    PROVE  Max(S) \in S /\ \A n \in S : n <= Max(S)
<1> DEFINE T == {top - n : n \in S}
<1>1. T \in SUBSET Nat /\ T # {}
  <2>1. \A n \in S : n \in Nat /\ n <= top /\ top - n \in Nat
    OBVIOUS
  <2> QED
    BY <2>1
<1>2. Min(T) \in T /\ \A n \in T : Min(T) <= n
  BY <1>1, MinOf
<1>3. PICK m \in S : Min(T) = top - m
  BY <1>2
<1>4. ASSUME NEW n \in S PROVE n <= m
  <2>1. top - m <= top - n
    BY <1>2, <1>3
  <2>2. m \in Nat /\ n \in Nat
    OBVIOUS
  <2> QED
    BY <2>1, <2>2
<1>5. \A n \in S : m >= n
  <2> SUFFICES ASSUME NEW n \in S PROVE m >= n
    OBVIOUS
  <2>1. n <= m /\ n \in Nat /\ m \in Nat
    BY <1>4
  <2> QED
    BY <2>1
<1>6. Max(S) \in S /\ \A n \in S : Max(S) >= n
  BY <1>5 DEF Max
<1> QED
  <2> SUFFICES ASSUME NEW n \in S PROVE n <= Max(S)
    BY <1>6
  <2>1. \A x \in S : x \in Nat
    OBVIOUS
  <2>2. Max(S) \in Nat /\ n \in Nat /\ Max(S) >= n
    BY <1>6, <2>1
  <2> QED
    BY <2>2

-----------------------------------------------------------------------------
(* The campaign. *)

\* A caller that starts a Mission or reserves an item is at that item.
Placed(r) == r.pc \in {"start", "reserving"} => r.at \in Item

CampaignInv == CampaignTypeOK /\ \A c \in Caller : Placed(caller[c])

\* With one caller, a result is final: the round that wrote it has returned.
Ended == Finished \ {"CANCELLED"}
EndInv == status \in Ended => /\ \A c \in Caller : caller[c].pc = "idle"
                              /\ \A i \in Item : /\ item[i].state \notin {"PENDING", "ADMITTED"}
                                                 /\ mission[i] \notin MissionActive
                                                 /\ status = "SUCCEEDED" => mission[i] = "SUCCEEDED"
OneCaller == \A c, d \in Caller : c = d

LEMMA CallerRows ==
    ASSUME NEW r \in CallerState, NEW S \in SUBSET Item, NEW i \in Item
    PROVE  /\ [r EXCEPT !.todo = S] \in CallerState
           /\ [r EXCEPT !.todo = S].pc = r.pc
           /\ [r EXCEPT !.todo = S].at = r.at
           /\ [r EXCEPT !.pc = "start", !.at = i, !.todo = S] \in CallerState
           /\ Placed([r EXCEPT !.pc = "start", !.at = i, !.todo = S])
           /\ [r EXCEPT !.pc = "grow", !.at = 0] \in CallerState
           /\ Placed([r EXCEPT !.pc = "grow", !.at = 0])
           /\ [r EXCEPT !.last = TRUE] \in CallerState
           /\ [r EXCEPT !.last = TRUE].pc = r.pc
           /\ [r EXCEPT !.pc = "reserving", !.at = i] \in CallerState
           /\ Placed([r EXCEPT !.pc = "reserving", !.at = i])
<1>1. 0 \in 0..MaxItems /\ i \in 0..MaxItems
  BY CampaignAssumption DEF Item
<1> QED
  BY <1>1 DEF CallerState, Placed

LEMMA NewCalls ==
    ASSUME NEW S \in SUBSET Item
    PROVE  /\ Idle \in CallerState /\ Placed(Idle) /\ Idle.pc = "idle"
           /\ [Idle EXCEPT !.pc = "cancel", !.todo = S] \in CallerState
           /\ Placed([Idle EXCEPT !.pc = "cancel", !.todo = S])
           /\ [Idle EXCEPT !.pc = "grow", !.todo = S] \in CallerState
           /\ Placed([Idle EXCEPT !.pc = "grow", !.todo = S])
           /\ [Idle EXCEPT !.pc = "grow", !.todo = S, !.last = TRUE] \in CallerState
           /\ Placed([Idle EXCEPT !.pc = "grow", !.todo = S, !.last = TRUE])
<1>1. 0 \in 0..MaxItems
  BY CampaignAssumption
<1>2. Idle \in CallerState /\ Idle.pc = "idle"
  BY <1>1 DEF Idle, CallerState
<1> HIDE DEF Idle
<1>3. \A r \in CallerState :
           /\ [r EXCEPT !.pc = "cancel", !.todo = S] \in CallerState
           /\ Placed([r EXCEPT !.pc = "cancel", !.todo = S])
           /\ [r EXCEPT !.pc = "grow", !.todo = S] \in CallerState
           /\ Placed([r EXCEPT !.pc = "grow", !.todo = S])
           /\ [r EXCEPT !.pc = "grow", !.todo = S, !.last = TRUE] \in CallerState
           /\ Placed([r EXCEPT !.pc = "grow", !.todo = S, !.last = TRUE])
  BY DEF CallerState, Placed
<1> QED
  BY <1>2, <1>3 DEF Placed

LEMMA CallerMoves ==
    ASSUME CampaignInv, NEW c \in Caller, NEW r \in CallerState, Goto(c, r), Placed(r)
    PROVE  /\ caller' \in [Caller -> CallerState] /\ \A d \in Caller : Placed(caller'[d])
           /\ caller'[c] = r
<1>1. caller \in [Caller -> CallerState] /\ caller' = [caller EXCEPT ![c] = r]
  BY DEF CampaignInv, CampaignTypeOK, Goto
<1> QED
  BY <1>1 DEF CampaignInv

LEMMA Entered ==
    ASSUME CampaignTypeOK, NEW S \in SUBSET Item,
           NEW s \in {"PENDING", "ADMITTED", "MATERIALIZED", "FAILED", "CANCELLED"}
    PROVE  Enter(S, s) \in [Item -> ItemRow]
<1>1. \A i \in Item : item[i] \in ItemRow /\ [item[i] EXCEPT !.state = s] \in ItemRow
  BY DEF CampaignTypeOK, ItemRow
<1> QED
  BY <1>1 DEF Enter

LEMMA Committed == CampaignTypeOK /\ (\E c \in Caller : Commit(c)) => lock' \in Caller \cup {Unlocked}
BY DEF CampaignTypeOK, Commit

LEMMA FirstToDo ==
    ASSUME CampaignInv, NEW c \in Caller, caller[c].todo # {}
    PROVE  Min(caller[c].todo) \in Item /\ caller[c].todo \in SUBSET Item
<1>1. caller[c].todo \in SUBSET Item /\ Item \subseteq Nat
  BY DEF CampaignInv, CampaignTypeOK, CallerState, Item
<1> QED
  BY <1>1, MinOf

LEMMA FirstReservable ==
    ASSUME CampaignInv, Reservable # {}
    PROVE  Min(Reservable) \in Item
<1>1. Reservable \in SUBSET Nat /\ Reservable \subseteq Item
  BY DEF Reservable, InState, Item
<1> QED
  BY <1>1, MinOf

-----------------------------------------------------------------------------
(* The calls of the API and the end of a campaign. *)

LEMMA ApiStep ==
    ASSUME CampaignInv, StartCampaign \/ PauseCampaign \/ ResumeCampaign
    PROVE  CampaignInv' /\ (EndInv => EndInv')
<1>1. status' \in {"RUNNING", "PAUSED"} /\ UNCHANGED <<mission, caller, lock>>
  BY DEF StartCampaign, PauseCampaign, ResumeCampaign
<1>2. item' \in [Item -> ItemRow]
  <2>1. InState({"ADMITTED"}) \cap Unbound \in SUBSET Item
    BY DEF InState
  <2> QED
    BY <2>1, Entered DEF StartCampaign, PauseCampaign, ResumeCampaign, CampaignInv, CampaignTypeOK
<1>3. status' \in Statuses /\ status' \notin Ended
  BY <1>1 DEF Statuses, Finished, Ended
<1> QED
  BY <1>1, <1>2, <1>3 DEF CampaignInv, CampaignTypeOK, EndInv

LEMMA CancelCampaignStep ==
    ASSUME CampaignInv, NEW c \in Caller, CancelCampaign(c)
    PROVE  CampaignInv' /\ EndInv'
<1> DEFINE S == Item \ Unbound
<1>1. /\ status' = "CANCELLING" /\ UNCHANGED <<mission, lock>>
      /\ Goto(c, [Idle EXCEPT !.pc = "cancel", !.todo = S])
      /\ item' = Enter(InState({"PENDING", "ADMITTED"}) \cap Unbound, "CANCELLED")
  BY DEF CancelCampaign
<1>2. item' \in [Item -> ItemRow]
  <2>1. InState({"PENDING", "ADMITTED"}) \cap Unbound \in SUBSET Item
    BY DEF InState
  <2> QED
    BY <1>1, <2>1, Entered DEF CampaignInv
<1>3. caller' \in [Caller -> CallerState] /\ \A d \in Caller : Placed(caller'[d])
  BY <1>1, NewCalls, CallerMoves
<1>4. status' \in Statuses /\ status' \notin Ended
  BY <1>1 DEF Statuses, Finished, Ended
<1> QED
  BY <1>1, <1>2, <1>3, <1>4 DEF CampaignInv, CampaignTypeOK, EndInv

LEMMA CancelMissionStep ==
    ASSUME CampaignInv, NEW c \in Caller, CancelMission(c)
    PROVE  CampaignInv' /\ (EndInv => EndInv')
<1>1. caller[c] \in CallerState /\ caller[c].pc = "cancel"
  BY DEF CampaignInv, CampaignTypeOK, CancelMission
<1>2. PICK i \in caller[c].todo :
        /\ Goto(c, [caller[c] EXCEPT !.todo = @ \ {i}])
        /\ mission' = [mission EXCEPT ![i] = IF @ \in MissionActive THEN "CANCELLED" ELSE @]
  BY DEF CancelMission
<1>3. i \in Item /\ caller[c].todo \ {i} \in SUBSET Item
  BY <1>1, <1>2 DEF CallerState
<1>9. \A T \in SUBSET Item : /\ [caller[c] EXCEPT !.todo = T] \in CallerState
                             /\ [caller[c] EXCEPT !.todo = T].pc = "cancel"
  BY <1>1, <1>3, CallerRows
<1>4. PICK r \in CallerState : r = [caller[c] EXCEPT !.todo = @ \ {i}] /\ r.pc = "cancel"
  BY <1>3, <1>9
<1>5. caller' \in [Caller -> CallerState] /\ \A d \in Caller : Placed(caller'[d])
  BY <1>2, <1>4, CallerMoves DEF Placed
<1>6. mission' \in [Item -> {"NONE"} \cup MissionActive \cup MissionEnded]
  BY <1>2, <1>3 DEF CampaignInv, CampaignTypeOK, MissionEnded
<1>7. UNCHANGED <<status, item, lock>>
  BY DEF CancelMission
<1>8. EndInv => status \notin Ended
  BY <1>1 DEF EndInv
<1> QED
  BY <1>5, <1>6, <1>7, <1>8 DEF CampaignInv, CampaignTypeOK, EndInv

LEMMA Result ==
    ASSUME CampaignInv, Resolved
    PROVE  /\ Outcome \in Finished
           /\ \A i \in Item : /\ item[i].state \notin {"PENDING", "ADMITTED"}
                              /\ mission[i] \notin MissionActive
                              /\ Outcome = "SUCCEEDED" => mission[i] = "SUCCEEDED"
<1>1. Outcome \in Finished
  BY DEF Outcome, Finished
<1>2. Outcome = "SUCCEEDED" => Succeeded = Item
  BY DEF Outcome
<1> QED
  BY <1>1, <1>2 DEF Resolved, InState, Succeeded

LEMMA FinishCancelStep ==
    ASSUME CampaignInv, NEW c \in Caller, FinishCancel(c)
    PROVE  CampaignInv' /\ (EndInv => EndInv')
<1>1. /\ Goto(c, Idle) /\ UNCHANGED <<item, mission, lock>> /\ caller[c].pc = "cancel"
      /\ status' \in {status, "CANCELLED"}
  BY DEF FinishCancel, Return
<1>2. caller' \in [Caller -> CallerState] /\ \A d \in Caller : Placed(caller'[d])
  BY <1>1, NewCalls, CallerMoves
<1>3. status' \in Statuses
  BY <1>1 DEF Statuses, Finished, CampaignInv, CampaignTypeOK
<1>4. EndInv => status' \notin Ended
  BY <1>1 DEF EndInv, Ended
<1> QED
  BY <1>1, <1>2, <1>3, <1>4 DEF CampaignInv, CampaignTypeOK, EndInv

LEMMA FinalizeStep ==
    ASSUME CampaignInv, NEW c \in Caller, Finalize(c)
    PROVE  CampaignInv' /\ (OneCaller /\ EndInv => EndInv')
<1>1. /\ Goto(c, Idle) /\ UNCHANGED <<item, mission>> /\ caller[c].pc = "grow" /\ Commit(c)
      /\ status' = IF Resolved THEN Outcome ELSE status
  BY DEF Finalize, Return
<1>2. caller' \in [Caller -> CallerState] /\ (\A d \in Caller : Placed(caller'[d])) /\ caller'[c].pc = "idle"
  BY <1>1, NewCalls, CallerMoves
<1>3. status' \in Statuses
  BY <1>1, Result DEF Statuses, CampaignInv, CampaignTypeOK
<1>4. lock' \in Caller \cup {Unlocked}
  BY <1>1, Committed DEF CampaignInv
<1>5. ASSUME OneCaller, EndInv PROVE EndInv'
  <2>1. \A d \in Caller : caller'[d].pc = "idle"
    BY <1>2, <1>5 DEF OneCaller
  <2>2. status \notin Ended
    BY <1>1, <1>5 DEF EndInv
  <2>3. CASE Resolved
    BY <1>1, <2>1, <2>3, Result DEF EndInv
  <2>4. CASE ~Resolved
    BY <1>1, <2>2, <2>4 DEF EndInv
  <2> QED
    BY <2>3, <2>4
<1> QED
  BY <1>1, <1>2, <1>3, <1>4, <1>5 DEF CampaignInv, CampaignTypeOK

-----------------------------------------------------------------------------
(* The round of the reconciler. *)

LEMMA ReconcileStep ==
    ASSUME CampaignInv, NEW c \in Caller, Reconcile(c)
    PROVE  CampaignInv' /\ (OneCaller /\ EndInv => EndInv')
<1>1. UNCHANGED <<item, mission>> /\ caller[c].pc = "idle" /\ status \in {"RUNNING", "PAUSED"}
  BY DEF Reconcile
<1>2. CASE Resolved
  <2>1. status' = Outcome /\ UNCHANGED <<caller, lock>>
    BY <1>2 DEF Reconcile
  <2>2. status' \in Statuses
    BY <1>2, <2>1, Result DEF Statuses
  <2>3. OneCaller => \A d \in Caller : caller[d].pc = "idle"
    BY <1>1 DEF OneCaller
  <2> QED
    BY <1>1, <1>2, <2>1, <2>2, <2>3, Result DEF CampaignInv, CampaignTypeOK, EndInv
<1>3. CASE ~Resolved
  <2>1. PICK due \in SUBSET InState({"ADMITTED"}) : Goto(c, [Idle EXCEPT !.pc = "grow", !.todo = due])
    BY <1>3 DEF Reconcile
  <2>2. status = "RUNNING" /\ lock' = c /\ UNCHANGED status
    BY <1>3 DEF Reconcile
  <2>3. due \in SUBSET Item
    BY DEF InState
  <2>4. caller' \in [Caller -> CallerState] /\ \A d \in Caller : Placed(caller'[d])
    BY <2>1, <2>3, NewCalls, CallerMoves
  <2>5. status' \notin Ended
    BY <2>2 DEF Ended, Finished
  <2> QED
    BY <1>1, <2>2, <2>4, <2>5 DEF CampaignInv, CampaignTypeOK, EndInv
<1> QED
  BY <1>2, <1>3

\* A round that is under way has not ended the campaign, and writes no result.
LEMMA Goes ==
    ASSUME EndInv, NEW c \in Caller, caller[c].pc # "idle", UNCHANGED status
    PROVE  EndInv'
BY DEF EndInv

LEMMA MaterializeStep ==
    ASSUME CampaignInv, NEW c \in Caller, Materialize(c)
    PROVE  CampaignInv' /\ (EndInv => EndInv')
<1>1. caller[c] \in CallerState /\ caller[c].pc = "grow" /\ caller[c].todo # {}
  BY DEF CampaignInv, CampaignTypeOK, Materialize
<1>2. PICK i \in Item : i = Min(caller[c].todo)
  BY <1>1, FirstToDo
<1>3. /\ Bind(i) /\ Commit(c) /\ UNCHANGED status
      /\ Goto(c, [caller[c] EXCEPT !.pc = "start", !.at = i, !.todo = @ \ {i}])
  BY <1>2 DEF Materialize
<1>4. caller[c].todo \ {i} \in SUBSET Item
  BY <1>1 DEF CallerState
<1>5. PICK r \in CallerState : r = [caller[c] EXCEPT !.pc = "start", !.at = i, !.todo = @ \ {i}] /\ Placed(r)
  BY <1>1, <1>4, CallerRows
<1>6. caller' \in [Caller -> CallerState] /\ \A d \in Caller : Placed(caller'[d])
  BY <1>3, <1>5, CallerMoves
<1>7. item' \in [Item -> ItemRow]
  <2>1. {i} \in SUBSET Item
    OBVIOUS
  <2> QED
    BY <2>1, <1>3, Entered DEF Bind, CampaignInv
<1>8. mission' \in [Item -> {"NONE"} \cup MissionActive \cup MissionEnded]
  BY <1>3 DEF Bind, CampaignInv, CampaignTypeOK, MissionActive
<1>9. lock' \in Caller \cup {Unlocked}
  BY <1>3, Committed DEF CampaignInv
<1> QED
  BY <1>1, <1>3, <1>6, <1>7, <1>8, <1>9, Goes DEF CampaignInv, CampaignTypeOK

LEMMA MaterializeFailsStep ==
    ASSUME CampaignInv, NEW c \in Caller, MaterializeFails(c)
    PROVE  CampaignInv' /\ (EndInv => EndInv')
<1>1. /\ caller[c].pc = "grow" /\ caller[c].todo # {} /\ Goto(c, Idle) /\ Commit(c)
      /\ UNCHANGED <<status, mission>>
  BY DEF MaterializeFails, Return
<1>2. PICK i \in Item : i = Min(caller[c].todo)
  BY <1>1, FirstToDo
<1>3. caller' \in [Caller -> CallerState] /\ \A d \in Caller : Placed(caller'[d])
  BY <1>1, NewCalls, CallerMoves
<1>4. item' \in [Item -> ItemRow]
  <2>1. CASE UNCHANGED item
    BY <2>1 DEF CampaignInv, CampaignTypeOK
  <2>2. ASSUME item[i].tries < MaxTries, NEW transient \in BOOLEAN, item' = [item EXCEPT ![i] = FailureOf(i, transient)]
        PROVE  item' \in [Item -> ItemRow]
    <3>1. item[i] \in ItemRow /\ item[i].tries \in 0..MaxTries /\ MaxTries \in Nat
      BY CampaignAssumption DEF CampaignInv, CampaignTypeOK, ItemRow
    <3>2. item[i].tries + 1 \in 0..MaxTries
      BY <3>1, <2>2
    <3>3. FailureOf(i, transient) \in ItemRow
      BY <3>1, <3>2 DEF FailureOf, ItemRow
    <3> QED
      BY <3>3, <2>2 DEF CampaignInv, CampaignTypeOK
  <2> QED
    BY <1>2, <2>1, <2>2 DEF MaterializeFails
<1>5. lock' \in Caller \cup {Unlocked}
  BY <1>1, Committed DEF CampaignInv
<1> QED
  BY <1>1, <1>3, <1>4, <1>5, Goes DEF CampaignInv, CampaignTypeOK

LEMMA StartMissionStep ==
    ASSUME CampaignInv, NEW c \in Caller, StartMission(c)
    PROVE  CampaignInv' /\ (EndInv => EndInv')
<1>1. caller[c] \in CallerState /\ caller[c].pc = "start" /\ UNCHANGED <<status, item, lock>>
  BY DEF CampaignInv, CampaignTypeOK, StartMission
<1>2. PICK i \in Item : i = caller[c].at
  BY <1>1 DEF CampaignInv, Placed
<1>3. PICK r \in CallerState : r = [caller[c] EXCEPT !.pc = "grow", !.at = 0] /\ Placed(r)
  BY <1>1, <1>2, CallerRows
<1>4. caller' \in [Caller -> CallerState] /\ \A d \in Caller : Placed(caller'[d])
  <2>1. Goto(c, r) \/ Goto(c, Idle)
    BY <1>2, <1>3 DEF StartMission, Return
  <2> QED
    BY <1>3, <2>1, NewCalls, CallerMoves
<1>5. mission' \in [Item -> {"NONE"} \cup MissionActive \cup MissionEnded]
  BY <1>2 DEF StartMission, CampaignInv, CampaignTypeOK, MissionActive
<1> QED
  BY <1>1, <1>4, <1>5, Goes DEF CampaignInv, CampaignTypeOK

LEMMA StartReadyStep ==
    ASSUME CampaignInv, NEW c \in Caller, StartReady(c)
    PROVE  CampaignInv' /\ (EndInv => EndInv')
<1>1. caller[c].pc = "grow" /\ Commit(c) /\ UNCHANGED <<status, item, caller>>
  BY DEF StartReady, Grown
<1>2. mission' \in [Item -> {"NONE"} \cup MissionActive \cup MissionEnded]
  BY DEF StartReady, CampaignInv, CampaignTypeOK, MissionActive
<1>3. lock' \in Caller \cup {Unlocked}
  BY <1>1, Committed DEF CampaignInv
<1> QED
  BY <1>1, <1>2, <1>3, Goes DEF CampaignInv, CampaignTypeOK

LEMMA ReserveStep ==
    ASSUME CampaignInv, NEW c \in Caller, Reserve(c)
    PROVE  CampaignInv' /\ (EndInv => EndInv')
<1>1. caller[c] \in CallerState /\ caller[c].pc = "grow" /\ UNCHANGED <<status, item, mission, lock>>
  BY DEF CampaignInv, CampaignTypeOK, Reserve, Grown
<1>2. caller' \in [Caller -> CallerState] /\ \A d \in Caller : Placed(caller'[d])
  <2>1. CASE Full \/ Reservable = {}
    <3>1. 1 \in Item
      BY CampaignAssumption DEF Item
    <3>2. PICK r \in CallerState : r = [caller[c] EXCEPT !.last = TRUE] /\ Placed(r)
      BY <1>1, <3>1, CallerRows DEF Placed
    <3> QED
      BY <2>1, <3>2, CallerMoves DEF Reserve
  <2>2. CASE ~(Full \/ Reservable = {})
    <3>1. PICK i \in Item : i = Min(Reservable)
      BY <2>2, FirstReservable
    <3>2. PICK r \in CallerState : r = [caller[c] EXCEPT !.pc = "reserving", !.at = i] /\ Placed(r)
      BY <1>1, CallerRows
    <3> QED
      BY <2>2, <3>1, <3>2, CallerMoves DEF Reserve
  <2> QED
    BY <2>1, <2>2
<1> QED
  BY <1>1, <1>2, Goes DEF CampaignInv, CampaignTypeOK

LEMMA CommitReserveStep ==
    ASSUME CampaignInv, NEW c \in Caller, CommitReserve(c)
    PROVE  CampaignInv' /\ (EndInv => EndInv')
<1>1. PICK i \in Item : i = caller[c].at
  BY DEF CommitReserve, CampaignInv, Placed
<1>2. /\ item' = Enter({i}, "ADMITTED") /\ Commit(c) /\ UNCHANGED <<status, mission>> /\ caller[c].pc # "idle"
      /\ Goto(c, [Idle EXCEPT !.pc = "grow", !.todo = {i}, !.last = TRUE])
  BY <1>1 DEF CommitReserve
<1>3. {i} \in SUBSET Item
  OBVIOUS
<1>4. caller' \in [Caller -> CallerState] /\ \A d \in Caller : Placed(caller'[d])
  BY <1>2, <1>3, NewCalls, CallerMoves
<1>5. item' \in [Item -> ItemRow]
  BY <1>2, <1>3, Entered DEF CampaignInv
<1>6. lock' \in Caller \cup {Unlocked}
  BY <1>2, Committed DEF CampaignInv
<1> QED
  BY <1>2, <1>4, <1>5, <1>6, Goes DEF CampaignInv, CampaignTypeOK

LEMMA CallerDiesStep ==
    ASSUME CampaignInv, NEW c \in Caller, CallerDies(c)
    PROVE  CampaignInv' /\ (EndInv => EndInv')
<1>1. /\ Goto(c, Idle) /\ Commit(c) /\ UNCHANGED <<status, item, mission>> /\ caller[c].pc # "idle"
  BY DEF CallerDies, Return
<1>2. caller' \in [Caller -> CallerState] /\ \A d \in Caller : Placed(caller'[d])
  BY <1>1, NewCalls, CallerMoves
<1>3. lock' \in Caller \cup {Unlocked}
  BY <1>1, Committed DEF CampaignInv
<1> QED
  BY <1>1, <1>2, <1>3, Goes DEF CampaignInv, CampaignTypeOK

LEMMA MissionEndsStep ==
    ASSUME CampaignInv, NEW i \in Item, MissionEnds(i)
    PROVE  CampaignInv' /\ (EndInv => EndInv')
<1>1. UNCHANGED <<status, item, caller, lock>> /\ mission[i] \in MissionActive
  BY DEF MissionEnds, MissionActive
<1>2. mission' \in [Item -> {"NONE"} \cup MissionActive \cup MissionEnded]
  BY DEF MissionEnds, CampaignInv, CampaignTypeOK, MissionEnded
<1>3. EndInv => status \notin Ended
  BY <1>1 DEF EndInv
<1> QED
  BY <1>1, <1>2, <1>3 DEF CampaignInv, CampaignTypeOK, EndInv

LEMMA CampaignStep ==
    ASSUME CampaignInv, CampaignNext
    PROVE  CampaignInv' /\ (OneCaller /\ EndInv => EndInv')
BY ApiStep, CancelCampaignStep, CancelMissionStep, FinishCancelStep, ReconcileStep, MaterializeStep,
   MaterializeFailsStep, StartMissionStep, StartReadyStep, ReserveStep, CommitReserveStep, FinalizeStep,
   CallerDiesStep, MissionEndsStep
   DEF CampaignNext, Grow

-----------------------------------------------------------------------------
(* The inductive invariant of the schedule. *)

\* A pending row can be tried again; a row is of a time that has come; what was
\* bound is what was dispatched, and at most one Mission was made.
RowInv(t) == /\ occurrence[t].status = "PENDING" => occurrence[t].attempts < MaxAttempts
             /\ occurrence[t].status # "ABSENT" => t <= now
             /\ occurrence[t].status = "DISPATCHED" => bound[t] # Nothing
             /\ bound[t] # Nothing => occurrence[t].status # "ABSENT"
             /\ made[t] <= 1 /\ (made[t] = 1 => bound[t] # Nothing)

\* A sweep works on rows that exist, and on what it read it may count one more.
Well(w) == /\ w.pc = "next" => w.rows # {}
           /\ w.pc \in {"adapt", "bind", "failed"} => w.at \in Time /\ occurrence[w.at].status # "ABSENT"
           /\ \A t \in w.rows : w.copy[t] < MaxAttempts /\ occurrence[t].status # "ABSENT"

\* The next occurrence of an active schedule lies after all that have rows, and
\* is one of the times of a cron expression.
ScheduleInv == schedule.status = "ACTIVE" =>
    /\ schedule.next \in Time
    /\ Definition[schedule.version].every = 0 => schedule.next \in Definition[schedule.version].at
    /\ \A t \in Time : occurrence[t].status # "ABSENT" => t < schedule.next

RecurringInv == /\ RecurringTypeOK
                /\ \A t \in Time : RowInv(t)
                /\ \A s \in Sweep : Well(sweep[s])
                /\ ScheduleInv

IndInv == CampaignInv /\ RecurringInv /\ (OneCaller => EndInv)

-----------------------------------------------------------------------------
(* The times of a schedule. *)

LEMMA Bounds == MaxTime \in Nat /\ MaxAttempts \in Nat /\ 0 < MaxAttempts /\ MaxBacklog \in Nat /\ 0 < MaxBacklog /\ 0 < MaxTime
BY RecurringAssumption

LEMMA NextOf ==
    ASSUME NEW v \in Version, NEW ref \in Int
    PROVE  /\ NextOccurrence(v, ref) \in 0..MaxTime
           /\ NextOccurrence(v, ref) # 0 => /\ NextOccurrence(v, ref) \in Time /\ NextOccurrence(v, ref) > ref
                                            /\ Definition[v].every = 0 => NextOccurrence(v, ref) \in Definition[v].at
           /\ Definition[v].every = 0 => \A t \in Definition[v].at :
                 t > ref => NextOccurrence(v, ref) # 0 /\ NextOccurrence(v, ref) <= t
<1>1. Definition[v].every \in Nat /\ Definition[v].at \subseteq Time /\ Time \subseteq Nat /\ 0 \notin Time
  BY RecurringAssumption DEF Definitions, Time
<1>2. Matches(v, ref) \in SUBSET Time /\ \A t \in Matches(v, ref) : t > ref
  <2>1. CASE Definition[v].every > 0
    BY <1>1, <2>1 DEF Matches
  <2>2. CASE ~(Definition[v].every > 0)
    BY <1>1, <2>2 DEF Matches
  <2> QED
    BY <2>1, <2>2
<1>3. Matches(v, ref) # {} => /\ NextOccurrence(v, ref) \in Matches(v, ref)
                              /\ \A t \in Matches(v, ref) : NextOccurrence(v, ref) <= t
  <2>1. Matches(v, ref) \in SUBSET Nat
    BY <1>1, <1>2
  <2> QED
    BY <2>1, MinOf DEF NextOccurrence
<1>4. Matches(v, ref) = {} => NextOccurrence(v, ref) = 0
  BY DEF NextOccurrence
<1>5. Definition[v].every = 0 => Matches(v, ref) = {t \in Definition[v].at : t > ref}
  BY DEF Matches
<1>6. Time \subseteq 0..MaxTime /\ 0 \in 0..MaxTime
  BY Bounds DEF Time
<1> QED
  BY <1>1, <1>2, <1>3, <1>4, <1>5, <1>6

\* f goes from one missed occurrence to the next, and stays 0 after the last.
Walk(f, k, v, due, seen) == f = [n \in 1..k |->
    IF n = 1 THEN due
    ELSE IF f[n - 1] = 0 \/ NextOccurrence(v, f[n - 1]) > seen THEN 0
    ELSE NextOccurrence(v, f[n - 1])]

LEMMA WalkExists ==
    ASSUME NEW v \in Version, NEW due \in Time, NEW seen \in Int, NEW n \in 1..MaxBacklog
    PROVE  \E f \in [1..n -> 0..MaxTime] : Walk(f, n, v, due, seen)
<1> DEFINE Without == {k \in 1..MaxBacklog : ~ \E f \in [1..k -> 0..MaxTime] : Walk(f, k, v, due, seen)}
<1>1. SUFFICES ASSUME Without # {} PROVE FALSE
  OBVIOUS
<1>2. Min(Without) \in Without /\ \A m \in Without : Min(Without) <= m
  <2>1. Without \in SUBSET Nat
    BY Bounds
  <2> QED
    BY <1>1, <2>1, MinOf
<1>3. PICK k \in Without : \A m \in Without : k <= m
  BY <1>2
<1>4. k \in Nat /\ 1 <= k /\ k <= MaxBacklog /\ MaxBacklog \in Nat
  BY Bounds
<1>5. due \in 0..MaxTime
  BY Bounds DEF Time
<1>6. CASE k = 1
  <2> DEFINE f == [m \in 1..1 |-> due]
  <2>1. f \in [1..1 -> 0..MaxTime] /\ Walk(f, 1, v, due, seen)
    BY <1>5 DEF Walk
  <2> QED
    BY <1>3, <1>6, <2>1
<1>7. CASE k # 1
  <2>1. k - 1 \in 1..MaxBacklog /\ k - 1 \notin Without
    <3>1. k - 1 \in 1..MaxBacklog /\ ~(k <= k - 1)
      BY <1>4, <1>7
    <3> QED
      BY <1>3, <3>1
  <2>2. PICK f \in [1..(k - 1) -> 0..MaxTime] : Walk(f, k - 1, v, due, seen)
    BY <2>1
  <2>3. f[k - 1] \in Int
    BY <1>4, <1>7, Bounds
  <2>4. PICK x \in 0..MaxTime :
           x = IF f[k - 1] = 0 \/ NextOccurrence(v, f[k - 1]) > seen THEN 0 ELSE NextOccurrence(v, f[k - 1])
    <3>1. NextOccurrence(v, f[k - 1]) \in 0..MaxTime
      BY <2>3, NextOf
    <3>2. 0 \in 0..MaxTime
      BY Bounds
    <3> QED
      BY <3>1, <3>2
  <2> DEFINE h == [m \in 1..k |-> IF m = k THEN x ELSE f[m]]
  <2>5. h \in [1..k -> 0..MaxTime]
    BY <1>4, <1>7, <2>4
  <2>6. \A m \in 1..k : h[m] =
           IF m = 1 THEN due
           ELSE IF h[m - 1] = 0 \/ NextOccurrence(v, h[m - 1]) > seen THEN 0
           ELSE NextOccurrence(v, h[m - 1])
    <3> SUFFICES ASSUME NEW m \in 1..k
                 PROVE  h[m] = IF m = 1 THEN due
                               ELSE IF h[m - 1] = 0 \/ NextOccurrence(v, h[m - 1]) > seen THEN 0
                               ELSE NextOccurrence(v, h[m - 1])
      OBVIOUS
    <3>1. CASE m = k
      <4>1. h[m] = x /\ h[m - 1] = f[k - 1] /\ m # 1
        BY <1>4, <1>7, <3>1
      <4> QED
        BY <4>1, <2>4
    <3>2. CASE m # k
      <4>1. m \in 1..(k - 1) /\ h[m] = f[m] /\ (m # 1 => h[m - 1] = f[m - 1])
        BY <1>4, <3>2
      <4> QED
        BY <4>1, <2>2 DEF Walk
    <3> QED
      BY <3>1, <3>2
  <2>7. Walk(h, k, v, due, seen)
    BY <2>6 DEF Walk
  <2> QED
    BY <1>3, <2>5, <2>7
<1> QED
  BY <1>6, <1>7

LEMMA WalkOfTicks ==
    ASSUME NEW v \in Version, NEW due \in Time, NEW seen \in Int
    PROVE  \E f \in [1..MaxBacklog -> 0..MaxTime] :
              /\ f[1] = due
              /\ \A n \in 2..MaxBacklog : f[n] = IF f[n - 1] = 0 \/ NextOccurrence(v, f[n - 1]) > seen THEN 0
                                                 ELSE NextOccurrence(v, f[n - 1])
              /\ MissedTicks(v, due, seen) = {f[n] : n \in 1..MaxBacklog} \ {0}
<1> DEFINE f == CHOOSE g : Walk(g, MaxBacklog, v, due, seen)
<1>1. MissedTicks(v, due, seen) = {f[n] : n \in 1..MaxBacklog} \ {0}
  BY DEF MissedTicks, Walk
<1>2. \E g \in [1..MaxBacklog -> 0..MaxTime] : Walk(g, MaxBacklog, v, due, seen)
  <2>1. MaxBacklog \in 1..MaxBacklog
    BY Bounds
  <2> QED
    BY <2>1, WalkExists
<1>3. Walk(f, MaxBacklog, v, due, seen)
  BY <1>2
<1> HIDE DEF f
<1>4. /\ f[1] = due
      /\ \A n \in 2..MaxBacklog : f[n] = IF f[n - 1] = 0 \/ NextOccurrence(v, f[n - 1]) > seen THEN 0
                                         ELSE NextOccurrence(v, f[n - 1])
      /\ DOMAIN f = 1..MaxBacklog
  BY <1>3, Bounds DEF Walk
<1>5. \A n \in 1..MaxBacklog : f[n] \in 0..MaxTime
  <2> SUFFICES ASSUME \E n \in 1..MaxBacklog : f[n] \notin 0..MaxTime PROVE FALSE
    OBVIOUS
  <2> DEFINE Bad == {n \in 1..MaxBacklog : f[n] \notin 0..MaxTime}
  <2>1. Bad \in SUBSET Nat /\ Bad # {}
    BY Bounds
  <2>2. PICK n \in Bad : \A m \in Bad : n <= m
    BY <2>1, MinOf
  <2>3. due \in 0..MaxTime
    BY Bounds DEF Time
  <2>4. n # 1
    BY <1>4, <2>2, <2>3
  <2>5. n \in 2..MaxBacklog /\ n - 1 \in 1..MaxBacklog /\ ~(n <= n - 1)
    BY <2>4, Bounds
  <2>6. f[n - 1] \in 0..MaxTime
    BY <2>2, <2>5
  <2>7. NextOccurrence(v, f[n - 1]) \in 0..MaxTime
    BY <2>6, NextOf, Bounds
  <2>8. f[n] \in 0..MaxTime
    BY <1>4, <2>5, <2>7, Bounds
  <2> QED
    BY <2>8
<1>6. f = [n \in 1..MaxBacklog |-> f[n]]
  BY <1>3 DEF Walk
<1>7. f \in [1..MaxBacklog -> 0..MaxTime]
  BY <1>5, <1>6
<1> QED
  BY <1>1, <1>4, <1>7

\* A missed occurrence is the one that is due, or one not after the clock reading.
LEMMA TicksSeen ==
    ASSUME NEW v \in Version, NEW due \in Time, NEW seen \in Int
    PROVE  /\ MissedTicks(v, due, seen) \in SUBSET Time
           /\ due \in MissedTicks(v, due, seen)
           /\ \A t \in MissedTicks(v, due, seen) : due <= t /\ (t = due \/ t <= seen)
<1>1. PICK f \in [1..MaxBacklog -> 0..MaxTime] :
              /\ f[1] = due
              /\ \A n \in 2..MaxBacklog : f[n] = IF f[n - 1] = 0 \/ NextOccurrence(v, f[n - 1]) > seen THEN 0
                                                 ELSE NextOccurrence(v, f[n - 1])
              /\ MissedTicks(v, due, seen) = {f[n] : n \in 1..MaxBacklog} \ {0}
  BY WalkOfTicks
<1>2. due # 0 /\ 1 \in 1..MaxBacklog
  BY Bounds DEF Time
<1>3. \A n \in 1..MaxBacklog : f[n] # 0 => f[n] \in Time /\ (f[n] = due \/ f[n] <= seen)
  <2> SUFFICES ASSUME NEW n \in 1..MaxBacklog, f[n] # 0 PROVE f[n] \in Time /\ (f[n] = due \/ f[n] <= seen)
    OBVIOUS
  <2>1. f[n] \in Time /\ f[n] \in Int
    BY Bounds DEF Time
  <2>2. CASE n = 1
    BY <1>1, <2>1, <2>2
  <2>3. CASE n # 1
    <3>1. n \in 2..MaxBacklog /\ n - 1 \in 1..MaxBacklog
      BY <2>3, Bounds
    <3>2. f[n - 1] \in Int
      BY <3>1, Bounds
    <3>3. ~(f[n] > seen)
      BY <1>1, <3>1
    <3> QED
      BY <2>1, <3>3
  <2> QED
    BY <2>2, <2>3
<1>4. \A n \in 1..MaxBacklog : f[n] # 0 => due <= f[n]
  <2> DEFINE Low == {n \in 1..MaxBacklog : f[n] # 0 /\ ~(due <= f[n])}
  <2>1. SUFFICES ASSUME Low # {} PROVE FALSE
    OBVIOUS
  <2>2. PICK n \in Low : \A m \in Low : n <= m
    <3>1. Low \in SUBSET Nat
      BY Bounds
    <3> QED
      BY <2>1, <3>1, MinOf
  <2>3. due \in Int
    BY Bounds DEF Time
  <2>4. n # 1
    BY <1>1, <2>2, <2>3
  <2>5. n \in 2..MaxBacklog /\ n - 1 \in 1..MaxBacklog /\ ~(n <= n - 1)
    BY <2>2, <2>4, Bounds
  <2>6. f[n - 1] # 0 /\ f[n] = NextOccurrence(v, f[n - 1]) /\ due <= f[n - 1]
    BY <1>1, <2>2, <2>5
  <2>7. f[n - 1] \in Int /\ f[n] \in Int
    BY <2>5, <2>2, Bounds
  <2>8. f[n] > f[n - 1]
    BY <2>2, <2>6, <2>7, NextOf
  <2> QED
    BY <2>2, <2>3, <2>6, <2>7, <2>8
<1> QED
  BY <1>1, <1>2, <1>3, <1>4

LEMMA DispatchedTicks ==
    ASSUME NEW v \in Version, NEW ticks PROVE ToDispatch(v, ticks) \subseteq ticks
BY DEF ToDispatch, Latest

\* A schedule moves on beyond the clock reading and all that it missed.
LEMMA NextDueOf ==
    ASSUME NEW v \in Version, NEW due \in Time, NEW seen \in 0..MaxTime,
           NEW run, run \subseteq MissedTicks(v, due, seen)
    PROVE  \E ref \in 0..MaxTime : /\ NextDue(v, run \cup {due}, seen) = NextOccurrence(v, ref)
                                   /\ due <= ref /\ seen <= ref /\ (ref = due \/ ref <= seen)
<1> DEFINE S == run \cup {due}
<1>1. S \in SUBSET (0..MaxTime) /\ S # {} /\ MaxTime \in Nat /\ \A t \in S : t = due \/ t <= seen
  <2>1. Time \subseteq 0..MaxTime
    BY Bounds DEF Time
  <2>2. /\ MissedTicks(v, due, seen) \in SUBSET Time
        /\ \A t \in MissedTicks(v, due, seen) : t = due \/ t <= seen
    BY TicksSeen
  <2> QED
    BY <2>1, <2>2, Bounds
<1>2. Max(S) \in S /\ \A t \in S : t <= Max(S)
  BY <1>1, MaxOf
<1> HIDE DEF S
<1>3. PICK m \in 0..MaxTime : m = Max(S)
  BY <1>1, <1>2
<1>4. due <= m /\ (m = due \/ m <= seen)
  <2>1. due \in S
    BY DEF S
  <2> QED
    BY <1>1, <1>2, <1>3, <2>1
<1>5. NextDue(v, S, seen) = NextOccurrence(v, IF seen > m THEN seen ELSE m)
  BY <1>3 DEF NextDue
<1>6. due \in Int /\ seen \in Int /\ m \in Int
  BY Bounds DEF Time
<1>7. CASE seen > m
  BY <1>4, <1>5, <1>6, <1>7 DEF S
<1>8. CASE ~(seen > m)
  BY <1>4, <1>5, <1>6, <1>8 DEF S
<1> QED
  BY <1>7, <1>8

-----------------------------------------------------------------------------
(* The schedule. *)

LEMMA ScheduleTypes ==
    ASSUME RecurringInv
    PROVE  /\ schedule \in ScheduleRow /\ schedule.version \in Version /\ schedule.next \in 0..MaxTime
           /\ now \in 0..MaxTime /\ now \in Int /\ 0 \in 0..MaxTime
<1>1. schedule \in ScheduleRow /\ now \in 0..MaxTime
  BY DEF RecurringInv, RecurringTypeOK
<1>2. 0 \in 0..MaxTime /\ now \in Int
  BY <1>1, Bounds
<1> QED
  BY <1>1, <1>2 DEF ScheduleRow

\* What holds of an active schedule that goes on after the clock.
LEMMA GoesOn ==
    ASSUME RecurringInv, NEW v \in Version, NextOccurrence(v, now) # 0
    PROVE  /\ NextOccurrence(v, now) \in Time
           /\ Definition[v].every = 0 => NextOccurrence(v, now) \in Definition[v].at
           /\ \A t \in Time : occurrence[t].status # "ABSENT" => t < NextOccurrence(v, now)
<1>1. NextOccurrence(v, now) \in Time /\ NextOccurrence(v, now) > now /\ now \in Int
  BY NextOf, ScheduleTypes
<1>2. \A t \in Time : occurrence[t].status # "ABSENT" => t <= now
  BY DEF RecurringInv, RowInv
<1>3. \A t \in Time : t \in Int
  BY Bounds DEF Time
<1>4. \A t \in Time : occurrence[t].status # "ABSENT" => t < NextOccurrence(v, now)
  BY <1>1, <1>2, <1>3
<1>5. Definition[v].every = 0 => NextOccurrence(v, now) \in Definition[v].at
  BY <1>1, NextOf
<1> QED
  BY <1>1, <1>4, <1>5

\* Steps that write the schedule alone.
LEMMA ScheduleWrites ==
    ASSUME RecurringInv, schedule' \in ScheduleRow, ScheduleInv',
           UNCHANGED <<now, occurrence, bound, made, sweep>>
    PROVE  RecurringInv'
BY DEF RecurringInv, RecurringTypeOK, RowInv, Well

LEMMA ScheduleStep ==
    ASSUME RecurringInv, Activate \/ PauseSchedule \/ CancelSchedule \/ Edit
    PROVE  RecurringInv'
<1>1. UNCHANGED <<now, occurrence, bound, made, sweep>>
  BY DEF Activate, PauseSchedule, CancelSchedule, Edit
<1>2. schedule.version \in Version /\ schedule \in ScheduleRow /\ 0 \in 0..MaxTime
  BY ScheduleTypes
<1>3. CASE Activate
  <2>1. PICK n \in 0..MaxTime : n = NextOccurrence(schedule.version, now) /\ n # 0
    BY <1>3, NextOf, ScheduleTypes DEF Activate
  <2>2. schedule' = [schedule EXCEPT !.status = "ACTIVE", !.next = n]
    BY <1>3, <2>1 DEF Activate
  <2>3. schedule' \in ScheduleRow /\ schedule'.next = n /\ schedule'.version = schedule.version
    BY <1>2, <2>2 DEF ScheduleRow
  <2>4. ScheduleInv'
    BY <1>1, <1>2, <2>1, <2>3, GoesOn DEF ScheduleInv
  <2> QED
    BY <1>1, <2>3, <2>4, ScheduleWrites
<1>4. CASE PauseSchedule \/ CancelSchedule
  <2>1. PICK st \in {"PAUSED", "CANCELLED"} : schedule' = [schedule EXCEPT !.status = st, !.next = 0]
    BY <1>4 DEF PauseSchedule, CancelSchedule
  <2>2. schedule' \in ScheduleRow /\ schedule'.status # "ACTIVE"
    BY <1>2, <2>1 DEF ScheduleRow
  <2> QED
    BY <1>1, <2>2, ScheduleWrites DEF ScheduleInv
<1>5. CASE Edit
  <2>1. PICK v \in Version : v = schedule.version + 1
    BY <1>5 DEF Edit
  <2>2. CASE schedule.status = "ACTIVE"
    <3>1. PICK n \in 0..MaxTime : n = NextOccurrence(v, now) /\ n # 0
      BY <1>5, <2>1, <2>2, NextOf, ScheduleTypes DEF Edit
    <3>2. schedule' = [schedule EXCEPT !.version = v, !.next = n]
      BY <1>5, <2>1, <2>2, <3>1 DEF Edit
    <3>3. schedule' \in ScheduleRow /\ schedule'.next = n /\ schedule'.version = v
      BY <1>2, <3>2 DEF ScheduleRow
    <3>4. ScheduleInv'
      BY <1>1, <3>1, <3>3, GoesOn DEF ScheduleInv
    <3> QED
      BY <1>1, <3>3, <3>4, ScheduleWrites
  <2>3. CASE schedule.status # "ACTIVE"
    <3>1. schedule' = [schedule EXCEPT !.version = v]
      BY <1>5, <2>1, <2>3 DEF Edit
    <3>2. schedule' \in ScheduleRow /\ schedule'.status # "ACTIVE"
      BY <1>2, <2>3, <3>1 DEF ScheduleRow
    <3> QED
      BY <1>1, <3>2, ScheduleWrites DEF ScheduleInv
  <2> QED
    BY <2>2, <2>3
<1> QED
  BY <1>3, <1>4, <1>5

LEMMA TickStep ==
    ASSUME RecurringInv, Tick
    PROVE  RecurringInv'
<1>1. /\ now \in 0..MaxTime /\ now' = now + 1 /\ now < MaxTime /\ MaxTime \in Nat
      /\ UNCHANGED <<schedule, occurrence, bound, made, sweep>>
  BY Bounds DEF Tick, RecurringInv, RecurringTypeOK
<1>2. now' \in 0..MaxTime
  BY <1>1
<1>3. \A t \in Time : t <= now => t <= now'
  <2>1. \A t \in Time : t \in Int
    BY Bounds DEF Time
  <2> QED
    BY <1>1, <2>1
<1>4. \A t \in Time : RowInv(t)'
  BY <1>1, <1>3 DEF RecurringInv, RowInv
<1>5. \A q \in Sweep : Well(sweep[q])'
  BY <1>1 DEF RecurringInv, Well
<1>6. ScheduleInv'
  BY <1>1 DEF RecurringInv, ScheduleInv
<1> QED
  BY <1>1, <1>2, <1>4, <1>5, <1>6 DEF RecurringInv, RecurringTypeOK

-----------------------------------------------------------------------------
(* Phase 1. *)

\* What a materialization writes, with the clock reading it collected up to.
Materialized(seen, ticks, run, next) ==
    /\ occurrence' = [t \in Time |->
            IF t \in ticks
            THEN [status |-> IF t \in run THEN "PENDING" ELSE "SKIPPED", version |-> schedule.version, attempts |-> 0]
            ELSE occurrence[t]]
    /\ schedule' = [schedule EXCEPT !.next = next, !.status = IF next = 0 THEN "COMPLETED" ELSE @]
    /\ \E ref \in 0..MaxTime : /\ next = NextOccurrence(schedule.version, ref)
                               /\ schedule.next <= ref /\ seen <= ref /\ (ref = schedule.next \/ ref <= seen)
    /\ ticks = MissedTicks(schedule.version, schedule.next, seen)
    /\ schedule.next \in Time /\ schedule.next <= now

LEMMA Materializing ==
    ASSUME RecurringInv, MaterializeDue
    PROVE  \E seen \in 0..MaxTime, ticks \in SUBSET Time, run \in SUBSET Time, next \in 0..MaxTime :
              seen <= now /\ Materialized(seen, ticks, run, next)
<1>0. schedule.next \in Time /\ schedule.version \in Version /\ now \in 0..MaxTime /\ schedule.next <= now
  BY ScheduleTypes DEF MaterializeDue, RecurringInv, ScheduleInv
<1>1. PICK v \in Version, due \in Time : v = schedule.version /\ due = schedule.next /\ due <= now /\ now \in 0..MaxTime
  BY <1>0
<1>2. PICK seen \in {now - 1, now} :
        LET ticks == MissedTicks(v, due, seen)
            run == ToDispatch(v, ticks)
            next == NextDue(v, run \cup {due}, seen) IN
        /\ occurrence' = [t \in Time |->
                IF t \in ticks
                THEN [status |-> IF t \in run THEN "PENDING" ELSE "SKIPPED", version |-> v, attempts |-> 0]
                ELSE occurrence[t]]
        /\ schedule' = [schedule EXCEPT !.next = next, !.status = IF next = 0 THEN "COMPLETED" ELSE @]
  BY <1>1 DEF MaterializeDue
<1>3. seen \in 0..MaxTime /\ seen <= now /\ seen \in Int
  <2>1. due \in Int /\ 1 <= due
    BY <1>1, Bounds DEF Time
  <2> QED
    BY <1>1, <2>1, Bounds
<1> DEFINE ticks == MissedTicks(v, due, seen)
           run == ToDispatch(v, ticks)
           next == NextDue(v, run \cup {due}, seen)
<1>4. ticks \in SUBSET Time /\ run \subseteq ticks
  BY <1>1, <1>3, TicksSeen, DispatchedTicks
<1>5. PICK ref \in 0..MaxTime : /\ next = NextOccurrence(v, ref)
                                /\ due <= ref /\ seen <= ref /\ (ref = due \/ ref <= seen)
  <2> HIDE DEF ticks, run
  <2>1. run \subseteq MissedTicks(v, due, seen)
    BY <1>4 DEF ticks
  <2> QED
    BY <1>3, <2>1, NextDueOf
<1>6. next \in 0..MaxTime
  <2>1. ref \in Int
    BY Bounds
  <2> QED
    BY <1>1, <1>5, <2>1, NextOf
<1>7. Materialized(seen, ticks, run, next)
  BY <1>1, <1>2, <1>5 DEF Materialized
<1> QED
  BY <1>3, <1>4, <1>6, <1>7

\* No row was there before: what is due lies after all that have rows.
LEMMA MaterializeDueStep ==
    ASSUME RecurringInv, MaterializeDue
    PROVE  /\ RecurringInv'
           /\ \A t \in Time : occurrence[t].status # "ABSENT" => occurrence'[t] = occurrence[t]
<1>1. PICK seen \in 0..MaxTime, ticks \in SUBSET Time, run \in SUBSET Time, next \in 0..MaxTime :
              seen <= now /\ Materialized(seen, ticks, run, next)
  BY Materializing
<1>2. /\ UNCHANGED <<now, bound, made, sweep>> /\ schedule.status = "ACTIVE"
      /\ schedule.version \in Version /\ schedule \in ScheduleRow /\ now \in Int /\ seen \in Int
      /\ occurrence \in [Time -> OccurrenceRow]
  <2>1. seen \in Int
    BY Bounds
  <2>2. UNCHANGED <<now, bound, made, sweep>> /\ schedule.status = "ACTIVE"
    BY DEF MaterializeDue
  <2>3. occurrence \in [Time -> OccurrenceRow]
    BY DEF RecurringInv, RecurringTypeOK
  <2> QED
    BY <2>1, <2>2, <2>3, ScheduleTypes
<1> DEFINE Made == [status |-> "PENDING", version |-> schedule.version, attempts |-> 0]
           Skipped == [status |-> "SKIPPED", version |-> schedule.version, attempts |-> 0]
<1>4. PICK due \in Time : due = schedule.next /\ due <= now /\ ticks = MissedTicks(schedule.version, due, seen)
  BY <1>1 DEF Materialized
<1>3. \A t \in ticks : t = due \/ t <= seen
  BY <1>2, <1>4, TicksSeen
<1>5. \A t \in Time : t \in Int /\ t # 0
  BY Bounds DEF Time
<1>6. Made \in OccurrenceRow /\ Skipped \in OccurrenceRow
  <2>1. 0 \in 0..MaxAttempts
    BY Bounds
  <2> QED
    BY <1>2, <2>1 DEF OccurrenceRow, Terminal
<1>7. \A t \in Time : occurrence'[t] = IF t \in ticks THEN (IF t \in run THEN Made ELSE Skipped) ELSE occurrence[t]
  BY <1>1 DEF Materialized
<1>8. occurrence' \in [Time -> OccurrenceRow]
  BY <1>1, <1>2, <1>6, <1>7 DEF Materialized
<1>9. \A t \in Time : occurrence[t].status # "ABSENT" => t < due
  BY <1>2, <1>4 DEF RecurringInv, ScheduleInv
<1>10. \A t \in ticks : due <= t
  BY <1>2, <1>4, TicksSeen
<1>11. \A t \in Time : occurrence[t].status # "ABSENT" => occurrence'[t] = occurrence[t]
  <2> SUFFICES ASSUME NEW t \in Time, occurrence[t].status # "ABSENT" PROVE occurrence'[t] = occurrence[t]
    OBVIOUS
  <2>1. t < due
    BY <1>9
  <2>2. t \notin ticks
    BY <1>4, <1>5, <1>10, <2>1
  <2> QED
    BY <1>7, <2>2
<1>12. \A t \in Time : occurrence'[t].status # "ABSENT" => occurrence[t].status # "ABSENT" \/ t \in ticks
  BY <1>7
<1>13. \A t \in Time : RowInv(t)'
  <2> SUFFICES ASSUME NEW t \in Time PROVE RowInv(t)'
    OBVIOUS
  <2>1. CASE t \in ticks
    <3>1. occurrence[t].status = "ABSENT"
      BY <1>4, <1>5, <1>9, <1>10, <2>1
    <3>2. bound[t] = Nothing
      BY <3>1 DEF RecurringInv, RowInv
    <3>3. t <= now
      BY <1>1, <1>2, <1>3, <1>4, <1>5, <2>1
    <3>4. /\ occurrence'[t].status \in {"PENDING", "SKIPPED"} /\ occurrence'[t].attempts = 0
      BY <1>7, <2>1
    <3> QED
      BY <1>2, <3>2, <3>3, <3>4, Bounds DEF RecurringInv, RowInv
  <2>2. CASE t \notin ticks
    <3>1. occurrence'[t] = occurrence[t]
      BY <1>7, <2>2
    <3> QED
      BY <1>2, <3>1 DEF RecurringInv, RowInv
  <2> QED
    BY <2>1, <2>2
<1>14. \A q \in Sweep : Well(sweep[q])'
  <2> SUFFICES ASSUME NEW q \in Sweep PROVE Well(sweep[q])'
    OBVIOUS
  <2>1. Well(sweep[q]) /\ sweep[q] \in SweepState
    BY DEF RecurringInv, RecurringTypeOK
  <2>2. sweep[q].rows \subseteq Time
    BY <2>1 DEF SweepState
  <2> QED
    <3>1. sweep'[q] = sweep[q]
      BY <1>2
    <3>2. sweep[q].pc \in {"adapt", "bind", "failed"} => occurrence'[sweep[q].at].status # "ABSENT"
      BY <1>11, <2>1 DEF Well
    <3>3. \A t \in sweep[q].rows : occurrence'[t].status # "ABSENT"
      BY <1>11, <2>1, <2>2 DEF Well
    <3> QED
      BY <2>1, <3>1, <3>2, <3>3 DEF Well
<1>15. schedule' \in ScheduleRow /\ schedule'.next = next /\ schedule'.version = schedule.version
       /\ schedule'.status = IF next = 0 THEN "COMPLETED" ELSE "ACTIVE"
  BY <1>1, <1>2 DEF Materialized, ScheduleRow
<1>16. ScheduleInv'
  <2> SUFFICES ASSUME next # 0
               PROVE  /\ next \in Time
                      /\ Definition[schedule.version].every = 0 => next \in Definition[schedule.version].at
                      /\ \A t \in Time : occurrence'[t].status # "ABSENT" => t < next
    BY <1>15 DEF ScheduleInv
  <2>1. PICK ref \in 0..MaxTime : /\ next = NextOccurrence(schedule.version, ref)
                                  /\ due <= ref /\ seen <= ref /\ (ref = due \/ ref <= seen)
    BY <1>1, <1>4 DEF Materialized
  <2>2. ref \in Int
    BY Bounds
  <2>3. /\ next \in Time /\ next > ref
        /\ Definition[schedule.version].every = 0 => next \in Definition[schedule.version].at
    BY <1>2, <2>1, <2>2, NextOf
  <2>4. ASSUME NEW t \in Time, occurrence'[t].status # "ABSENT" PROVE t < next
    <3>1. CASE t \in ticks
      BY <1>2, <1>3, <1>4, <1>5, <2>1, <2>2, <2>3, <3>1
    <3>2. CASE t \notin ticks
      <4>1. t < due
        BY <1>9, <1>12, <2>4, <3>2
      <4> QED
        <5>1. due \in Int /\ t \in Int /\ next \in Int
          BY <1>5, <2>3
        <5> QED
          BY <2>1, <2>2, <2>3, <4>1, <5>1
    <3> QED
      BY <3>1, <3>2
  <2> QED
    BY <2>3, <2>4
<1> QED
  BY <1>2, <1>8, <1>11, <1>13, <1>14, <1>15, <1>16 DEF RecurringInv, RecurringTypeOK

-----------------------------------------------------------------------------
(* Phase 2, and the reconciliation. *)

\* No row appears and none goes.
SameRows == \A t \in Time : /\ (occurrence'[t].status = "ABSENT") = (occurrence[t].status = "ABSENT")
                            /\ occurrence'[t].version = occurrence[t].version

\* A step of a sweep, or of the reconciliation, which moves none.
LEMMA RowStep ==
    ASSUME RecurringInv, UNCHANGED <<now, schedule>>, SameRows,
           occurrence' \in [Time -> OccurrenceRow], bound' \in [Time -> {Nothing, MissionBinding} \cup Item],
           made' \in [Time -> 0..2], \A t \in Time : RowInv(t)',
           UNCHANGED sweep \/ \E s \in Sweep, w \in SweepState : SweepGoto(s, w) /\ Well(w)'
    PROVE  RecurringInv'
<1>1. ASSUME NEW w \in SweepState, Well(w) PROVE Well(w)'
  <2>1. w.rows \subseteq Time
    BY DEF SweepState
  <2> QED
    BY <1>1, <2>1 DEF Well, SameRows
<1>2. sweep \in [Sweep -> SweepState] /\ \A q \in Sweep : Well(sweep[q])
  BY DEF RecurringInv, RecurringTypeOK
<1>3. \A q \in Sweep : \E w \in SweepState : w = sweep[q] /\ Well(w)'
  BY <1>1, <1>2
<1>4. sweep' \in [Sweep -> SweepState] /\ \A q \in Sweep : Well(sweep[q])'
  <2>1. CASE UNCHANGED sweep
    BY <1>2, <1>3, <2>1
  <2>2. ASSUME NEW s \in Sweep, NEW w \in SweepState, SweepGoto(s, w), Well(w)'
        PROVE  sweep' \in [Sweep -> SweepState] /\ \A q \in Sweep : Well(sweep[q])'
    <3>1. sweep' = [sweep EXCEPT ![s] = w]
      BY <2>2 DEF SweepGoto
    <3>2. sweep' \in [Sweep -> SweepState] /\ \A q \in Sweep : sweep'[q] = IF q = s THEN w ELSE sweep[q]
      BY <1>2, <3>1
    <3>3. ASSUME NEW q \in Sweep PROVE Well(sweep[q])'
      <4>1. PICK x \in SweepState : x = sweep'[q] /\ Well(x)'
        BY <1>3, <2>2, <3>2
      <4> QED
        BY <4>1
    <3> QED
      BY <3>2, <3>3
  <2> QED
    BY <2>1, <2>2
<1>5. ScheduleInv'
  BY DEF RecurringInv, ScheduleInv, SameRows
<1> QED
  BY <1>4, <1>5 DEF RecurringInv, RecurringTypeOK

LEMMA SweepRows ==
    ASSUME NEW w \in SweepState, Well(w), NEW s \in Sweep, sweep[s] = w, SameRows
    PROVE  /\ Resting \in SweepState /\ Well(Resting)'
           /\ w.pc # "idle" => \E x \in SweepState : x = NextRow(s) /\ Well(x)'
           /\ w.pc \in {"adapt", "bind", "failed"} => \A pc \in {"bind", "failed"} :
                 [w EXCEPT !.pc = pc] \in SweepState /\ Well([w EXCEPT !.pc = pc])'
<1>0. 0 \in 0..MaxTime /\ 0 \in 0..MaxAttempts
  BY Bounds
<1>1. w.rows \subseteq Time
  BY DEF SweepState
<1>2. Well(w)'
  BY <1>1 DEF Well, SameRows
<1>3. Resting \in SweepState /\ Resting.rows = {} /\ Resting.pc = "idle"
  BY <1>0 DEF Resting, SweepState
<1>4. Well(Resting)'
  BY <1>3 DEF Well
<1>5. \E x \in SweepState : x = NextRow(s) /\ Well(x)'
  <2>1. CASE w.rows = {}
    BY <1>3, <1>4, <2>1 DEF NextRow
  <2>2. CASE w.rows # {}
    <3>1. PICK x \in SweepState : x = [w EXCEPT !.pc = "next", !.at = 0]
      BY <1>0 DEF SweepState
    <3>2. x.pc = "next" /\ x.rows = w.rows /\ x.copy = w.copy
      BY <3>1 DEF SweepState
    <3>3. x = NextRow(s)
      BY <2>2, <3>1 DEF NextRow
    <3>4. Well(x)'
      BY <1>2, <2>2, <3>2 DEF Well
    <3> QED
      BY <3>3, <3>4
  <2> QED
    BY <2>1, <2>2
<1>6. ASSUME w.pc \in {"adapt", "bind", "failed"}, NEW pc \in {"bind", "failed"}
      PROVE  [w EXCEPT !.pc = pc] \in SweepState /\ Well([w EXCEPT !.pc = pc])'
  <2>1. PICK x \in SweepState : x = [w EXCEPT !.pc = pc]
    BY DEF SweepState
  <2>2. x.pc = pc /\ x.rows = w.rows /\ x.copy = w.copy /\ x.at = w.at
    BY <2>1 DEF SweepState
  <2>3. Well(x)'
    BY <1>2, <1>6, <2>2 DEF Well
  <2> QED
    BY <2>1, <2>3
<1> QED
  BY <1>3, <1>4, <1>5, <1>6

LEMMA StatusSet ==
    ASSUME RecurringInv, NEW t \in Time,
           NEW new \in Terminal \cup {"PENDING", "WAITING", "DISPATCHING"}, SetStatus(t, new),
           occurrence[t].status # "ABSENT"
    PROVE  /\ occurrence' \in [Time -> OccurrenceRow] /\ SameRows
           /\ \A u \in Time : /\ occurrence'[u].status = IF u = t THEN new ELSE occurrence[u].status
                              /\ occurrence'[u].attempts = occurrence[u].attempts
<1>1. /\ occurrence \in [Time -> OccurrenceRow]
      /\ occurrence' = [occurrence EXCEPT ![t] = [occurrence[t] EXCEPT !.status = new]]
  BY DEF RecurringInv, RecurringTypeOK, SetStatus
<1>2. PICK row \in OccurrenceRow : row = [occurrence[t] EXCEPT !.status = new]
  BY <1>1 DEF OccurrenceRow
<1>3. row.status = new /\ row.version = occurrence[t].version /\ row.attempts = occurrence[t].attempts
  BY <1>1, <1>2 DEF OccurrenceRow
<1>4. occurrence' = [occurrence EXCEPT ![t] = row]
  BY <1>1, <1>2
<1>5. occurrence' \in [Time -> OccurrenceRow] /\ \A u \in Time : occurrence'[u] = IF u = t THEN row ELSE occurrence[u]
  BY <1>1, <1>4
<1>6. new # "ABSENT"
  BY DEF Terminal
<1> QED
  BY <1>3, <1>5, <1>6 DEF SameRows

LEMMA NoRowWritten == UNCHANGED occurrence => SameRows
BY DEF SameRows

LEMMA QuietSweep ==
    ASSUME RecurringInv, UNCHANGED <<now, schedule, occurrence, bound, made>>,
           \E s \in Sweep, w \in SweepState : SweepGoto(s, w) /\ Well(w)'
    PROVE  RecurringInv'
<1>1. SameRows
  BY NoRowWritten
<1>2. \A t \in Time : RowInv(t)'
  BY DEF RecurringInv, RowInv
<1> QED
  BY <1>1, <1>2, RowStep DEF RecurringInv, RecurringTypeOK

LEMMA SelectStep ==
    ASSUME RecurringInv, NEW s \in Sweep, SelectPending(s)
    PROVE  RecurringInv'
<1>1. UNCHANGED <<now, schedule, occurrence, bound, made>> /\ Selectable # {}
  BY DEF SelectPending
<1>2. 0 \in 0..MaxTime /\ 0 \in 0..MaxAttempts /\ \A t \in Time : occurrence[t].attempts \in 0..MaxAttempts
  BY Bounds DEF RecurringInv, RecurringTypeOK, OccurrenceRow
<1>3. PICK rows \in SUBSET Time : rows = Selectable
  BY DEF Selectable
<1>4. \A t \in rows : occurrence[t].status = "PENDING" /\ occurrence[t].attempts < MaxAttempts
  BY <1>3 DEF Selectable, RecurringInv, RowInv
<1>5. PICK copy \in [Time -> 0..MaxAttempts] : copy = [t \in Time |-> IF t \in rows THEN occurrence[t].attempts ELSE 0]
  BY <1>2
<1>6. PICK w \in SweepState : w = [pc |-> "next", rows |-> rows, at |-> 0, fresh |-> TRUE, copy |-> copy]
  BY <1>2 DEF SweepState
<1>7. SweepGoto(s, w)
  BY <1>3, <1>5, <1>6 DEF SelectPending
<1>8. \A t \in rows : w.copy[t] < MaxAttempts /\ occurrence'[t].status # "ABSENT"
  BY <1>1, <1>4, <1>5, <1>6
<1>9. Well(w)'
  BY <1>1, <1>3, <1>6, <1>8 DEF Well
<1> QED
  BY <1>1, <1>7, <1>9, QuietSweep

LEMMA MarkStep ==
    ASSUME RecurringInv, NEW s \in Sweep, Mark(s)
    PROVE  RecurringInv' /\ SameRows
<1>1. UNCHANGED <<now, schedule, bound, made>>
  BY DEF Mark
<1>2. PICK w \in SweepState : w = sweep[s] /\ Well(w) /\ w.pc = "next"
  BY DEF Mark, RecurringInv, RecurringTypeOK
<1>3. w.rows # {} /\ w.rows \in SUBSET Time /\ Time \subseteq Nat
  BY <1>2, Bounds DEF Well, SweepState, Time
<1>4. PICK t \in w.rows : t = Min(w.rows)
  BY <1>3, MinOf
<1>5. t \in Time /\ w.copy[t] < MaxAttempts /\ w.copy[t] \in 0..MaxAttempts /\ occurrence[t].status # "ABSENT"
  BY <1>2, <1>3, <1>4 DEF Well, SweepState
<1>6. PICK n \in 0..MaxAttempts : n = w.copy[t] + 1
  BY <1>5, Bounds
<1>7. /\ occurrence' = [occurrence EXCEPT ![t].status = "DISPATCHING", ![t].attempts = n]
      /\ SweepGoto(s, [w EXCEPT !.pc = "adapt", !.at = t, !.rows = @ \ {t}, !.copy[t] = 0, !.fresh = FALSE])
  BY <1>2, <1>4, <1>6 DEF Mark
<1>8. occurrence \in [Time -> OccurrenceRow] /\ occurrence[t] \in OccurrenceRow
  BY <1>5 DEF RecurringInv, RecurringTypeOK
<1>9. PICK row \in OccurrenceRow : row = [occurrence[t] EXCEPT !.status = "DISPATCHING", !.attempts = n]
  BY <1>8 DEF OccurrenceRow
<1>10. row.status = "DISPATCHING" /\ row.version = occurrence[t].version
  BY <1>8, <1>9 DEF OccurrenceRow
<1>11. occurrence' = [occurrence EXCEPT ![t] = row]
  BY <1>5, <1>7, <1>8, <1>9
<1>12. occurrence' \in [Time -> OccurrenceRow] /\ \A u \in Time : occurrence'[u] = IF u = t THEN row ELSE occurrence[u]
  BY <1>8, <1>11
<1>13. SameRows
  BY <1>5, <1>10, <1>12 DEF SameRows
<1>14. \A u \in Time : RowInv(u)'
  BY <1>1, <1>5, <1>10, <1>12 DEF RecurringInv, RowInv
<1>15. [w.copy EXCEPT ![t] = 0] \in [Time -> 0..MaxAttempts] /\ 0 < MaxAttempts
  BY <1>2, <1>5, Bounds DEF SweepState
<1>16. PICK copy \in [Time -> 0..MaxAttempts] : copy = [w.copy EXCEPT ![t] = 0]
  BY <1>15
<1>17. PICK x \in SweepState : x = [w EXCEPT !.pc = "adapt", !.at = t, !.rows = w.rows \ {t}, !.copy = copy, !.fresh = FALSE]
  <2>1. w.rows \ {t} \in SUBSET Time /\ t \in 0..MaxTime
    BY <1>3, <1>5, Bounds DEF Time
  <2> QED
    BY <2>1 DEF SweepState
<1>18. SweepGoto(s, x)
  BY <1>7, <1>16, <1>17
<1>19. x.pc = "adapt" /\ x.at = t /\ x.rows = w.rows \ {t} /\ x.copy = copy
  BY <1>17 DEF SweepState
<1>20. \A u \in w.rows \ {t} : copy[u] < MaxAttempts /\ occurrence'[u].status # "ABSENT"
  BY <1>2, <1>3, <1>12, <1>16 DEF Well, SweepState
<1>21. Well(x)'
  BY <1>5, <1>10, <1>12, <1>19, <1>20 DEF Well
<1> QED
  BY <1>1, <1>12, <1>13, <1>14, <1>18, <1>21, RowStep DEF RecurringInv, RecurringTypeOK

LEMMA CheckStep ==
    ASSUME RecurringInv, NEW s \in Sweep, CheckBinding(s) \/ AdapterRaises(s) \/ SweepDies(s)
    PROVE  RecurringInv'
<1>1. UNCHANGED <<now, schedule, occurrence, bound, made>>
  BY DEF CheckBinding, AdapterRaises, SweepDies
<1>2. PICK w \in SweepState : w = sweep[s] /\ Well(w)
  BY DEF RecurringInv, RecurringTypeOK
<1>3. SameRows
  BY <1>1, NoRowWritten
<1>4. /\ Resting \in SweepState /\ Well(Resting)'
      /\ w.pc # "idle" => \E x \in SweepState : x = NextRow(s) /\ Well(x)'
      /\ w.pc \in {"adapt", "bind", "failed"} => \A pc \in {"bind", "failed"} :
            [w EXCEPT !.pc = pc] \in SweepState /\ Well([w EXCEPT !.pc = pc])'
  BY <1>2, <1>3, SweepRows
<1>5. \E x \in SweepState : SweepGoto(s, x) /\ Well(x)'
  <2>1. CASE CheckBinding(s)
    <3>1. w.pc = "adapt" /\ (SweepGoto(s, NextRow(s)) \/ SweepGoto(s, [w EXCEPT !.pc = "bind"]))
      BY <1>2, <2>1 DEF CheckBinding
    <3> QED
      BY <1>4, <3>1
  <2>2. CASE AdapterRaises(s)
    <3>1. w.pc = "bind" /\ SweepGoto(s, [w EXCEPT !.pc = "failed"])
      BY <1>2, <2>2 DEF AdapterRaises
    <3> QED
      BY <1>4, <3>1
  <2>3. CASE SweepDies(s)
    BY <1>4, <2>3 DEF SweepDies
  <2> QED
    BY <2>1, <2>2, <2>3
<1> QED
  BY <1>1, <1>5, QuietSweep

\* What the adapters bind was not bound, and no Mission was made for it.
LEMMA BindStep ==
    ASSUME CampaignInv, RecurringInv, NEW s \in Sweep, MakeMission(s) \/ AdmitItem(s)
    PROVE  RecurringInv' /\ SameRows
<1>1. PICK w \in SweepState : w = sweep[s] /\ Well(w) /\ w.pc = "bind"
  BY DEF RecurringInv, RecurringTypeOK, MakeMission, AdmitItem
<1>2. PICK t \in Time : t = w.at /\ occurrence[t].status # "ABSENT"
  BY <1>1 DEF Well
<1>3. /\ bound[t] = Nothing /\ SetStatus(t, "DISPATCHED") /\ SweepGoto(s, NextRow(s)) /\ UNCHANGED <<now, schedule>>
  BY <1>1, <1>2 DEF MakeMission, AdmitItem, Bindable
<1>4. /\ occurrence' \in [Time -> OccurrenceRow] /\ SameRows
      /\ \A u \in Time : /\ occurrence'[u].status = IF u = t THEN "DISPATCHED" ELSE occurrence[u].status
                         /\ occurrence'[u].attempts = occurrence[u].attempts
  <2>1. "DISPATCHED" \in Terminal \cup {"PENDING", "WAITING", "DISPATCHING"}
    BY DEF Terminal
  <2> QED
    BY <1>2, <1>3, <2>1, StatusSet
<1>5. \E b \in {MissionBinding} \cup Item : /\ bound' = [bound EXCEPT ![t] = b] /\ b # Nothing
                                            /\ made' \in {made, [made EXCEPT ![t] = made[t] + 1]}
  <2>1. CASE MakeMission(s)
    <3>1. MissionBinding # Nothing
      BY DEF MissionBinding, Nothing
    <3>2. bound' = [bound EXCEPT ![t] = MissionBinding] /\ made' = [made EXCEPT ![t] = made[t] + 1]
      BY <1>1, <1>2, <2>1 DEF MakeMission
    <3> QED
      BY <3>1, <3>2
  <2>2. CASE AdmitItem(s)
    <3>1. PICK i \in Item : i = Min(Reservable)
      BY <2>2, FirstReservable DEF AdmitItem
    <3>2. bound' = [bound EXCEPT ![t] = i] /\ UNCHANGED made
      BY <1>1, <1>2, <2>2, <3>1 DEF AdmitItem
    <3>3. i # Nothing
      BY CampaignAssumption DEF Item, Nothing
    <3> QED
      BY <3>2, <3>3
  <2> QED
    BY <2>1, <2>2
<1>6. PICK b \in {MissionBinding} \cup Item : /\ bound' = [bound EXCEPT ![t] = b] /\ b # Nothing
                                              /\ made' \in {made, [made EXCEPT ![t] = made[t] + 1]}
  BY <1>5
<1>7. /\ bound \in [Time -> {Nothing, MissionBinding} \cup Item] /\ made \in [Time -> 0..2]
      /\ \A u \in Time : RowInv(u)
  BY DEF RecurringInv, RecurringTypeOK
<1>8. bound' \in [Time -> {Nothing, MissionBinding} \cup Item] /\ \A u \in Time : bound'[u] = IF u = t THEN b ELSE bound[u]
  BY <1>6, <1>7
<1>9. made[t] = 0
  <2>1. made[t] \in 0..2 /\ made[t] <= 1 /\ made[t] # 1
    BY <1>3, <1>7 DEF RowInv
  <2> QED
    BY <2>1
<1>10. /\ made' \in [Time -> 0..2] /\ made'[t] \in {0, 1}
       /\ \A u \in Time : u # t => made'[u] = made[u]
  BY <1>6, <1>7, <1>9
<1>11. \A u \in Time : RowInv(u)'
  <2> SUFFICES ASSUME NEW u \in Time PROVE RowInv(u)'
    OBVIOUS
  <2>1. CASE u = t
    <3>1. RowInv(t)
      BY <1>7
    <3> QED
      BY <2>1, <3>1, <1>2, <1>3, <1>4, <1>6, <1>8, <1>10 DEF RowInv
  <2>2. CASE u # t
    BY <2>2, <1>3, <1>4, <1>7, <1>8, <1>10 DEF RowInv
  <2> QED
    BY <2>1, <2>2
<1>12. \E x \in SweepState : x = NextRow(s) /\ Well(x)'
  BY <1>1, <1>4, SweepRows
<1>13. \E x \in SweepState : SweepGoto(s, x) /\ Well(x)'
  BY <1>3, <1>12
<1> QED
  BY <1>3, <1>4, <1>8, <1>10, <1>11, <1>13, RowStep

LEMMA AfterFailureOf ==
    ASSUME RecurringInv, NEW t \in Time
    PROVE  /\ AfterFailure(t) \in {"PENDING", "FAILED"}
           /\ AfterFailure(t) = "PENDING" => occurrence[t].attempts < MaxAttempts
<1>1. occurrence[t].attempts \in 0..MaxAttempts /\ MaxAttempts \in Nat
  BY Bounds DEF RecurringInv, RecurringTypeOK, OccurrenceRow
<1> QED
  BY <1>1 DEF AfterFailure

\* A row that is set aside, or found bound.
LEMMA SetAside ==
    ASSUME RecurringInv, NEW t \in Time, NEW new \in {"PENDING", "WAITING", "SKIPPED", "FAILED", "DISPATCHED"},
           SetStatus(t, new), occurrence[t].status # "ABSENT",
           new = "PENDING" => occurrence[t].attempts < MaxAttempts, new = "DISPATCHED" => bound[t] # Nothing,
           UNCHANGED <<now, schedule, bound, made>>,
           SameRows => \/ UNCHANGED sweep
                       \/ \E s \in Sweep, w \in SweepState : SweepGoto(s, w) /\ Well(w)'
    PROVE  RecurringInv' /\ SameRows
<1>1. new \in Terminal \cup {"PENDING", "WAITING", "DISPATCHING"}
  BY DEF Terminal
<1>2. /\ occurrence' \in [Time -> OccurrenceRow] /\ SameRows
      /\ \A u \in Time : /\ occurrence'[u].status = IF u = t THEN new ELSE occurrence[u].status
                         /\ occurrence'[u].attempts = occurrence[u].attempts
  BY <1>1, StatusSet
<1>3. \A u \in Time : RowInv(u)'
  <2>1. UNCHANGED <<now, bound, made>>
    OBVIOUS
  <2> QED
    BY <1>2, <2>1 DEF RecurringInv, RowInv, SameRows
<1> QED
  BY <1>2, <1>3, RowStep DEF RecurringInv, RecurringTypeOK

LEMMA GiveUpStep ==
    ASSUME RecurringInv, NEW s \in Sweep, AdmitNothing(s) \/ HandleException(s)
    PROVE  RecurringInv' /\ SameRows
<1>1. PICK w \in SweepState : w = sweep[s] /\ Well(w) /\ w.pc \in {"bind", "failed"}
  BY DEF RecurringInv, RecurringTypeOK, AdmitNothing, HandleException
<1>2. PICK t \in Time : t = w.at /\ occurrence[t].status # "ABSENT"
  BY <1>1 DEF Well
<1>3. SweepGoto(s, NextRow(s)) /\ UNCHANGED <<now, schedule, bound, made>>
  BY DEF AdmitNothing, HandleException
<1>4. SameRows => \E x \in SweepState : SweepGoto(s, x) /\ Well(x)'
  BY <1>1, <1>3, SweepRows
<1>5. PICK new \in {"PENDING", "WAITING", "SKIPPED", "FAILED"} :
         SetStatus(t, new) /\ (new = "PENDING" => occurrence[t].attempts < MaxAttempts)
  BY <1>1, <1>2, AfterFailureOf DEF AdmitNothing, HandleException
<1> QED
  BY <1>2, <1>3, <1>4, <1>5, SetAside

LEMMA RecoverStep ==
    ASSUME RecurringInv, NEW t \in Time, ExpireWait(t) \/ RecoverStale(t)
    PROVE  RecurringInv' /\ SameRows
<1>1. UNCHANGED <<now, schedule, bound, made, sweep>> /\ occurrence[t].status # "ABSENT"
  BY DEF ExpireWait, RecoverStale
<1>2. PICK new \in {"PENDING", "WAITING", "SKIPPED", "FAILED", "DISPATCHED"} :
         /\ SetStatus(t, new)
         /\ new = "PENDING" => occurrence[t].attempts < MaxAttempts
         /\ new = "DISPATCHED" => bound[t] # Nothing
  BY AfterFailureOf DEF ExpireWait, RecoverStale, Converged
<1> QED
  BY <1>1, <1>2, SetAside

-----------------------------------------------------------------------------
(* The schedule and its campaign. *)

LEMMA CampaignQuiet ==
    ASSUME CampaignInv, UNCHANGED campaignVars
    PROVE  CampaignInv' /\ (EndInv => EndInv')
<1>1. UNCHANGED <<status, item, mission, caller, lock>>
  BY DEF campaignVars
<1> QED
  BY <1>1 DEF CampaignInv, CampaignTypeOK, EndInv

LEMMA AdmitCampaign ==
    ASSUME CampaignInv, NEW s \in Sweep, AdmitItem(s)
    PROVE  CampaignInv' /\ (EndInv => EndInv')
<1>1. PICK i \in Item : i = Min(Reservable)
  BY FirstReservable DEF AdmitItem
<1>2. /\ item' = Enter({i}, "MATERIALIZED") /\ mission' = [mission EXCEPT ![i] = "RUNNING"]
      /\ status = "RUNNING" /\ UNCHANGED <<status, caller, lock>>
  BY <1>1 DEF AdmitItem
<1>3. item' \in [Item -> ItemRow]
  <2>1. {i} \in SUBSET Item
    OBVIOUS
  <2> QED
    BY <1>2, <2>1, Entered DEF CampaignInv
<1>4. mission' \in [Item -> {"NONE"} \cup MissionActive \cup MissionEnded]
  BY <1>2 DEF CampaignInv, CampaignTypeOK, MissionActive
<1>5. status' \notin Ended
  BY <1>2 DEF Ended, Finished
<1> QED
  BY <1>2, <1>3, <1>4, <1>5 DEF CampaignInv, CampaignTypeOK, EndInv

\* The rows that a schedule has made stay, and stay of the version that made them.
LEMMA Step ==
    ASSUME IndInv, Next
    PROVE  /\ IndInv'
           /\ \A t \in Time : occurrence[t].status # "ABSENT" =>
                 occurrence'[t].status # "ABSENT" /\ occurrence'[t].version = occurrence[t].version
<1> DEFINE Kept == \A t \in Time : occurrence[t].status # "ABSENT" =>
                       occurrence'[t].status # "ABSENT" /\ occurrence'[t].version = occurrence[t].version
<1>1. SameRows => Kept
  BY DEF SameRows
<1>2. UNCHANGED occurrence => Kept
  OBVIOUS
<1>3. UNCHANGED campaignVars => CampaignInv' /\ (OneCaller => EndInv')
  BY CampaignQuiet DEF IndInv
<1> HIDE DEF Kept
<1>4. CASE CampaignNext /\ UNCHANGED recurringVars
  <2>1. UNCHANGED <<now, schedule, occurrence, bound, made, sweep>>
    BY <1>4 DEF recurringVars
  <2>2. RecurringInv'
    BY <2>1 DEF IndInv, RecurringInv, RecurringTypeOK, RowInv, Well, ScheduleInv
  <2>3. CampaignInv' /\ (OneCaller => EndInv')
    BY <1>4, CampaignStep DEF IndInv
  <2> QED
    BY <1>2, <2>1, <2>2, <2>3 DEF IndInv, Kept
<1>5. CASE Tick \/ Activate \/ PauseSchedule \/ CancelSchedule \/ Edit
  <2>1. UNCHANGED campaignVars /\ UNCHANGED occurrence
    BY <1>5 DEF Tick, Activate, PauseSchedule, CancelSchedule, Edit
  <2>2. RecurringInv'
    BY <1>5, TickStep, ScheduleStep DEF IndInv
  <2> QED
    BY <1>2, <1>3, <2>1, <2>2 DEF IndInv, Kept
<1>6. CASE MaterializeDue
  <2>1. UNCHANGED campaignVars
    BY <1>6 DEF MaterializeDue
  <2>2. /\ RecurringInv'
        /\ \A t \in Time : occurrence[t].status # "ABSENT" => occurrence'[t] = occurrence[t]
    BY <1>6, MaterializeDueStep DEF IndInv
  <2> QED
    BY <1>3, <2>1, <2>2 DEF IndInv, Kept
<1>7. ASSUME NEW s \in Sweep, SelectPending(s) \/ CheckBinding(s) \/ AdapterRaises(s) \/ SweepDies(s)
      PROVE  IndInv' /\ Kept
  <2>1. UNCHANGED campaignVars /\ UNCHANGED occurrence
    BY <1>7 DEF SelectPending, CheckBinding, AdapterRaises, SweepDies
  <2>2. RecurringInv'
    BY <1>7, SelectStep, CheckStep DEF IndInv
  <2> QED
    BY <1>2, <1>3, <2>1, <2>2 DEF IndInv
<1>8. ASSUME NEW s \in Sweep, Mark(s) \/ MakeMission(s) \/ AdmitNothing(s) \/ HandleException(s)
      PROVE  IndInv' /\ Kept
  <2>1. UNCHANGED campaignVars
    BY <1>8 DEF Mark, MakeMission, AdmitNothing, HandleException
  <2>2. RecurringInv' /\ SameRows
    BY <1>8, MarkStep, BindStep, GiveUpStep DEF IndInv
  <2> QED
    BY <1>1, <1>3, <2>1, <2>2 DEF IndInv
<1>9. ASSUME NEW s \in Sweep, AdmitItem(s) PROVE IndInv' /\ Kept
  BY <1>1, <1>9, AdmitCampaign, BindStep DEF IndInv
<1>10. ASSUME NEW t \in Time, ExpireWait(t) \/ RecoverStale(t) PROVE IndInv' /\ Kept
  <2>1. UNCHANGED campaignVars
    BY <1>10 DEF ExpireWait, RecoverStale
  <2>2. RecurringInv' /\ SameRows
    BY <1>10, RecoverStep DEF IndInv
  <2> QED
    BY <1>1, <1>3, <2>1, <2>2 DEF IndInv
<1> QED
  BY <1>4, <1>5, <1>6, <1>7, <1>8, <1>9, <1>10 DEF Next, Dispatch, Kept

LEMMA Start == Init => IndInv
<1> SUFFICES ASSUME Init PROVE IndInv
  OBVIOUS
<1>1. 0 \in 0..MaxTime /\ 0 \in 0..MaxAttempts /\ 0 \in 0..MaxItems /\ 0 \in 0..MaxTries /\ 1 \in Version
  BY Bounds, CampaignAssumption, RecurringAssumption DEF Version
<1>2. CampaignInv
  <2>1. caller \in [Caller -> CallerState] /\ \A c \in Caller : caller[c] = Idle
    BY <1>1 DEF Init, CampaignInit, Idle, CallerState
  <2>2. CampaignTypeOK
    BY <1>1, <2>1 DEF Init, CampaignInit, CampaignTypeOK, Statuses, ItemRow
  <2> QED
    BY <2>1, <2>2 DEF CampaignInv, Placed, Idle
<1>3. RecurringTypeOK
  <2>1. NoOccurrence \in OccurrenceRow
    BY <1>1 DEF NoOccurrence, OccurrenceRow, Terminal
  <2>2. Resting \in SweepState
    BY <1>1 DEF Resting, SweepState
  <2>3. schedule \in ScheduleRow
    BY <1>1 DEF Init, RecurringInit, ScheduleRow
  <2> QED
    BY <1>1, <2>1, <2>2, <2>3 DEF Init, RecurringInit, RecurringTypeOK
<1>4. \A t \in Time : RowInv(t)
  BY DEF Init, RecurringInit, RowInv, NoOccurrence, Nothing
<1>5. \A q \in Sweep : Well(sweep[q])
  BY DEF Init, RecurringInit, Well, Resting
<1>6. ScheduleInv /\ EndInv
  BY DEF Init, RecurringInit, CampaignInit, ScheduleInv, EndInv, Ended, Finished
<1> QED
  BY <1>2, <1>3, <1>4, <1>5, <1>6 DEF IndInv, RecurringInv

\* The invariant holds in every reachable state, and every step keeps the rows.
THEOREM Inductive == Spec => []IndInv
<1>1. IndInv /\ [Next]_vars => IndInv'
  <2> SUFFICES ASSUME IndInv, [Next]_vars PROVE IndInv'
    OBVIOUS
  <2>1. CASE Next
    BY <2>1, Step
  <2>2. CASE UNCHANGED vars
    <3>1. UNCHANGED campaignVars /\ UNCHANGED <<now, schedule, occurrence, bound, made, sweep>>
      BY <2>2 DEF vars, recurringVars
    <3>2. RecurringInv'
      BY <3>1 DEF IndInv, RecurringInv, RecurringTypeOK, RowInv, Well, ScheduleInv
    <3> QED
      BY <3>1, <3>2, CampaignQuiet DEF IndInv
  <2> QED
    BY <2>1, <2>2
<1> QED
  BY Start, <1>1, PTL DEF Spec

\* Every state of the campaign, of its schedule and of the sweeps is one that the
\* rows can hold: no sweep counts an attempt beyond scheduler_max_dispatch_attempts,
\* though it goes on from the attempts it once read (recurring/sweep).
THEOREM RecurringTypeCorrect == Spec => []TypeOK
<1>1. IndInv => TypeOK
  BY DEF IndInv, CampaignInv, RecurringInv, TypeOK
<1> QED
  BY <1>1, Inductive, PTL

\* An occurrence takes effect at most once and is called DISPATCHED only after it
\* did, for every number of sweeps that hold its row, die, or are recovered.
THEOREM OccurrenceEffectOnce == Spec => []OccurrenceOnce
<1>1. IndInv => OccurrenceOnce
  BY DEF IndInv, RecurringInv, RowInv, OccurrenceOnce
<1> QED
  BY <1>1, Inductive, PTL

\* With one reconciler or cancel call at a time, which nothing in the code asks
\* for, a result is final, whatever the sweeps of the schedule admit beside it.
THEOREM FinalizedStaysOver ==
    ASSUME \A c, d \in Caller : c = d
    PROVE  Spec => []FinalizedIsOver
<1>1. OneCaller
  BY DEF OneCaller
<1>2. IndInv => FinalizedIsOver
  BY <1>1 DEF IndInv, EndInv, Ended, FinalizedIsOver, MissionActive
<1> QED
  BY <1>2, Inductive, PTL

\* A row is made once: no materialization writes over a row, though an operator
\* pauses, resumes and edits the schedule and the sweeps read an older clock.
RowsStay ==
    [][\A t \in Time : occurrence[t].status # "ABSENT" =>
          occurrence'[t].status # "ABSENT" /\ occurrence'[t].version = occurrence[t].version]_vars

THEOREM OccurrenceMadeOnce == Spec => RowsStay
<1>1. IndInv /\ [Next]_vars => [\A t \in Time : occurrence[t].status # "ABSENT" =>
          occurrence'[t].status # "ABSENT" /\ occurrence'[t].version = occurrence[t].version]_vars
  BY Step
<1> QED
  BY <1>1, Inductive, PTL DEF Spec, RowsStay

-----------------------------------------------------------------------------
(* No time of a cron expression is passed over. *)

\* From the one that is due the walk visits the times in order: one that it left
\* out comes after all it visited, which are then MaxBacklog others.
LEMMA AllVisited ==
    ASSUME NEW v \in Version, Definition[v].every = 0,
           NEW due \in Time, due \in Definition[v].at, NEW seen \in Int,
           NEW S \in SUBSET Definition[v].at, Cardinality(S) <= MaxBacklog,
           NEW t \in S, t <= seen \/ t = due, due <= t,
           \A u \in Definition[v].at : due <= u /\ u <= t => u \in S
    PROVE  t \in MissedTicks(v, due, seen)
<1> DEFINE ticks == MissedTicks(v, due, seen)
<1>1. Definition[v].at \in SUBSET Time /\ Time \subseteq 1..MaxTime /\ MaxTime \in Nat
  BY RecurringAssumption, Bounds DEF Definitions, Time
<1>0. \A x \in Definition[v].at : x \in Time /\ x \in Int /\ x # 0
  <2>1. \A x \in 1..MaxTime : x \in Int /\ x # 0
    BY <1>1
  <2>2. \A x \in Definition[v].at : x \in Time
    BY <1>1
  <2>3. \A x \in Time : x \in 1..MaxTime
    BY <1>1
  <2> HIDE DEF ticks
  <2> QED
    BY <2>1, <2>2, <2>3
<1>2. due \in Time /\ due \in Int /\ t \in Time /\ t \in Int
  BY <1>0
<1>3. PICK f \in [1..MaxBacklog -> 0..MaxTime] :
              /\ f[1] = due
              /\ \A n \in 2..MaxBacklog : f[n] = IF f[n - 1] = 0 \/ NextOccurrence(v, f[n - 1]) > seen THEN 0
                                                 ELSE NextOccurrence(v, f[n - 1])
              /\ MissedTicks(v, due, seen) = {f[n] : n \in 1..MaxBacklog} \ {0}
  BY WalkOfTicks
<1>4. SUFFICES ASSUME t \notin MissedTicks(v, due, seen) PROVE FALSE
  OBVIOUS
<1>5. \A n \in 1..MaxBacklog : f[n] # t
  BY <1>2, <1>3, <1>4, Bounds DEF Time
<1>6. 1 \in 1..MaxBacklog /\ due # t /\ due < t /\ t <= seen
  <2>1. 1 \in 1..MaxBacklog
    BY Bounds
  <2>2. due # t
    BY <1>3, <1>5, <2>1
  <2> QED
    BY <1>2, <2>1, <2>2
<1>7. \A n \in 1..MaxBacklog : f[n] \in Definition[v].at /\ due <= f[n] /\ f[n] < t
  <2> DEFINE Bad == {n \in 1..MaxBacklog : ~(f[n] \in Definition[v].at /\ due <= f[n] /\ f[n] < t)}
  <2>1. SUFFICES ASSUME Bad # {} PROVE FALSE
    OBVIOUS
  <2>2. PICK n \in Bad : \A m \in Bad : n <= m
    <3>1. Bad \in SUBSET Nat
      BY Bounds
    <3> HIDE DEF Bad
    <3> QED
      BY <2>1, <3>1, MinOf
  <2>3. n # 1
    BY <1>2, <1>3, <1>6, <2>2
  <2>4. n \in 2..MaxBacklog /\ n - 1 \in 1..MaxBacklog /\ ~(n <= n - 1)
    BY <2>2, <2>3, Bounds
  <2>5. f[n - 1] \in Definition[v].at /\ due <= f[n - 1] /\ f[n - 1] < t
    BY <2>2, <2>4
  <2>6. f[n - 1] \in Int /\ f[n - 1] # 0
    BY <1>0, <2>5
  <2>7. PICK x \in Int : x = NextOccurrence(v, f[n - 1]) /\ x # 0 /\ x <= t /\ x \in Definition[v].at /\ x > f[n - 1]
    <3>1. NextOccurrence(v, f[n - 1]) # 0 /\ NextOccurrence(v, f[n - 1]) <= t
      BY <1>2, <2>5, <2>6, NextOf
    <3>2. NextOccurrence(v, f[n - 1]) \in Definition[v].at /\ NextOccurrence(v, f[n - 1]) > f[n - 1]
      BY <2>6, <3>1, NextOf
    <3>3. NextOccurrence(v, f[n - 1]) \in Int
      BY <1>0, <3>2
    <3> QED
      BY <3>1, <3>2, <3>3
  <2>8. f[n] = x
    <3>1. ~(x > seen)
      BY <1>2, <1>6, <2>7
    <3> QED
      BY <1>3, <2>4, <2>6, <2>7, <3>1
  <2>9. x # t
    BY <1>5, <2>2, <2>8
  <2>10. x < t /\ due <= x
    BY <1>2, <2>5, <2>6, <2>7, <2>9
  <2> QED
    BY <2>2, <2>7, <2>8, <2>10
<1>8. \A n \in 2..MaxBacklog : f[n - 1] < f[n]
  <2> SUFFICES ASSUME NEW n \in 2..MaxBacklog PROVE f[n - 1] < f[n]
    OBVIOUS
  <2>1. n - 1 \in 1..MaxBacklog /\ n \in 1..MaxBacklog
    BY Bounds
  <2>2. f[n] # 0 /\ f[n] \in Int /\ f[n - 1] \in Int
    BY <1>1, <1>7, <2>1
  <2>3. f[n] = NextOccurrence(v, f[n - 1])
    BY <1>3, <2>2
  <2> QED
    BY <2>2, <2>3, NextOf
<1>9. \A m, n \in 1..MaxBacklog : m < n => f[m] < f[n]
  <2> SUFFICES ASSUME NEW m \in 1..MaxBacklog, \E n \in 1..MaxBacklog : m < n /\ ~(f[m] < f[n]) PROVE FALSE
    OBVIOUS
  <2> DEFINE Bad == {n \in 1..MaxBacklog : m < n /\ ~(f[m] < f[n])}
  <2>1. PICK n \in Bad : \A k \in Bad : n <= k
    <3>1. Bad \in SUBSET Nat /\ Bad # {}
      BY Bounds
    <3> QED
      BY <3>1, MinOf
  <2>2. n \in 2..MaxBacklog /\ n - 1 \in 1..MaxBacklog /\ ~(n <= n - 1) /\ m <= n - 1
    BY <2>1, Bounds
  <2>3. f[n - 1] < f[n] /\ f[m] \in Int /\ f[n] \in Int /\ f[n - 1] \in Int
    BY <1>1, <1>7, <1>8, <2>1, <2>2
  <2>4. CASE m = n - 1
    BY <2>1, <2>3, <2>4
  <2>5. CASE m # n - 1
    <3>1. m < n - 1
      BY <2>2, <2>5, Bounds
    <3>2. f[m] < f[n - 1]
      BY <2>1, <2>2, <3>1
    <3> QED
      BY <2>1, <2>3, <3>2
  <2> QED
    BY <2>4, <2>5
<1>10. IsFiniteSet(S) /\ Cardinality(S) \in Nat
  <2>1. IsFiniteSet(1..MaxTime)
    BY <1>1, FS_Interval
  <2>2. S \in SUBSET (1..MaxTime)
    BY <1>1
  <2> QED
    BY <2>1, <2>2, FS_Subset, FS_CardinalityType
<1>11. IsFiniteSet(S \ {t}) /\ Cardinality(S \ {t}) < MaxBacklog
  <2>1. IsFiniteSet(S \ {t}) /\ Cardinality(S \ {t}) = Cardinality(S) - 1
    BY <1>10, FS_RemoveElement
  <2> QED
    BY <1>10, <2>1, Bounds
<1>12. IsFiniteSet(1..MaxBacklog) /\ Cardinality(1..MaxBacklog) = MaxBacklog
  BY Bounds, FS_Interval
<1>13. f \in [1..MaxBacklog -> S \ {t}]
  <2>1. \A n \in 1..MaxBacklog : f[n] \in S \ {t}
    <3> SUFFICES ASSUME NEW n \in 1..MaxBacklog PROVE f[n] \in S \ {t}
      OBVIOUS
    <3>1. f[n] \in Definition[v].at /\ due <= f[n] /\ f[n] < t /\ f[n] \in Int
      BY <1>1, <1>7
    <3> QED
      BY <1>2, <3>1
  <2> QED
    BY <2>1
<1>14. PICK m, n \in 1..MaxBacklog : m # n /\ f[m] = f[n]
  <2>1. Cardinality(S \ {t}) < Cardinality(1..MaxBacklog)
    BY <1>11, <1>12
  <2> DEFINE A == 1..MaxBacklog
             T == S \ {t}
  <2>2. IsFiniteSet(A) /\ IsFiniteSet(T) /\ Cardinality(T) < Cardinality(A) /\ f \in [A -> T]
    BY <1>11, <1>12, <1>13, <2>1
  <2> HIDE DEF A, T
  <2>3. \E m, n \in A : m # n /\ f[m] = f[n]
    BY <2>2, FS_PigeonHole
  <2> QED
    BY <2>3 DEF A
<1>15. m \in Int /\ n \in Int /\ f[m] \in Int /\ (m < n \/ n < m)
  BY <1>14, Bounds
<1> QED
  BY <1>9, <1>14, <1>15

LEMMA NothingPassed ==
    ASSUME IndInv, MaterializeDue, MovesOn, Cardinality(Passed) <= MaxBacklog
    PROVE  \A t \in Passed : occurrence'[t].status # "ABSENT"
<1>1. PICK seen \in 0..MaxTime, ticks \in SUBSET Time, run \in SUBSET Time, next \in 0..MaxTime :
              seen <= now /\ Materialized(seen, ticks, run, next)
  BY Materializing DEF IndInv
<1>2. schedule.version \in Version /\ schedule \in ScheduleRow
  BY ScheduleTypes DEF IndInv
<1>3. PICK v \in Version : v = schedule.version /\ Definition[v].every = 0
  BY <1>2 DEF MovesOn
<1>4. PICK due \in Definition[v].at : due = schedule.next /\ due \in Time
  BY <1>1, <1>3 DEF MovesOn, IndInv, RecurringInv, ScheduleInv, Materialized
<1>5. schedule'.next = next
  BY <1>1, <1>2 DEF Materialized, ScheduleRow
<1>6. Passed = {t \in Definition[v].at : due <= t /\ (t < next \/ next = 0)}
  BY <1>3, <1>4, <1>5 DEF Passed
<1>7. Definition[v].at \subseteq Time /\ \A t \in Time : t \in Int /\ t # 0
  BY RecurringAssumption, Bounds DEF Definitions, Time
<1>8. PICK ref \in 0..MaxTime : next = NextOccurrence(v, ref) /\ due <= ref /\ (ref = due \/ ref <= seen)
  BY <1>1, <1>3, <1>4 DEF Materialized
<1>9. ref \in Int /\ seen \in Int /\ due \in Int /\ next \in Int
  BY <1>7, Bounds
<1>10. ASSUME NEW t \in Passed PROVE t \in ticks
  <2>1. t \in Definition[v].at /\ due <= t /\ (t < next \/ next = 0) /\ t \in Int
    BY <1>6, <1>7
  <2>2. t <= ref
    <3>1. t > ref => next # 0 /\ next <= t
      BY <1>3, <1>8, <1>9, <2>1, NextOf
    <3> QED
      BY <1>9, <2>1, <3>1
  <2>3. t <= seen \/ t = due
    BY <1>8, <1>9, <2>1, <2>2
  <2>4. \A u \in Definition[v].at : due <= u /\ u <= t => u \in Passed
    BY <1>6, <1>7, <1>9, <2>1
  <2>5. Passed \in SUBSET Definition[v].at
    BY <1>6
  <2>6. t \in MissedTicks(v, due, seen)
    <3>1. PICK S \in SUBSET Definition[v].at : S = Passed
      BY <2>5
    <3>2. Cardinality(S) <= MaxBacklog /\ t \in S /\ \A u \in Definition[v].at : due <= u /\ u <= t => u \in S
      BY <2>4, <3>1
    <3> QED
      BY <1>3, <1>4, <1>9, <2>1, <2>3, <3>2, AllVisited
  <2> QED
    BY <1>1, <1>3, <1>4, <2>6 DEF Materialized
<1>11. \A t \in ticks : occurrence'[t].status \in {"PENDING", "SKIPPED"}
  BY <1>1 DEF Materialized
<1> QED
  BY <1>10, <1>11

\* A cron schedule that moves on passes no time over, as long as no more than
\* MaxBacklog of them were missed, for every set of times and every clock reading.
THEOREM NoTickLost == Spec => TicksRecorded
<1>1. IndInv /\ [Next]_vars => [MovesOn /\ Cardinality(Passed) <= MaxBacklog
                               => \A t \in Passed : occurrence'[t].status # "ABSENT"]_vars
  <2> SUFFICES ASSUME IndInv, Next, MovesOn, Cardinality(Passed) <= MaxBacklog
               PROVE  \A t \in Passed : occurrence'[t].status # "ABSENT"
    OBVIOUS
  <2>1. schedule \in ScheduleRow /\ schedule.next \in Time /\ schedule.version \in Version
    BY ScheduleTypes DEF MovesOn, IndInv, RecurringInv, ScheduleInv
  <2>2. CASE UNCHANGED schedule
    <3>1. \A t \in Time : t \in Int /\ t # 0
      BY Bounds DEF Time
    <3>2. Definition[schedule.version].at \subseteq Time
      BY <2>1, RecurringAssumption DEF Definitions
    <3>3. Passed = {}
      BY <2>1, <2>2, <3>1, <3>2 DEF Passed
    <3> QED
      BY <3>3
  <2>3. CASE MaterializeDue
    BY <2>3, NothingPassed
  <2>4. CASE Activate \/ PauseSchedule \/ CancelSchedule \/ Edit
    <3>1. PICK n \in Int : n = schedule.version
      BY <2>1, RecurringAssumption DEF Version
    <3>2. Edit => schedule'.version = n + 1
      BY <2>1, <3>1 DEF Edit, ScheduleRow
    <3>3. ~(PauseSchedule \/ CancelSchedule \/ Activate)
      BY <2>1 DEF MovesOn, PauseSchedule, CancelSchedule, Activate, ScheduleRow
    <3> QED
      BY <2>4, <3>1, <3>2, <3>3 DEF MovesOn
  <2> QED
    BY <2>2, <2>3, <2>4 DEF Next, Dispatch, recurringVars, Tick, SelectPending, Mark, CheckBinding, MakeMission,
       AdmitItem, AdmitNothing, AdapterRaises, HandleException, SweepDies, ExpireWait, RecoverStale
<1> QED
  BY <1>1, Inductive, PTL DEF Spec, TicksRecorded
=============================================================================
