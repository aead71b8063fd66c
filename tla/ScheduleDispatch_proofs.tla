----------------------- MODULE ScheduleDispatch_proofs -----------------------
(***************************************************************************)
(* The safety of ScheduleDispatch for every number of tasks, slots,         *)
(* evaluations and relays, and every policy.                                *)
(***************************************************************************)
EXTENDS ScheduleDispatch, FiniteSetTheorems, WellFoundedInduction, TLAPS

-----------------------------------------------------------------------------
(* The inductive invariant. *)

\* What the allocator made for category c and is still live, and of that what is
\* in slot s.
LiveOf(c) == {r \in InState(Live) : reservation[r].allocated /\ Category(reservation[r].target) = c}
LiveAt(c, s) == {r \in LiveOf(c) : reservation[r].slot = s}

LimitInv == \A c \in Categories :
    /\ \A s \in Slot : Cardinality(LiveAt(c, s)) <= Limit
    /\ Cardinality(LiveOf(c)) <= DailyCap
    /\ \A r, n \in LiveOf(c) : r # n => ~Near(reservation[n].slot, reservation[r].slot)

\* What an evaluation has counted stays true until it inserts: only another
\* evaluation of the category could add to it, and that one waits for the lock.
Room(c, s) == /\ s \in Slot
              /\ Cardinality(LiveAt(c, s)) < Limit
              /\ Cardinality(LiveOf(c)) < DailyCap
              /\ \A r \in LiveOf(c) : ~Near(reservation[r].slot, s)

RoomInv == \A v \in Evaluator :
    evaluator[v].pc = "insert" => Room(Category(evaluator[v].target), evaluator[v].slot)

LockInv == \A v, w \in Evaluator :
    v # w /\ evaluator[v].pc = "insert" /\ evaluator[w].pc = "insert"
        => Category(evaluator[v].target) # Category(evaluator[w].target)

RelayInv == \A q \in Relay : relay[q].pc # "idle" => relay[q].row \in Rows

IndInv == TypeOK /\ LimitInv /\ RoomInv /\ LockInv /\ RelayInv

-----------------------------------------------------------------------------
(* Numbers. *)

LEMMA Bounds == /\ MaxReservations \in Nat /\ MaxSends \in Nat /\ MaxEpoch \in Nat /\ MaxQueue \in Nat
                /\ MaxFaults \in Nat /\ Limit \in Nat /\ DailyCap \in Nat /\ Gap \in Nat
                /\ 0 < MaxSends /\ 0 < MaxEpoch /\ 0 < Limit /\ 0 < DailyCap
                /\ \A s \in Slot : s \in Nat
  BY ScheduleAssumption

LEMMA LeastNumber ==
    ASSUME NEW S \in SUBSET Nat, S # {}
    PROVE  \E m \in S : \A n \in S : m <= n
<1> DEFINE R == OpToRel(<, Nat)
<1>1. IsWellFoundedOn(R, Nat)
  BY NatLessThanWellFounded
<1>2. \A m, n \in Nat : n < m => <<n, m>> \in R
  BY DEF OpToRel
<1> HIDE DEF R
<1>3. PICK m \in S : \A n \in S : ~(<<n, m>> \in R)
  BY <1>1, WFMin
<1>4. ASSUME NEW n \in S PROVE m <= n
  <2>1. m \in Nat /\ n \in Nat /\ ~(n < m)
    BY <1>2, <1>3
  <2> QED
    BY <2>1
<1> QED
  BY <1>4

LEMMA MinIn == ASSUME NEW S \in SUBSET Nat, S # {} PROVE Min(S) \in S
  BY LeastNumber DEF Min

LEMMA MaxIn ==
    ASSUME NEW n \in Nat, NEW S \in SUBSET (1..n), S # {}
    PROVE  Max(S) \in S
<1> DEFINE Above == {u \in Nat : \A x \in S : x <= u}
<1>1. n \in Above
  OBVIOUS
<1>2. PICK u \in Above : \A m \in Above : u <= m
  BY <1>1, LeastNumber
<1>3. u \in S
  <2> SUFFICES ASSUME u \notin S PROVE FALSE
    OBVIOUS
  <2>1. PICK x \in S : TRUE
    OBVIOUS
  <2>2. x \in 1..n /\ x <= u /\ u \in Nat
    BY <1>2, <2>1
  <2>3. u - 1 \in Nat
    BY <2>2
  <2>4. \A y \in S : y <= u - 1
    BY <1>2
  <2> QED
    BY <1>2, <2>2, <2>3, <2>4
<1>4. \A y \in S : u >= y
  BY <1>2
<1> QED
  BY <1>3, <1>4 DEF Max

LEMMA OneMoreType ==
    ASSUME NEW n \in 0..MaxSends PROVE OneMore(n) \in 0..MaxSends
<1>1. {n + 1, MaxSends} \in SUBSET Nat
  BY Bounds
<1>2. PICK m \in {n + 1, MaxSends} : m = OneMore(n)
  BY <1>1, MinIn DEF OneMore
<1>3. \E x \in {n + 1, MaxSends} : \A y \in {n + 1, MaxSends} : x <= y
  BY <1>1, LeastNumber
<1>4. OneMore(n) <= MaxSends
  BY <1>3 DEF OneMore, Min
<1> QED
  BY <1>1, <1>2, <1>4, Bounds

-----------------------------------------------------------------------------
(* Reservations. *)

LEMMA RowTypes ==
    ASSUME TypeOK
    PROVE  /\ Rows = 1..Len(reservation) /\ Len(reservation) \in Nat /\ Rows \subseteq 1..MaxReservations
           /\ IsFiniteSet(Rows)
           /\ \A r \in Rows : reservation[r] \in Reservation
<1>1. reservation \in Seq(Reservation) /\ Len(reservation) <= MaxReservations
  BY DEF TypeOK
<1>2. Rows = 1..Len(reservation) /\ Len(reservation) \in Nat
  BY <1>1 DEF Rows
<1>3. IsFiniteSet(1..Len(reservation))
  BY <1>2, FS_Interval
<1>4. 1..Len(reservation) \subseteq 1..MaxReservations
  BY <1>1, <1>2, Bounds
<1>5. \A r \in Rows : reservation[r] \in Reservation
  BY <1>1, <1>2
<1> QED
  BY <1>2, <1>3, <1>4, <1>5

\* The rows after a step: none is gone, and what is live and made by the allocator
\* was so before.
Shrinks == \A r \in DOMAIN reservation' :
    reservation'[r].state \in Live /\ reservation'[r].allocated
        => /\ r \in Rows /\ reservation[r].state \in Live /\ reservation[r].allocated
           /\ reservation'[r].target = reservation[r].target
           /\ reservation'[r].slot = reservation[r].slot

\* Which rows have been dispatched, by their outbox rows.
Dispatched == \A r \in InState({"DISPATCHING", "CONSUMED"}) : outbox[r].status # "NONE"

RowsOK == reservation \in Seq(Reservation) /\ Len(reservation) <= MaxReservations /\ Dispatched

LEMMA OneRow ==
    ASSUME TypeOK, NEW r \in Rows, NEW row \in Reservation,
           reservation' = [reservation EXCEPT ![r] = row],
           row.state \in Live /\ row.allocated
               => /\ reservation[r].state \in Live /\ reservation[r].allocated
                  /\ row.target = reservation[r].target /\ row.slot = reservation[r].slot,
           \A n \in 1..MaxReservations : outbox[n].status # "NONE" => outbox'[n].status # "NONE",
           row.state \in {"DISPATCHING", "CONSUMED"} => outbox'[r].status # "NONE"
    PROVE  RowsOK' /\ Shrinks /\ Rows' = Rows
<1>1. reservation \in Seq(Reservation) /\ Len(reservation) <= MaxReservations /\ r \in 1..Len(reservation)
  BY RowTypes DEF TypeOK
<1>2. reservation' \in Seq(Reservation) /\ Len(reservation') = Len(reservation)
  BY <1>1
<1>3. DOMAIN reservation' = Rows /\ reservation'[r] = row
      /\ \A n \in Rows \ {r} : reservation'[n] = reservation[n]
  BY <1>1 DEF Rows
<1>4. Dispatched'
  <2> SUFFICES ASSUME NEW n \in DOMAIN reservation', reservation'[n].state \in {"DISPATCHING", "CONSUMED"}
               PROVE  outbox'[n].status # "NONE"
    BY DEF Dispatched, InState, Rows
  <2>1. CASE n = r
    BY <1>3, <2>1
  <2>2. CASE n # r
    <3>1. n \in Rows /\ reservation[n].state \in {"DISPATCHING", "CONSUMED"}
      BY <1>3, <2>2
    <3>2. outbox[n].status # "NONE"
      BY <3>1 DEF TypeOK, InState
    <3> QED
      BY <3>1, <3>2, RowTypes
  <2> QED
    BY <2>1, <2>2
<1>5. Shrinks
  BY <1>3 DEF Shrinks
<1> QED
  BY <1>1, <1>2, <1>3, <1>4, <1>5 DEF RowsOK, Rows

LEMMA NewRow ==
    ASSUME TypeOK, Len(reservation) < MaxReservations, NEW row \in Reservation,
           NEW rows, rows \in Seq(Reservation), Len(rows) = Len(reservation),
           reservation' = Append(rows, row), outbox' = outbox,
           \A n \in Rows : rows[n].state \in {"DISPATCHING", "CONSUMED"} => rows[n] = reservation[n],
           row.state = "ACTIVE"
    PROVE  /\ RowsOK' /\ Rows \subseteq Rows'
           /\ DOMAIN reservation' = Rows \cup {Len(reservation) + 1} /\ Len(reservation) + 1 \notin Rows
           /\ reservation'[Len(reservation) + 1] = row
           /\ \A n \in Rows : reservation'[n] = rows[n]
<1>1. Rows = 1..Len(reservation) /\ Len(reservation) \in Nat
  BY RowTypes
<1>2. /\ reservation' \in Seq(Reservation) /\ Len(reservation') = Len(reservation) + 1
      /\ DOMAIN reservation' = 1..(Len(reservation) + 1)
      /\ reservation'[Len(reservation) + 1] = row
      /\ \A n \in 1..Len(reservation) : reservation'[n] = rows[n]
  BY <1>1
<1>3. 1..(Len(reservation) + 1) = 1..Len(reservation) \cup {Len(reservation) + 1}
      /\ Len(reservation) + 1 \notin 1..Len(reservation)
  BY <1>1
<1>4. Dispatched'
  <2> SUFFICES ASSUME NEW n \in DOMAIN reservation', reservation'[n].state \in {"DISPATCHING", "CONSUMED"}
               PROVE  outbox'[n].status # "NONE"
    BY DEF Dispatched, InState, Rows
  <2>1. n \in Rows
    BY <1>1, <1>2, <1>3
  <2>2. rows[n].state \in {"DISPATCHING", "CONSUMED"}
    BY <1>1, <1>2, <2>1
  <2>3. reservation[n].state \in {"DISPATCHING", "CONSUMED"}
    BY <2>1, <2>2
  <2> QED
    BY <2>1, <2>3 DEF TypeOK, InState
<1>5. Len(reservation') <= MaxReservations
  BY <1>1, <1>2, Bounds
<1> QED
  BY <1>1, <1>2, <1>3, <1>4, <1>5 DEF RowsOK, Rows

Closed(row) == [target |-> row.target, kind |-> "TASK", slot |-> Min(Slot), epoch |-> 1, current |-> FALSE,
                named |-> FALSE, allocated |-> FALSE, state |-> "CLOSED"]

LEMMA ClosedRow ==
    ASSUME TypeOK, NEW r \in Rows
    PROVE  /\ Closed(reservation[r]) \in Reservation
           /\ Without(r) = [reservation EXCEPT ![r] = Closed(reservation[r])]
<1>1. reservation[r].slot \in Slot /\ reservation[r].target \in Target
  BY RowTypes DEF Reservation
<1>2. Min(Slot) \in Slot
  BY <1>1, MinIn, ScheduleAssumption
<1>3. 1 \in Epoch
  BY Bounds DEF Epoch
<1>4. Closed(reservation[r]) \in Reservation
  BY <1>1, <1>2, <1>3 DEF Closed, Reservation
<1> QED
  BY <1>4 DEF Without, Closed

LEMMA CloseStep ==
    ASSUME TypeOK, NEW r \in Rows, Close(r), OnlyCalendar
    PROVE  RowsOK' /\ Shrinks /\ Rows' = Rows
<1>1. Closed(reservation[r]) \in Reservation
      /\ reservation' = [reservation EXCEPT ![r] = Closed(reservation[r])]
  BY ClosedRow DEF Close
<1>2. Closed(reservation[r]).state = "CLOSED"
  BY DEF Closed
<1>3. outbox' = outbox
  BY DEF OnlyCalendar
<1> HIDE DEF Closed
<1> QED
  BY <1>1, <1>2, <1>3, OneRow DEF Live

LEMMA MoveStep ==
    ASSUME TypeOK, NEW r \in Rows, reservation[r].state \in Live,
           NEW state \in {"DISPATCHING", "CONSUMED", "HELD"}, Move(r, state),
           state \in {"DISPATCHING", "CONSUMED"} => outbox'[r].status # "NONE",
           \A n \in 1..MaxReservations : outbox[n].status # "NONE" => outbox'[n].status # "NONE"
    PROVE  RowsOK' /\ Shrinks /\ Rows' = Rows
<1> DEFINE row == [reservation[r] EXCEPT !.state = state]
<1>1. reservation[r] \in Reservation
  BY RowTypes
<1>2. /\ row \in Reservation /\ row.state = state /\ row.allocated = reservation[r].allocated
      /\ row.target = reservation[r].target /\ row.slot = reservation[r].slot
  BY <1>1 DEF Reservation
<1>3. reservation' = [reservation EXCEPT ![r] = row]
  BY DEF Move
<1> HIDE DEF row
<1> QED
  BY <1>2, <1>3, OneRow

\* Again: what the new entry copies is replaced where it matters.
LEMMA AgainStep ==
    ASSUME TypeOK, NEW old \in Rows, NEW rows, rows = reservation \/ rows = Without(old),
           Again(rows, old), OnlyCalendar
    PROVE  RowsOK' /\ Shrinks /\ Rows \subseteq Rows'
<1>1. PICK s \in Slot : reservation' = Append(rows, [reservation[old] EXCEPT
            !.slot = s, !.named = FALSE, !.allocated = FALSE, !.state = "ACTIVE"])
  BY DEF Again
<1> DEFINE row == [reservation[old] EXCEPT !.slot = s, !.named = FALSE, !.allocated = FALSE, !.state = "ACTIVE"]
<1>2. reservation[old] \in Reservation
  BY RowTypes
<1>3. row \in Reservation /\ row.state = "ACTIVE" /\ row.allocated = FALSE
  BY <1>2 DEF Reservation
<1>4. reservation' = Append(rows, row)
  BY <1>1
<1> HIDE DEF row
<1>5. Closed(reservation[old]) \in Reservation /\ Closed(reservation[old]).state = "CLOSED"
      /\ Without(old) = [reservation EXCEPT ![old] = Closed(reservation[old])]
  BY ClosedRow DEF Closed
<1>6. reservation \in Seq(Reservation) /\ old \in 1..Len(reservation)
  BY RowTypes DEF TypeOK
<1>7. rows \in Seq(Reservation) /\ Len(rows) = Len(reservation)
  BY <1>5, <1>6
<1>8. \A n \in Rows : rows[n] = reservation[n] \/ rows[n].state = "CLOSED"
  BY <1>5, <1>6 DEF Rows
<1>9. \A n \in Rows : rows[n].state \in {"DISPATCHING", "CONSUMED"} => rows[n] = reservation[n]
  BY <1>8
<1>10. Len(reservation) < MaxReservations /\ outbox' = outbox
  BY DEF Again, OnlyCalendar
<1>11. /\ RowsOK' /\ Rows \subseteq Rows'
       /\ DOMAIN reservation' = Rows \cup {Len(reservation) + 1}
       /\ reservation'[Len(reservation) + 1] = row
       /\ \A n \in Rows : reservation'[n] = rows[n]
  BY <1>3, <1>4, <1>7, <1>9, <1>10, NewRow
<1>12. Shrinks
  <2> SUFFICES ASSUME NEW n \in DOMAIN reservation', reservation'[n].state \in Live, reservation'[n].allocated
               PROVE  n \in Rows /\ reservation'[n] = reservation[n]
    BY DEF Shrinks
  <2>1. n # Len(reservation) + 1
    BY <1>3, <1>11
  <2>2. n \in Rows /\ reservation'[n] = rows[n]
    BY <1>11, <2>1
  <2> QED
    BY <1>8, <2>2 DEF Live
<1> QED
  BY <1>11, <1>12

-----------------------------------------------------------------------------
(* What shrinks stays within the limits. *)

LEMMA LiveIsFinite ==
    ASSUME TypeOK, NEW c
    PROVE  /\ IsFiniteSet(LiveOf(c)) /\ Cardinality(LiveOf(c)) \in Nat
           /\ \A s : IsFiniteSet(LiveAt(c, s)) /\ Cardinality(LiveAt(c, s)) \in Nat
<1>1. IsFiniteSet(Rows)
  BY RowTypes
<1>2. LiveOf(c) \in SUBSET Rows
  BY DEF LiveOf, InState
<1>3. IsFiniteSet(LiveOf(c))
  BY <1>1, <1>2, FS_Subset
<1>4. \A s : LiveAt(c, s) \in SUBSET LiveOf(c)
  BY DEF LiveAt
<1>5. \A s : IsFiniteSet(LiveAt(c, s))
  BY <1>3, <1>4, FS_Subset
<1> QED
  BY <1>3, <1>5, FS_CardinalityType

LEMMA Narrower ==
    ASSUME TypeOK, Shrinks, NEW c
    PROVE  /\ LiveOf(c)' \subseteq LiveOf(c)
           /\ \A r \in LiveOf(c)' : reservation'[r].slot = reservation[r].slot
           /\ Cardinality(LiveOf(c)') \in Nat /\ Cardinality(LiveOf(c)') <= Cardinality(LiveOf(c))
           /\ \A s : /\ Cardinality(LiveAt(c, s)') \in Nat
                     /\ Cardinality(LiveAt(c, s)') <= Cardinality(LiveAt(c, s))
<1>1. \A r \in LiveOf(c)' : r \in LiveOf(c) /\ reservation'[r].slot = reservation[r].slot
  BY DEF LiveOf, InState, Rows, Shrinks
<1>2. \A s : LiveAt(c, s)' \subseteq LiveAt(c, s)
  BY <1>1 DEF LiveAt
<1>3. IsFiniteSet(LiveOf(c)) /\ \A s : IsFiniteSet(LiveAt(c, s))
  BY LiveIsFinite
<1>4. LiveOf(c)' \in SUBSET LiveOf(c)
  BY <1>1
<1>5. IsFiniteSet(LiveOf(c)') /\ Cardinality(LiveOf(c)') <= Cardinality(LiveOf(c))
  BY <1>3, <1>4, FS_Subset
<1>6. ASSUME NEW s
      PROVE  IsFiniteSet(LiveAt(c, s)') /\ Cardinality(LiveAt(c, s)') <= Cardinality(LiveAt(c, s))
  <2>1. LiveAt(c, s)' \in SUBSET LiveAt(c, s)
    BY <1>2
  <2> QED
    BY <1>3, <2>1, FS_Subset
<1> QED
  BY <1>1, <1>5, <1>6, FS_CardinalityType

LEMMA RoomStays ==
    ASSUME TypeOK, Shrinks, NEW c, NEW s, Room(c, s)
    PROVE  Room(c, s)'
<1>1. LiveOf(c)' \subseteq LiveOf(c) /\ \A r \in LiveOf(c)' : reservation'[r].slot = reservation[r].slot
  BY Narrower
<1>2. \A r \in LiveOf(c)' : ~Near(reservation'[r].slot, s)
  BY <1>1 DEF Room
<1>3. Cardinality(LiveOf(c)') < DailyCap
  BY Narrower, LiveIsFinite, Bounds DEF Room
<1>4. Cardinality(LiveAt(c, s)') < Limit
  BY Narrower, LiveIsFinite, Bounds DEF Room
<1> QED
  BY <1>2, <1>3, <1>4 DEF Room

LEMMA LimitStays ==
    ASSUME TypeOK, Shrinks, LimitInv
    PROVE  LimitInv'
<1> SUFFICES ASSUME NEW c \in Categories
             PROVE  /\ \A s \in Slot : Cardinality(LiveAt(c, s)') <= Limit
                    /\ Cardinality(LiveOf(c)') <= DailyCap
                    /\ \A r, n \in LiveOf(c)' : r # n => ~Near(reservation'[n].slot, reservation'[r].slot)
  BY DEF LimitInv
<1>1. LiveOf(c)' \subseteq LiveOf(c) /\ \A r \in LiveOf(c)' : reservation'[r].slot = reservation[r].slot
  BY Narrower
<1>2. \A r, n \in LiveOf(c)' : r # n => ~Near(reservation'[n].slot, reservation'[r].slot)
  BY <1>1 DEF LimitInv
<1>3. Cardinality(LiveOf(c)') <= DailyCap
  BY Narrower, LiveIsFinite, Bounds DEF LimitInv
<1>4. ASSUME NEW s \in Slot PROVE Cardinality(LiveAt(c, s)') <= Limit
  BY Narrower, LiveIsFinite, Bounds DEF LimitInv
<1> QED
  BY <1>2, <1>3, <1>4

\* A step that leaves every evaluation with its task and slot.
SameWork == \A v \in Evaluator : /\ evaluator'[v].pc = evaluator[v].pc
                                 /\ evaluator'[v].target = evaluator[v].target
                                 /\ evaluator'[v].slot = evaluator[v].slot

SameRelays == \A q \in Relay : \/ relay'[q].pc = "idle" \/ relay'[q].row \in Rows
                               \/ relay'[q].pc = relay[q].pc /\ relay'[q].row = relay[q].row

LEMMA RelaysStay ==
    ASSUME RelayInv, SameRelays, Rows \subseteq Rows'
    PROVE  RelayInv'
  BY DEF RelayInv, SameRelays

LEMMA ShrinkStep ==
    ASSUME IndInv, TypeOK', Shrinks, SameWork, SameRelays, Rows \subseteq Rows'
    PROVE  IndInv'
<1>1. LimitInv'
  BY LimitStays DEF IndInv
<1>2. ASSUME NEW v \in Evaluator, evaluator'[v].pc = "insert"
      PROVE  Room(Category(evaluator[v].target), evaluator[v].slot)'
  <2> DEFINE c == Category(evaluator[v].target)
             s == evaluator[v].slot
  <2>1. Room(c, s) /\ TypeOK
    BY <1>2 DEF IndInv, RoomInv, SameWork
  <2>2. PICK d : d = c
    OBVIOUS
  <2>3. PICK u : u = s
    OBVIOUS
  <2>4. Room(d, u)
    BY <2>1, <2>2, <2>3
  <2>5. Room(d, u)'
    BY <2>1, <2>4, RoomStays
  <2>6. d = Category(evaluator'[v].target) /\ u = evaluator'[v].slot
    BY <1>2, <2>2, <2>3 DEF SameWork
  <2> QED
    BY <2>5, <2>6 DEF Room, LiveOf, LiveAt
<1>3. RoomInv'
  BY <1>2 DEF RoomInv
<1>4. LockInv'
  BY DEF IndInv, LockInv, SameWork
<1>5. RelayInv'
  BY RelaysStay DEF IndInv
<1> QED
  BY <1>1, <1>3, <1>4, <1>5 DEF IndInv

-----------------------------------------------------------------------------
(* The calendar, the operator and the sweeps. *)

LEMMA CalendarKeeps ==
    ASSUME IndInv, OnlyCalendar, RowsOK', Shrinks, Rows \subseteq Rows'
    PROVE  IndInv'
<1>1. TypeOK'
  BY DEF IndInv, TypeOK, RowsOK, Dispatched, OnlyCalendar
<1>2. SameWork /\ SameRelays
  BY DEF SameWork, SameRelays, OnlyCalendar
<1> QED
  BY <1>1, <1>2, ShrinkStep

LEMMA OnlyEntry ==
    ASSUME TypeOK, NEW p, Cardinality(ActiveEntries(p)) = 1
    PROVE  Max(ActiveEntries(p)) \in Rows /\ reservation[Max(ActiveEntries(p))].state = "ACTIVE"
<1>1. ActiveEntries(p) \in SUBSET Rows
  BY DEF ActiveEntries, InState
<1>2. IsFiniteSet(ActiveEntries(p))
  BY <1>1, RowTypes, FS_Subset
<1>3. ActiveEntries(p) # {}
  BY <1>2, FS_EmptySet
<1>4. Max(ActiveEntries(p)) \in ActiveEntries(p)
  BY <1>1, <1>3, RowTypes, MaxIn
<1> QED
  BY <1>4 DEF ActiveEntries, InState

LEMMA ScheduleStep ==
    ASSUME IndInv, NEW p \in Publication, ScheduleIntent(p)
    PROVE  IndInv'
<1>1. PICK s \in Slot : reservation' = Append(reservation,
          [target |-> p, kind |-> "INTENT", slot |-> s, epoch |-> 1, current |-> TRUE,
           named |-> TRUE, allocated |-> FALSE, state |-> "ACTIVE"])
  BY DEF ScheduleIntent
<1>2. PICK row : row = [target |-> p, kind |-> "INTENT", slot |-> s, epoch |-> 1, current |-> TRUE,
                        named |-> TRUE, allocated |-> FALSE, state |-> "ACTIVE"]
  OBVIOUS
<1>3. 1 \in Epoch /\ p \in Target
  BY Bounds, ScheduleAssumption DEF Epoch
<1>4. row \in Reservation /\ row.state = "ACTIVE" /\ row.allocated = FALSE
  BY <1>2, <1>3 DEF Reservation
<1>5. reservation \in Seq(Reservation) /\ Len(reservation) < MaxReservations /\ outbox' = outbox /\ OnlyCalendar
  BY DEF IndInv, TypeOK, ScheduleIntent, OnlyCalendar
<1>6. TypeOK /\ reservation' = Append(reservation, row)
  BY <1>1, <1>2 DEF IndInv
<1>7. /\ RowsOK' /\ Rows \subseteq Rows'
      /\ DOMAIN reservation' = Rows \cup {Len(reservation) + 1}
      /\ reservation'[Len(reservation) + 1] = row
      /\ \A n \in Rows : reservation'[n] = reservation[n]
  BY <1>4, <1>5, <1>6, NewRow
<1>8. Shrinks
  BY <1>4, <1>7 DEF Shrinks
<1> QED
  BY <1>5, <1>7, <1>8, CalendarKeeps

LEMMA RescheduleStep ==
    ASSUME IndInv, NEW p \in Publication, RescheduleIntent(p)
    PROVE  IndInv'
<1>1. PICK old : old = Max(ActiveEntries(p))
  OBVIOUS
<1>2. TypeOK /\ old \in Rows
  BY <1>1, OnlyEntry DEF RescheduleIntent, IndInv
<1>3. Again(Without(old), old) /\ OnlyCalendar
  BY <1>1 DEF RescheduleIntent
<1>4. RowsOK' /\ Shrinks /\ Rows \subseteq Rows'
  BY <1>2, <1>3, AgainStep
<1> QED
  BY <1>3, <1>4, CalendarKeeps

LEMMA CancelStep ==
    ASSUME IndInv, NEW p \in Publication, CancelSchedule(p)
    PROVE  IndInv'
<1>1. PICK old : old = Max(ActiveEntries(p))
  OBVIOUS
<1>2. TypeOK /\ old \in Rows
  BY <1>1, OnlyEntry DEF CancelSchedule, IndInv
<1>3. Close(old) /\ OnlyCalendar
  BY <1>1 DEF CancelSchedule
<1>4. RowsOK' /\ Shrinks /\ Rows' = Rows
  BY <1>2, <1>3, CloseStep
<1> QED
  BY <1>3, <1>4, CalendarKeeps

LEMMA HoldStep ==
    ASSUME IndInv, NEW p \in Publication, SetManualHold(p)
    PROVE  IndInv'
<1>1. PICK old : old = Max(ActiveEntries(p))
  OBVIOUS
<1>2. TypeOK /\ old \in Rows /\ reservation[old].state \in Live
  BY <1>1, OnlyEntry DEF SetManualHold, IndInv, Live
<1>3. Move(old, "HELD") /\ OnlyCalendar /\ outbox' = outbox
  BY <1>1 DEF SetManualHold, OnlyCalendar
<1>4. RowsOK' /\ Shrinks /\ Rows' = Rows
  BY <1>2, <1>3, MoveStep
<1> QED
  BY <1>3, <1>4, CalendarKeeps

LEMMA ReleaseHoldStep ==
    ASSUME IndInv, NEW p \in Publication, ReleaseManualHold(p)
    PROVE  IndInv'
<1>1. PICK held : held = {r \in InState({"HELD"}) : reservation[r].target = p}
  OBVIOUS
<1>2. held # {} /\ Again(reservation, Max(held)) /\ OnlyCalendar /\ TypeOK
  BY <1>1 DEF ReleaseManualHold, IndInv
<1>3. held \in SUBSET Rows
  BY <1>1 DEF InState
<1>4. PICK old : old = Max(held)
  OBVIOUS
<1>5. old \in Rows
  BY <1>2, <1>3, <1>4, RowTypes, MaxIn
<1>6. RowsOK' /\ Shrinks /\ Rows \subseteq Rows'
  BY <1>2, <1>4, <1>5, AgainStep
<1> QED
  BY <1>2, <1>6, CalendarKeeps

\* A release by the operator, and what the sweeps reject, expire or give up.
LEMMA ReleaseStep ==
    ASSUME IndInv, NEW r \in Rows, Close(r), OnlyCalendar
    PROVE  IndInv'
  BY CloseStep, CalendarKeeps DEF IndInv

LEMMA ConsumeStep ==
    ASSUME IndInv, NEW r \in Rows, Consume(r)
    PROVE  IndInv'
<1>1. TypeOK /\ reservation[r].state = "DISPATCHING" /\ outbox' = outbox /\ Move(r, "CONSUMED") /\ OnlyCalendar
  BY DEF IndInv, Consume, InState, OnlyCalendar
<1>2. outbox[r].status # "NONE" /\ reservation[r].state \in Live
  BY <1>1 DEF TypeOK, InState, Live
<1>3. RowsOK' /\ Shrinks /\ Rows' = Rows
  BY <1>1, <1>2, MoveStep
<1> QED
  BY <1>1, <1>3, CalendarKeeps

LEMMA OutboxField ==
    ASSUME TypeOK, NEW r \in Rows, NEW status \in Waiting \cup {"SENT", "DEAD_LETTER"},
           outbox' = [outbox EXCEPT ![r].status = status]
    PROVE  /\ outbox' \in [1..MaxReservations -> OutboxRow]
           /\ outbox'[r].status = status
           /\ \A n \in 1..MaxReservations : outbox[n].status # "NONE" => outbox'[n].status # "NONE"
<1>1. r \in 1..MaxReservations
  BY RowTypes
<1>2. outbox \in [1..MaxReservations -> OutboxRow]
  BY DEF TypeOK
<1>3. \A row \in OutboxRow : /\ [row EXCEPT !.status = status] \in OutboxRow
                             /\ [row EXCEPT !.status = status].status = status
  BY DEF OutboxRow
<1>4. status # "NONE"
  BY DEF Waiting
<1>5. outbox' = [outbox EXCEPT ![r] = [outbox[r] EXCEPT !.status = status]]
  OBVIOUS
<1> QED
  BY <1>1, <1>2, <1>3, <1>4, <1>5

LEMMA DispatchStep ==
    ASSUME IndInv, NEW r \in Rows, DispatchDue(r)
    PROVE  IndInv'
<1>1. /\ TypeOK /\ reservation[r].state = "ACTIVE" /\ Move(r, "DISPATCHING") /\ reservation[r] \in Reservation
      /\ outbox' = [outbox EXCEPT ![r].status = "PENDING"]
      /\ task' = [task EXCEPT ![reservation[r].target] = [state |-> "QUEUED", epoch |-> reservation[r].epoch]]
      /\ UNCHANGED <<mission, intent, queue, faults, evaluator, relay>>
  BY RowTypes DEF IndInv, DispatchDue, InState, WithRow
<1>2. /\ outbox' \in [1..MaxReservations -> OutboxRow] /\ outbox'[r].status # "NONE"
      /\ \A n \in 1..MaxReservations : outbox[n].status # "NONE" => outbox'[n].status # "NONE"
  <2>1. "PENDING" \in Waiting \cup {"SENT", "DEAD_LETTER"}
    BY DEF Waiting
  <2>2. PICK status \in Waiting \cup {"SENT", "DEAD_LETTER"} : status = "PENDING"
    BY <2>1
  <2>3. TypeOK /\ outbox' = [outbox EXCEPT ![r].status = status]
    BY <1>1, <2>2
  <2> QED
    BY <2>2, <2>3, OutboxField
<1>3. RowsOK' /\ Shrinks /\ Rows' = Rows
  BY <1>1, <1>2, MoveStep DEF Live
<1>4. [state |-> "QUEUED", epoch |-> reservation[r].epoch]
          \in [state : {"READY", "QUEUED", "RUNNING", "SUCCEEDED"}, epoch : 0..MaxEpoch]
  BY <1>1, Bounds DEF Reservation, Epoch
<1>5. TypeOK'
  BY <1>1, <1>2, <1>3, <1>4 DEF TypeOK, RowsOK, Dispatched
<1>6. SameWork /\ SameRelays
  BY <1>1 DEF SameWork, SameRelays
<1> QED
  BY <1>3, <1>5, <1>6, ShrinkStep

LEMMA ActivateStep ==
    ASSUME IndInv, NEW c \in Categories, ActivatePolicy(c)
    PROVE  IndInv'
<1>1. TypeOK /\ UNCHANGED <<mission, outbox, task, intent, queue, faults, relay>>
  BY DEF IndInv, ActivatePolicy
<1>2. reservation \in Seq(Reservation) /\ Rows = 1..Len(reservation) /\ Len(reservation) \in Nat
      /\ Len(reservation) <= MaxReservations
  BY <1>1, RowTypes DEF TypeOK
<1>3. \A row \in Reservation, b \in BOOLEAN :
          /\ [row EXCEPT !.current = b] \in Reservation
          /\ [row EXCEPT !.current = b].state = row.state
          /\ [row EXCEPT !.current = b].allocated = row.allocated
          /\ [row EXCEPT !.current = b].target = row.target
          /\ [row EXCEPT !.current = b].slot = row.slot
  BY DEF Reservation
<1>4. \A r \in Rows : \E b \in BOOLEAN : reservation'[r] = [reservation[r] EXCEPT !.current = b]
  <2> SUFFICES ASSUME NEW r \in Rows
               PROVE  \E b \in BOOLEAN : reservation'[r] = [reservation[r] EXCEPT !.current = b]
    OBVIOUS
  <2>1. PICK b \in BOOLEAN : b = (reservation[r].current /\ Category(reservation[r].target) # c)
    BY Zenon
  <2>2. reservation'[r] = [reservation[r] EXCEPT !.current = reservation[r].current /\ Category(reservation[r].target) # c]
    BY DEF ActivatePolicy
  <2> QED
    BY <2>1, <2>2
<1>5. DOMAIN reservation' = Rows
  BY DEF ActivatePolicy
<1>6. \A r \in Rows : /\ reservation'[r] \in Reservation
                      /\ reservation'[r].state = reservation[r].state
                      /\ reservation'[r].allocated = reservation[r].allocated
                      /\ reservation'[r].target = reservation[r].target
                      /\ reservation'[r].slot = reservation[r].slot
  <2> SUFFICES ASSUME NEW r \in Rows
               PROVE  /\ reservation'[r] \in Reservation
                      /\ reservation'[r].state = reservation[r].state
                      /\ reservation'[r].allocated = reservation[r].allocated
                      /\ reservation'[r].target = reservation[r].target
                      /\ reservation'[r].slot = reservation[r].slot
    OBVIOUS
  <2>1. PICK b \in BOOLEAN : reservation'[r] = [reservation[r] EXCEPT !.current = b]
    BY <1>4
  <2>2. reservation[r] \in Reservation
    BY <1>1, RowTypes
  <2> QED
    BY <1>3, <2>1, <2>2
<1>7. reservation' \in [1..Len(reservation) -> Reservation]
  <2>1. reservation' = [r \in 1..Len(reservation) |-> reservation'[r]]
    BY <1>2 DEF ActivatePolicy
  <2> QED
    BY <1>2, <1>6, <2>1
<1>8. reservation' \in Seq(Reservation) /\ Len(reservation') = Len(reservation)
  BY <1>2, <1>7
<1>9. Shrinks /\ Rows' = Rows
  BY <1>5, <1>6 DEF Shrinks, Rows
<1>10. RowsOK'
  <2>1. Dispatched'
    BY <1>1, <1>5, <1>6 DEF TypeOK, Dispatched, InState, Rows
  <2> QED
    BY <1>2, <1>8, <2>1 DEF RowsOK
<1>11. \A s \in EvaluatorState, b \in BOOLEAN :
           /\ [s EXCEPT !.current = b] \in EvaluatorState
           /\ [s EXCEPT !.current = b].pc = s.pc
           /\ [s EXCEPT !.current = b].target = s.target
           /\ [s EXCEPT !.current = b].slot = s.slot
  BY DEF EvaluatorState
<1>12. ASSUME NEW v \in Evaluator
       PROVE  \/ evaluator'[v] = evaluator[v]
              \/ \E b \in BOOLEAN : evaluator'[v] = [evaluator[v] EXCEPT !.current = b]
  <2>1. PICK b \in BOOLEAN : b = (evaluator[v].current /\ Category(evaluator[v].target) # c)
    BY Zenon
  <2>2. evaluator'[v] = IF evaluator[v].pc = "idle" THEN evaluator[v]
            ELSE [evaluator[v] EXCEPT !.current = evaluator[v].current /\ Category(evaluator[v].target) # c]
    BY DEF ActivatePolicy
  <2> QED
    BY <2>1, <2>2
<1>13. \A v \in Evaluator : /\ evaluator'[v] \in EvaluatorState
                            /\ evaluator'[v].pc = evaluator[v].pc
                            /\ evaluator'[v].target = evaluator[v].target
                            /\ evaluator'[v].slot = evaluator[v].slot
  <2> SUFFICES ASSUME NEW v \in Evaluator
               PROVE  /\ evaluator'[v] \in EvaluatorState
                      /\ evaluator'[v].pc = evaluator[v].pc
                      /\ evaluator'[v].target = evaluator[v].target
                      /\ evaluator'[v].slot = evaluator[v].slot
    OBVIOUS
  <2>1. evaluator[v] \in EvaluatorState
    BY <1>1 DEF TypeOK
  <2>2. CASE evaluator'[v] = evaluator[v]
    BY <2>1, <2>2
  <2>3. CASE \E b \in BOOLEAN : evaluator'[v] = [evaluator[v] EXCEPT !.current = b]
    BY <1>11, <2>1, <2>3
  <2> QED
    BY <1>12, <2>2, <2>3
<1>14. evaluator' \in [Evaluator -> EvaluatorState]
  <2>1. evaluator' = [v \in Evaluator |-> evaluator'[v]]
    BY DEF ActivatePolicy
  <2> QED
    BY <1>13, <2>1
<1>15. TypeOK'
  BY <1>1, <1>10, <1>14 DEF TypeOK, RowsOK, Dispatched
<1>16. SameWork /\ SameRelays
  BY <1>1, <1>13 DEF SameWork, SameRelays
<1> QED
  BY <1>9, <1>15, <1>16, ShrinkStep

-----------------------------------------------------------------------------
(* The relay, the workers and the Mission leave the reservations alone. *)

LEMMA SameRows ==
    ASSUME TypeOK, UNCHANGED reservation,
           outbox' \in [1..MaxReservations -> OutboxRow],
           \A n \in 1..MaxReservations : outbox[n].status # "NONE" => outbox'[n].status # "NONE"
    PROVE  RowsOK' /\ Shrinks /\ Rows' = Rows
<1>1. Rows' = Rows /\ Shrinks
  BY DEF Rows, Shrinks
<1>2. Dispatched'
  <2> SUFFICES ASSUME NEW n \in Rows, reservation[n].state \in {"DISPATCHING", "CONSUMED"}
               PROVE  outbox'[n].status # "NONE"
    BY DEF Dispatched, InState, Rows
  <2>1. n \in 1..MaxReservations
    BY RowTypes
  <2>2. outbox[n].status # "NONE"
    BY DEF TypeOK, InState
  <2> QED
    BY <2>1, <2>2
<1> QED
  BY <1>1, <1>2 DEF TypeOK, RowsOK

LEMMA SameRowsStep ==
    ASSUME IndInv, UNCHANGED <<reservation, evaluator>>, TypeOK', SameRelays
    PROVE  IndInv'
<1>1. Shrinks /\ SameWork /\ Rows \subseteq Rows'
  BY DEF Shrinks, SameWork, Rows
<1> QED
  BY <1>1, ShrinkStep

LEMMA SendAgainStep ==
    ASSUME IndInv, NEW r \in Rows, SendAgain(r)
    PROVE  IndInv'
<1>1. /\ TypeOK /\ outbox' = [outbox EXCEPT ![r].status = "PENDING"]
      /\ UNCHANGED <<mission, reservation, task, intent, queue, faults, evaluator, relay>>
  BY DEF IndInv, SendAgain
<1>2. PICK status \in Waiting \cup {"SENT", "DEAD_LETTER"} : status = "PENDING"
  BY DEF Waiting
<1>3. /\ outbox' \in [1..MaxReservations -> OutboxRow]
      /\ \A n \in 1..MaxReservations : outbox[n].status # "NONE" => outbox'[n].status # "NONE"
  BY <1>1, <1>2, OutboxField
<1>4. RowsOK'
  BY <1>1, <1>3, SameRows
<1>5. TypeOK' /\ SameRelays
  BY <1>1, <1>3, <1>4 DEF TypeOK, RowsOK, Dispatched, SameRelays
<1> QED
  BY <1>1, <1>5, SameRowsStep

\* One more attempt is counted in the row.
LEMMA SendCounted ==
    ASSUME TypeOK, NEW r \in Rows, outbox' = [outbox EXCEPT ![r].sends = OneMore(@)]
    PROVE  /\ outbox' \in [1..MaxReservations -> OutboxRow] /\ outbox[r] \in OutboxRow
           /\ OneMore(outbox[r].sends) \in 0..MaxSends
           /\ \A n \in 1..MaxReservations : outbox[n].status # "NONE" => outbox'[n].status # "NONE"
<1>1. r \in 1..MaxReservations
  BY RowTypes
<1>2. outbox \in [1..MaxReservations -> OutboxRow]
  BY DEF TypeOK
<1>3. \A row \in OutboxRow, n \in 0..MaxSends : /\ [row EXCEPT !.sends = n] \in OutboxRow
                                                /\ [row EXCEPT !.sends = n].status = row.status
  BY DEF OutboxRow
<1>4. outbox[r] \in OutboxRow
  BY <1>1, <1>2
<1>5. OneMore(outbox[r].sends) \in 0..MaxSends
  BY <1>4, OneMoreType DEF OutboxRow
<1>6. PICK m \in 0..MaxSends : m = OneMore(outbox[r].sends)
  BY <1>5
<1>7. outbox' = [outbox EXCEPT ![r] = [outbox[r] EXCEPT !.sends = m]]
  BY <1>6
<1> QED
  BY <1>1, <1>2, <1>3, <1>4, <1>5, <1>7

LEMMA RelayGoes ==
    ASSUME TypeOK, NEW q \in Relay, NEW state \in RelayState, RelayGoto(q, state),
           state.pc = "idle" \/ state.row \in Rows
    PROVE  relay' \in [Relay -> RelayState] /\ SameRelays
  BY DEF TypeOK, RelayGoto, SameRelays

LEMMA RelayStates ==
    ASSUME IndInv, NEW q \in Relay
    PROVE  /\ relay[q] \in RelayState /\ IdleRelay \in RelayState /\ IdleRelay.pc = "idle"
           /\ relay[q].pc # "idle" => relay[q].row \in Rows
           /\ \A pc \in {"sent", "failed"} : /\ [relay[q] EXCEPT !.pc = pc] \in RelayState
                                             /\ [relay[q] EXCEPT !.pc = pc].row = relay[q].row
<1>1. relay[q] \in RelayState /\ (relay[q].pc # "idle" => relay[q].row \in Rows)
  BY DEF IndInv, TypeOK, RelayInv
<1>2. 0 \in 0..MaxReservations /\ 0 \in 0..MaxSends
  BY Bounds
<1> QED
  BY <1>1, <1>2 DEF RelayState, IdleRelay, Waiting

LEMMA ClaimStep ==
    ASSUME IndInv, NEW q \in Relay, NEW r \in Rows, ClaimRow(q, r)
    PROVE  IndInv'
<1>1. /\ TypeOK /\ outbox[r].status \in Waiting /\ outbox' = [outbox EXCEPT ![r].sends = OneMore(@)]
      /\ RelayGoto(q, [pc |-> "send", row |-> r, read |-> outbox[r].status, sends |-> OneMore(outbox[r].sends)])
      /\ UNCHANGED <<mission, reservation, task, intent, queue, faults, evaluator>>
  BY DEF IndInv, ClaimRow
<1>2. /\ outbox' \in [1..MaxReservations -> OutboxRow]
      /\ OneMore(outbox[r].sends) \in 0..MaxSends
      /\ \A n \in 1..MaxReservations : outbox[n].status # "NONE" => outbox'[n].status # "NONE"
  BY <1>1, SendCounted
<1>3. r \in 0..MaxReservations
  BY <1>1, RowTypes, Bounds
<1>4. PICK state : state = [pc |-> "send", row |-> r, read |-> outbox[r].status,
                            sends |-> OneMore(outbox[r].sends)]
  OBVIOUS
<1>5. state \in RelayState /\ state.row \in Rows
  BY <1>1, <1>2, <1>3, <1>4 DEF RelayState
<1>6. relay' \in [Relay -> RelayState] /\ SameRelays
  BY <1>1, <1>4, <1>5, RelayGoes
<1>7. RowsOK'
  BY <1>1, <1>2, SameRows
<1>8. TypeOK'
  BY <1>1, <1>2, <1>6, <1>7 DEF TypeOK, RowsOK, Dispatched
<1> QED
  BY <1>1, <1>6, <1>8, SameRowsStep

LEMMA SendStep ==
    ASSUME IndInv, NEW q \in Relay, SendTask(q)
    PROVE  IndInv'
<1>1. TypeOK /\ relay[q].pc = "send" /\ UNCHANGED <<mission, reservation, outbox, task, intent, evaluator>>
  BY DEF IndInv, SendTask
<1>2. PICK t : t = reservation[relay[q].row].target
  OBVIOUS
<1>3. relay[q].row \in Rows /\ t \in Target
  BY <1>1, <1>2, RelayStates, RowTypes DEF Reservation
<1>4. \/ /\ queue[t] < MaxQueue /\ queue' = [queue EXCEPT ![t] = @ + 1] /\ faults' = faults
      \/ faults < MaxFaults /\ faults' = faults + 1 /\ queue' = queue
  BY <1>2 DEF SendTask
<1>5. PICK pc \in {"sent", "failed"} : RelayGoto(q, [relay[q] EXCEPT !.pc = pc])
  BY DEF SendTask
<1>6. /\ [relay[q] EXCEPT !.pc = pc] \in RelayState /\ [relay[q] EXCEPT !.pc = pc].row \in Rows
  BY <1>3, RelayStates
<1>7. relay' \in [Relay -> RelayState] /\ SameRelays
  BY <1>1, <1>5, <1>6, RelayGoes
<1>8. queue' \in [Target -> 0..MaxQueue] /\ faults' \in 0..MaxFaults
  <2>1. queue \in [Target -> 0..MaxQueue] /\ faults \in 0..MaxFaults
    BY <1>1 DEF TypeOK
  <2>2. queue[t] \in 0..MaxQueue
    BY <1>3, <2>1
  <2>3. queue[t] < MaxQueue => queue[t] + 1 \in 0..MaxQueue
    BY <2>2, Bounds
  <2>4. faults < MaxFaults => faults + 1 \in 0..MaxFaults
    BY <2>1, Bounds
  <2> QED
    BY <1>3, <1>4, <2>1, <2>3, <2>4
<1>9. TypeOK'
  BY <1>1, <1>7, <1>8 DEF TypeOK, InState, Rows
<1> QED
  BY <1>1, <1>7, <1>9, SameRowsStep

LEMMA AcknowledgeStep ==
    ASSUME IndInv, NEW q \in Relay, Acknowledge(q)
    PROVE  IndInv'
<1>1. PICK r : r = relay[q].row
  OBVIOUS
<1>2. /\ TypeOK /\ relay[q].pc \in {"sent", "failed"} /\ RelayGoto(q, IdleRelay)
      /\ UNCHANGED <<mission, reservation, task, intent, queue, faults, evaluator>>
  BY DEF IndInv, Acknowledge
<1>3. r \in Rows
  BY <1>1, <1>2, RelayStates
<1>4. PICK status : status = IF relay[q].pc = "sent" THEN "SENT"
            ELSE IF relay[q].sends >= MaxSends THEN "DEAD_LETTER"
            ELSE IF relay[q].read = "RETRY" THEN outbox[r].status ELSE "RETRY"
  OBVIOUS
<1>5. outbox' = [outbox EXCEPT ![r].status = status]
  BY <1>1, <1>4 DEF Acknowledge
<1>6. /\ outbox' \in [1..MaxReservations -> OutboxRow]
      /\ \A n \in 1..MaxReservations : outbox[n].status # "NONE" => outbox'[n].status # "NONE"
  <2>1. r \in 1..MaxReservations /\ outbox \in [1..MaxReservations -> OutboxRow]
    BY <1>2, <1>3, RowTypes DEF TypeOK
  <2>2. CASE status \in Waiting \cup {"SENT", "DEAD_LETTER"}
    BY <1>2, <1>3, <1>5, <2>2, OutboxField
  <2>3. CASE status = outbox[r].status
    <3>1. \A row \in OutboxRow : [row EXCEPT !.status = row.status] = row
      BY DEF OutboxRow
    <3>2. outbox[r] \in OutboxRow
      BY <2>1
    <3>3. outbox' = [outbox EXCEPT ![r] = [outbox[r] EXCEPT !.status = outbox[r].status]]
      BY <1>5, <2>3
    <3>4. outbox' = outbox
      BY <2>1, <3>1, <3>2, <3>3
    <3> QED
      BY <2>1, <3>4
  <2> QED
    BY <1>4, <2>2, <2>3 DEF Waiting
<1>7. relay' \in [Relay -> RelayState] /\ SameRelays
  BY <1>2, RelayStates, RelayGoes
<1>8. RowsOK'
  BY <1>2, <1>6, SameRows
<1>9. TypeOK'
  BY <1>2, <1>6, <1>7, <1>8 DEF TypeOK, RowsOK, Dispatched
<1> QED
  BY <1>2, <1>7, <1>9, SameRowsStep

LEMMA RelayDiesStep ==
    ASSUME IndInv, NEW q \in Relay, RelayDies(q)
    PROVE  IndInv'
<1>1. /\ TypeOK /\ RelayGoto(q, IdleRelay) /\ faults < MaxFaults /\ faults' = faults + 1
      /\ UNCHANGED <<mission, reservation, outbox, task, intent, queue, evaluator>>
  BY DEF IndInv, RelayDies
<1>2. relay' \in [Relay -> RelayState] /\ SameRelays
  BY <1>1, RelayStates, RelayGoes
<1>3. faults' \in 0..MaxFaults
  BY <1>1, Bounds DEF TypeOK
<1>4. TypeOK'
  BY <1>1, <1>2, <1>3 DEF TypeOK, InState, Rows
<1> QED
  BY <1>1, <1>2, <1>4, SameRowsStep

LEMMA RedriveStep ==
    ASSUME IndInv, NEW r \in Rows, Redrive(r)
    PROVE  IndInv'
<1>1. PICK t : t = reservation[r].target
  OBVIOUS
<1>2. /\ TypeOK /\ queue[t] < MaxQueue /\ queue' = [queue EXCEPT ![t] = @ + 1]
      /\ outbox' = [outbox EXCEPT ![r].sends = OneMore(@)]
      /\ UNCHANGED <<mission, reservation, task, intent, faults, evaluator, relay>>
  BY <1>1 DEF IndInv, Redrive
<1>3. t \in Target
  BY <1>1, <1>2, RowTypes DEF Reservation
<1>4. /\ outbox' \in [1..MaxReservations -> OutboxRow]
      /\ \A n \in 1..MaxReservations : outbox[n].status # "NONE" => outbox'[n].status # "NONE"
  BY <1>2, SendCounted
<1>5. queue' \in [Target -> 0..MaxQueue]
  BY <1>2, <1>3, Bounds DEF TypeOK
<1>6. RowsOK'
  BY <1>2, <1>4, SameRows
<1>7. TypeOK' /\ SameRelays
  BY <1>2, <1>4, <1>5, <1>6 DEF TypeOK, RowsOK, Dispatched, SameRelays
<1> QED
  BY <1>2, <1>7, SameRowsStep

LEMMA TakeMessage ==
    ASSUME TypeOK, NEW t \in Target, queue[t] > 0, queue' = [queue EXCEPT ![t] = @ - 1]
    PROVE  queue' \in [Target -> 0..MaxQueue]
<1>1. queue[t] - 1 \in 0..MaxQueue
  BY Bounds DEF TypeOK
<1> QED
  BY <1>1 DEF TypeOK

TaskRow == [state : {"READY", "QUEUED", "RUNNING", "SUCCEEDED"}, epoch : 0..MaxEpoch]
IntentRow == [state : {"APPROVED", "CLAIMED", "PUBLISHED"}, tried : BOOLEAN]

LEMMA TaskStep ==
    ASSUME IndInv, NEW t \in Target, RunTask(t) \/ EndTask(t)
    PROVE  IndInv'
<1>1. TypeOK /\ UNCHANGED <<mission, reservation, outbox, intent, faults, evaluator, relay>>
  BY DEF IndInv, RunTask, EndTask
<1>2. queue' \in [Target -> 0..MaxQueue]
  BY <1>1, TakeMessage DEF RunTask, EndTask, TypeOK
<1>3. \A row \in TaskRow, state \in {"READY", "RUNNING", "SUCCEEDED"} : [row EXCEPT !.state = state] \in TaskRow
  BY DEF TaskRow
<1>4. task \in [Target -> TaskRow]
  BY <1>1 DEF TypeOK, TaskRow
<1>5. \/ \E state \in {"READY", "RUNNING", "SUCCEEDED"} : task' = [task EXCEPT ![t] = [task[t] EXCEPT !.state = state]]
      \/ task' = [task EXCEPT ![t] = [task[t] EXCEPT !.state = task[t].state]]
  BY DEF RunTask, EndTask
<1>6. [task[t] EXCEPT !.state = task[t].state] = task[t]
  BY <1>4 DEF TaskRow
<1>7. task' \in [Target -> TaskRow]
  <2>1. task[t] \in TaskRow
    BY <1>4
  <2>2. PICK row \in TaskRow : task' = [task EXCEPT ![t] = row]
    BY <1>3, <1>5, <1>6, <2>1
  <2> QED
    BY <1>4, <2>2
<1>8. TypeOK' /\ SameRelays
  BY <1>1, <1>2, <1>7 DEF TypeOK, InState, Rows, SameRelays, TaskRow
<1> QED
  BY <1>1, <1>8, SameRowsStep

LEMMA PublishStep ==
    ASSUME IndInv, NEW p \in Publication, RunPublish(p) \/ EndPublish(p)
    PROVE  IndInv'
<1>1. TypeOK /\ UNCHANGED <<mission, reservation, outbox, task, faults, evaluator, relay>> /\ p \in Target
  BY ScheduleAssumption DEF IndInv, RunPublish, EndPublish
<1>2. queue' \in [Target -> 0..MaxQueue]
  BY <1>1, TakeMessage DEF RunPublish, EndPublish, TypeOK
<1>3. /\ \A row \in IntentRow, state \in {"PUBLISHED", "APPROVED"} : [row EXCEPT !.state = state] \in IntentRow
      /\ [state |-> "CLAIMED", tried |-> TRUE] \in IntentRow
  BY DEF IntentRow
<1>4. intent \in [Publication -> IntentRow]
  BY <1>1 DEF TypeOK, IntentRow
<1>5. \/ \E state \in {"PUBLISHED", "APPROVED"} :
            intent' = [intent EXCEPT ![p] = [intent[p] EXCEPT !.state = state]]
      \/ intent' = [intent EXCEPT ![p] = [state |-> "CLAIMED", tried |-> TRUE]]
      \/ intent' = [intent EXCEPT ![p] = intent[p]]
  BY DEF RunPublish, EndPublish
<1>6. intent' \in [Publication -> IntentRow]
  <2>1. intent[p] \in IntentRow
    BY <1>4
  <2>2. PICK row \in IntentRow : intent' = [intent EXCEPT ![p] = row]
    BY <1>3, <1>5, <2>1
  <2> QED
    BY <1>4, <2>2
<1>7. TypeOK' /\ SameRelays
  BY <1>1, <1>2, <1>6 DEF TypeOK, InState, Rows, SameRelays, IntentRow
<1> QED
  BY <1>1, <1>7, SameRowsStep

LEMMA MissionStep ==
    ASSUME IndInv, MissionMoves
    PROVE  IndInv'
<1>1. TypeOK /\ UNCHANGED <<reservation, outbox, task, intent, queue, faults, evaluator, relay>>
  BY DEF IndInv, MissionMoves
<1>2. mission \in [state : {"RUNNING", "PAUSED"}, epoch : Epoch]
  BY <1>1 DEF TypeOK
<1>3. mission' \in [state : {"RUNNING", "PAUSED"}, epoch : Epoch]
  <2>1. CASE mission.epoch < MaxEpoch /\ mission' = [state |-> "PAUSED", epoch |-> mission.epoch + 1]
    <3>1. mission.epoch + 1 \in Epoch
      BY <1>2, <2>1, Bounds DEF Epoch
    <3> QED
      BY <2>1, <3>1
  <2>2. CASE mission' = [mission EXCEPT !.state = "RUNNING"]
    BY <1>2, <2>2
  <2> QED
    BY <2>1, <2>2 DEF MissionMoves
<1>4. TypeOK' /\ SameRelays
  BY <1>1, <1>3 DEF TypeOK, InState, Rows, SameRelays
<1> QED
  BY <1>1, <1>4, SameRowsStep

-----------------------------------------------------------------------------
(* Evaluations. *)

LEMMA IdleWork == IdleEvaluator \in EvaluatorState /\ IdleEvaluator.pc = "idle"
<1>1. (CHOOSE t \in Target : TRUE) \in Target
  BY ScheduleAssumption
<1>2. 1 \in Epoch
  BY Bounds DEF Epoch
<1> QED
  BY <1>1, <1>2 DEF IdleEvaluator, EvaluatorState

\* Fits counts at least what the limits are of.
LEMMA FitsRoom ==
    ASSUME TypeOK, NEW t \in Target, NEW s \in Slot, Fits(t, s)
    PROVE  Room(Category(t), s)
<1> DEFINE c == Category(t)
           all == InState(Counted)
           here == {r \in InState(Live) : Category(reservation[r].target) = c /\ reservation[r].slot = s}
<1>1. IsFiniteSet(Rows)
  BY RowTypes
<1>2. all \in SUBSET Rows /\ here \in SUBSET Rows
  BY DEF InState
<1>3. LiveOf(c) \in SUBSET all /\ LiveAt(c, s) \in SUBSET here
  BY DEF LiveOf, LiveAt, InState, Counted
<1>4. IsFiniteSet(all) /\ IsFiniteSet(here)
  BY <1>1, <1>2, FS_Subset
<1>5. /\ Cardinality(LiveOf(c)) <= Cardinality(all) /\ Cardinality(LiveAt(c, s)) <= Cardinality(here)
      /\ Cardinality(all) \in Nat /\ Cardinality(here) \in Nat
      /\ Cardinality(LiveOf(c)) \in Nat /\ Cardinality(LiveAt(c, s)) \in Nat
  BY <1>3, <1>4, FS_Subset, FS_CardinalityType
<1>6. Cardinality(all) < DailyCap /\ Cardinality(here) < Limit /\ \A r \in all : ~Near(reservation[r].slot, s)
  BY DEF Fits
<1>7. \A r \in LiveOf(c) : ~Near(reservation[r].slot, s)
  BY <1>3, <1>6
<1> HIDE DEF all, here
<1>8. Cardinality(LiveOf(c)) < DailyCap /\ Cardinality(LiveAt(c, s)) < Limit
  BY <1>5, <1>6, Bounds
<1> QED
  BY <1>7, <1>8 DEF Room

LEMMA EvaluateStep ==
    ASSUME IndInv, NEW v \in Evaluator, Evaluate(v)
    PROVE  IndInv'
<1>1. /\ TypeOK /\ mission.state = "RUNNING" /\ mission.epoch \in Epoch
      /\ UNCHANGED <<mission, reservation, outbox, task, intent, queue, faults, relay>>
  BY DEF IndInv, TypeOK, Evaluate
<1>2. PICK t \in Target, kind \in {"TASK", "INTENT"}, s \in Slot :
          /\ LockFree(t) /\ Fits(t, s)
          /\ EvaluatorGoto(v, [pc |-> "insert", target |-> t, kind |-> kind, slot |-> s,
                               epoch |-> mission.epoch, current |-> TRUE])
  BY DEF Evaluate
<1>3. PICK state : state = [pc |-> "insert", target |-> t, kind |-> kind, slot |-> s,
                            epoch |-> mission.epoch, current |-> TRUE]
  OBVIOUS
<1>4. state \in EvaluatorState /\ state.target = t /\ state.slot = s
  BY <1>1, <1>3 DEF EvaluatorState
<1>5. /\ evaluator' = [evaluator EXCEPT ![v] = state] /\ evaluator \in [Evaluator -> EvaluatorState]
      /\ evaluator'[v] = state /\ \A w \in Evaluator \ {v} : evaluator'[w] = evaluator[w]
  BY <1>1, <1>2, <1>3 DEF EvaluatorGoto, TypeOK
<1>6. TypeOK'
  BY <1>1, <1>4, <1>5 DEF TypeOK, InState, Rows
<1>7. LimitInv' /\ RelayInv'
  BY <1>1 DEF IndInv, LimitInv, RelayInv, LiveOf, LiveAt, InState, Rows
<1>8. \A c, u : Room(c, u)' <=> Room(c, u)
  BY <1>1 DEF Room, LiveOf, LiveAt, InState, Rows
<1>9. Room(Category(t), s)
  BY <1>1, <1>2, FitsRoom
<1>10. RoomInv'
  <2> SUFFICES ASSUME NEW w \in Evaluator, evaluator'[w].pc = "insert"
               PROVE  Room(Category(evaluator'[w].target), evaluator'[w].slot)
    BY <1>1 DEF RoomInv, Room, LiveOf, LiveAt, InState, Rows
  <2>1. CASE w = v
    BY <1>4, <1>5, <1>9, <2>1
  <2>2. CASE w # v
    BY <1>5, <2>2 DEF IndInv, RoomInv
  <2> QED
    BY <2>1, <2>2
<1>11. LockInv'
  <2> SUFFICES ASSUME NEW w \in Evaluator, NEW x \in Evaluator, w # x,
                      evaluator'[w].pc = "insert", evaluator'[x].pc = "insert"
               PROVE  Category(evaluator'[w].target) # Category(evaluator'[x].target)
    BY DEF LockInv
  <2>1. \A y \in Evaluator \ {v} : evaluator[y].pc = "insert" => Category(evaluator[y].target) # Category(t)
    BY <1>2 DEF LockFree
  <2>2. CASE w = v \/ x = v
    BY <1>4, <1>5, <2>1, <2>2
  <2>3. CASE w # v /\ x # v
    BY <1>5, <2>3 DEF IndInv, LockInv
  <2> QED
    BY <2>2, <2>3
<1> QED
  BY <1>6, <1>7, <1>10, <1>11 DEF IndInv

\* The rows after an insertion, by category and slot.
LEMMA Inserted ==
    ASSUME TypeOK, NEW n, n \notin Rows, DOMAIN reservation' = Rows \cup {n},
           \A r \in Rows : reservation'[r] = reservation[r],
           reservation'[n].state = "ACTIVE", reservation'[n].allocated, NEW c
    PROVE  /\ Category(reservation'[n].target) = c => LiveOf(c)' = LiveOf(c) \cup {n} /\ n \notin LiveOf(c)
           /\ Category(reservation'[n].target) # c => LiveOf(c)' = LiveOf(c)
           /\ \A r \in LiveOf(c) : reservation'[r].slot = reservation[r].slot
           /\ \A s : /\ Category(reservation'[n].target) = c /\ reservation'[n].slot = s
                            => LiveAt(c, s)' = LiveAt(c, s) \cup {n} /\ n \notin LiveAt(c, s)
                     /\ ~(Category(reservation'[n].target) = c /\ reservation'[n].slot = s) => LiveAt(c, s)' = LiveAt(c, s)
<1>1. \A r : r \in LiveOf(c)' <=> r \in LiveOf(c) \/ (r = n /\ Category(reservation'[n].target) = c)
  <2> TAKE r
  <2>1. CASE r = n
    BY <2>1 DEF LiveOf, InState, Rows, Live
  <2>2. CASE r # n
    BY <2>2 DEF LiveOf, InState, Rows, Live
  <2> QED
    BY <2>1, <2>2
<1>2. n \notin LiveOf(c) /\ \A r \in LiveOf(c) : r \in Rows
  BY DEF LiveOf, InState
<1>3. \A r \in LiveOf(c) : reservation'[r].slot = reservation[r].slot
  BY <1>2
<1>4. \A r, s : r \in LiveAt(c, s)' <=> r \in LiveAt(c, s) \/ (r = n /\ Category(reservation'[n].target) = c /\ reservation'[n].slot = s)
  BY <1>1, <1>2, <1>3 DEF LiveAt
<1>5. \A s : n \notin LiveAt(c, s)
  BY <1>2 DEF LiveAt
<1>6. /\ Category(reservation'[n].target) = c => LiveOf(c)' = LiveOf(c) \cup {n}
      /\ Category(reservation'[n].target) # c => LiveOf(c)' = LiveOf(c)
  BY <1>1
<1>7. ASSUME NEW s
      PROVE  /\ Category(reservation'[n].target) = c /\ reservation'[n].slot = s
                    => LiveAt(c, s)' = LiveAt(c, s) \cup {n}
             /\ ~(Category(reservation'[n].target) = c /\ reservation'[n].slot = s) => LiveAt(c, s)' = LiveAt(c, s)
  BY <1>4
<1> QED
  BY <1>2, <1>3, <1>5, <1>6, <1>7

LEMMA NearIsMutual ==
    ASSUME NEW a \in Nat, NEW b \in Nat, ~Near(a, b)
    PROVE  ~Near(b, a)
  BY Bounds DEF Near

LEMMA InsertStep ==
    ASSUME IndInv, NEW v \in Evaluator, Insert(v)
    PROVE  IndInv'
<1>1. PICK e : e = evaluator[v]
  OBVIOUS
<1>2. PICK row : row = [target |-> e.target, kind |-> e.kind, slot |-> e.slot, epoch |-> e.epoch,
                        current |-> e.current, named |-> TRUE, allocated |-> TRUE, state |-> "ACTIVE"]
  OBVIOUS
<1>3. /\ TypeOK /\ e.pc = "insert" /\ e \in EvaluatorState /\ Len(reservation) < MaxReservations
      /\ reservation' = Append(reservation, row) /\ evaluator' = [evaluator EXCEPT ![v] = IdleEvaluator]
      /\ UNCHANGED <<mission, outbox, task, intent, queue, faults, relay>>
  BY <1>1, <1>2 DEF IndInv, TypeOK, Insert, EvaluatorGoto
<1>4. PICK c : c = Category(e.target)
  OBVIOUS
<1>5. Room(c, e.slot) /\ c \in Categories /\ e.slot \in Slot
  BY <1>1, <1>3, <1>4 DEF IndInv, RoomInv, Room, Categories, EvaluatorState
<1>6. /\ row \in Reservation /\ row.state = "ACTIVE" /\ row.allocated = TRUE
      /\ row.target = e.target /\ row.slot = e.slot
  BY <1>2, <1>3, <1>5 DEF EvaluatorState, Reservation
<1>7. PICK n : n = Len(reservation) + 1
  OBVIOUS
<1>8. /\ RowsOK' /\ Rows \subseteq Rows' /\ DOMAIN reservation' = Rows \cup {n} /\ n \notin Rows
      /\ reservation'[n] = row /\ \A r \in Rows : reservation'[r] = reservation[r]
  <2>1. reservation \in Seq(Reservation) /\ outbox' = outbox
    BY <1>3 DEF TypeOK
  <2> QED
    BY <1>3, <1>6, <1>7, <2>1, NewRow
<1>9. /\ evaluator \in [Evaluator -> EvaluatorState] /\ evaluator' \in [Evaluator -> EvaluatorState]
      /\ evaluator'[v].pc = "idle" /\ \A w \in Evaluator \ {v} : evaluator'[w] = evaluator[w]
  BY <1>3, IdleWork DEF TypeOK
<1>10. TypeOK'
  BY <1>3, <1>8, <1>9 DEF TypeOK, RowsOK, Dispatched
<1>11. \A d : /\ c = d => LiveOf(d)' = LiveOf(d) \cup {n} /\ n \notin LiveOf(d)
              /\ c # d => LiveOf(d)' = LiveOf(d)
              /\ \A r \in LiveOf(d) : reservation'[r].slot = reservation[r].slot
              /\ \A s : /\ c = d /\ e.slot = s => LiveAt(d, s)' = LiveAt(d, s) \cup {n} /\ n \notin LiveAt(d, s)
                        /\ ~(c = d /\ e.slot = s) => LiveAt(d, s)' = LiveAt(d, s)
  <2> TAKE d
  <2>1. reservation'[n].slot = e.slot /\ Category(reservation'[n].target) = c
    BY <1>4, <1>6, <1>8
  <2>2. /\ TypeOK /\ n \notin Rows /\ DOMAIN reservation' = Rows \cup {n}
        /\ \A r \in Rows : reservation'[r] = reservation[r]
        /\ reservation'[n].state = "ACTIVE" /\ reservation'[n].allocated
    BY <1>3, <1>6, <1>8
  <2>3. /\ Category(reservation'[n].target) = d => LiveOf(d)' = LiveOf(d) \cup {n} /\ n \notin LiveOf(d)
        /\ Category(reservation'[n].target) # d => LiveOf(d)' = LiveOf(d)
        /\ \A r \in LiveOf(d) : reservation'[r].slot = reservation[r].slot
        /\ \A s : /\ Category(reservation'[n].target) = d /\ reservation'[n].slot = s
                         => LiveAt(d, s)' = LiveAt(d, s) \cup {n} /\ n \notin LiveAt(d, s)
                  /\ ~(Category(reservation'[n].target) = d /\ reservation'[n].slot = s) => LiveAt(d, s)' = LiveAt(d, s)
    BY <2>2, Inserted
  <2> QED
    BY <2>1, <2>3
<1>12. ASSUME NEW d \in Categories
       PROVE  /\ \A s \in Slot : Cardinality(LiveAt(d, s)') <= Limit
              /\ Cardinality(LiveOf(d)') <= DailyCap
              /\ \A r, m \in LiveOf(d)' : r # m => ~Near(reservation'[m].slot, reservation'[r].slot)
  <2>1. /\ \A s \in Slot : Cardinality(LiveAt(d, s)) <= Limit
        /\ Cardinality(LiveOf(d)) <= DailyCap
        /\ \A r, m \in LiveOf(d) : r # m => ~Near(reservation[m].slot, reservation[r].slot)
    BY DEF IndInv, LimitInv
  <2>2. /\ IsFiniteSet(LiveOf(d)) /\ Cardinality(LiveOf(d)) \in Nat
        /\ \A s : IsFiniteSet(LiveAt(d, s)) /\ Cardinality(LiveAt(d, s)) \in Nat
    BY <1>3, LiveIsFinite
  <2>3. CASE c # d
    BY <1>11, <2>1, <2>3
  <2>4. CASE c = d
    <3>1. LiveOf(d)' = LiveOf(d) \cup {n} /\ n \notin LiveOf(d)
      BY <1>11, <2>4
    <3>2. Cardinality(LiveOf(d)') = Cardinality(LiveOf(d)) + 1
      BY <2>2, <3>1, FS_AddElement
    <3>3. Cardinality(LiveOf(d)') <= DailyCap
      BY <1>5, <2>2, <2>4, <3>2, Bounds DEF Room
    <3>4. ASSUME NEW s \in Slot PROVE Cardinality(LiveAt(d, s)') <= Limit
      <4>1. CASE e.slot = s
        <5>1. LiveAt(d, s)' = LiveAt(d, s) \cup {n} /\ n \notin LiveAt(d, s)
          BY <1>11, <2>4, <4>1
        <5>2. Cardinality(LiveAt(d, s)') = Cardinality(LiveAt(d, s)) + 1
          BY <2>2, <5>1, FS_AddElement
        <5> QED
          BY <1>5, <2>2, <2>4, <4>1, <5>2, Bounds DEF Room
      <4>2. CASE e.slot # s
        BY <1>11, <2>1, <2>4, <4>2
      <4> QED
        BY <4>1, <4>2
    <3>5. ASSUME NEW r \in LiveOf(d)', NEW m \in LiveOf(d)', r # m
          PROVE  ~Near(reservation'[m].slot, reservation'[r].slot)
      <4>1. reservation'[n].slot = e.slot /\ e.slot \in Nat
        BY <1>5, <1>6, <1>8, Bounds
      <4>2. \A x \in LiveOf(d) : /\ reservation'[x].slot = reservation[x].slot /\ reservation[x].slot \in Nat
                                 /\ ~Near(reservation[x].slot, e.slot)
        <5>1. \A x \in LiveOf(d) : x \in Rows
          BY DEF LiveOf, InState
        <5>2. \A x \in LiveOf(d) : reservation[x].slot \in Nat
          BY <1>3, <5>1, RowTypes, Bounds DEF Reservation
        <5> QED
          BY <1>5, <1>11, <2>4, <5>2 DEF Room
      <4>3. CASE r \in LiveOf(d) /\ m \in LiveOf(d)
        BY <2>1, <3>5, <4>2, <4>3
      <4>4. CASE r = n /\ m \in LiveOf(d)
        BY <4>1, <4>2, <4>4
      <4>5. CASE m = n /\ r \in LiveOf(d)
        BY <4>1, <4>2, <4>5, NearIsMutual
      <4> QED
        BY <3>1, <3>5, <4>3, <4>4, <4>5
    <3> QED
      BY <3>3, <3>4, <3>5
  <2> QED
    BY <2>3, <2>4
<1>13. LimitInv'
  BY <1>12 DEF LimitInv
<1>14. RoomInv'
  <2> SUFFICES ASSUME NEW w \in Evaluator, evaluator'[w].pc = "insert"
               PROVE  Room(Category(evaluator[w].target), evaluator[w].slot)'
    BY DEF RoomInv
  <2>1. w # v /\ evaluator'[w] = evaluator[w] /\ evaluator[w].pc = "insert"
    BY <1>9
  <2>2. PICK d : d = Category(evaluator[w].target)
    OBVIOUS
  <2>3. PICK s : s = evaluator[w].slot
    OBVIOUS
  <2>4. d # c /\ Room(d, s)
    BY <1>1, <1>3, <1>4, <2>1, <2>2, <2>3 DEF IndInv, LockInv, RoomInv
  <2>5. LiveOf(d)' = LiveOf(d) /\ LiveAt(d, s)' = LiveAt(d, s)
        /\ \A r \in LiveOf(d) : reservation'[r].slot = reservation[r].slot
    BY <1>11, <2>4
  <2>6. Room(d, s)'
    BY <2>4, <2>5 DEF Room
  <2>7. d = Category(evaluator'[w].target) /\ s = evaluator'[w].slot
    BY <2>1, <2>2, <2>3
  <2> QED
    BY <2>6, <2>7 DEF Room, LiveOf, LiveAt
<1>15. LockInv'
  BY <1>9 DEF IndInv, LockInv
<1>16. SameRelays
  BY <1>3 DEF SameRelays
<1>17. RelayInv'
  BY <1>8, <1>16, RelaysStay DEF IndInv
<1> QED
  BY <1>10, <1>13, <1>14, <1>15, <1>17 DEF IndInv

-----------------------------------------------------------------------------
(* Every step. *)

LEMMA InitInv == Init => IndInv
<1> SUFFICES ASSUME Init PROVE IndInv
  OBVIOUS
<1>1. Len(reservation) = 0 /\ reservation \in Seq(Reservation) /\ Rows = {}
  BY DEF Init, Rows
<1>2. NoRow \in OutboxRow /\ IdleRelay \in RelayState /\ IdleRelay.pc = "idle" /\ 1 \in Epoch
  BY Bounds DEF NoRow, OutboxRow, IdleRelay, RelayState, Waiting, Epoch
<1>3. TypeOK
  BY <1>1, <1>2, IdleWork, Bounds DEF Init, TypeOK, InState
<1>4. RoomInv /\ LockInv /\ RelayInv
  BY <1>2, IdleWork DEF Init, RoomInv, LockInv, RelayInv
<1>5. LimitInv
  <2>1. \A c : LiveOf(c) = {} /\ \A s : LiveAt(c, s) = {}
    BY <1>1 DEF LiveOf, LiveAt, InState
  <2> QED
    BY <2>1, FS_EmptySet, Bounds DEF LimitInv
<1> QED
  BY <1>3, <1>4, <1>5 DEF IndInv

\* The invariant holds in every reachable state.
THEOREM Inductive == Spec => []IndInv
<1>1. IndInv /\ [Next]_vars => IndInv'
  <2> SUFFICES ASSUME IndInv, [Next]_vars PROVE IndInv'
    OBVIOUS
  <2>1. CASE UNCHANGED vars
    <3>1. UNCHANGED <<mission, reservation, outbox, task, intent, queue, faults, evaluator, relay>>
      BY <2>1 DEF vars
    <3>2. TypeOK' /\ SameRelays
      BY <3>1 DEF IndInv, TypeOK, InState, Rows, SameRelays
    <3> QED
      BY <3>1, <3>2, SameRowsStep
  <2>2. ASSUME NEW v \in Evaluator, Evaluate(v) \/ Insert(v) PROVE IndInv'
    BY <2>2, EvaluateStep, InsertStep
  <2>3. CASE MissionMoves
    BY <2>3, MissionStep
  <2>4. ASSUME NEW c \in Categories, ActivatePolicy(c) PROVE IndInv'
    BY <2>4, ActivateStep
  <2>5. ASSUME NEW p \in Publication, Calendar(p) PROVE IndInv'
    BY <2>5, ScheduleStep, RescheduleStep, CancelStep, HoldStep, ReleaseHoldStep DEF Calendar
  <2>6. ASSUME NEW p \in Publication, RunPublish(p) \/ EndPublish(p) PROVE IndInv'
    BY <2>6, PublishStep
  <2>7. ASSUME NEW t \in Target, RunTask(t) \/ EndTask(t) PROVE IndInv'
    BY <2>7, TaskStep
  <2>8. ASSUME NEW r \in Rows, ReleaseReservation(r) \/ RejectDue(r) \/ Expire(r) \/ ReleaseDead(r)
        PROVE  IndInv'
    <3>1. Close(r) /\ OnlyCalendar
      BY <2>8 DEF ReleaseReservation, RejectDue, Expire, ReleaseDead
    <3> QED
      BY <3>1, ReleaseStep
  <2>9. ASSUME NEW r \in Rows, DispatchDue(r) \/ Consume(r) \/ SendAgain(r) \/ Redrive(r) PROVE IndInv'
    BY <2>9, DispatchStep, ConsumeStep, SendAgainStep, RedriveStep
  <2>10. ASSUME NEW q \in Relay, SendTask(q) \/ Acknowledge(q) \/ RelayDies(q) PROVE IndInv'
    BY <2>10, SendStep, AcknowledgeStep, RelayDiesStep
  <2>11. ASSUME NEW q \in Relay, NEW r \in Rows, ClaimRow(q, r) PROVE IndInv'
    BY <2>11, ClaimStep
  <2> QED
    BY <2>1, <2>2, <2>3, <2>4, <2>5, <2>6, <2>7, <2>8, <2>9, <2>10, <2>11 DEF Next, Recover
<1> QED
  BY InitInv, <1>1, PTL DEF Spec

\* Reservations, outbox rows, tasks and the copies that evaluations and relays hold
\* are of their types, and what has been dispatched has an outbox row
\* (scheduler.sweep_service, dispatch_fence, outbox_relay).
THEOREM ScheduleTypeCorrect == Spec => []TypeOK
<1>1. IndInv => TypeOK
  BY DEF IndInv
<1> QED
  BY <1>1, Inductive, PTL

\* However many evaluations run at a time, under whatever policy, no slot and no day
\* holds more of what the allocator made for a category than its limits, and no two
\* lie closer than the gap (slot_allocator.py, scheduler_service.evaluate_schedule).
THEOREM LimitsHold == Spec => []SlotsWithinLimits
<1>1. IndInv => SlotsWithinLimits
  <2> SUFFICES ASSUME IndInv, NEW r \in InState(Live),
                      NEW same, same = {s \in InState(Live) :
                          /\ reservation[s].allocated
                          /\ Category(reservation[s].target) = Category(reservation[r].target)}
               PROVE  /\ Cardinality({s \in same : reservation[s].slot = reservation[r].slot}) <= Limit
                      /\ Cardinality(same) <= DailyCap
                      /\ r \in same => \A s \in same \ {r} : ~Near(reservation[s].slot, reservation[r].slot)
    BY DEF SlotsWithinLimits
  <2>1. PICK c : c = Category(reservation[r].target)
    OBVIOUS
  <2>2. PICK u : u = reservation[r].slot
    OBVIOUS
  <2>3. same = LiveOf(c)
    BY <2>1 DEF LiveOf
  <2>4. {s \in same : reservation[s].slot = reservation[r].slot} = LiveAt(c, u)
    BY <2>2, <2>3 DEF LiveAt
  <2>5. reservation[r].target \in Target /\ reservation[r].slot \in Slot
    BY RowTypes DEF IndInv, InState, Reservation
  <2>6. c \in Categories /\ u \in Slot
    BY <2>1, <2>2, <2>5 DEF Categories
  <2>7. /\ Cardinality(LiveAt(c, u)) <= Limit
        /\ Cardinality(LiveOf(c)) <= DailyCap
        /\ \A x, n \in LiveOf(c) : x # n => ~Near(reservation[n].slot, reservation[x].slot)
    BY <2>6 DEF IndInv, LimitInv
  <2> QED
    BY <2>3, <2>4, <2>7
<1> QED
  BY <1>1, Inductive, PTL
=============================================================================
