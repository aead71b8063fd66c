--------------------------- MODULE Autonomy_proofs ---------------------------
(***************************************************************************)
(* The safety of Autonomy for every number of iterations and days, every   *)
(* cap, and every choice of plans, costs and answers.                      *)
(***************************************************************************)
EXTENDS Autonomy, WellFoundedInduction, TLAPS

-----------------------------------------------------------------------------
(* Sums.  What holds of all sums is shown from a least counterexample.     *)

LEMMA LeastNumber ==
    ASSUME NEW S \in SUBSET Nat, S # {}
    PROVE  \E m \in S : \A n \in S : m <= n
<1> DEFINE R == OpToRel(<, Nat)
<1>1. IsWellFoundedOn(R, Nat)
  BY NatLessThanWellFounded
<1>2. \A m, n \in Nat : n < m => <<n, m>> \in R
  BY DEF OpToRel
<1> HIDE DEF R
<1>3. PICK m \in S : \A n \in S : ~(<<n, m>> \in R)
  BY <1>1, WFMin
<1>4. ASSUME NEW n \in S PROVE m <= n
  <2>1. m \in Nat /\ n \in Nat /\ ~(n < m)
    BY <1>2, <1>3
  <2> QED
    BY <2>1
<1> QED
  BY <1>4

\* g holds the sums of the first amounts of c, up to n.
IsSum(g, c, n) == g = [m \in 0 .. n |-> IF m = 0 THEN 0 ELSE g[m - 1] + c[m]]

LEMMA SumExists ==
    ASSUME NEW c \in [Iterations -> Nat], NEW n \in 0 .. MaxIterations
    PROVE  \E g \in [0 .. n -> Nat] : IsSum(g, c, n)
<1> DEFINE Without == {k \in 0 .. MaxIterations : ~ \E g \in [0 .. k -> Nat] : IsSum(g, c, k)}
<1>1. SUFFICES ASSUME Without # {} PROVE FALSE
  OBVIOUS
<1>2. PICK k \in Without : \A m \in Without : k <= m
  <2>1. Without \in SUBSET Nat
    BY BoundsAssumption
  <2> QED
    BY <1>1, <2>1, LeastNumber
<1>3. k \in Nat /\ k <= MaxIterations /\ MaxIterations \in Nat
  BY BoundsAssumption
<1>4. CASE k = 0
  <2> DEFINE g == [m \in 0 .. 0 |-> 0]
  <2>1. g \in [0 .. 0 -> Nat] /\ IsSum(g, c, 0)
    BY DEF IsSum
  <2> QED
    BY <1>2, <1>4, <2>1
<1>5. CASE k # 0
  <2>1. k - 1 \in 0 .. MaxIterations /\ k - 1 \notin Without
    <3>1. k - 1 \in 0 .. MaxIterations /\ ~(k <= k - 1)
      BY <1>3, <1>5
    <3> QED
      BY <1>2, <3>1
  <2>2. PICK g \in [0 .. k - 1 -> Nat] : IsSum(g, c, k - 1)
    BY <2>1
  <2>3. c[k] \in Nat /\ g[k - 1] \in Nat
    BY <1>3, <1>5 DEF Iterations
  <2> DEFINE h == [m \in 0 .. k |-> IF m = k THEN g[k - 1] + c[k] ELSE g[m]]
  <2>4. h \in [0 .. k -> Nat]
    BY <1>3, <1>5, <2>3
  <2>5. \A m \in 0 .. k : h[m] = IF m = 0 THEN 0 ELSE h[m - 1] + c[m]
    BY <1>3, <1>5, <2>2, <2>3 DEF IsSum
  <2>6. IsSum(h, c, k)
    BY <2>5 DEF IsSum
  <2> QED
    BY <1>2, <2>4, <2>6
<1> QED
  BY <1>4, <1>5

LEMMA SumsUnfold ==
    ASSUME NEW c \in [Iterations -> Nat]
    PROVE  /\ Sums(c) = [n \in 0 .. MaxIterations |-> IF n = 0 THEN 0 ELSE Sums(c)[n - 1] + c[n]]
<1>1. Sums(c) = CHOOSE g : IsSum(g, c, MaxIterations)
  BY DEF Sums, IsSum
<1>2. \E g : IsSum(g, c, MaxIterations)
  BY SumExists, BoundsAssumption
<1> QED
  BY <1>1, <1>2 DEF IsSum

LEMMA SumsStep ==
    ASSUME NEW c \in [Iterations -> Nat]
    PROVE  /\ Sums(c)[0] = 0
           /\ \A n \in 1 .. MaxIterations : Sums(c)[n] = Sums(c)[n - 1] + c[n]
           /\ \A n \in 0 .. MaxIterations : Sums(c)[n] \in Nat
<1>1. Sums(c)[0] = 0
  BY SumsUnfold, BoundsAssumption
<1>2. \A n \in 1 .. MaxIterations : Sums(c)[n] = Sums(c)[n - 1] + c[n]
  BY SumsUnfold, BoundsAssumption
<1>3. \A n \in 0 .. MaxIterations : Sums(c)[n] \in Nat
  <2> DEFINE Without == {k \in 0 .. MaxIterations : Sums(c)[k] \notin Nat}
  <2>1. SUFFICES ASSUME Without # {} PROVE FALSE
    OBVIOUS
  <2>2. PICK k \in Without : \A m \in Without : k <= m
    <3>1. Without \in SUBSET Nat
      BY BoundsAssumption
    <3> QED
      BY <2>1, <3>1, LeastNumber
  <2>3. k \in 1 .. MaxIterations /\ k - 1 \in 0 .. MaxIterations /\ ~(k <= k - 1)
    BY <1>1, <2>2, BoundsAssumption
  <2>4. Sums(c)[k - 1] \in Nat /\ c[k] \in Nat
    BY <2>2, <2>3 DEF Iterations
  <2> QED
    BY <1>2, <2>2, <2>3, <2>4
<1> QED
  BY <1>1, <1>2, <1>3

\* Sums of amounts that differ in one place differ by the difference there.
LEMMA OneAmount ==
    ASSUME NEW c \in [Iterations -> Nat], NEW d \in [Iterations -> Nat], NEW i \in Iterations,
           \A j \in Iterations : j # i => d[j] = c[j]
    PROVE  Sums(d)[MaxIterations] - d[i] = Sums(c)[MaxIterations] - c[i]
<1> DEFINE Same(n) == Sums(d)[n] = Sums(c)[n] + (IF n < i THEN 0 ELSE d[i] - c[i])
           Without == {n \in 0 .. MaxIterations : ~Same(n)}
<1>1. i \in Nat /\ 1 <= i /\ i <= MaxIterations /\ MaxIterations \in Nat /\ c[i] \in Nat /\ d[i] \in Nat
  BY BoundsAssumption DEF Iterations
<1>2. Without = {}
  <2>1. SUFFICES ASSUME Without # {} PROVE FALSE
    OBVIOUS
  <2>2. PICK n \in Without : \A m \in Without : n <= m
    <3>1. Without \in SUBSET Nat
      BY <1>1
    <3> QED
      BY <2>1, <3>1, LeastNumber
  <2>3. n # 0
    BY <1>1, <2>2, SumsStep
  <2>4. n \in 1 .. MaxIterations /\ n - 1 \in 0 .. MaxIterations /\ ~(n <= n - 1)
    BY <2>2, <2>3, <1>1
  <2>5. Same(n - 1)
    BY <2>2, <2>4
  <2>6. /\ Sums(c)[n] = Sums(c)[n - 1] + c[n] /\ Sums(d)[n] = Sums(d)[n - 1] + d[n]
        /\ Sums(c)[n - 1] \in Nat /\ Sums(d)[n - 1] \in Nat
    BY <2>4, SumsStep
  <2>7. c[n] \in Nat /\ d[n] \in Nat /\ (n # i => d[n] = c[n])
    BY <2>4 DEF Iterations
  <2> QED
    BY <1>1, <2>2, <2>4, <2>5, <2>6, <2>7
<1>3. Same(MaxIterations)
  BY <1>1, <1>2
<1>4. Sums(c)[MaxIterations] \in Nat /\ Sums(d)[MaxIterations] \in Nat
  BY <1>1, SumsStep
<1> QED
  BY <1>1, <1>3, <1>4

-----------------------------------------------------------------------------
(* The inductive invariant. *)

\* Of an iteration that is not allocated there is nothing.
LaterInv == \A i \in Iterations : i > current =>
    phase[i] = "none" /\ plan[i] = None /\ outcomes[i] = {} /\ worker[i] = None

\* An attempt: before its PREPARED outcome there is neither call nor reservation;
\* while its worker goes on, the reservation is as transaction A left it and no
\* outcome of the call is stored; before the call it has not been called.
Attempted(i) ==
    /\ plan[i] = None => i > current
    /\ outcomes[i] = {} => worker[i] = None /\ calls[i] = 0 /\ funds[i] = Free
    /\ worker[i] # None => /\ outcomes[i] \subseteq {"PREPARED", "DISPATCH_INTENT_COMMITTED"}
                           /\ Cost(plan[i]) > 0 => funds[i].status = "RESERVED"
    /\ worker[i] \in {"intent", "call"} => calls[i] = 0
    /\ calls[i] \in {0, 1}

AttemptInv == \A i \in Iterations : Attempted(i)

IndInv == TypeOK /\ LaterInv /\ AttemptInv /\ OneOpenIteration /\ LiabilityWithinCap

-----------------------------------------------------------------------------
(* Types. *)

Statuses == Liable \cup {None, "CAPTURED", "RELEASED"}
Journal == {"PREPARED", "DISPATCH_INTENT_COMMITTED"} \cup Outcomes \cup Reconciled

LEMMA UserType ==
    ASSUME TypeOK, Pause \/ Resume \/ Cancel \/ CompleteIteration \/ ResetFailure \/ Midnight
    PROVE  TypeOK'
<1>1. [phase EXCEPT ![current] = "closed"] \in [Iterations -> {"none", "open", "closed"}]
  BY DEF TypeOK
<1>2. phase' \in [Iterations -> {"none", "open", "closed"}]
  BY <1>1 DEF TypeOK, Pause, Resume, Cancel, UpdateOperationalState, CompleteIteration, ResetFailure, Midnight,
              Close, pointer
<1>3. state' \in States
  BY DEF TypeOK, Pause, Resume, Cancel, UpdateOperationalState, CompleteIteration, ResetFailure, Midnight,
         pointer, States
<1>4. today' \in Days
  BY BoundsAssumption DEF TypeOK, Pause, Resume, Cancel, UpdateOperationalState, CompleteIteration, ResetFailure,
         Midnight, Days
<1>5. UNCHANGED <<current, plan, outcomes, worker, calls, funds, ledger>>
  BY DEF Pause, Resume, Cancel, UpdateOperationalState, CompleteIteration, ResetFailure, Midnight, pointer,
         attempts, budget
<1> QED
  BY <1>2, <1>3, <1>4, <1>5 DEF TypeOK

\* A plan that costs is one of Kinds.
LEMMA CostType ==
    ASSUME TypeOK, NEW k \in Kinds
    PROVE  Cost(k) \in Nat
BY KindsAssumption

LEMMA ReserveType ==
    ASSUME TypeOK, NEW i \in Iterations, NEW k \in Kinds, Reserve(i, k)
    PROVE  funds' \in [Iterations -> [status : Statuses, day : Days]] /\ ledger' \in [lifetime : Nat, daily : Nat, day : Days]
<1>1. RolledOver \in [lifetime : Nat, daily : Nat, day : Days]
  <2>1. [ledger EXCEPT !.daily = 0, !.day = today] \in [lifetime : Nat, daily : Nat, day : Days]
    BY DEF TypeOK
  <2> QED
    BY <2>1 DEF TypeOK, RolledOver
<1>2. [funds EXCEPT ![i] = [status |-> "RESERVED", day |-> today]] \in [Iterations -> [status : Statuses, day : Days]]
  BY DEF TypeOK, Statuses, Liable
<1> QED
  BY <1>1, <1>2 DEF TypeOK, Reserve, budget, Statuses

LEMMA CaptureType ==
    ASSUME TypeOK, NEW i \in Iterations, plan[i] \in Kinds, Capture(i)
    PROVE  funds' \in [Iterations -> [status : Statuses, day : Days]] /\ ledger' \in [lifetime : Nat, daily : Nat, day : Days]
<1>1. Cost(plan[i]) \in Nat
  BY KindsAssumption
<1>2. [funds EXCEPT ![i].status = "CAPTURED"] \in [Iterations -> [status : Statuses, day : Days]]
  BY DEF TypeOK, Statuses
<1>3. ledger' = [lifetime |-> ledger.lifetime + Cost(plan[i]), daily |-> ledger.daily + Cost(plan[i]), day |-> ledger.day]
  BY DEF TypeOK, Capture
<1> QED
  BY <1>1, <1>2, <1>3 DEF TypeOK, Capture

LEMMA SettleType ==
    ASSUME TypeOK, NEW i \in Iterations, NEW status \in Statuses, Settle(i, status)
    PROVE  funds' \in [Iterations -> [status : Statuses, day : Days]] /\ UNCHANGED ledger
BY DEF TypeOK, Settle, Statuses

LEMMA PreparedType ==
    ASSUME TypeOK, NEW i \in Iterations, NEW k \in Kinds, Prepared(i, k)
    PROVE  /\ outcomes' \in [Iterations -> SUBSET Journal]
           /\ worker' \in [Iterations -> {None, "intent", "call"} \cup Outcomes]
           /\ UNCHANGED calls
BY DEF TypeOK, Prepared, Journal

LEMMA AllocatedType ==
    ASSUME TypeOK, NEW k \in Kinds, NEW new \in States, NEW names, Allocated(k, new, names)
    PROVE  /\ current' = current + 1 /\ current' \in Iterations /\ current' \in 0 .. MaxIterations
           /\ phase' \in [Iterations -> {"none", "open", "closed"}]
           /\ plan' \in [Iterations -> Kinds \cup {None}]
           /\ state' \in States
<1>1. current' = current + 1 /\ current' \in Iterations /\ current' \in 0 .. MaxIterations
  BY BoundsAssumption DEF TypeOK, Allocated, MayAllocate, Iterations
<1> QED
  BY <1>1 DEF TypeOK, Allocated

LEMMA TickType ==
    ASSUME TypeOK, NEW k \in Kinds, Tick(k) \/ PlanOnly(k)
    PROVE  TypeOK'
<1>1. CASE Tick(k)
  <2>1. \E new \in States : \E names : Allocated(k, new, names)
    BY <1>1 DEF Tick, States
  <2>2. CASE Prepared(current + 1, k)
    BY <1>1, <2>1, <2>2, AllocatedType, ReserveType, PreparedType DEF TypeOK, Tick, Prepared, Statuses, Journal
  <2>3. CASE UNCHANGED <<attempts, budget>>
    BY <1>1, <2>1, <2>3, AllocatedType DEF TypeOK, Tick, attempts, budget
  <2> QED
    BY <1>1, <2>2, <2>3 DEF Tick
<1>2. CASE PlanOnly(k)
  BY <1>2, AllocatedType DEF TypeOK, PlanOnly, attempts, budget, States
<1> QED
  BY <1>1, <1>2

LEMMA DispatchType ==
    ASSUME IndInv, NEW i \in Iterations,
           Dispatch(i) \/ CommitIntent(i) \/ CallSubsystem(i) \/ RecordOutcome(i) \/ Die(i) \/ Reconcile(i)
    PROVE  TypeOK'
<1> USE DEF IndInv
<1>1. CASE Dispatch(i)
  <2>1. state' \in States /\ plan[i] \in Kinds /\ UNCHANGED <<current, phase, plan, today>>
    BY <1>1 DEF Dispatch, States, TypeOK
  <2>2. CASE Prepared(i, plan[i])
    BY <2>1, <2>2, ReserveType, PreparedType DEF TypeOK, Prepared, Statuses, Journal
  <2>3. CASE UNCHANGED <<attempts, budget>>
    BY <2>1, <2>3 DEF TypeOK, attempts, budget
  <2> QED
    BY <1>1, <2>2, <2>3 DEF Dispatch
<1>2. CASE CommitIntent(i)
  BY <1>2 DEF CommitIntent, TypeOK, pointer, budget
<1>3. CASE CallSubsystem(i)
  <2>1. plan[i] \in Kinds
    BY <1>3 DEF CallSubsystem, AttemptInv, Attempted, LaterInv, TypeOK, None
  <2>2. Answers(plan[i]) \subseteq Outcomes
    BY <2>1, KindsAssumption
  <2>3. worker' \in [Iterations -> {None, "intent", "call"} \cup Outcomes]
    BY <1>3, <2>2 DEF CallSubsystem, TypeOK
  <2>4. calls' \in [Iterations -> Nat]
    BY <1>3 DEF CallSubsystem, TypeOK
  <2> QED
    BY <1>3, <2>3, <2>4 DEF CallSubsystem, TypeOK, pointer, budget
<1>4. CASE RecordOutcome(i)
  <2>1. plan[i] \in Kinds
    BY <1>4 DEF RecordOutcome, AttemptInv, Attempted, LaterInv, TypeOK, None, Outcomes
  <2>2. outcomes' \in [Iterations -> SUBSET Journal] /\ worker' \in [Iterations -> {None, "intent", "call"} \cup Outcomes]
    BY <1>4 DEF RecordOutcome, TypeOK, Journal
  <2>3. state' \in States
    BY <1>4 DEF RecordOutcome, StateAfter, Outcomes, States
  <2>4. funds' \in [Iterations -> [status : Statuses, day : Days]] /\ ledger' \in [lifetime : Nat, daily : Nat, day : Days]
    <3>1. CASE UNCHANGED budget
      BY <3>1 DEF TypeOK, budget, Statuses
    <3>2. CASE ~UNCHANGED budget
      <4>1. Capture(i) \/ Settle(i, "RECONCILIATION_REQUIRED") \/ Settle(i, "RELEASED")
        BY <1>4, <3>2 DEF RecordOutcome, Resolve, Outcomes
      <4>2. "RECONCILIATION_REQUIRED" \in Statuses /\ "RELEASED" \in Statuses
        BY DEF Statuses, Liable
      <4> QED
        BY <2>1, <4>1, <4>2, CaptureType, SettleType DEF TypeOK
    <3> QED
      BY <3>1, <3>2
  <2> QED
    BY <1>4, <2>2, <2>3, <2>4 DEF RecordOutcome, TypeOK, Statuses, Journal
<1>5. CASE Die(i)
  BY <1>5 DEF Die, TypeOK, pointer, budget
<1>6. CASE Reconcile(i)
  <2>1. plan[i] \in Kinds
    BY <1>6 DEF Reconcile, AttemptInv, Attempted, LaterInv, TypeOK
  <2>2. outcomes' \in [Iterations -> SUBSET Journal]
    BY <1>6 DEF Reconcile, TypeOK, Journal
  <2>3. funds' \in [Iterations -> [status : Statuses, day : Days]] /\ ledger' \in [lifetime : Nat, daily : Nat, day : Days]
    <3>1. CASE UNCHANGED budget
      BY <3>1 DEF TypeOK, budget, Statuses
    <3>2. CASE ~UNCHANGED budget
      <4>1. Capture(i) \/ Settle(i, "RELEASED")
        BY <1>6, <3>2 DEF Reconcile
      <4>2. "RELEASED" \in Statuses
        BY DEF Statuses
      <4> QED
        BY <2>1, <4>1, <4>2, CaptureType, SettleType DEF TypeOK
    <3> QED
      BY <3>1, <3>2
  <2> QED
    BY <1>6, <2>2, <2>3 DEF Reconcile, TypeOK, Statuses, Journal, pointer
<1> QED
  BY <1>1, <1>2, <1>3, <1>4, <1>5, <1>6

LEMMA Types == ASSUME IndInv, [Next]_vars PROVE TypeOK'
<1>1. CASE UNCHANGED vars
  BY <1>1 DEF IndInv, TypeOK, vars
<1> QED
  BY <1>1, UserType, TickType, DispatchType DEF IndInv, Next

-----------------------------------------------------------------------------
(* Iterations and attempts. *)

LEMMA UserKeeps ==
    ASSUME IndInv, Pause \/ Resume \/ Cancel \/ CompleteIteration \/ ResetFailure \/ Midnight
    PROVE  LaterInv' /\ AttemptInv' /\ OneOpenIteration'
<1> USE DEF IndInv
<1>1. UNCHANGED <<current, plan, outcomes, worker, calls, funds>>
  BY DEF Pause, Resume, Cancel, UpdateOperationalState, CompleteIteration, ResetFailure, Midnight, pointer,
         attempts, budget
<1>2. phase' = phase \/ (current # 0 /\ phase' = [phase EXCEPT ![current] = "closed"])
  BY DEF Pause, Resume, Cancel, UpdateOperationalState, CompleteIteration, ResetFailure, Midnight, pointer, Close
<1>3. AttemptInv'
  BY <1>1 DEF AttemptInv, Attempted
<1>4. \A i \in Iterations : phase'[i] = phase[i] \/ (i = current /\ phase'[i] = "closed")
  BY <1>2 DEF TypeOK
<1>5. LaterInv'
  BY <1>1, <1>4, BoundsAssumption DEF LaterInv, TypeOK, Iterations
<1>6. OneOpenIteration'
  BY <1>1, <1>4 DEF OneOpenIteration
<1> QED
  BY <1>3, <1>5, <1>6

LEMMA TickKeeps ==
    ASSUME IndInv, NEW k \in Kinds, Tick(k) \/ PlanOnly(k)
    PROVE  LaterInv' /\ AttemptInv' /\ OneOpenIteration'
<1> USE DEF IndInv
<1>0. current + 1 \in Iterations
  BY BoundsAssumption DEF TypeOK, Tick, PlanOnly, Allocated, MayAllocate, Iterations
<1>9. PICK n \in Iterations : n = current + 1
  BY <1>0
<1>1. /\ n \in Iterations /\ current' = n
      /\ phase' = [phase EXCEPT ![n] = "open"] /\ plan' = [plan EXCEPT ![n] = k]
      /\ current # 0 => phase[current] = "closed"
  BY <1>9, BoundsAssumption DEF TypeOK, Tick, PlanOnly, Allocated, MayAllocate, Iterations
<1>2. \A i \in Iterations : i # n => phase'[i] = phase[i] /\ plan'[i] = plan[i]
  BY <1>1 DEF TypeOK
<1>3. phase'[n] = "open" /\ plan'[n] = k /\ k # None
  BY <1>1, KindsAssumption DEF TypeOK
<1>4. OneOpenIteration'
  BY <1>1, <1>2, <1>3, <1>9, BoundsAssumption DEF OneOpenIteration, Iterations, TypeOK
<1>5. /\ outcomes[n] = {} /\ worker[n] = None /\ calls[n] = 0 /\ funds[n] = Free
  BY <1>1, <1>9, BoundsAssumption DEF LaterInv, AttemptInv, Attempted, TypeOK
<1>6. \A i \in Iterations : i > n => i > current /\ i # n
  BY <1>1, <1>9, BoundsAssumption DEF Iterations, TypeOK
<1>7. CASE Prepared(n, k)
  <2>1. \A i \in Iterations : i # n => /\ outcomes'[i] = outcomes[i] /\ worker'[i] = worker[i]
                                     /\ calls'[i] = calls[i] /\ funds'[i] = funds[i]
    BY <1>1, <1>7 DEF Prepared, Reserve, TypeOK, budget
  <2>2. /\ outcomes'[n] = {"PREPARED"} /\ worker'[n] = "intent" /\ calls'[n] = 0
        /\ Cost(k) > 0 => funds'[n].status = "RESERVED"
    BY <1>1, <1>5, <1>7, KindsAssumption DEF Prepared, Reserve, TypeOK, budget
  <2>3. Attempted(n)'
    BY <1>3, <2>2 DEF Attempted
  <2>4. ASSUME NEW i \in Iterations, i # n PROVE Attempted(i)'
    <3>1. Attempted(i) /\ (plan[i] = None => i > n)
      BY <1>1, <1>9, <2>4, BoundsAssumption DEF AttemptInv, Attempted, Iterations, TypeOK
    <3> QED
      BY <1>1, <1>2, <2>1, <2>4, <3>1 DEF Attempted
  <2>5. LaterInv'
    BY <1>1, <1>2, <1>6, <2>1 DEF LaterInv
  <2> QED
    BY <1>4, <2>3, <2>4, <2>5 DEF AttemptInv
<1>8. CASE UNCHANGED <<attempts, budget>>
  <2>1. ASSUME NEW i \in Iterations, i # n PROVE Attempted(i)'
    <3>1. Attempted(i) /\ (plan[i] = None => i > n)
      BY <1>1, <1>9, <2>1, BoundsAssumption DEF AttemptInv, Attempted, Iterations, TypeOK
    <3> QED
      BY <1>1, <1>2, <1>8, <2>1, <3>1 DEF Attempted, attempts, budget
  <2>2. Attempted(n)'
    BY <1>3, <1>5, <1>8 DEF Attempted, attempts, budget
  <2>3. LaterInv'
    BY <1>1, <1>2, <1>6, <1>8 DEF LaterInv, attempts
  <2> QED
    BY <1>4, <2>1, <2>2, <2>3 DEF AttemptInv
<1> QED
  BY <1>7, <1>8, <1>9 DEF Tick, PlanOnly

\* A step of the dispatch of iteration i leaves the others alone.
LEMMA OneDispatch ==
    ASSUME IndInv, NEW i \in Iterations, UNCHANGED <<current, phase, plan>>,
           \A j \in Iterations : j # i => /\ outcomes'[j] = outcomes[j] /\ worker'[j] = worker[j]
                                        /\ calls'[j] = calls[j] /\ funds'[j] = funds[j],
           Attempted(i)', ~(i > current)
    PROVE  LaterInv' /\ AttemptInv' /\ OneOpenIteration'
<1> USE DEF IndInv
<1>1. \A j \in Iterations : j # i => Attempted(j)'
  BY DEF AttemptInv, Attempted
<1>2. LaterInv'
  BY DEF LaterInv
<1>3. OneOpenIteration'
  BY DEF OneOpenIteration
<1> QED
  BY <1>1, <1>2, <1>3 DEF AttemptInv

LEMMA FundsOfOne ==
    ASSUME TypeOK, NEW i \in Iterations, NEW k, NEW o,
           Reserve(i, k) \/ Resolve(i, o) \/ Capture(i) \/ Settle(i, "RELEASED") \/ UNCHANGED budget,
           o \in Outcomes
    PROVE  \A j \in Iterations : j # i => funds'[j] = funds[j]
<1>1. \/ UNCHANGED funds
      \/ funds' = [funds EXCEPT ![i] = [status |-> "RESERVED", day |-> today]]
      \/ \E status : funds' = [funds EXCEPT ![i].status = status]
  BY DEF Reserve, Resolve, Capture, Settle, budget, Outcomes
<1> QED
  BY <1>1 DEF TypeOK

LEMMA DispatchKeeps ==
    ASSUME IndInv, NEW i \in Iterations,
           Dispatch(i) \/ CommitIntent(i) \/ CallSubsystem(i) \/ RecordOutcome(i) \/ Die(i) \/ Reconcile(i)
    PROVE  LaterInv' /\ AttemptInv' /\ OneOpenIteration'
<1> USE DEF IndInv
<1>1. /\ UNCHANGED <<current, phase, plan>>
      /\ plan[i] # None /\ ~(i > current) /\ Attempted(i)
  BY DEF Dispatch, CommitIntent, CallSubsystem, RecordOutcome, Die, Reconcile, LaterInv, AttemptInv, Attempted,
         pointer, Outcomes, None
<1>2. CASE Dispatch(i) /\ Prepared(i, plan[i])
  <2>1. \A j \in Iterations : j # i => /\ outcomes'[j] = outcomes[j] /\ worker'[j] = worker[j]
                                     /\ calls'[j] = calls[j] /\ funds'[j] = funds[j]
    BY <1>2 DEF Prepared, Reserve, TypeOK, budget
  <2>2. /\ outcomes'[i] = {"PREPARED"} /\ worker'[i] = "intent" /\ calls'[i] = 0
        /\ Cost(plan[i]) > 0 => funds'[i].status = "RESERVED"
    BY <1>1, <1>2 DEF Prepared, Reserve, TypeOK, budget, Attempted
  <2>3. Attempted(i)'
    BY <1>1, <2>2 DEF Attempted
  <2> QED
    BY <1>1, <2>1, <2>3, OneDispatch
<1>3. CASE Dispatch(i) /\ UNCHANGED <<attempts, budget>>
  BY <1>1, <1>3, OneDispatch DEF Attempted, attempts, budget
<1>4. CASE CommitIntent(i)
  <2>1. \A j \in Iterations : j # i => /\ outcomes'[j] = outcomes[j] /\ worker'[j] = worker[j]
                                     /\ calls'[j] = calls[j] /\ funds'[j] = funds[j]
    BY <1>4 DEF CommitIntent, TypeOK, budget
  <2>2. /\ outcomes'[i] = outcomes[i] \cup {"DISPATCH_INTENT_COMMITTED"} /\ worker'[i] = "call"
        /\ calls'[i] = calls[i] /\ funds'[i] = funds[i]
    BY <1>4 DEF CommitIntent, TypeOK, budget
  <2>3. worker[i] = "intent"
    BY <1>4 DEF CommitIntent
  <2>4. Attempted(i)'
    BY <1>1, <2>2, <2>3 DEF Attempted, None
  <2> QED
    BY <1>1, <2>1, <2>4, OneDispatch
<1>5. CASE CallSubsystem(i)
  <2>1. \A j \in Iterations : j # i => /\ outcomes'[j] = outcomes[j] /\ worker'[j] = worker[j]
                                     /\ calls'[j] = calls[j] /\ funds'[j] = funds[j]
    BY <1>5 DEF CallSubsystem, TypeOK, budget
  <2>2. worker'[i] \in Outcomes
    <3>1. plan[i] \in Kinds
      BY <1>1 DEF TypeOK
    <3> QED
      BY <1>5, <3>1, KindsAssumption DEF CallSubsystem, TypeOK
  <2>3. /\ outcomes'[i] = outcomes[i] /\ calls'[i] = calls[i] + 1 /\ funds'[i] = funds[i] /\ worker[i] = "call"
    BY <1>5 DEF CallSubsystem, TypeOK, budget
  <2>4. Attempted(i)'
    BY <1>1, <2>2, <2>3 DEF Attempted, None, Outcomes
  <2> QED
    BY <1>1, <2>1, <2>4, OneDispatch
<1>6. CASE RecordOutcome(i)
  <2>1. \A j \in Iterations : j # i => /\ outcomes'[j] = outcomes[j] /\ worker'[j] = worker[j]
                                     /\ calls'[j] = calls[j]
    BY <1>6 DEF RecordOutcome, TypeOK
  <2>2. \A j \in Iterations : j # i => funds'[j] = funds[j]
    BY <1>6, FundsOfOne DEF RecordOutcome
  <2>3. worker'[i] = None /\ outcomes'[i] # {} /\ calls'[i] = calls[i]
    BY <1>6 DEF RecordOutcome, TypeOK
  <2>4. Attempted(i)'
    BY <1>1, <2>3 DEF Attempted, None
  <2> QED
    BY <1>1, <2>1, <2>2, <2>4, OneDispatch
<1>7. CASE Die(i)
  <2>1. \A j \in Iterations : j # i => /\ outcomes'[j] = outcomes[j] /\ worker'[j] = worker[j]
                                     /\ calls'[j] = calls[j] /\ funds'[j] = funds[j]
    BY <1>7 DEF Die, TypeOK, budget
  <2>2. /\ worker'[i] = None /\ outcomes'[i] = outcomes[i] /\ calls'[i] = calls[i] /\ funds'[i] = funds[i]
    BY <1>7 DEF Die, TypeOK, budget
  <2>3. Attempted(i)'
    BY <1>1, <2>2 DEF Attempted, None
  <2> QED
    BY <1>1, <2>1, <2>3, OneDispatch
<1>8. CASE Reconcile(i)
  <2>1. \A j \in Iterations : j # i => /\ outcomes'[j] = outcomes[j] /\ worker'[j] = worker[j]
                                     /\ calls'[j] = calls[j]
    BY <1>8 DEF Reconcile, TypeOK
  <2>2. \A j \in Iterations : j # i => funds'[j] = funds[j]
    BY <1>8, FundsOfOne DEF Reconcile, Outcomes
  <2>3. worker[i] = None
    BY <1>1, <1>8 DEF Reconcile, Attempted
  <2>4. worker'[i] = None /\ outcomes'[i] # {} /\ calls'[i] = calls[i]
    BY <1>8, <2>3 DEF Reconcile, TypeOK
  <2>5. Attempted(i)'
    BY <1>1, <2>4 DEF Attempted, None
  <2> QED
    BY <1>1, <2>1, <2>2, <2>5, OneDispatch
<1> QED
  BY <1>2, <1>3, <1>4, <1>5, <1>6, <1>7, <1>8 DEF Dispatch

LEMMA Attempts ==
    ASSUME IndInv, [Next]_vars PROVE LaterInv' /\ AttemptInv' /\ OneOpenIteration'
<1>1. CASE UNCHANGED vars
  BY <1>1 DEF IndInv, vars, LaterInv, AttemptInv, Attempted, OneOpenIteration
<1> QED
  BY <1>1, UserKeeps, TickKeeps, DispatchKeeps DEF Next

-----------------------------------------------------------------------------
(* The liability. *)

\* What each iteration may still spend.
Amounts == [i \in Iterations |-> IF i \in Unresolved THEN Cost(plan[i]) ELSE 0]

LEMMA AmountsType ==
    ASSUME IndInv
    PROVE  Amounts \in [Iterations -> Nat] /\ CostOf(Unresolved) = Sums(Amounts)[MaxIterations]
<1>1. ASSUME NEW i \in Unresolved PROVE Cost(plan[i]) \in Nat
  <2>1. i \in Iterations /\ funds[i] # Free
    BY DEF Unresolved, Free, Liable, None
  <2>2. plan[i] \in Kinds
    BY <2>1 DEF IndInv, AttemptInv, Attempted, LaterInv, TypeOK
  <2> QED
    BY <2>2, KindsAssumption
<1>2. Amounts \in [Iterations -> Nat]
  BY <1>1 DEF Amounts
<1> QED
  BY <1>2 DEF CostOf, Amounts

LEMMA UnchangedAmounts ==
    ASSUME IndInv, \A i \in Iterations : Amounts'[i] = Amounts[i], ledger'.lifetime = ledger.lifetime
    PROVE  LiabilityWithinCap'
<1>1. Amounts' = Amounts
  BY DEF Amounts
<1>2. CostOf(Unresolved)' = CostOf(Unresolved)
  BY <1>1 DEF CostOf, Amounts
<1> QED
  BY <1>2 DEF IndInv, LiabilityWithinCap

\* A step of iteration i keeps to the cap when it takes no more than it frees.
LEMMA OneSpends ==
    ASSUME IndInv, NEW i \in Iterations, Amounts' \in [Iterations -> Nat],
           \A j \in Iterations : j # i => Amounts'[j] = Amounts[j],
           ledger' \in [lifetime : Nat, daily : Nat, day : Days],
           \/ ledger'.lifetime + Amounts'[i] <= ledger.lifetime + Amounts[i]
           \/ ledger.lifetime + CostOf(Unresolved) + ledger'.lifetime - ledger.lifetime + Amounts'[i] - Amounts[i] <= LifetimeCap
    PROVE  LiabilityWithinCap'
<1>1. Amounts \in [Iterations -> Nat] /\ CostOf(Unresolved) = Sums(Amounts)[MaxIterations]
  BY AmountsType
<1>2. CostOf(Unresolved)' = Sums(Amounts')[MaxIterations]
  BY DEF CostOf, Amounts, Sums
<1>3. Sums(Amounts')[MaxIterations] - Amounts'[i] = Sums(Amounts)[MaxIterations] - Amounts[i]
  BY <1>1, OneAmount
<1>4. /\ Sums(Amounts')[MaxIterations] \in Nat /\ Sums(Amounts)[MaxIterations] \in Nat
      /\ Amounts[i] \in Nat /\ Amounts'[i] \in Nat
  BY <1>1, SumsStep, BoundsAssumption
<1>5. ledger.lifetime \in Nat /\ ledger'.lifetime \in Nat /\ LifetimeCap \in Nat
  BY BoundsAssumption DEF IndInv, TypeOK
<1>6. ledger.lifetime + Sums(Amounts)[MaxIterations] <= LifetimeCap
  BY <1>1 DEF IndInv, LiabilityWithinCap
<1>7. ledger'.lifetime + Sums(Amounts')[MaxIterations] <= LifetimeCap
  BY <1>1, <1>3, <1>4, <1>5, <1>6
<1> QED
  BY <1>2, <1>7 DEF LiabilityWithinCap

LEMMA ReserveWithinCap ==
    ASSUME IndInv, NEW i \in Iterations, NEW k \in Kinds, Reserve(i, k), TypeOK', AttemptInv', LaterInv',
           outcomes[i] = {}, plan'[i] = k,
           \A j \in Iterations : j # i => plan'[j] = plan[j]
    PROVE  LiabilityWithinCap'
<1> USE DEF IndInv
<1>1. Cost(k) \in Nat /\ funds[i] = Free
  BY KindsAssumption DEF AttemptInv, Attempted
<1>2. Amounts \in [Iterations -> Nat] /\ Amounts[i] = 0
  BY <1>1, AmountsType DEF Amounts, Unresolved, Free, Liable, None
<1>3. CASE Cost(k) = 0
  <2>1. UNCHANGED <<funds, ledger>>
    BY <1>3 DEF Reserve, budget
  <2>2. \A j \in Iterations : Amounts'[j] = Amounts[j]
    <3>1. i \notin Unresolved
      BY <1>1 DEF Unresolved, Free, Liable, None
    <3> QED
      BY <2>1, <3>1 DEF Amounts, Unresolved
  <2> QED
    BY <2>1, <2>2, UnchangedAmounts
<1>4. CASE Cost(k) # 0
  <2>1. /\ Fits(Cost(k)) /\ ledger' = RolledOver
        /\ funds' = [funds EXCEPT ![i] = [status |-> "RESERVED", day |-> today]]
    BY <1>4 DEF Reserve
  <2>2. Unresolved' = Unresolved \cup {i}
    BY <2>1 DEF Unresolved, TypeOK, Liable
  <2>3. \A j \in Iterations : j # i => Amounts'[j] = Amounts[j]
    BY <2>2 DEF Amounts
  <2>4. Amounts'[i] = Cost(k)
    BY <2>2 DEF Amounts
  <2>5. Amounts' \in [Iterations -> Nat]
    BY <1>1, <1>2, <2>3, <2>4 DEF Amounts
  <2>6. ledger'.lifetime = ledger.lifetime
    BY <2>1 DEF RolledOver, TypeOK
  <2>7. ledger.lifetime + CostOf(Unresolved) + Cost(k) <= LifetimeCap
    BY <2>1 DEF Fits
  <2>8. ledger' \in [lifetime : Nat, daily : Nat, day : Days] /\ ledger.lifetime \in Nat
    BY DEF TypeOK
  <2>9. CostOf(Unresolved) \in Nat
    BY AmountsType, SumsStep, BoundsAssumption
  <2>10. ledger.lifetime + CostOf(Unresolved) + ledger'.lifetime - ledger.lifetime + Amounts'[i] - Amounts[i] <= LifetimeCap
    BY <1>1, <1>2, <2>4, <2>6, <2>7, <2>8, <2>9, BoundsAssumption
  <2> QED
    BY <2>3, <2>5, <2>8, <2>10, OneSpends
<1> QED
  BY <1>3, <1>4

\* An outcome that captures moves the amount to the spend; the others free it.
LEMMA SettleWithinCap ==
    ASSUME IndInv, TypeOK', NEW i \in Iterations, UNCHANGED plan, i \in Unresolved,
           Capture(i) \/ Settle(i, "RECONCILIATION_REQUIRED") \/ Settle(i, "RELEASED")
    PROVE  LiabilityWithinCap'
<1> USE DEF IndInv
<1>1. Amounts \in [Iterations -> Nat] /\ Amounts[i] = Cost(plan[i])
  BY AmountsType DEF Amounts
<1>2. \A j \in Iterations : j # i => (j \in Unresolved' <=> j \in Unresolved)
  BY DEF Capture, Settle, TypeOK, Unresolved
<1>3. \A j \in Iterations : j # i => Amounts'[j] = Amounts[j]
  BY <1>2 DEF Amounts
<1>4. Amounts'[i] \in {0, Amounts[i]}
  BY <1>1 DEF Amounts
<1>5. Amounts' \in [Iterations -> Nat]
  BY <1>1, <1>3, <1>4 DEF Amounts
<1>6. ledger' \in [lifetime : Nat, daily : Nat, day : Days] /\ ledger.lifetime \in Nat
  BY DEF TypeOK
<1>7. ledger'.lifetime + Amounts'[i] <= ledger.lifetime + Amounts[i]
  <2>1. CASE Capture(i)
    <3>1. ledger'.lifetime = ledger.lifetime + Cost(plan[i])
      BY <2>1 DEF Capture, TypeOK
    <3>2. i \notin Unresolved'
      BY <2>1 DEF Capture, TypeOK, Unresolved, Liable
    <3>3. Amounts'[i] = 0
      BY <3>2 DEF Amounts
    <3> QED
      BY <1>1, <1>6, <3>1, <3>3
  <2>2. CASE UNCHANGED ledger
    BY <1>1, <1>4, <1>6, <2>2
  <2> QED
    BY <2>1, <2>2 DEF Settle
<1> QED
  BY <1>3, <1>5, <1>6, <1>7, OneSpends

LEMMA NothingSpent ==
    ASSUME IndInv, UNCHANGED <<plan, funds, ledger>>
    PROVE  LiabilityWithinCap'
<1>1. \A i \in Iterations : Amounts'[i] = Amounts[i]
  BY DEF Amounts, Unresolved
<1> QED
  BY <1>1, UnchangedAmounts

LEMMA Liability ==
    ASSUME IndInv, [Next]_vars PROVE LiabilityWithinCap'
<1> USE DEF IndInv
<1>0. TypeOK' /\ AttemptInv' /\ LaterInv'
  BY Types, Attempts
<1>1. CASE \/ UNCHANGED vars \/ Pause \/ Resume \/ Cancel \/ CompleteIteration \/ ResetFailure \/ Midnight
           \/ \E i \in Iterations : CommitIntent(i) \/ CallSubsystem(i) \/ Die(i)
  BY <1>1, NothingSpent DEF vars, Pause, Resume, Cancel, UpdateOperationalState, CompleteIteration, ResetFailure,
     Midnight, CommitIntent, CallSubsystem, Die, budget
<1>2. ASSUME NEW k \in Kinds, Tick(k) \/ PlanOnly(k) PROVE LiabilityWithinCap'
  <2>1. PICK n \in Iterations : n = current + 1
    BY <1>2, BoundsAssumption DEF TypeOK, Tick, PlanOnly, Allocated, MayAllocate, Iterations
  <2>2. plan' = [plan EXCEPT ![n] = k]
    BY <1>2, <2>1 DEF Tick, PlanOnly, Allocated
  <2>3. outcomes[n] = {} /\ funds[n] = Free
    BY <2>1, BoundsAssumption DEF LaterInv, AttemptInv, Attempted, TypeOK
  <2>4. plan'[n] = k /\ \A j \in Iterations : j # n => plan'[j] = plan[j]
    BY <2>2 DEF TypeOK
  <2>5. CASE Reserve(n, k)
    BY <1>0, <2>3, <2>4, <2>5, ReserveWithinCap
  <2>6. CASE UNCHANGED budget
    <3>1. n \notin Unresolved
      BY <2>3 DEF Unresolved, Free, Liable, None
    <3>2. \A j \in Iterations : Amounts'[j] = Amounts[j]
      BY <2>4, <2>6, <3>1 DEF Amounts, Unresolved, budget
    <3> QED
      BY <2>6, <3>2, UnchangedAmounts DEF budget
  <2> QED
    BY <1>2, <2>1, <2>5, <2>6 DEF Tick, PlanOnly, Prepared
<1>3. ASSUME NEW i \in Iterations, Dispatch(i) PROVE LiabilityWithinCap'
  <2>1. CASE UNCHANGED budget
    BY <1>3, <2>1, NothingSpent DEF Dispatch, budget
  <2>2. CASE Prepared(i, plan[i])
    <3>1. plan[i] \in Kinds /\ UNCHANGED plan
      BY <1>3 DEF Dispatch, TypeOK
    <3> QED
      BY <1>0, <2>2, <3>1, ReserveWithinCap DEF Prepared
  <2> QED
    BY <1>3, <2>1, <2>2 DEF Dispatch
<1>4. ASSUME NEW i \in Iterations, RecordOutcome(i) PROVE LiabilityWithinCap'
  <2>1. CASE UNCHANGED budget
    BY <1>4, <2>1, NothingSpent DEF RecordOutcome, budget
  <2>2. CASE ~UNCHANGED budget
    <3>1. Cost(plan[i]) # 0
      BY <1>4, <2>2 DEF RecordOutcome, Resolve
    <3>2. plan[i] \in Kinds /\ worker[i] # None
      BY <1>4 DEF RecordOutcome, AttemptInv, Attempted, LaterInv, TypeOK, None, Outcomes
    <3>3. Cost(plan[i]) > 0
      BY <3>1, <3>2, KindsAssumption
    <3>4. i \in Unresolved
      BY <3>2, <3>3 DEF AttemptInv, Attempted, Unresolved, Liable
    <3>5. Capture(i) \/ Settle(i, "RECONCILIATION_REQUIRED") \/ Settle(i, "RELEASED")
      BY <1>4, <2>2 DEF RecordOutcome, Resolve, Outcomes
    <3> QED
      BY <1>0, <1>4, <3>4, <3>5, SettleWithinCap DEF RecordOutcome
  <2> QED
    BY <2>1, <2>2
<1>5. ASSUME NEW i \in Iterations, Reconcile(i) PROVE LiabilityWithinCap'
  <2>1. CASE UNCHANGED budget
    BY <1>5, <2>1, NothingSpent DEF Reconcile, budget
  <2>2. CASE ~UNCHANGED budget
    <3>1. i \in Unresolved
      BY <1>5, <2>2 DEF Reconcile, Unresolved
    <3>2. Capture(i) \/ Settle(i, "RELEASED")
      BY <1>5, <2>2 DEF Reconcile
    <3> QED
      BY <1>0, <1>5, <3>1, <3>2, SettleWithinCap DEF Reconcile
  <2> QED
    BY <2>1, <2>2
<1> QED
  BY <1>1, <1>2, <1>3, <1>4, <1>5 DEF Next

-----------------------------------------------------------------------------
(* The theorems. *)

LEMMA Start == Init => IndInv
<1> HAVE Init
<1>1. TypeOK
  BY BoundsAssumption DEF Init, TypeOK, States, Free, Liable, None, Days
<1>2. LaterInv /\ OneOpenIteration
  BY DEF Init, LaterInv, OneOpenIteration
<1>3. AttemptInv
  BY BoundsAssumption DEF Init, AttemptInv, Attempted, None, Iterations
<1>4. LiabilityWithinCap
  <2> DEFINE zero == [i \in Iterations |-> 0]
             Without == {n \in 0 .. MaxIterations : Sums(zero)[n] # 0}
  <2>1. Without = {}
    <3>1. SUFFICES ASSUME Without # {} PROVE FALSE
      OBVIOUS
    <3>2. PICK n \in Without : \A m \in Without : n <= m
      <4>1. Without \in SUBSET Nat
        BY BoundsAssumption
      <4> QED
        BY <3>1, <4>1, LeastNumber
    <3>3. zero \in [Iterations -> Nat]
      OBVIOUS
    <3>4. n \in 1 .. MaxIterations /\ n - 1 \in 0 .. MaxIterations /\ ~(n <= n - 1)
      BY <3>2, <3>3, SumsStep, BoundsAssumption
    <3>5. Sums(zero)[n - 1] = 0 /\ zero[n] = 0
      BY <3>2, <3>4 DEF Iterations
    <3> QED
      BY <3>2, <3>3, <3>4, <3>5, SumsStep
  <2>2. Unresolved = {}
    BY DEF Init, Unresolved, Free, Liable, None
  <2>3. CostOf(Unresolved) = Sums(zero)[MaxIterations]
    BY <2>2 DEF CostOf
  <2>4. Sums(zero)[MaxIterations] = 0
    BY <2>1, BoundsAssumption
  <2> QED
    BY <2>3, <2>4, BoundsAssumption DEF LiabilityWithinCap, Init
<1> QED
  BY <1>1, <1>2, <1>3, <1>4 DEF IndInv

\* The strengthening that the theorems below rest on is inductive.
THEOREM Inductive == Spec => []IndInv
<1>1. IndInv /\ [Next]_vars => IndInv'
  BY Types, Attempts, Liability DEF IndInv
<1> QED
  BY Start, <1>1, PTL DEF Spec

\* The pointer, plans, journals, reservations and the ledger keep their types.
THEOREM AutonomyTypeCorrect == Spec => []TypeOK
<1>1. IndInv => TypeOK
  BY DEF IndInv
<1> QED
  BY Inductive, <1>1, PTL

\* What was spent and what unresolved dispatches may still spend stays under the
\* lifetime cap, whichever workers die and on whatever day a reservation is settled.
THEOREM CapHolds == Spec => []LiabilityWithinCap
<1>1. IndInv => LiabilityWithinCap
  BY DEF IndInv
<1> QED
  BY Inductive, <1>1, PTL

\* An iteration that is not completed is the one the loop is in, though outcomes
\* of earlier dispatches arrive late and a failed loop is reset.
THEOREM OneIterationOpen == Spec => []OneOpenIteration
<1>1. IndInv => OneOpenIteration
  BY DEF IndInv
<1> QED
  BY Inductive, <1>1, PTL

\* No plan's action is handed to its subsystem twice, whoever dispatches the plan
\* again and wherever its worker died.
THEOREM ActionsCalledOnce == Spec => []CalledOnce
<1>1. IndInv => CalledOnce
  BY DEF IndInv, AttemptInv, Attempted, CalledOnce
<1> QED
  BY Inductive, <1>1, PTL
=============================================================================
