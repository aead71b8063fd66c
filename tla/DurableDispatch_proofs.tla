----------------------- MODULE DurableDispatch_proofs -----------------------
(***************************************************************************)
(* Proofs about the durable dispatch outbox, for any intents, producers,   *)
(* relays (finitely many), attempt bound and batch limit.                  *)
(***************************************************************************)
EXTENDS DurableDispatch, FiniteSetTheorems, TLAPS

\* The literals the rows are written with.
LEMMA Names == /\ {"PENDING", "CLAIMED", "RETRY", "SENT", "DEAD_LETTER"} \subseteq States \cup {Absent}
               /\ 0 \in Attempts
BY BoundsAssumption DEF States, Attempts

\* What recover_stale_claims does to one row.
LEMMA RecoveredRow ==
  ASSUME TypeOK, NEW r \in Relay, RecoverStaleClaims(r), NEW i \in Intent
  PROVE  /\ row'[i] \in Row
         /\ row'[i].identity = row[i].identity
         /\ row'[i].attempt = row[i].attempt
         /\ row'[i] # row[i] => /\ row[i].state = "CLAIMED"
                                /\ row'[i].token = 0
                                /\ \/ row'[i].state = "DEAD_LETTER"
                                   \/ row'[i].state = "RETRY" /\ row[i].attempt < MaxAttempts
<1> USE Names DEF TypeOK, Row
<1>1. row'[i] = IF Stale(i) THEN Recovered(i) ELSE row[i]
  BY DEF RecoverStaleClaims
<1>2. row[i] \in Row
  OBVIOUS
<1>3. CASE ~Stale(i)
  BY <1>1, <1>2, <1>3
<1>4. CASE Stale(i) /\ row[i].attempt >= MaxAttempts
  BY <1>1, <1>2, <1>4 DEF Stale, Recovered
<1>5. CASE Stale(i) /\ ~(row[i].attempt >= MaxAttempts)
  <2>1. row[i].attempt < MaxAttempts
    BY <1>2, <1>5, BoundsAssumption DEF Attempts
  <2> QED
    BY <1>1, <1>2, <1>5, <2>1 DEF Stale, Recovered
<1> QED
  BY <1>3, <1>4, <1>5

\* What claim_batch does to one row.
LEMMA ClaimedRow ==
  ASSUME TypeOK, NEW r \in Relay, NEW B \in Batches, ClaimBatch(r, B), NEW i \in Intent
  PROVE  /\ row'[i] \in Row
         /\ row'[i].identity = row[i].identity
         /\ i \notin B => row'[i] = row[i]
         /\ i \in B => /\ row[i].state \in {"PENDING", "RETRY"}
                       /\ row[i].attempt < MaxAttempts
                       /\ row'[i].state = "CLAIMED"
                       /\ row'[i].attempt = row[i].attempt + 1
                       /\ row'[i].token = row[i].attempt + 1
<1> USE Names DEF TypeOK, Row
<1>1. i \in B => /\ row[i].state \in {"PENDING", "RETRY"}
                 /\ row[i].attempt < MaxAttempts
  BY DEF Batches, Claimable
<1>2. row'[i] = IF i \in B
                THEN [row[i] EXCEPT !.state = "CLAIMED", !.attempt = row[i].attempt + 1,
                                    !.token = row[i].attempt + 1, !.old = FALSE]
                ELSE row[i]
  BY DEF ClaimBatch
<1>3. row[i] \in Row
  OBVIOUS
<1>4. i \in B => row[i].attempt + 1 \in Attempts
  BY <1>1, <1>3, BoundsAssumption DEF Attempts
<1> QED
  BY <1>1, <1>2, <1>3, <1>4

\* Every step keeps the variables in their types.
LEMMA TypeStep ==
  ASSUME TypeOK, [Next]_vars
  PROVE  TypeOK'
<1> USE DEF TypeOK
<1>a. IdleTxn \in Txn /\ IdleRelay \in RelayState
  BY BoundsAssumption DEF IdleTxn, Txn, IdleRelay, RelayState, Attempts
<1>b. \A r \in Relay, rest \in SUBSET Intent, x \in BOOLEAN : NextInBatch(r, rest, x) \in RelayState
  <2> SUFFICES ASSUME NEW r \in Relay, NEW rest \in SUBSET Intent, NEW x \in BOOLEAN
               PROVE  NextInBatch(r, rest, x) \in RelayState
    OBVIOUS
  <2>1. relay[r] \in RelayState
    OBVIOUS
  <2> QED
    BY <2>1, <1>a, Names DEF NextInBatch, RelayState
<1>c. \A r \in Relay : /\ relay[r].batch \in SUBSET Intent
                       /\ relay[r].expired \in BOOLEAN
                       /\ \A i \in Intent : TokenOf(r, i) \in Attempts
  BY DEF RelayState, TokenOf, Row
<1>1. ASSUME NEW p \in Producer, NEW i \in Intent, NEW d \in Identity, LookUp(p, i, d)
      PROVE  TypeOK'
  <2>1. /\ [step |-> "reuse", key |-> i, identity |-> d] \in Txn
        /\ [step |-> "insert", key |-> i, identity |-> d] \in Txn
    BY DEF Txn
  <2> QED
    BY <1>1, <1>a, <2>1 DEF LookUp, ReuseOrReject
<1>2. ASSUME NEW p \in Producer, Insert(p)
      PROVE  TypeOK'
  <2>1. txn[p].key \in Intent /\ txn[p].identity \in Identity
    BY <1>2 DEF Insert, Txn
  <2>2. /\ [step |-> "reuse", key |-> txn[p].key, identity |-> txn[p].identity] \in Txn
        /\ [txn[p] EXCEPT !.step = "held"] \in Txn
    BY <1>2, <2>1 DEF Insert, Txn
  <2> QED
    BY <1>2, <1>a, <2>2 DEF Insert, ReuseOrReject
<1>3. ASSUME NEW p \in Producer, Commit(p)
      PROVE  TypeOK'
  <2>1. txn[p].key \in Intent /\ txn[p].identity \in Identity
    BY <1>3 DEF Commit, Txn
  <2>2. [NoRow EXCEPT !.state = "PENDING", !.identity = txn[p].identity] \in Row
    BY <2>1, Names DEF NoRow, Row
  <2> QED
    BY <1>3, <1>a, <2>1, <2>2 DEF Commit
<1>4. ASSUME NEW p \in Producer, Rollback(p)
      PROVE  TypeOK'
  BY <1>4, <1>a DEF Rollback
<1>5. ASSUME NEW r \in Relay, RecoverStaleClaims(r)
      PROVE  TypeOK'
  <2>1. row' \in [Intent -> Row]
    BY <1>5, RecoveredRow DEF RecoverStaleClaims
  <2>2. [relay[r] EXCEPT !.step = "claim"] \in RelayState
    BY DEF RelayState
  <2> QED
    BY <1>5, <2>1, <2>2 DEF RecoverStaleClaims
<1>6. ASSUME NEW r \in Relay, NEW B \in Batches, ClaimBatch(r, B)
      PROVE  TypeOK'
  <2>1. row' \in [Intent -> Row]
    BY <1>6, ClaimedRow DEF ClaimBatch
  <2>2. B \in SUBSET Intent
    BY DEF Batches, Claimable
  <2>3. \A i \in B : row[i].attempt + 1 \in Attempts
    BY <2>2, BoundsAssumption DEF Batches, Claimable, Row, Attempts
  <2>4. [i \in Intent |-> IF i \in B THEN row[i].attempt + 1 ELSE 0] \in [Intent -> Attempts]
    BY <2>3, BoundsAssumption DEF Attempts
  <2>5. [IdleRelay EXCEPT !.step = "publish", !.batch = B,
                          !.claim = [i \in Intent |-> IF i \in B THEN row[i].attempt + 1 ELSE 0]]
          \in RelayState
    BY <2>2, <2>4, Names DEF IdleRelay, RelayState
  <2> QED
    BY <1>6, <1>a, <2>1, <2>5 DEF ClaimBatch
<1>7. ASSUME NEW r \in Relay, NEW i \in Intent, SkipTokenless(r, i)
      PROVE  TypeOK'
  <2>1. NextInBatch(r, relay[r].batch \ {i}, relay[r].expired) \in RelayState
    BY <1>b, <1>c
  <2> QED
    BY <1>7, <2>1 DEF SkipTokenless
<1>8. ASSUME NEW r \in Relay, NEW i \in Intent, NEW reached \in BOOLEAN, NEW raised \in BOOLEAN,
             SendTask(r, i, reached, raised)
      PROVE  TypeOK'
  <2>1. [relay[r] EXCEPT !.step = IF raised THEN "failed" ELSE "published",
                         !.batch = relay[r].batch \ {i}, !.taken = {i},
                         !.token = TokenOf(r, i)] \in RelayState
    BY <1>c DEF RelayState
  <2>2. relay' = [relay EXCEPT ![r] =
                    [relay[r] EXCEPT !.step = IF raised THEN "failed" ELSE "published",
                         !.batch = relay[r].batch \ {i}, !.taken = {i},
                         !.token = TokenOf(r, i)]]
    BY <1>8 DEF SendTask
  <2>3. deliveries' \in [Intent -> Nat]
    BY <1>8 DEF SendTask
  <2> QED
    BY <1>8, <2>1, <2>2, <2>3 DEF SendTask
<1>9. ASSUME NEW r \in Relay, NEW i \in Intent, MarkSent(r, i)
      PROVE  TypeOK'
  <2>1. NextInBatch(r, relay[r].batch, relay[r].expired) \in RelayState
    BY <1>b, <1>c
  <2>2. [row[i] EXCEPT !.state = "SENT", !.token = 0, !.old = FALSE] \in Row
    BY Names DEF Row
  <2>3. \/ row' = row
        \/ row' = [row EXCEPT ![i] = [row[i] EXCEPT !.state = "SENT", !.token = 0, !.old = FALSE]]
    BY <1>9 DEF MarkSent
  <2> QED
    BY <1>9, <2>1, <2>2, <2>3 DEF MarkSent
<1>10. ASSUME NEW r \in Relay, NEW i \in Intent, MarkRetryOrDeadLetter(r, i)
       PROVE  TypeOK'
  <2>1. (relay[r].expired \/ ~OwnClaim(r, i)) \in BOOLEAN
    OBVIOUS
  <2>2. NextInBatch(r, relay[r].batch, relay[r].expired \/ ~OwnClaim(r, i)) \in RelayState
    BY <1>b, <1>c, <2>1
  <2>3. row' \in [Intent -> Row]
    <3>1. [row[i] EXCEPT !.state = IF row[i].attempt >= MaxAttempts
                                   THEN "DEAD_LETTER" ELSE "RETRY",
                         !.due = FALSE, !.token = 0, !.old = FALSE] \in Row
      BY Names DEF Row
    <3>2. \/ row' = row
          \/ row' = [row EXCEPT ![i] =
                      [row[i] EXCEPT !.state = IF row[i].attempt >= MaxAttempts
                                               THEN "DEAD_LETTER" ELSE "RETRY",
                                     !.due = FALSE, !.token = 0, !.old = FALSE]]
      BY <1>10 DEF MarkRetryOrDeadLetter
    <3> QED
      BY <3>1, <3>2
  <2> QED
    BY <1>10, <2>2, <2>3 DEF MarkRetryOrDeadLetter
<1>11. ASSUME NEW r \in Relay, CrashRelay(r)
       PROVE  TypeOK'
  BY <1>11, <1>a DEF CrashRelay
<1>12. ASSUME NEW i \in Intent, ClaimAges(i)
       PROVE  TypeOK'
  <2>1. [row[i] EXCEPT !.old = TRUE] \in Row
    BY DEF Row
  <2> QED
    BY <1>12, <2>1 DEF ClaimAges
<1>13. ASSUME NEW i \in Intent, RetryFallsDue(i)
       PROVE  TypeOK'
  <2>1. [row[i] EXCEPT !.due = TRUE] \in Row
    BY DEF Row
  <2> QED
    BY <1>13, <2>1 DEF RetryFallsDue
<1>14. CASE UNCHANGED vars
  BY <1>14 DEF vars
<1> QED
  BY <1>1, <1>2, <1>3, <1>4, <1>5, <1>6, <1>7, <1>8, <1>9, <1>10, <1>11, <1>12, <1>13, <1>14
  DEF Next, ProducerStep, RelayStep, ClockStep, Settling

\* Every step keeps the producers' transactions apart.
LEMMA TxnStep ==
  ASSUME TypeOK, TxnInv, [Next]_vars
  PROVE  TxnInv'
<1> USE DEF TypeOK, TxnInv, Absent, Txn, IdleTxn, NoRow
<1>1. ASSUME NEW p \in Producer, NEW i \in Intent, NEW d \in Identity, LookUp(p, i, d)
      PROVE  TxnInv'
  BY <1>1 DEF LookUp, ReuseOrReject
<1>2. ASSUME NEW p \in Producer, Insert(p)
      PROVE  TxnInv'
  BY <1>2 DEF Insert, ReuseOrReject
<1>3. ASSUME NEW p \in Producer, Commit(p)
      PROVE  TxnInv'
  BY <1>3 DEF Commit
<1>4. ASSUME NEW p \in Producer, Rollback(p)
      PROVE  TxnInv'
  BY <1>4 DEF Rollback
<1>5. ASSUME NEW r \in Relay, RecoverStaleClaims(r)
      PROVE  TxnInv'
  <2>1. \A j \in Intent : row'[j].state = Absent <=> row[j].state = Absent
    BY <1>5, RecoveredRow DEF Absent
  <2>2. \A j \in Intent : row'[j].identity = row[j].identity
    BY <1>5, RecoveredRow
  <2> QED
    BY <1>5, <2>1, <2>2 DEF RecoverStaleClaims
<1>6. ASSUME NEW r \in Relay, NEW B \in Batches, ClaimBatch(r, B)
      PROVE  TxnInv'
  <2>1. \A j \in Intent : row'[j].state = Absent <=> row[j].state = Absent
    BY <1>6, ClaimedRow DEF Absent
  <2>2. \A j \in Intent : row'[j].identity = row[j].identity
    BY <1>6, ClaimedRow
  <2>3. UNCHANGED <<effects, txn>>
    BY <1>6 DEF ClaimBatch
  <2> QED
    BY <2>1, <2>2, <2>3
<1>7. ASSUME NEW r \in Relay, NEW i \in Intent, SkipTokenless(r, i)
      PROVE  TxnInv'
  BY <1>7 DEF SkipTokenless, NextInBatch
<1>8. ASSUME NEW r \in Relay, NEW i \in Intent, NEW reached \in BOOLEAN, NEW raised \in BOOLEAN,
                SendTask(r, i, reached, raised)
      PROVE  TxnInv'
  BY <1>8 DEF SendTask, TokenOf
<1>9. ASSUME NEW r \in Relay, NEW i \in Intent, MarkSent(r, i)
      PROVE  TxnInv'
  BY <1>9 DEF MarkSent, NextInBatch, OwnClaim
<1>10. ASSUME NEW r \in Relay, NEW i \in Intent, MarkRetryOrDeadLetter(r, i)
      PROVE  TxnInv'
  BY <1>10 DEF MarkRetryOrDeadLetter, NextInBatch, OwnClaim
<1>11. ASSUME NEW r \in Relay, CrashRelay(r)
      PROVE  TxnInv'
  BY <1>11 DEF CrashRelay
<1>12. ASSUME NEW i \in Intent, ClaimAges(i)
      PROVE  TxnInv'
  BY <1>12 DEF ClaimAges
<1>13. ASSUME NEW i \in Intent, RetryFallsDue(i)
      PROVE  TxnInv'
  BY <1>13 DEF RetryFallsDue
<1>14. CASE UNCHANGED vars
  BY <1>14 DEF vars
<1> QED
  BY <1>1, <1>2, <1>3, <1>4, <1>5, <1>6, <1>7, <1>8, <1>9, <1>10, <1>11, <1>12, <1>13, <1>14
  DEF Next, ProducerStep, RelayStep, ClockStep, Settling

\* Every step keeps the relays' batches made of rows that exist.
LEMMA RelayStepKeeps ==
  ASSUME TypeOK, TxnInv, RelayInv, [Next]_vars
  PROVE  RelayInv'
<1> USE DEF TypeOK, RelayInv, Absent, Txn, RelayState, IdleRelay, NoRow
<1>1. ASSUME NEW p \in Producer, NEW i \in Intent, NEW d \in Identity, LookUp(p, i, d)
      PROVE  RelayInv'
  BY <1>1 DEF LookUp, ReuseOrReject
<1>2. ASSUME NEW p \in Producer, Insert(p)
      PROVE  RelayInv'
  BY <1>2 DEF Insert, ReuseOrReject
<1>3. ASSUME NEW p \in Producer, Commit(p)
      PROVE  RelayInv'
  BY <1>3 DEF Commit
<1>4. ASSUME NEW p \in Producer, Rollback(p)
      PROVE  RelayInv'
  BY <1>4 DEF Rollback
<1>5. ASSUME NEW r \in Relay, RecoverStaleClaims(r)
      PROVE  RelayInv'
  <2>1. \A j \in Intent : row'[j].state = Absent <=> row[j].state = Absent
    BY <1>5, RecoveredRow DEF Absent
  <2>2. \A j \in Intent : row'[j].identity = row[j].identity
    BY <1>5, RecoveredRow
  <2> QED
    BY <1>5, <2>1, <2>2 DEF RecoverStaleClaims
<1>6. ASSUME NEW r \in Relay, NEW B \in Batches, ClaimBatch(r, B)
      PROVE  RelayInv'
  <2>1. \A j \in Intent : row'[j].state = Absent <=> row[j].state = Absent
    BY <1>6, ClaimedRow DEF Absent
  <2>2. \A j \in B : j \in Intent /\ row[j].state # Absent
    BY DEF Batches, Claimable
  <2>3. UNCHANGED deliveries /\ \A q \in Relay : q # r => relay'[q] = relay[q]
    BY <1>6 DEF ClaimBatch
  <2>4. \/ relay'[r] = IdleRelay
        \/ relay'[r] = [IdleRelay EXCEPT !.step = "publish", !.batch = B,
                            !.claim = [j \in Intent |->
                                        IF j \in B THEN row[j].attempt + 1 ELSE 0]]
    BY <1>6 DEF ClaimBatch
  <2>5. \/ relay'[r] = IdleRelay
        \/ /\ relay'[r].step = "publish" /\ relay'[r].batch = B
           /\ relay'[r].taken = {}
    BY <2>4
  <2> SUFFICES ASSUME NEW q \in Relay
               PROVE  /\ relay'[q].step \in {"idle", "claim"} => relay'[q].batch = {} /\ relay'[q].taken = {}
                      /\ \A i \in relay'[q].batch \cup relay'[q].taken : row'[i].state # Absent
                      /\ relay'[q].step = "published" => \A i \in relay'[q].taken : deliveries'[i] > 0
    OBVIOUS
  <2>6. CASE q # r
    BY <2>1, <2>3, <2>6
  <2>7. CASE q = r
    BY <2>1, <2>2, <2>3, <2>5, <2>7
  <2> QED
    BY <2>6, <2>7
<1>7. ASSUME NEW r \in Relay, NEW i \in Intent, SkipTokenless(r, i)
      PROVE  RelayInv'
  BY <1>7 DEF SkipTokenless, NextInBatch
<1>8. ASSUME NEW r \in Relay, NEW i \in Intent, NEW reached \in BOOLEAN, NEW raised \in BOOLEAN,
                SendTask(r, i, reached, raised)
      PROVE  RelayInv'
  <2>1. /\ relay'[r].step = IF raised THEN "failed" ELSE "published"
        /\ relay'[r].batch = relay[r].batch \ {i}
        /\ relay'[r].taken = {i}
        /\ i \in relay[r].batch
        /\ ~raised => deliveries'[i] = deliveries[i] + 1
    BY <1>8 DEF SendTask
  <2>2. /\ UNCHANGED row
        /\ \A q \in Relay : q # r => relay'[q] = relay[q]
        /\ \A j \in Intent : deliveries'[j] \in {deliveries[j], deliveries[j] + 1}
    BY <1>8 DEF SendTask
  <2> QED
    BY <2>1, <2>2
<1>9. ASSUME NEW r \in Relay, NEW i \in Intent, MarkSent(r, i)
      PROVE  RelayInv'
  BY <1>9 DEF MarkSent, NextInBatch, OwnClaim
<1>10. ASSUME NEW r \in Relay, NEW i \in Intent, MarkRetryOrDeadLetter(r, i)
      PROVE  RelayInv'
  BY <1>10 DEF MarkRetryOrDeadLetter, NextInBatch, OwnClaim
<1>11. ASSUME NEW r \in Relay, CrashRelay(r)
      PROVE  RelayInv'
  BY <1>11 DEF CrashRelay
<1>12. ASSUME NEW i \in Intent, ClaimAges(i)
      PROVE  RelayInv'
  BY <1>12 DEF ClaimAges
<1>13. ASSUME NEW i \in Intent, RetryFallsDue(i)
      PROVE  RelayInv'
  BY <1>13 DEF RetryFallsDue
<1>14. CASE UNCHANGED vars
  BY <1>14 DEF vars
<1> QED
  BY <1>1, <1>2, <1>3, <1>4, <1>5, <1>6, <1>7, <1>8, <1>9, <1>10, <1>11, <1>12, <1>13, <1>14
  DEF Next, ProducerStep, RelayStep, ClockStep, Settling

\* Every step keeps a business change with its intent.
LEMMA EffectStep ==
  ASSUME TypeOK, TxnInv, EffectHasItsIntent, [Next]_vars
  PROVE  EffectHasItsIntent'
<1> USE DEF TypeOK, TxnInv, EffectHasItsIntent, Absent, Txn, IdleTxn, NoRow
<1>1. ASSUME NEW p \in Producer, NEW i \in Intent, NEW d \in Identity, LookUp(p, i, d)
      PROVE  EffectHasItsIntent'
  BY <1>1 DEF LookUp, ReuseOrReject
<1>2. ASSUME NEW p \in Producer, Insert(p)
      PROVE  EffectHasItsIntent'
  BY <1>2 DEF Insert, ReuseOrReject
<1>3. ASSUME NEW p \in Producer, Commit(p)
      PROVE  EffectHasItsIntent'
  BY <1>3 DEF Commit
<1>4. ASSUME NEW p \in Producer, Rollback(p)
      PROVE  EffectHasItsIntent'
  BY <1>4 DEF Rollback
<1>5. ASSUME NEW r \in Relay, RecoverStaleClaims(r)
      PROVE  EffectHasItsIntent'
  <2>1. \A j \in Intent : row'[j].state = Absent <=> row[j].state = Absent
    BY <1>5, RecoveredRow DEF Absent
  <2>2. \A j \in Intent : row'[j].identity = row[j].identity
    BY <1>5, RecoveredRow
  <2> QED
    BY <1>5, <2>1, <2>2 DEF RecoverStaleClaims
<1>6. ASSUME NEW r \in Relay, NEW B \in Batches, ClaimBatch(r, B)
      PROVE  EffectHasItsIntent'
  <2>1. \A j \in Intent : row'[j].state = Absent <=> row[j].state = Absent
    BY <1>6, ClaimedRow DEF Absent
  <2>2. \A j \in Intent : row'[j].identity = row[j].identity
    BY <1>6, ClaimedRow
  <2>3. UNCHANGED <<effects, txn>>
    BY <1>6 DEF ClaimBatch
  <2> QED
    BY <2>1, <2>2, <2>3
<1>7. ASSUME NEW r \in Relay, NEW i \in Intent, SkipTokenless(r, i)
      PROVE  EffectHasItsIntent'
  BY <1>7 DEF SkipTokenless, NextInBatch
<1>8. ASSUME NEW r \in Relay, NEW i \in Intent, NEW reached \in BOOLEAN, NEW raised \in BOOLEAN,
                SendTask(r, i, reached, raised)
      PROVE  EffectHasItsIntent'
  BY <1>8 DEF SendTask, TokenOf
<1>9. ASSUME NEW r \in Relay, NEW i \in Intent, MarkSent(r, i)
      PROVE  EffectHasItsIntent'
  BY <1>9 DEF MarkSent, NextInBatch, OwnClaim
<1>10. ASSUME NEW r \in Relay, NEW i \in Intent, MarkRetryOrDeadLetter(r, i)
      PROVE  EffectHasItsIntent'
  BY <1>10 DEF MarkRetryOrDeadLetter, NextInBatch, OwnClaim
<1>11. ASSUME NEW r \in Relay, CrashRelay(r)
      PROVE  EffectHasItsIntent'
  BY <1>11 DEF CrashRelay
<1>12. ASSUME NEW i \in Intent, ClaimAges(i)
      PROVE  EffectHasItsIntent'
  BY <1>12 DEF ClaimAges
<1>13. ASSUME NEW i \in Intent, RetryFallsDue(i)
      PROVE  EffectHasItsIntent'
  BY <1>13 DEF RetryFallsDue
<1>14. CASE UNCHANGED vars
  BY <1>14 DEF vars
<1> QED
  BY <1>1, <1>2, <1>3, <1>4, <1>5, <1>6, <1>7, <1>8, <1>9, <1>10, <1>11, <1>12, <1>13, <1>14
  DEF Next, ProducerStep, RelayStep, ClockStep, Settling

\* Every step keeps tokens on claimed rows, and retries within the bound.
LEMMA TokenStep ==
  ASSUME TypeOK, TxnInv, TokenMarksClaim, NotStranded, [Next]_vars
  PROVE  TokenMarksClaim' /\ NotStranded'
<1> USE DEF TypeOK, TxnInv, TokenMarksClaim, NotStranded, Absent, Txn, Attempts, NoRow
<1>1. ASSUME NEW p \in Producer, NEW i \in Intent, NEW d \in Identity, LookUp(p, i, d)
      PROVE  TokenMarksClaim' /\ NotStranded'
  BY <1>1 DEF LookUp, ReuseOrReject
<1>2. ASSUME NEW p \in Producer, Insert(p)
      PROVE  TokenMarksClaim' /\ NotStranded'
  BY <1>2 DEF Insert, ReuseOrReject
<1>3. ASSUME NEW p \in Producer, Commit(p)
      PROVE  TokenMarksClaim' /\ NotStranded'
  <2>1. CASE row' = row
    BY <2>1
  <2>2. CASE row' # row
    <3>1. txn[p].key \in Intent
      BY <1>3 DEF Commit
    <3>2. row' = [row EXCEPT ![txn[p].key] = [NoRow EXCEPT !.state = "PENDING",
                                                          !.identity = txn[p].identity]]
      BY <1>3, <2>2 DEF Commit
    <3> QED
      BY <3>1, <3>2, BoundsAssumption
  <2> QED
    BY <2>1, <2>2
<1>4. ASSUME NEW p \in Producer, Rollback(p)
      PROVE  TokenMarksClaim' /\ NotStranded'
  BY <1>4 DEF Rollback
<1>5. ASSUME NEW r \in Relay, RecoverStaleClaims(r)
      PROVE  TokenMarksClaim' /\ NotStranded'
  <2>1. \A j \in Intent : \/ row'[j] = row[j]
                          \/ /\ row'[j].token = 0 /\ row'[j].attempt = row[j].attempt
                             /\ \/ row'[j].state = "DEAD_LETTER"
                                \/ row'[j].state = "RETRY" /\ row[j].attempt < MaxAttempts
    BY <1>5, RecoveredRow
  <2> QED
    BY <2>1
<1>6. ASSUME NEW r \in Relay, NEW B \in Batches, ClaimBatch(r, B)
      PROVE  TokenMarksClaim' /\ NotStranded'
  <2>1. \A j \in Intent : \/ row'[j] = row[j]
                          \/ /\ row'[j].state = "CLAIMED"
                             /\ row'[j].attempt = row[j].attempt + 1
                             /\ row'[j].token = row[j].attempt + 1
    BY <1>6, ClaimedRow
  <2>2. \A j \in Intent : row[j].attempt \in Nat
    BY BoundsAssumption DEF Row
  <2> QED
    BY <2>1, <2>2
<1>7. ASSUME NEW r \in Relay, NEW i \in Intent, SkipTokenless(r, i)
      PROVE  TokenMarksClaim' /\ NotStranded'
  BY <1>7 DEF SkipTokenless, NextInBatch
<1>8. ASSUME NEW r \in Relay, NEW i \in Intent, NEW reached \in BOOLEAN, NEW raised \in BOOLEAN,
                SendTask(r, i, reached, raised)
      PROVE  TokenMarksClaim' /\ NotStranded'
  BY <1>8 DEF SendTask, TokenOf
<1>9. ASSUME NEW r \in Relay, NEW i \in Intent, MarkSent(r, i)
      PROVE  TokenMarksClaim' /\ NotStranded'
  BY <1>9 DEF MarkSent, NextInBatch, OwnClaim
<1>10. ASSUME NEW r \in Relay, NEW i \in Intent, MarkRetryOrDeadLetter(r, i)
      PROVE  TokenMarksClaim' /\ NotStranded'
  <2>1. CASE row' = row
    BY <2>1
  <2>2. CASE row' # row
    <3>1. row' = [row EXCEPT ![i] =
                      [row[i] EXCEPT !.state = IF row[i].attempt >= MaxAttempts
                                               THEN "DEAD_LETTER" ELSE "RETRY",
                                     !.due = FALSE, !.token = 0, !.old = FALSE]]
      BY <1>10, <2>2 DEF MarkRetryOrDeadLetter
    <3>2. row[i] \in Row
      OBVIOUS
    <3>3. /\ row'[i].token = 0 /\ row'[i].attempt = row[i].attempt
          /\ row'[i].state = IF row[i].attempt >= MaxAttempts THEN "DEAD_LETTER" ELSE "RETRY"
      BY <3>1, <3>2 DEF Row
    <3> QED
      BY <3>1, <3>2, <3>3, BoundsAssumption DEF Row
  <2> QED
    BY <2>1, <2>2
<1>11. ASSUME NEW r \in Relay, CrashRelay(r)
      PROVE  TokenMarksClaim' /\ NotStranded'
  BY <1>11 DEF CrashRelay
<1>12. ASSUME NEW i \in Intent, ClaimAges(i)
      PROVE  TokenMarksClaim' /\ NotStranded'
  BY <1>12 DEF ClaimAges
<1>13. ASSUME NEW i \in Intent, RetryFallsDue(i)
      PROVE  TokenMarksClaim' /\ NotStranded'
  BY <1>13 DEF RetryFallsDue
<1>14. CASE UNCHANGED vars
  BY <1>14 DEF vars
<1> QED
  BY <1>1, <1>2, <1>3, <1>4, <1>5, <1>6, <1>7, <1>8, <1>9, <1>10, <1>11, <1>12, <1>13, <1>14
  DEF Next, ProducerStep, RelayStep, ClockStep, Settling

\* Every step leaves a row that does not exist as it is, or creates it.
LEMMA AbsentStep ==
  ASSUME TypeOK, TxnInv, AbsentInv, [Next]_vars
  PROVE  AbsentInv'
<1> USE DEF TypeOK, AbsentInv, Absent, Txn, NoRow
<1>1. ASSUME NEW p \in Producer, NEW i \in Intent, NEW d \in Identity, LookUp(p, i, d)
      PROVE  AbsentInv'
  BY <1>1 DEF LookUp, ReuseOrReject
<1>2. ASSUME NEW p \in Producer, Insert(p)
      PROVE  AbsentInv'
  BY <1>2 DEF Insert, ReuseOrReject
<1>3. ASSUME NEW p \in Producer, Commit(p)
      PROVE  AbsentInv'
  BY <1>3 DEF Commit
<1>4. ASSUME NEW p \in Producer, Rollback(p)
      PROVE  AbsentInv'
  BY <1>4 DEF Rollback
<1>5. ASSUME NEW r \in Relay, RecoverStaleClaims(r)
      PROVE  AbsentInv'
  BY <1>5, RecoveredRow
<1>6. ASSUME NEW r \in Relay, NEW B \in Batches, ClaimBatch(r, B)
      PROVE  AbsentInv'
  BY <1>6, ClaimedRow
<1>7. ASSUME NEW r \in Relay, NEW i \in Intent, SkipTokenless(r, i)
      PROVE  AbsentInv'
  BY <1>7 DEF SkipTokenless, NextInBatch
<1>8. ASSUME NEW r \in Relay, NEW i \in Intent, NEW reached \in BOOLEAN, NEW raised \in BOOLEAN,
                SendTask(r, i, reached, raised)
      PROVE  AbsentInv'
  BY <1>8 DEF SendTask, TokenOf
<1>9. ASSUME NEW r \in Relay, NEW i \in Intent, MarkSent(r, i)
      PROVE  AbsentInv'
  <2>1. \A j \in Intent : row'[j] = row[j] \/ row'[j].state # Absent
    BY <1>9 DEF MarkSent, NextInBatch, OwnClaim, Row
  <2> QED
    BY <2>1
<1>10. ASSUME NEW r \in Relay, NEW i \in Intent, MarkRetryOrDeadLetter(r, i)
      PROVE  AbsentInv'
  <2>1. \A j \in Intent : row'[j] = row[j] \/ row'[j].state # Absent
    BY <1>10 DEF MarkRetryOrDeadLetter, NextInBatch, OwnClaim, Row
  <2> QED
    BY <2>1
<1>11. ASSUME NEW r \in Relay, CrashRelay(r)
      PROVE  AbsentInv'
  BY <1>11 DEF CrashRelay
<1>12. ASSUME NEW i \in Intent, ClaimAges(i)
      PROVE  AbsentInv'
  <2>1. \A j \in Intent : row'[j] = row[j] \/ row'[j].state # Absent
    BY <1>12 DEF ClaimAges, Row
  <2> QED
    BY <2>1
<1>13. ASSUME NEW i \in Intent, RetryFallsDue(i)
      PROVE  AbsentInv'
  <2>1. \A j \in Intent : row'[j] = row[j] \/ row'[j].state # Absent
    BY <1>13 DEF RetryFallsDue, Row
  <2> QED
    BY <2>1
<1>14. CASE UNCHANGED vars
  BY <1>14 DEF vars
<1> QED
  BY <1>1, <1>2, <1>3, <1>4, <1>5, <1>6, <1>7, <1>8, <1>9, <1>10, <1>11, <1>12, <1>13, <1>14
  DEF Next, ProducerStep, RelayStep, ClockStep, Settling

\* The count of deliveries stays covered when no relay has more to take, nothing
\* new is delivered, and no attempts are taken back.
LEMMA FewerTakers ==
  ASSUME TypeOK, TypeOK', DeliveryInv, UNCHANGED deliveries,
         \A i \in Intent : row'[i].attempt >= row[i].attempt,
         \A r \in Relay : relay'[r].batch \subseteq relay[r].batch
  PROVE  DeliveryInv'
<1> SUFFICES ASSUME NEW i \in Intent
             PROVE  deliveries'[i] + Cardinality(Takers(i)') <= row'[i].attempt
  BY DEF DeliveryInv
<1>1. Takers(i)' \subseteq Takers(i) /\ IsFiniteSet(Takers(i))
  BY RelayAssumption, FS_Subset DEF Takers
<1>2. /\ Cardinality(Takers(i)') <= Cardinality(Takers(i))
      /\ Cardinality(Takers(i)') \in Nat /\ Cardinality(Takers(i)) \in Nat
  BY <1>1, FS_Subset, FS_CardinalityType
<1>3. /\ row[i].attempt \in Nat /\ row'[i].attempt \in Nat
      /\ deliveries[i] \in Nat /\ deliveries'[i] = deliveries[i]
  BY BoundsAssumption DEF TypeOK, Row, Attempts
<1>4. deliveries[i] + Cardinality(Takers(i)) <= row[i].attempt
  BY DEF DeliveryInv
<1> QED
  BY <1>2, <1>3, <1>4

\* Every step keeps the deliveries covered by the attempts counted.
LEMMA DeliveryStep ==
  ASSUME TypeOK, TypeOK', TxnInv, AbsentInv, RelayInv, DeliveryInv, [Next]_vars
  PROVE  DeliveryInv'
<1>1. ASSUME NEW p \in Producer, NEW i \in Intent, NEW d \in Identity, LookUp(p, i, d)
      PROVE  DeliveryInv'
  <2>1. \A j \in Intent : row'[j].attempt = row[j].attempt /\ row[j].attempt \in Nat
    BY <1>1, BoundsAssumption DEF LookUp, ReuseOrReject, TypeOK, Row, Attempts
  <2>2. UNCHANGED deliveries /\ \A q \in Relay : relay'[q].batch \subseteq relay[q].batch
    BY <1>1 DEF LookUp, ReuseOrReject, TypeOK, RelayState, IdleRelay
  <2> QED
    BY <2>1, <2>2, FewerTakers
<1>2. ASSUME NEW p \in Producer, Insert(p)
      PROVE  DeliveryInv'
  <2>1. \A j \in Intent : row'[j].attempt = row[j].attempt /\ row[j].attempt \in Nat
    BY <1>2, BoundsAssumption DEF Insert, ReuseOrReject, TypeOK, Row, Attempts
  <2>2. UNCHANGED deliveries /\ \A q \in Relay : relay'[q].batch \subseteq relay[q].batch
    BY <1>2 DEF Insert, ReuseOrReject, TypeOK, RelayState, IdleRelay
  <2> QED
    BY <2>1, <2>2, FewerTakers
<1>3. ASSUME NEW p \in Producer, Commit(p)
      PROVE  DeliveryInv'
  <2>1. txn[p].step = "held" => txn[p].key \in Intent /\ row[txn[p].key] = NoRow
    BY <1>3 DEF Commit, TxnInv, AbsentInv, TypeOK, Txn
  <2>2. \A i \in Intent : row'[i].attempt = row[i].attempt
    BY <1>3, <2>1 DEF Commit, NoRow, TypeOK
  <2>3. UNCHANGED <<relay, deliveries>> /\ \A i \in Intent : row[i].attempt \in Nat
    BY <1>3, BoundsAssumption DEF Commit, TypeOK, Row, Attempts
  <2> QED
    BY <2>2, <2>3, FewerTakers
<1>4. ASSUME NEW p \in Producer, Rollback(p)
      PROVE  DeliveryInv'
  <2>1. \A j \in Intent : row'[j].attempt = row[j].attempt /\ row[j].attempt \in Nat
    BY <1>4, BoundsAssumption DEF Rollback, TypeOK, Row, Attempts
  <2>2. UNCHANGED deliveries /\ \A q \in Relay : relay'[q].batch \subseteq relay[q].batch
    BY <1>4 DEF Rollback, TypeOK, RelayState, IdleRelay
  <2> QED
    BY <2>1, <2>2, FewerTakers
<1>5. ASSUME NEW r \in Relay, RecoverStaleClaims(r)
      PROVE  DeliveryInv'
  <2>1. \A i \in Intent : row'[i].attempt = row[i].attempt /\ row[i].attempt \in Nat
    BY <1>5, RecoveredRow, BoundsAssumption DEF TypeOK, Row, Attempts
  <2>2. UNCHANGED deliveries /\ \A q \in Relay : relay'[q].batch = relay[q].batch
    BY <1>5 DEF RecoverStaleClaims, TypeOK, RelayState
  <2> QED
    BY <2>1, <2>2, FewerTakers
<1>6. ASSUME NEW r \in Relay, NEW B \in Batches, ClaimBatch(r, B)
      PROVE  DeliveryInv'
  <2>1. relay[r].batch = {}
    BY <1>6 DEF ClaimBatch, RelayInv
  <2>2. UNCHANGED deliveries /\ \A q \in Relay : q # r => relay'[q] = relay[q]
    BY <1>6 DEF ClaimBatch, TypeOK
  <2>3. relay'[r].batch = B
    <3>1. \/ B = {} /\ relay'[r] = IdleRelay
          \/ relay'[r] = [IdleRelay EXCEPT !.step = "publish", !.batch = B,
                            !.claim = [j \in Intent |->
                                        IF j \in B THEN row[j].attempt + 1 ELSE 0]]
      BY <1>6 DEF ClaimBatch, TypeOK
    <3> DEFINE f == [j \in Intent |-> IF j \in B THEN row[j].attempt + 1 ELSE 0]
    <3>2. [IdleRelay EXCEPT !.step = "publish", !.batch = B, !.claim = f].batch = B
      BY DEF IdleRelay
    <3>3. IdleRelay.batch = {}
      BY DEF IdleRelay
    <3> QED
      BY <3>1, <3>2, <3>3
  <2> SUFFICES ASSUME NEW i \in Intent
               PROVE  deliveries'[i] + Cardinality(Takers(i)') <= row'[i].attempt
    BY DEF DeliveryInv
  <2>4. IsFiniteSet(Takers(i)) /\ Cardinality(Takers(i)) \in Nat
    BY RelayAssumption, FS_Subset, FS_CardinalityType DEF Takers
  <2>5. deliveries[i] \in Nat /\ row[i].attempt \in Nat
    BY BoundsAssumption DEF TypeOK, Row, Attempts
  <2>6. deliveries[i] + Cardinality(Takers(i)) <= row[i].attempt
    BY DEF DeliveryInv
  <2>7. CASE i \in B
    <3>1. Takers(i)' = Takers(i) \cup {r} /\ r \notin Takers(i)
      BY <2>1, <2>2, <2>3, <2>7 DEF Takers
    <3>2. Cardinality(Takers(i)') = Cardinality(Takers(i)) + 1
      BY <3>1, <2>4, FS_AddElement
    <3>3. row'[i].attempt = row[i].attempt + 1
      BY <1>6, <2>7, ClaimedRow
    <3> QED
      BY <2>2, <2>4, <2>5, <2>6, <3>2, <3>3
  <2>8. CASE i \notin B
    <3>1. Takers(i)' = Takers(i)
      BY <2>1, <2>2, <2>3, <2>8 DEF Takers
    <3>2. row'[i] = row[i]
      BY <1>6, <2>8, ClaimedRow
    <3> QED
      BY <2>2, <2>6, <3>1, <3>2
  <2> QED
    BY <2>7, <2>8
<1>7. ASSUME NEW r \in Relay, NEW i \in Intent, SkipTokenless(r, i)
      PROVE  DeliveryInv'
  <2>1. \A j \in Intent : row'[j].attempt = row[j].attempt /\ row[j].attempt \in Nat
    BY <1>7, BoundsAssumption DEF SkipTokenless, NextInBatch, TypeOK, Row, Attempts
  <2>2. UNCHANGED deliveries /\ \A q \in Relay : relay'[q].batch \subseteq relay[q].batch
    BY <1>7 DEF SkipTokenless, NextInBatch, TypeOK, RelayState, IdleRelay
  <2> QED
    BY <2>1, <2>2, FewerTakers
<1>8. ASSUME NEW r \in Relay, NEW i \in Intent, NEW reached \in BOOLEAN, NEW raised \in BOOLEAN,
                SendTask(r, i, reached, raised)
      PROVE  DeliveryInv'
  <2>1. /\ i \in relay[r].batch
        /\ relay'[r].batch = relay[r].batch \ {i}
        /\ \A q \in Relay : q # r => relay'[q] = relay[q]
        /\ UNCHANGED row
    BY <1>8 DEF SendTask, TypeOK, RelayState
  <2>2. /\ deliveries'[i] \in {deliveries[i], deliveries[i] + 1}
        /\ \A j \in Intent : j # i => deliveries'[j] = deliveries[j]
    BY <1>8 DEF SendTask, TypeOK
  <2> SUFFICES ASSUME NEW j \in Intent
               PROVE  deliveries'[j] + Cardinality(Takers(j)') <= row'[j].attempt
    BY DEF DeliveryInv
  <2>3. IsFiniteSet(Takers(j)) /\ Cardinality(Takers(j)) \in Nat
    BY RelayAssumption, FS_Subset, FS_CardinalityType DEF Takers
  <2>4. deliveries[j] \in Nat /\ row[j].attempt \in Nat
    BY BoundsAssumption DEF TypeOK, Row, Attempts
  <2>5. deliveries[j] + Cardinality(Takers(j)) <= row[j].attempt
    BY DEF DeliveryInv
  <2>6. CASE j = i
    <3>1. Takers(j)' = Takers(j) \ {r} /\ r \in Takers(j)
      BY <2>1, <2>6 DEF Takers
    <3>2. Cardinality(Takers(j)') = Cardinality(Takers(j)) - 1
      BY <3>1, <2>3, FS_RemoveElement
    <3> QED
      BY <2>1, <2>2, <2>3, <2>4, <2>5, <2>6, <3>2
  <2>7. CASE j # i
    <3>1. Takers(j)' = Takers(j)
      BY <2>1, <2>7 DEF Takers
    <3> QED
      BY <2>1, <2>2, <2>5, <2>7, <3>1
  <2> QED
    BY <2>6, <2>7
<1>9. ASSUME NEW r \in Relay, NEW i \in Intent, MarkSent(r, i)
      PROVE  DeliveryInv'
  <2>1. \A j \in Intent : row'[j].attempt = row[j].attempt /\ row[j].attempt \in Nat
    BY <1>9, BoundsAssumption DEF MarkSent, NextInBatch, OwnClaim, TypeOK, Row, Attempts
  <2>2. UNCHANGED deliveries /\ \A q \in Relay : relay'[q].batch \subseteq relay[q].batch
    BY <1>9 DEF MarkSent, NextInBatch, OwnClaim, TypeOK, RelayState, IdleRelay
  <2> QED
    BY <2>1, <2>2, FewerTakers
<1>10. ASSUME NEW r \in Relay, NEW i \in Intent, MarkRetryOrDeadLetter(r, i)
      PROVE  DeliveryInv'
  <2>1. \A j \in Intent : row'[j].attempt = row[j].attempt /\ row[j].attempt \in Nat
    BY <1>10, BoundsAssumption DEF MarkRetryOrDeadLetter, NextInBatch, OwnClaim, TypeOK, Row, Attempts
  <2>2. UNCHANGED deliveries /\ \A q \in Relay : relay'[q].batch \subseteq relay[q].batch
    BY <1>10 DEF MarkRetryOrDeadLetter, NextInBatch, OwnClaim, TypeOK, RelayState, IdleRelay
  <2> QED
    BY <2>1, <2>2, FewerTakers
<1>11. ASSUME NEW r \in Relay, CrashRelay(r)
      PROVE  DeliveryInv'
  <2>1. \A j \in Intent : row'[j].attempt = row[j].attempt /\ row[j].attempt \in Nat
    BY <1>11, BoundsAssumption DEF CrashRelay, TypeOK, Row, Attempts
  <2>2. UNCHANGED deliveries /\ \A q \in Relay : relay'[q].batch \subseteq relay[q].batch
    BY <1>11 DEF CrashRelay, TypeOK, RelayState, IdleRelay
  <2> QED
    BY <2>1, <2>2, FewerTakers
<1>12. ASSUME NEW i \in Intent, ClaimAges(i)
      PROVE  DeliveryInv'
  <2>1. \A j \in Intent : row'[j].attempt = row[j].attempt /\ row[j].attempt \in Nat
    BY <1>12, BoundsAssumption DEF ClaimAges, TypeOK, Row, Attempts
  <2>2. UNCHANGED deliveries /\ \A q \in Relay : relay'[q].batch \subseteq relay[q].batch
    BY <1>12 DEF ClaimAges, TypeOK, RelayState, IdleRelay
  <2> QED
    BY <2>1, <2>2, FewerTakers
<1>13. ASSUME NEW i \in Intent, RetryFallsDue(i)
      PROVE  DeliveryInv'
  <2>1. \A j \in Intent : row'[j].attempt = row[j].attempt /\ row[j].attempt \in Nat
    BY <1>13, BoundsAssumption DEF RetryFallsDue, TypeOK, Row, Attempts
  <2>2. UNCHANGED deliveries /\ \A q \in Relay : relay'[q].batch \subseteq relay[q].batch
    BY <1>13 DEF RetryFallsDue, TypeOK, RelayState, IdleRelay
  <2> QED
    BY <2>1, <2>2, FewerTakers
<1>14. CASE UNCHANGED vars
  BY <1>14 DEF vars, DeliveryInv, Takers
<1> QED
  BY <1>1, <1>2, <1>3, <1>4, <1>5, <1>6, <1>7, <1>8, <1>9, <1>10, <1>11, <1>12, <1>13, <1>14
  DEF Next, ProducerStep, RelayStep, ClockStep, Settling

-----------------------------------------------------------------------------
\* IndInv is an invariant.
LEMMA InitInd == Init => IndInv
<1> SUFFICES ASSUME Init PROVE IndInv
  OBVIOUS
<1>1. TypeOK
  BY Names DEF Init, TypeOK, Row, NoRow, Absent, Txn, IdleTxn, RelayState, IdleRelay
<1>2. TxnInv /\ AbsentInv /\ RelayInv /\ EffectHasItsIntent
  BY DEF Init, TxnInv, AbsentInv, RelayInv, EffectHasItsIntent, IdleTxn, IdleRelay
<1>3. NotStranded /\ TokenMarksClaim
  BY DEF Init, NotStranded, TokenMarksClaim, NoRow, Absent
<1>4. DeliveryInv
  <2> SUFFICES ASSUME NEW i \in Intent
               PROVE  deliveries[i] + Cardinality(Takers(i)) <= row[i].attempt
    BY DEF DeliveryInv
  <2>1. Takers(i) = {}
    BY DEF Init, Takers, IdleRelay
  <2>2. deliveries[i] = 0 /\ row[i].attempt = 0
    BY DEF Init, NoRow
  <2> QED
    BY <2>1, <2>2, FS_EmptySet
<1> QED
  BY <1>1, <1>2, <1>3, <1>4 DEF IndInv

\* Every step, and every stutter, keeps the invariant.
LEMMA NextInd == IndInv /\ [Next]_vars => IndInv'
BY TypeStep, TxnStep, AbsentStep, RelayStepKeeps, EffectStep, TokenStep, DeliveryStep DEF IndInv

\* The inductive invariant holds in every behaviour.
THEOREM Inductive == Spec => []IndInv
BY InitInd, NextInd, PTL DEF Spec

\* Every variable keeps its type.
THEOREM TypeCorrect == Spec => []TypeOK
<1>1. IndInv => TypeOK
  BY DEF IndInv
<1> QED
  BY <1>1, Inductive, PTL

\* Every committed business change has the intent it asked for.
THEOREM OutboxIsTransactional == Spec => []EffectHasItsIntent
<1>1. IndInv => EffectHasItsIntent
  BY DEF IndInv
<1> QED
  BY <1>1, Inductive, PTL

\* The broker receives no more messages for an intent than max_attempts.
THEOREM DeliveriesAreBounded == Spec => []DeliveriesCounted
<1>1. IndInv => DeliveriesCounted
  <2> SUFFICES ASSUME IndInv, NEW i \in Intent
               PROVE  deliveries[i] <= row[i].attempt /\ row[i].attempt <= MaxAttempts
    BY DEF DeliveriesCounted
  <2>1. IsFiniteSet(Takers(i)) /\ Cardinality(Takers(i)) \in Nat
    BY RelayAssumption, FS_Subset, FS_CardinalityType DEF Takers
  <2>2. deliveries[i] \in Nat /\ row[i].attempt \in 0..MaxAttempts
    BY DEF IndInv, TypeOK, Row, Attempts
  <2>3. deliveries[i] + Cardinality(Takers(i)) <= row[i].attempt
    BY DEF IndInv, DeliveryInv
  <2> QED
    BY <2>1, <2>2, <2>3, BoundsAssumption
<1> QED
  BY <1>1, Inductive, PTL

-----------------------------------------------------------------------------
\* A waiting intent always has an attempt left for the relay to claim.
THEOREM NothingIsStranded == Spec => []NotStranded
<1>1. IndInv => NotStranded
  BY DEF IndInv
<1> QED
  BY <1>1, Inductive, PTL

\* claim_token is set exactly on the claimed rows, to the number of the claim.
THEOREM TokensMarkClaims == Spec => []TokenMarksClaim
<1>1. IndInv => TokenMarksClaim
  BY DEF IndInv
<1> QED
  BY <1>1, Inductive, PTL

\* Every step leaves the settled rows as they are, and every row in place.
LEMMA SettledStep ==
  ASSUME IndInv, [Next]_vars, NEW j \in Intent
  PROVE  /\ row[j].state \in Settled => row'[j] = row[j]
         /\ row[j].state # Absent => row'[j].state # Absent
<1> DEFINE Kept == /\ row[j].state \in Settled => row'[j] = row[j]
                   /\ row[j].state # Absent => row'[j].state # Absent
<1> USE DEF Settled, Absent
<1>a. TypeOK /\ row \in [Intent -> Row] /\ row[j] \in Row
  BY DEF IndInv, TypeOK
<1>0. CASE row' = row
  BY <1>0
<1>1. ASSUME NEW p \in Producer, Commit(p)
      PROVE  Kept
  <2>1. txn[p].step = "held" => row[txn[p].key].state = Absent
    BY DEF IndInv, TxnInv
  <2>2. NoRow.state = Absent => [NoRow EXCEPT !.state = "PENDING",
                                              !.identity = txn[p].identity].state = "PENDING"
    BY DEF NoRow
  <2> QED
    BY <1>1, <1>a, <2>1, <2>2 DEF Commit, NoRow
<1>2. ASSUME NEW r \in Relay, RecoverStaleClaims(r)
      PROVE  Kept
  BY <1>2, <1>a, RecoveredRow
<1>3. ASSUME NEW r \in Relay, NEW B \in Batches, ClaimBatch(r, B)
      PROVE  Kept
  BY <1>3, <1>a, ClaimedRow
<1>4. ASSUME NEW r \in Relay, NEW i \in Intent, MarkSent(r, i)
      PROVE  Kept
  BY <1>4, <1>a DEF MarkSent, OwnClaim, Row
<1>5. ASSUME NEW r \in Relay, NEW i \in Intent, MarkRetryOrDeadLetter(r, i)
      PROVE  Kept
  BY <1>5, <1>a DEF MarkRetryOrDeadLetter, OwnClaim, Row
<1>6. ASSUME NEW i \in Intent, ClaimAges(i) \/ RetryFallsDue(i)
      PROVE  Kept
  BY <1>6, <1>a DEF ClaimAges, RetryFallsDue, Row
<1>7. CASE ProducerStep
  BY <1>7, <1>0, <1>1 DEF ProducerStep, LookUp, Insert, Rollback
<1>8. CASE RelayStep
  BY <1>8, <1>0, <1>2, <1>3, <1>4, <1>5 DEF RelayStep, Settling, SkipTokenless, SendTask, CrashRelay
<1>9. CASE UNCHANGED vars
  BY <1>9, <1>0 DEF vars
<1> QED
  BY <1>6, <1>7, <1>8, <1>9 DEF Next, ClockStep

\* A late relay, a recovery or a second enqueue never reopens a settled intent.
THEOREM SettledIsFinal == Spec => SettledForGood
<1>1. IndInv /\ [Next]_vars =>
        [\A i \in Intent : /\ row[i].state \in Settled => row'[i] = row[i]
                           /\ row[i].state # Absent => row'[i].state # Absent]_vars
  BY SettledStep
<1> QED
  BY <1>1, Inductive, PTL DEF Spec, SettledForGood

\* The relay settles and abandons intents only as the outbox contract allows.
LEMMA StepRefines ==
  ASSUME IndInv, IndInv', [Next]_vars
  PROVE  [Outbox!OutboxNext]_(Outbox!outboxVars)
<1> DEFINE phase == [i \in Intent |-> PhaseOf(i)]
           handed == {i \in Intent : deliveries[i] > 0}
<1>a. ASSUME UNCHANGED deliveries, \A j \in Intent : PhaseOf(j)' = PhaseOf(j)
      PROVE  UNCHANGED Outbox!outboxVars
  BY <1>a DEF Outbox!outboxVars
<1>b. ASSUME \A j \in Intent : row'[j].state = row[j].state
      PROVE  \A j \in Intent : PhaseOf(j)' = PhaseOf(j)
  BY <1>b DEF PhaseOf
<1>c. \A j \in Intent : /\ row[j] \in Row /\ row'[j] \in Row
                        /\ deliveries[j] \in Nat /\ deliveries'[j] \in Nat
  BY DEF IndInv, TypeOK
<1>d. row \in [Intent -> Row]
  BY DEF IndInv, TypeOK
<1>1. ASSUME NEW p \in Producer, NEW i \in Intent, NEW d \in Identity, LookUp(p, i, d)
      PROVE  UNCHANGED Outbox!outboxVars
  BY <1>1, <1>a, <1>b DEF LookUp
<1>2. ASSUME NEW p \in Producer, Insert(p)
      PROVE  UNCHANGED Outbox!outboxVars
  BY <1>2, <1>a, <1>b DEF Insert
<1>3. ASSUME NEW p \in Producer, Commit(p)
      PROVE  [Outbox!OutboxNext]_(Outbox!outboxVars)
  <2>1. CASE txn[p].step = "reuse"
    BY <1>3, <1>a, <1>b, <2>1 DEF Commit
  <2>2. CASE txn[p].step = "held"
    <3>0. PICK i \in Intent : i = txn[p].key
      BY <2>2 DEF IndInv, TypeOK, Txn, IdleTxn
    <3>1. i \in Intent /\ row[i].state = Absent
      BY <2>2, <3>0 DEF IndInv, TxnInv
    <3>2. row'[i].state = "PENDING" /\ \A j \in Intent : j # i => row'[j] = row[j]
      BY <1>3, <2>2, <3>0, <3>1, <1>d DEF Commit, NoRow
    <3>3. phase[i] = "absent" /\ phase' = [phase EXCEPT ![i] = "active"]
      <4>1. PhaseOf(i) = "absent" /\ PhaseOf(i)' = "active"
        BY <3>1, <3>2 DEF PhaseOf, Active, Absent
      <4>2. \A j \in Intent : j # i => PhaseOf(j)' = PhaseOf(j)
        BY <3>1, <3>2 DEF PhaseOf
      <4> QED
        BY <4>1, <4>2, <3>1
    <3>4. UNCHANGED handed
      BY <1>3 DEF Commit
    <3>5. Outbox!Enqueue(i)
      BY <3>1, <3>3, <3>4 DEF Outbox!Enqueue
    <3> QED
      BY <3>1, <3>5 DEF Outbox!OutboxNext
  <2> QED
    BY <1>3, <2>1, <2>2 DEF Commit
<1>4. ASSUME NEW p \in Producer, Rollback(p)
      PROVE  UNCHANGED Outbox!outboxVars
  BY <1>4, <1>a, <1>b DEF Rollback
<1>5. ASSUME NEW r \in Relay, RecoverStaleClaims(r)
      PROVE  [Outbox!OutboxNext]_(Outbox!outboxVars)
  <2> DEFINE D == {i \in Intent : row'[i].state = "DEAD_LETTER" /\ row'[i] # row[i]}
  <2>1. \A i \in Intent : row'[i] # row[i] => /\ row[i].state = "CLAIMED"
                                              /\ row'[i].state \in {"DEAD_LETTER", "RETRY"}
    BY <1>5, RecoveredRow DEF IndInv
  <2>2. \A i \in D : phase[i] = "active"
    BY <2>1 DEF PhaseOf, Active, Absent
  <2>3. phase' = [i \in Intent |-> IF i \in D THEN "dead" ELSE phase[i]]
    <3>1. \A i \in Intent : PhaseOf(i)' = IF i \in D THEN "dead" ELSE PhaseOf(i)
      <4> SUFFICES ASSUME NEW i \in Intent
                   PROVE  PhaseOf(i)' = IF i \in D THEN "dead" ELSE PhaseOf(i)
        OBVIOUS
      <4>1. CASE row'[i] = row[i]
        BY <1>c, <4>1 DEF PhaseOf, Row, States, Active, Absent
      <4>2. CASE row'[i] # row[i] /\ row'[i].state = "RETRY"
        BY <2>1, <4>2 DEF PhaseOf, Active, Absent
      <4>3. CASE row'[i] # row[i] /\ row'[i].state = "DEAD_LETTER"
        BY <2>1, <4>3 DEF PhaseOf, Active, Absent
      <4> QED
        BY <2>1, <4>1, <4>2, <4>3
    <3> QED
      BY <3>1
  <2>4. UNCHANGED handed
    BY <1>5 DEF RecoverStaleClaims
  <2>5. Outbox!AbandonAll(D)
    BY <2>2, <2>3, <2>4 DEF Outbox!AbandonAll
  <2>6. D \in SUBSET Intent
    OBVIOUS
  <2> QED
    BY <2>5, <2>6 DEF Outbox!OutboxNext
<1>6. ASSUME NEW r \in Relay, NEW B \in Batches, ClaimBatch(r, B)
      PROVE  UNCHANGED Outbox!outboxVars
  <2>1. \A i \in Intent : \/ row'[i] = row[i]
                          \/ /\ row[i].state \in {"PENDING", "RETRY"}
                             /\ row'[i].state = "CLAIMED"
    BY <1>6, ClaimedRow DEF IndInv
  <2>2. \A i \in Intent : PhaseOf(i)' = PhaseOf(i)
    BY <2>1 DEF PhaseOf, Active, Absent
  <2> QED
    BY <1>6, <1>a, <2>2 DEF ClaimBatch
<1>7. ASSUME NEW r \in Relay, NEW i \in Intent, SkipTokenless(r, i)
      PROVE  UNCHANGED Outbox!outboxVars
  BY <1>7, <1>a, <1>b DEF SkipTokenless
<1>8. ASSUME NEW r \in Relay, NEW i \in Intent, NEW reached \in BOOLEAN, NEW raised \in BOOLEAN,
             SendTask(r, i, reached, raised)
      PROVE  [Outbox!OutboxNext]_(Outbox!outboxVars)
  <2>1. CASE ~reached
    BY <1>8, <1>a, <1>b, <2>1 DEF SendTask
  <2>2. CASE reached
    <3>1. row[i].state # Absent
      BY <1>8 DEF SendTask, IndInv, RelayInv
    <3>2. phase[i] # "absent" /\ UNCHANGED phase
      BY <1>8, <1>c, <3>1 DEF SendTask, PhaseOf, Row, States, Active, Absent
    <3>3. deliveries' = [deliveries EXCEPT ![i] = @ + 1]
      BY <1>8, <2>2 DEF SendTask
    <3>4. deliveries \in [Intent -> Nat]
      BY DEF IndInv, TypeOK
    <3>5. handed' = handed \cup {i}
      BY <3>3, <3>4
    <3>6. Outbox!Handoff(i)
      BY <3>2, <3>5 DEF Outbox!Handoff
    <3> QED
      BY <3>6 DEF Outbox!OutboxNext
  <2> QED
    BY <2>1, <2>2
<1>9. ASSUME NEW r \in Relay, NEW i \in Intent, MarkSent(r, i)
      PROVE  [Outbox!OutboxNext]_(Outbox!outboxVars)
  <2>1. CASE ~OwnClaim(r, i)
    BY <1>9, <1>a, <1>b, <2>1 DEF MarkSent
  <2>2. CASE OwnClaim(r, i)
    <3>1. row[i].state = "CLAIMED" /\ row'[i].state = "SENT"
          /\ \A j \in Intent : j # i => row'[j] = row[j]
      BY <1>9, <2>2, <1>c, <1>d DEF MarkSent, OwnClaim, Row
    <3>2. deliveries[i] > 0
      BY <1>9 DEF MarkSent, IndInv, RelayInv
    <3>3. phase[i] = "active" /\ phase' = [phase EXCEPT ![i] = "sent"]
      <4>1. PhaseOf(i) = "active" /\ PhaseOf(i)' = "sent"
        BY <3>1 DEF PhaseOf, Active, Absent
      <4>2. \A j \in Intent : j # i => PhaseOf(j)' = PhaseOf(j)
        BY <3>1 DEF PhaseOf, Active, Absent
      <4> QED
        BY <4>1, <4>2
    <3>4. i \in handed /\ UNCHANGED handed
      BY <1>9, <3>2 DEF MarkSent
    <3>5. Outbox!Settle(i)
      BY <3>3, <3>4 DEF Outbox!Settle
    <3> QED
      BY <3>5 DEF Outbox!OutboxNext
  <2> QED
    BY <2>1, <2>2
<1>10. ASSUME NEW r \in Relay, NEW i \in Intent, MarkRetryOrDeadLetter(r, i)
       PROVE  [Outbox!OutboxNext]_(Outbox!outboxVars)
  <2>1. UNCHANGED deliveries
    BY <1>10 DEF MarkRetryOrDeadLetter
  <2>2. CASE ~OwnClaim(r, i)
    BY <1>10, <1>a, <1>b, <2>2 DEF MarkRetryOrDeadLetter
  <2>3. CASE OwnClaim(r, i)
    <3>1. row[i].state = "CLAIMED" /\ row'[i].state \in {"DEAD_LETTER", "RETRY"}
          /\ \A j \in Intent : j # i => row'[j] = row[j]
      BY <1>10, <2>3, <1>c, <1>d DEF MarkRetryOrDeadLetter, OwnClaim, Row
    <3>2. CASE row'[i].state = "RETRY"
      <4>1. \A j \in Intent : PhaseOf(j)' = PhaseOf(j)
        BY <3>1, <3>2 DEF PhaseOf, Active, Absent
      <4> QED
        BY <4>1, <2>1, <1>a
    <3>3. CASE row'[i].state = "DEAD_LETTER"
      <4>1. phase[i] = "active" /\ phase' = [phase EXCEPT ![i] = "dead"]
        <5>1. PhaseOf(i) = "active" /\ PhaseOf(i)' = "dead"
          BY <3>1, <3>3 DEF PhaseOf, Active, Absent
        <5>2. \A j \in Intent : j # i => PhaseOf(j)' = PhaseOf(j)
          BY <3>1, <3>3 DEF PhaseOf
        <5> QED
          BY <5>1, <5>2
      <4>2. Outbox!Abandon(i)
        BY <4>1, <2>1 DEF Outbox!Abandon
      <4> QED
        BY <4>2 DEF Outbox!OutboxNext
    <3> QED
      BY <3>1, <3>2, <3>3
  <2> QED
    BY <2>2, <2>3
<1>11. ASSUME NEW r \in Relay, CrashRelay(r)
       PROVE  UNCHANGED Outbox!outboxVars
  BY <1>11, <1>a, <1>b DEF CrashRelay
<1>12. ASSUME NEW i \in Intent, ClaimAges(i)
       PROVE  UNCHANGED Outbox!outboxVars
  <2>1. \A j \in Intent : row'[j].state = row[j].state
    BY <1>12, <1>c, <1>d DEF ClaimAges, Row
  <2> QED
    BY <1>12, <1>a, <1>b, <2>1 DEF ClaimAges
<1>13. ASSUME NEW i \in Intent, RetryFallsDue(i)
       PROVE  UNCHANGED Outbox!outboxVars
  <2>1. \A j \in Intent : row'[j].state = row[j].state
    BY <1>13, <1>c, <1>d DEF RetryFallsDue, Row
  <2> QED
    BY <1>13, <1>a, <1>b, <2>1 DEF RetryFallsDue
<1>14. CASE UNCHANGED vars
  BY <1>14, <1>a, <1>b DEF vars
<1> QED
  BY <1>1, <1>2, <1>3, <1>4, <1>5, <1>6, <1>7, <1>8, <1>9, <1>10, <1>11, <1>12, <1>13, <1>14
  DEF Next, ProducerStep, RelayStep, ClockStep, Settling

\* The outbox implements its contract: in particular an intent is recorded as
\* sent only after the broker has been handed its message.
THEOREM DispatchImplementsOutbox == Spec => ImplementsOutbox
<1>1. Init => Outbox!OutboxInit
  <2> SUFFICES ASSUME Init PROVE Outbox!OutboxInit
    OBVIOUS
  <2>1. \A i \in Intent : PhaseOf(i) = "absent" /\ ~(deliveries[i] > 0)
    <3>1. \A i \in Intent : row[i].state = Absent /\ deliveries[i] = 0
      BY DEF Init, NoRow
    <3> QED
      BY <3>1 DEF PhaseOf, Active, Absent
  <2> QED
    BY <2>1 DEF Outbox!OutboxInit
<1>2. IndInv /\ IndInv' /\ [Next]_vars => [Outbox!OutboxNext]_(Outbox!outboxVars)
  BY StepRefines
<1> QED
  BY <1>1, <1>2, Inductive, PTL DEF Spec, ImplementsOutbox, Outbox!OutboxSpec

\* What the contract promises: what it records as sent, the broker has been handed.
LEMMA ContractMeansHanded ==
  Outbox!OutboxSpec => [](Outbox!OutboxTypeOK /\ Outbox!SentWasHanded)
<1> DEFINE Inv == Outbox!OutboxTypeOK /\ Outbox!SentWasHanded
<1>1. Outbox!OutboxInit => Inv
  BY DEF Outbox!OutboxInit, Outbox!OutboxTypeOK, Outbox!SentWasHanded, Outbox!Phases
<1>2. Inv /\ [Outbox!OutboxNext]_(Outbox!outboxVars) => Inv'
  BY DEF Outbox!OutboxNext, Outbox!Enqueue, Outbox!Handoff, Outbox!Settle, Outbox!Abandon,
         Outbox!AbandonAll, Outbox!OutboxTypeOK, Outbox!SentWasHanded, Outbox!Phases,
         Outbox!outboxVars
<1> QED
  BY <1>1, <1>2, PTL DEF Outbox!OutboxSpec

\* Hence a SENT row has had its message delivered at least once.
THEOREM SentMeansHanded == Spec => []Outbox!SentWasHanded
BY DispatchImplementsOutbox, ContractMeansHanded, PTL DEF ImplementsOutbox
=============================================================================
