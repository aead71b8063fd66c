--------------------------- MODULE DurableDispatch ---------------------------
(***************************************************************************)
(* application/durable_dispatch.py: the transactional outbox through which *)
(* the application hands Celery its messages, and the relay that empties   *)
(* it (worker/tasks.py runs relay_batch from beat every few seconds, so    *)
(* several relays may run at once).                                        *)
(*                                                                         *)
(* Producers write an intent inside the transaction of a business change.  *)
(* PostgreSQL runs READ COMMITTED: a producer sees committed rows, and its *)
(* insert of a key another transaction has inserted waits for that         *)
(* transaction to end.                                                     *)
(*                                                                         *)
(* A claim token is a fresh uuid drawn with each increment of `attempt`,   *)
(* so the attempt number stands for it; 0 stands for NULL.  The clock is   *)
(* abstracted to the two things the code asks of it: whether a claim is    *)
(* older than five minutes (old) and whether next_attempt_at has come      *)
(* (due).  The 25-row limit of a batch is the constant Limit.              *)
(***************************************************************************)
EXTENDS Naturals, FiniteSets

CONSTANTS
    Intent,         \* idempotency keys
    Identity,       \* immutable identities (task, args, purpose, correlations)
    NoIdentity,
    Producer,       \* sessions of callers that enqueue
    Relay,          \* executions of the relay task
    MaxAttempts,    \* max_attempts of an intent
    Limit           \* rows one relay claims at a time

ASSUME BoundsAssumption == /\ MaxAttempts \in Nat \ {0}
                           /\ Limit \in Nat \ {0}
ASSUME NoIdentityAssumption == NoIdentity \notin Identity
ASSUME RelayAssumption == IsFiniteSet(Relay)

VARIABLES
    row,        \* row[i]: the committed durable_dispatch_intents row
    effects,    \* business changes committed with an intent: <<key, identity>>
    txn,        \* txn[p]: the transaction of producer p
    relay,      \* relay[r]: the state of relay r's relay_batch call
    deliveries  \* deliveries[i]: messages the broker has received for i

vars == <<row, effects, txn, relay, deliveries>>

Absent   == "ABSENT"
States   == {"PENDING", "CLAIMED", "RETRY", "SENT", "DEAD_LETTER"}
Settled  == {"SENT", "DEAD_LETTER"}
Active   == {"PENDING", "CLAIMED", "RETRY"}
Attempts == 0..MaxAttempts

Row == [state : States \cup {Absent}, attempt : Attempts, token : Attempts,
        due : BOOLEAN, old : BOOLEAN, identity : Identity \cup {NoIdentity}]
NoRow == [state |-> Absent, attempt |-> 0, token |-> 0,
          due |-> FALSE, old |-> FALSE, identity |-> NoIdentity]

\* "insert": the lookup found no row.  "held": the row is inserted, not yet
\* committed.  "reuse": the key exists with this identity.
Txn == [step : {"idle", "insert", "held", "reuse"},
        key : Intent, identity : Identity]
    \cup {[step |-> "idle"]}
IdleTxn == [step |-> "idle"]

\* batch: claimed intents not yet taken.  claim: the tokens of the claimed
\* objects in memory.  expired: a rollback has expired these objects, and their
\* attributes are read again from the database when they are next used.
RelayState == [step : {"idle", "claim", "publish", "published", "failed"},
               batch : SUBSET Intent, claim : [Intent -> Attempts],
               expired : BOOLEAN, taken : SUBSET Intent, token : Attempts]
IdleRelay == [step |-> "idle", batch |-> {}, claim |-> [i \in Intent |-> 0],
              expired |-> FALSE, taken |-> {}, token |-> 0]

TypeOK == /\ row \in [Intent -> Row]
          /\ effects \subseteq Intent \X Identity
          /\ txn \in [Producer -> Txn]
          /\ relay \in [Relay -> RelayState]
          /\ deliveries \in [Intent -> Nat]

Init == /\ row = [i \in Intent |-> NoRow]
        /\ effects = {}
        /\ txn = [p \in Producer |-> IdleTxn]
        /\ relay = [r \in Relay |-> IdleRelay]
        /\ deliveries = [i \in Intent |-> 0]

-----------------------------------------------------------------------------
(* Producers: enqueue and enqueue_async inside a caller's transaction. *)

\* Mutant: the key alone decides, as without _assert_immutable_identity.
ReuseAny(p, i, d) ==
    txn' = [txn EXCEPT ![p] = [step |-> "reuse", key |-> i, identity |-> d]]

\* A conflicting identity raises ValueError, which rolls the caller back.
ReuseOrReject(p, i, d) ==
    txn' = [txn EXCEPT ![p] = IF row[i].identity = d
                              THEN [step |-> "reuse", key |-> i, identity |-> d]
                              ELSE IdleTxn]

LookUp(p, i, d) ==
    /\ txn[p].step = "idle"
    /\ \/ /\ row[i].state # Absent
          /\ ReuseOrReject(p, i, d)
       \/ /\ row[i].state = Absent
          /\ txn' = [txn EXCEPT ![p] = [step |-> "insert", key |-> i, identity |-> d]]
    /\ UNCHANGED <<row, effects, relay, deliveries>>

\* The savepoint insert: it waits while another transaction holds the key, and
\* a unique violation reads the authoritative row instead.
Insert(p) ==
    LET i == txn[p].key
        d == txn[p].identity
    IN  /\ txn[p].step = "insert"
        /\ \A q \in Producer : txn[q].step = "held" => txn[q].key # i
        /\ \/ /\ row[i].state # Absent
              /\ ReuseOrReject(p, i, d)
           \/ /\ row[i].state = Absent
              /\ txn' = [txn EXCEPT ![p].step = "held"]
        /\ UNCHANGED <<row, effects, relay, deliveries>>

Commit(p) ==
    LET i == txn[p].key
        d == txn[p].identity
    IN  /\ txn[p].step \in {"held", "reuse"}
        /\ row' = IF txn[p].step = "held"
                  THEN [row EXCEPT ![i] = [NoRow EXCEPT !.state = "PENDING",
                                                        !.identity = d]]
                  ELSE row
        /\ effects' = effects \cup {<<i, d>>}
        /\ txn' = [txn EXCEPT ![p] = IdleTxn]
        /\ UNCHANGED <<relay, deliveries>>

\* The caller fails, or its process dies, after enqueueing and before its commit.
Rollback(p) ==
    /\ txn[p].step # "idle"
    /\ txn' = [txn EXCEPT ![p] = IdleTxn]
    /\ UNCHANGED <<row, effects, relay, deliveries>>

-----------------------------------------------------------------------------
(* The relay: relay_batch = recover_stale_claims; claim_batch; publish and *)
(* settle each claimed intent.  Each step below is one transaction.        *)

\* Mutant: leaves the last attempt to its relay.
StaleUnlessLast(i) == row[i].state = "CLAIMED" /\ row[i].old /\ row[i].attempt < MaxAttempts

Stale(i) == row[i].state = "CLAIMED" /\ row[i].old

\* Mutant: no dead letter, and the attempt is refunded.
RecoveredUncounted(i) ==
    [row[i] EXCEPT !.state = "RETRY", !.attempt = @ - 1, !.token = 0, !.due = TRUE, !.old = FALSE]

\* Mutant: counts the lost attempt once more.
RecoveredCounted(i) ==
    [row[i] EXCEPT !.state = IF row[i].attempt >= MaxAttempts THEN "DEAD_LETTER" ELSE "RETRY",
                   !.attempt = @ + 1, !.token = 0,
                   !.due = row[i].attempt < MaxAttempts, !.old = FALSE]

Recovered(i) ==
    IF row[i].attempt >= MaxAttempts
    THEN [row[i] EXCEPT !.state = "DEAD_LETTER", !.token = 0, !.due = FALSE, !.old = FALSE]
    ELSE [row[i] EXCEPT !.state = "RETRY", !.token = 0, !.due = TRUE, !.old = FALSE]

RecoverStaleClaims(r) ==
    /\ relay[r].step = "idle"
    /\ row' = [i \in Intent |-> IF Stale(i) THEN Recovered(i) ELSE row[i]]
    /\ relay' = [relay EXCEPT ![r].step = "claim"]
    /\ UNCHANGED <<effects, txn, deliveries>>

Claimable == {i \in Intent : /\ \/ row[i].state = "PENDING"
                                \/ row[i].state = "RETRY" /\ row[i].due
                             /\ row[i].attempt < MaxAttempts}

\* A full batch, or all there is; which rows make it up (the oldest) is left open.
Batches == {B \in SUBSET Claimable :
                Cardinality(B) <= Limit /\ (B = Claimable \/ Cardinality(B) = Limit)}

ClaimBatch(r, B) ==
    /\ relay[r].step = "claim"
    /\ row' = [i \in Intent |->
                IF i \in B
                THEN [row[i] EXCEPT !.state = "CLAIMED", !.attempt = row[i].attempt + 1,
                                    !.token = row[i].attempt + 1, !.old = FALSE]
                ELSE row[i]]
    /\ relay' = [relay EXCEPT ![r] =
                    IF B = {} THEN IdleRelay
                    ELSE [IdleRelay EXCEPT
                            !.step = "publish", !.batch = B,
                            !.claim = [i \in Intent |->
                                        IF i \in B THEN row[i].attempt + 1 ELSE 0]]]
    /\ UNCHANGED <<effects, txn, deliveries>>

\* The relay object after one intent of the batch is done with.
NextInBatch(r, rest, expired) ==
    IF rest = {} THEN IdleRelay
    ELSE [step |-> "publish", batch |-> rest, claim |-> relay[r].claim,
          expired |-> expired, taken |-> {}, token |-> 0]

\* intent.claim_token: of the object in memory, or re-read once it has expired.
TokenOf(r, i) == IF relay[r].expired THEN row[i].token ELSE relay[r].claim[i]

SkipTokenless(r, i) ==
    /\ relay[r].step = "publish"
    /\ i \in relay[r].batch
    /\ TokenOf(r, i) = 0
    /\ relay' = [relay EXCEPT ![r] = NextInBatch(r, relay[r].batch \ {i}, relay[r].expired)]
    /\ UNCHANGED <<row, effects, txn, deliveries>>

\* Mutant: a publish that raised counts as made.
SendAssumed(r, i, reached, raised) ==
    /\ relay[r].step = "publish"
    /\ i \in relay[r].batch
    /\ TokenOf(r, i) # 0
    /\ reached \/ raised
    /\ deliveries' = IF reached THEN [deliveries EXCEPT ![i] = @ + 1] ELSE deliveries
    /\ relay' = [relay EXCEPT ![r] =
                    [relay[r] EXCEPT !.step = "published", !.batch = relay[r].batch \ {i},
                                     !.taken = {i}, !.token = TokenOf(r, i)]]
    /\ UNCHANGED <<row, effects, txn>>

\* publisher.send_task; it may raise after the broker took the message.
SendTask(r, i, reached, raised) ==
    /\ relay[r].step = "publish"
    /\ i \in relay[r].batch
    /\ TokenOf(r, i) # 0
    /\ reached \/ raised
    /\ deliveries' = IF reached THEN [deliveries EXCEPT ![i] = @ + 1] ELSE deliveries
    /\ relay' = [relay EXCEPT ![r] =
                    [relay[r] EXCEPT !.step = IF raised THEN "failed" ELSE "published",
                                     !.batch = relay[r].batch \ {i}, !.taken = {i},
                                     !.token = TokenOf(r, i)]]
    /\ UNCHANGED <<row, effects, txn>>

\* Mutant: no compare-and-set on the claim.
AnyClaim(r, i) == relay[r].token > 0

OwnClaim(r, i) == row[i].state = "CLAIMED" /\ row[i].token = relay[r].token

MarkSent(r, i) ==
    /\ relay[r].step = "published"
    /\ i \in relay[r].taken
    /\ row' = IF OwnClaim(r, i)
              THEN [row EXCEPT ![i].state = "SENT", ![i].token = 0, ![i].old = FALSE]
              ELSE row
    /\ relay' = [relay EXCEPT ![r] = NextInBatch(r, relay[r].batch, relay[r].expired)]
    /\ UNCHANGED <<effects, txn, deliveries>>

\* A claim that is no longer the relay's own is left alone, but the rollback
\* expires every object of the batch.
MarkRetryOrDeadLetter(r, i) ==
    /\ relay[r].step = "failed"
    /\ i \in relay[r].taken
    /\ row' = IF ~OwnClaim(r, i) THEN row
              ELSE [row EXCEPT ![i] =
                      [@ EXCEPT !.state = IF row[i].attempt >= MaxAttempts
                                          THEN "DEAD_LETTER" ELSE "RETRY",
                                !.due = FALSE, !.token = 0, !.old = FALSE]]
    /\ relay' = [relay EXCEPT ![r] =
                    NextInBatch(r, relay[r].batch, relay[r].expired \/ ~OwnClaim(r, i))]
    /\ UNCHANGED <<effects, txn, deliveries>>

\* The worker dies, or a database error ends the call; beat starts another later.
CrashRelay(r) ==
    /\ relay[r].step # "idle"
    /\ relay' = [relay EXCEPT ![r] = IdleRelay]
    /\ UNCHANGED <<row, effects, txn, deliveries>>

-----------------------------------------------------------------------------
(* The clock. *)

ClaimAges(i) == /\ row[i].state = "CLAIMED" /\ ~row[i].old
                /\ row' = [row EXCEPT ![i].old = TRUE]
                /\ UNCHANGED <<effects, txn, relay, deliveries>>

RetryFallsDue(i) == /\ row[i].state = "RETRY" /\ ~row[i].due
                    /\ row' = [row EXCEPT ![i].due = TRUE]
                    /\ UNCHANGED <<effects, txn, relay, deliveries>>

-----------------------------------------------------------------------------
ProducerStep == \E p \in Producer : \/ \E i \in Intent, d \in Identity : LookUp(p, i, d)
                                    \/ Insert(p)
                                    \/ Commit(p)
                                    \/ Rollback(p)

Settling(r) == \E i \in Intent : \/ SkipTokenless(r, i)
                                 \/ \E reached, raised \in BOOLEAN :
                                        SendTask(r, i, reached, raised)
                                 \/ MarkSent(r, i)
                                 \/ MarkRetryOrDeadLetter(r, i)

RelayStep == \E r \in Relay : \/ RecoverStaleClaims(r)
                              \/ \E B \in Batches : ClaimBatch(r, B)
                              \/ Settling(r)
                              \/ CrashRelay(r)

ClockStep == \E i \in Intent : ClaimAges(i) \/ RetryFallsDue(i)

Next == ProducerStep \/ RelayStep \/ ClockStep

Spec == Init /\ [][Next]_vars

\* Beat starts the relay again and again, time passes, and a relay is not killed
\* between its first two statements every time.
Fairness ==
    /\ \A r \in Relay : /\ WF_vars(RecoverStaleClaims(r))
                        /\ SF_vars(\E B \in Batches : ClaimBatch(r, B))
                        /\ WF_vars(Settling(r))
    /\ \A i \in Intent : WF_vars(ClaimAges(i)) /\ WF_vars(RetryFallsDue(i))

FairSpec == Spec /\ Fairness

-----------------------------------------------------------------------------
(* Safety *)

\* A business change and its intent are one transaction: every committed change
\* has its intent, with the identity the change asked for, however the callers'
\* lookups, inserts, commits and rollbacks interleave.
EffectHasItsIntent ==
    \A e \in effects : row[e[1]].state # Absent /\ row[e[1]].identity = e[2]

\* Retries are bounded: the broker never receives more messages for an intent
\* than the attempts the row has counted, even when relays overtake each other
\* and share a token.
DeliveriesCounted ==
    \A i \in Intent : deliveries[i] <= row[i].attempt /\ row[i].attempt <= MaxAttempts

\* No intent is stranded where the relay cannot pick it up: one that is not
\* settled has attempts left, except the last claim while it is being worked on.
NotStranded ==
    \A i \in Intent : row[i].state \in {"PENDING", "RETRY"} => row[i].attempt < MaxAttempts

\* A claim is recorded with a token exactly while it is held; a settled or
\* waiting row can be settled by no relay that still remembers an old claim.
TokenMarksClaim ==
    \A i \in Intent : IF row[i].state = "CLAIMED"
                      THEN row[i].token = row[i].attempt /\ row[i].token > 0
                      ELSE row[i].token = 0

\* A settled intent is never reopened, and no intent disappears: recovery, a late
\* relay or a second enqueue of the same key leave it as it is.
SettledForGood ==
    [][\A i \in Intent : /\ row[i].state \in Settled => row'[i] = row[i]
                         /\ row[i].state # Absent => row'[i].state # Absent]_vars

-----------------------------------------------------------------------------
(* Liveness *)

\* Whatever relays crash or fail to publish, a committed intent is settled.
EventuallySettled ==
    \A i \in Intent : row[i].state \in Active ~> row[i].state \in Settled

-----------------------------------------------------------------------------
(* Refinement *)

PhaseOf(i) == CASE row[i].state = Absent -> "absent"
                [] row[i].state \in Active -> "active"
                [] row[i].state = "SENT" -> "sent"
                [] row[i].state = "DEAD_LETTER" -> "dead"

Outbox == INSTANCE DispatchOutbox
            WITH phase  <- [i \in Intent |-> PhaseOf(i)],
                 handed <- {i \in Intent : deliveries[i] > 0}

\* The outbox keeps its contract: a row becomes SENT only after the broker was
\* handed its message, and each step is one of the contract's steps.
ImplementsOutbox == Outbox!OutboxSpec
-----------------------------------------------------------------------------
(* The inductive strengthening the proofs use. *)

\* At most one transaction holds a key, and only while no row has it; one that
\* reuses a row knows its identity.
TxnInv ==
    \A p \in Producer :
        /\ txn[p].step = "held" =>
              /\ row[txn[p].key].state = Absent
              /\ \A q \in Producer \ {p} : txn[q].step = "held" => txn[q].key # txn[p].key
        /\ txn[p].step = "reuse" => /\ row[txn[p].key].state # Absent
                                    /\ row[txn[p].key].identity = txn[p].identity

\* A row that does not exist has counted no attempts.
AbsentInv == \A i \in Intent : row[i].state = Absent => row[i] = NoRow

\* What a relay works on are rows that exist; it calls mark_sent after a delivery.
RelayInv ==
    \A r \in Relay :
        /\ relay[r].step \in {"idle", "claim"} => relay[r].batch = {} /\ relay[r].taken = {}
        /\ \A i \in relay[r].batch \cup relay[r].taken : row[i].state # Absent
        /\ relay[r].step = "published" => \A i \in relay[r].taken : deliveries[i] > 0

\* Each claim is good for one delivery: what was delivered and what the relays
\* still have to take is covered by the attempts of the row.
Takers(i) == {r \in Relay : i \in relay[r].batch}

DeliveryInv == \A i \in Intent : deliveries[i] + Cardinality(Takers(i)) <= row[i].attempt

IndInv == /\ TypeOK
          /\ TxnInv
          /\ AbsentInv
          /\ RelayInv
          /\ DeliveryInv
          /\ EffectHasItsIntent
          /\ NotStranded
          /\ TokenMarksClaim
=============================================================================
