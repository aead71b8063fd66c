--------------------------- MODULE Publish_proofs ---------------------------
(***************************************************************************)
(* The safety of Publish for every number of workers, relays, revisions,   *)
(* attempts and chunks.                                                    *)
(***************************************************************************)
EXTENDS Publish, FiniteSetTheorems, TLAPS

-----------------------------------------------------------------------------
(* The inductive invariant. *)

\* A relay raises the count with the generation, and a requeue sets it back.
CountsBounded == \A a \in Attempt : handoff[a].count <= handoff[a].generation

Exists(a) == attempt[a].state # "ABSENT"

\* Attempts are numbered as they are claimed.
Numbered == \E n \in 0..MaxAttempts : \A a \in Attempt : Exists(a) <=> a <= n

\* A session row is there only with its attempt, which then is open, failed or
\* done; bytes only with the row, and success only with the video.
Row(a) ==
    /\ Exists(a) => attempt[a].intent \in Intent
    /\ attempt[a].stored => Exists(a)
    /\ attempt[a].stored /\ ~Ended(a) => attempt[a].state \in {"UPLOADING", "UNKNOWN"}
    /\ provider[a].offset > 0 => attempt[a].stored

RowInv == \A a \in Attempt : Row(a)

\* A worker has no session row of its own before it makes one, drives a session
\* of its intent that has its row, and from below the end of the video.
Serves(w) ==
    LET own == worker[w].own
        at == worker[w].at
        Has(answers) == worker[w].pc = "answer" /\ worker[w].answer \in answers IN
    /\ own \in Attempt /\ Exists(own)
    /\ at \in Attempt /\ Exists(at) /\ attempt[at].intent = attempt[own].intent
    /\ worker[w].pc \in {"gates", "prior", "init", "flushed"} => ~attempt[own].stored /\ worker[w].offset = 0
    /\ worker[w].pc \in {"gates", "init", "flushed"} => at = own
    /\ worker[w].pc \in {"fence", "put"} \/ Has({"complete", "partial", "ambiguous"}) => attempt[at].stored
    /\ worker[w].pc = "prior" => attempt[at].stored
    /\ worker[w].pc \in {"fence", "put"} \/ Has({"partial"}) => worker[w].offset < Chunks
    /\ Has({"complete"}) => HasVideo(at)

Busy(w) == worker[w].pc # "idle"

WorkerInv == /\ \A w \in Worker : Busy(w) => Serves(w)
             /\ \A v, w \in Worker : Busy(v) /\ Busy(w) /\ worker[v].own = worker[w].own => v = w

\* A reconciliation reports a success only of a session that has the video.
Reports(r) ==
    /\ recon[r].at \in Attempt /\ Exists(recon[r].at)
    /\ recon[r].pc = "apply" /\ recon[r].outcome = "success" => HasVideo(recon[r].at)
    /\ recon[r].pc \in {"apply", "done"} /\ recon[r].outcome = "incomplete" => recon[r].offset < Chunks

ReconInv == \A r \in Reconciler : recon[r].pc # "none" => Reports(r)

IndInv == /\ TypeOK /\ CountsBounded
          /\ Numbered /\ RowInv /\ PublishedHasVideo
          /\ WorkerInv /\ ReconInv

-----------------------------------------------------------------------------
(* Types. *)

LEMMA Nulls ==
    /\ NoIntent \in IntentRow /\ NoAttempt \in AttemptRow /\ NoSession \in ProviderSession
    /\ Idle \in WorkerState /\ NoRecon \in ReconState /\ NoHandoff \in HandoffRow
<1>1. NoIntent \in IntentRow
  BY PublishAssumption DEF NoIntent, IntentRow
<1>2. NoAttempt \in AttemptRow
  BY PublishAssumption DEF NoAttempt, AttemptRow, AttemptStates, Unfinished
<1>3. NoSession \in ProviderSession
  BY PublishAssumption DEF NoSession, ProviderSession
<1>4. Idle \in WorkerState
  BY PublishAssumption DEF Idle, WorkerState
<1>5. NoRecon \in ReconState
  BY PublishAssumption DEF NoRecon, ReconState, Outcomes
<1>6. NoHandoff \in HandoffRow
  BY PublishAssumption DEF NoHandoff, HandoffRow
<1> QED
  BY <1>1, <1>2, <1>3, <1>4, <1>5, <1>6

LEMMA TypeInit == Init => TypeOK /\ CountsBounded
<1> HAVE Init
<1>1. /\ intent \in [Intent -> IntentRow]
      /\ attempt \in [Attempt -> AttemptRow]
      /\ provider \in [Attempt -> ProviderSession]
  BY Nulls DEF Init, NoIntent, IntentRow
<1>2. /\ worker \in [Worker -> WorkerState]
      /\ recon \in [Reconciler -> ReconState]
      /\ handoff \in [Attempt -> HandoffRow]
  BY Nulls DEF Init
<1>3. /\ relay \in [Relay -> [row : 0..MaxAttempts, generation : 0..MaxGeneration]]
      /\ queue \in 0..MaxQueue
  BY PublishAssumption DEF Init
<1>4. failed \subseteq Attempt /\ task = "RUNNING" /\ evaluation = {}
  BY DEF Init
<1>5. CountsBounded
  BY DEF Init, CountsBounded, NoHandoff
<1> QED
  BY <1>1, <1>2, <1>3, <1>4, <1>5 DEF TypeOK

LEMMA Bounds ==
    /\ MaxIntents \in Nat /\ MaxAttempts \in Nat /\ Chunks \in Nat \ {0}
    /\ MaxHandoffs \in Nat /\ MaxGeneration \in Nat /\ MaxQueue \in Nat
BY PublishAssumption

LEMMA ReleasedType ==
    ASSUME TypeOK, NEW i PROVE Released(i) \in [Intent -> IntentRow]
<1>1. [state |-> "APPROVED", token |-> 0, live |-> FALSE] \in IntentRow
  BY Bounds DEF IntentRow
<1> QED
  BY <1>1 DEF TypeOK, Released

LEMMA ReconciledType ==
    ASSUME TypeOK, NEW r \in Reconciler, NEW outcome \in Outcomes, Reconciled(r, outcome)
    PROVE  recon' \in [Reconciler -> ReconState]
BY Nulls DEF TypeOK, Reconciled, ReconState

LEMMA GotoType ==
    ASSUME TypeOK, NEW w \in Worker, NEW fields \in WorkerState, Goto(w, fields)
    PROVE  worker' \in [Worker -> WorkerState]
BY DEF TypeOK, Goto

LEMMA NumberType == NextAttempt \in Attempt => NextAttempt \in 0..MaxAttempts
BY Bounds DEF Attempt

LEMMA UsersType ==
    ASSUME TypeOK, NEW i \in Intent, Create(i) \/ Approve(i) \/ CancelIntent(i) \/ LeaseRunsOut(i)
    PROVE  TypeOK'
<1>1. intent' \in [Intent -> IntentRow]
  <2>1. CASE Create(i)
    <3>1. [NoIntent EXCEPT !.state = "DRAFT"] \in IntentRow
      <4>1. \A row \in IntentRow : [row EXCEPT !.state = "DRAFT"] \in IntentRow
        BY DEF IntentRow
      <4> QED
        BY <4>1, Nulls
    <3>2. \A j \in Intent : [intent[j] EXCEPT !.state = "SUPERSEDED"] \in IntentRow
      BY DEF TypeOK, IntentRow
    <3> QED
      BY <2>1, <3>1, <3>2 DEF Create, TypeOK
  <2>2. CASE Approve(i) \/ CancelIntent(i) \/ LeaseRunsOut(i)
    <3>1. /\ [intent EXCEPT ![i].state = "APPROVED"] \in [Intent -> IntentRow]
          /\ [intent EXCEPT ![i].state = "CANCELLED"] \in [Intent -> IntentRow]
          /\ [intent EXCEPT ![i].live = FALSE] \in [Intent -> IntentRow]
      BY DEF TypeOK, IntentRow
    <3> QED
      BY <2>2, <3>1 DEF Approve, CancelIntent, LeaseRunsOut
  <2> QED
    BY <2>1, <2>2
<1>2. queue' \in 0..MaxQueue
  BY Bounds DEF TypeOK, Create, Approve, CancelIntent, LeaseRunsOut
<1>3. UNCHANGED <<attempt, provider, failed, task, evaluation, worker, recon, handoff, relay>>
  BY DEF Create, Approve, CancelIntent, LeaseRunsOut
<1> QED
  BY <1>1, <1>2, <1>3 DEF TypeOK

\* What the steps of a worker before it sends write.
LEMMA PrepareType ==
    ASSUME IndInv, NEW w \in Worker,
           \/ Refuse(w) \/ Claim(w) \/ Block(w) \/ LookForPrior(w) \/ AfterPrior(w)
           \/ InitializeUpload(w) \/ Break(w) \/ Fence(w) \/ Die(w)
    PROVE  TypeOK'
<1> USE DEF IndInv
<1>1. CASE Refuse(w)
  BY <1>1, Bounds DEF TypeOK, Refuse, rows
<1>2. CASE Claim(w)
  <2>1. NextAttempt \in 0..MaxAttempts
    BY <1>2, NumberType DEF Claim
  <2> DEFINE n == NextAttempt
  <2>2. n \in Attempt
    BY <1>2 DEF Claim
  <2> HIDE DEF n
  <2>3. [state |-> "CLAIMED", token |-> n, live |-> TRUE] \in IntentRow
    BY <2>1 DEF IntentRow, n
  <2>4. \A i \in Intent : [NoAttempt EXCEPT !.intent = i, !.state = "CREATED"] \in AttemptRow
    <3>1. \A row \in AttemptRow, i \in Intent :
            [row EXCEPT !.intent = i, !.state = "CREATED"] \in AttemptRow
      <4>1. \A i \in Intent : i \in 0..MaxIntents
        BY Bounds DEF Intent
      <4> QED
        BY <4>1 DEF AttemptRow, AttemptStates, Unfinished
    <3> QED
      BY <3>1, Nulls
  <2>5. [Idle EXCEPT !.pc = "gates", !.own = n, !.at = n] \in WorkerState
    BY <2>1, Nulls DEF Idle, WorkerState, n
  <2>6. intent' \in [Intent -> IntentRow]
    BY <1>2, <2>3 DEF TypeOK, Claim, n
  <2>7. attempt' \in [Attempt -> AttemptRow]
    BY <1>2, <2>2, <2>4 DEF TypeOK, Claim, n, Claimable
  <2>8. worker' \in [Worker -> WorkerState]
    BY <1>2, <2>5 DEF TypeOK, Claim, n, Goto
  <2>9. queue' \in 0..MaxQueue
    BY <1>2, Bounds DEF TypeOK, Claim
  <2> QED
    BY <1>2, <2>6, <2>7, <2>8, <2>9 DEF TypeOK, Claim
<1>3. CASE Block(w)
  <2>1. attempt' \in [Attempt -> AttemptRow]
    BY <1>3 DEF TypeOK, Block, AttemptRow, AttemptStates
  <2>2. intent' \in [Intent -> IntentRow] /\ worker' \in [Worker -> WorkerState]
    BY <1>3, ReleasedType, GotoType, Nulls DEF Block, Return
  <2> QED
    BY <1>3, <2>1, <2>2 DEF TypeOK, Block
<1>4. CASE LookForPrior(w)
  <2> DEFINE open == OpenPrior(IntentOf(w), worker[w].own)
  <2>1. open \subseteq Attempt /\ \A a \in open : a \in 0..MaxAttempts
    BY Bounds DEF OpenPrior, Attempt
  <2>2. worker[w] \in WorkerState
    BY DEF TypeOK
  <2>3. [worker[w] EXCEPT !.pc = "init"] \in WorkerState
    BY <2>2 DEF WorkerState
  <2>4. \A a \in open : [worker[w] EXCEPT !.pc = "prior", !.at = a] \in WorkerState
    BY <2>1, <2>2 DEF WorkerState
  <2>5. \A a \in open : [NoRecon EXCEPT !.pc = "ask", !.at = a] \in ReconState
    BY <2>1, Nulls DEF ReconState, NoRecon
  <2> HIDE DEF open
  <2>6. worker' \in [Worker -> WorkerState] /\ recon' \in [Reconciler -> ReconState]
    BY <1>4, <2>3, <2>4, <2>5 DEF TypeOK, LookForPrior, Goto, open
  <2> QED
    BY <1>4, <2>6 DEF TypeOK, LookForPrior, rows
<1>5. CASE AfterPrior(w)
  <2>1. worker[w] \in WorkerState /\ recon[w] \in ReconState /\ w \in Reconciler
    BY DEF TypeOK, Reconciler
  <2>2. [worker[w] EXCEPT !.pc = "fence", !.offset = recon[w].offset] \in WorkerState
    BY <2>1 DEF WorkerState, ReconState
  <2>3. [worker[w] EXCEPT !.pc = "init", !.at = worker[w].own] \in WorkerState
    BY <2>1 DEF WorkerState
  <2>4. worker' \in [Worker -> WorkerState]
    BY <1>5, <2>2, <2>3, GotoType, Nulls DEF AfterPrior, Return
  <2>5. attempt' \in [Attempt -> AttemptRow]
    <3>1. [attempt EXCEPT ![worker[w].own].state = "CANCELLED"] \in [Attempt -> AttemptRow]
      BY DEF TypeOK, AttemptRow, AttemptStates
    <3> QED
      BY <1>5, <3>1 DEF TypeOK, AfterPrior
  <2>6. intent' \in [Intent -> IntentRow] /\ recon' \in [Reconciler -> ReconState]
    BY <1>5, ReleasedType, Nulls DEF AfterPrior, TypeOK
  <2> QED
    BY <1>5, <2>4, <2>5, <2>6 DEF TypeOK, AfterPrior
<1>6. CASE InitializeUpload(w)
  <2>1. worker[w] \in WorkerState
    BY DEF TypeOK
  <2>2. /\ [worker[w] EXCEPT !.pc = "flushed"] \in WorkerState
        /\ \A error \in {"transient", "terminal"} :
             [worker[w] EXCEPT !.pc = "answer", !.answer = error] \in WorkerState
    BY <2>1 DEF WorkerState
  <2>3. worker' \in [Worker -> WorkerState]
    BY <1>6, <2>2, GotoType DEF InitializeUpload
  <2>4. provider' \in [Attempt -> ProviderSession]
    <3>1. [known |-> "open", offset |-> 0] \in ProviderSession
      BY Bounds DEF ProviderSession
    <3> QED
      BY <1>6, <3>1 DEF TypeOK, InitializeUpload
  <2> QED
    BY <1>6, <2>3, <2>4 DEF TypeOK, InitializeUpload, rows
<1>7. CASE Break(w)
  <2>1. worker[w] \in WorkerState
    BY DEF TypeOK
  <2>2. \A error \in {"transient", "terminal"} :
          [worker[w] EXCEPT !.pc = "answer", !.at = worker[w].own, !.answer = error] \in WorkerState
    BY <2>1 DEF WorkerState
  <2>3. worker' \in [Worker -> WorkerState] /\ recon' \in [Reconciler -> ReconState]
    BY <1>7, <2>2, GotoType, Nulls DEF Break, TypeOK
  <2> QED
    BY <1>7, <2>3 DEF TypeOK, Break, rows
<1>8. CASE Fence(w)
  <2>1. [worker[w] EXCEPT !.pc = "put"] \in WorkerState
    BY DEF TypeOK, WorkerState
  <2>2. worker' \in [Worker -> WorkerState]
    BY <1>8, <2>1, GotoType, Nulls DEF Fence, Return
  <2>3. attempt' \in [Attempt -> AttemptRow]
    <3>1. Committed(w) \in [Attempt -> AttemptRow]
      <4>1. "UPLOADING" \in AttemptStates
        BY DEF AttemptStates, Unfinished
      <4>2. \A a : [attempt EXCEPT ![a].stored = TRUE, ![a].state = "UPLOADING"] \in [Attempt -> AttemptRow]
        BY <4>1 DEF TypeOK, AttemptRow
      <4> QED
        BY <4>2 DEF TypeOK, Committed
    <3> QED
      BY <1>8, <3>1 DEF Fence
  <2> QED
    BY <1>8, <2>2, <2>3 DEF TypeOK, Fence
<1>9. CASE Die(w)
  <2>1. worker' \in [Worker -> WorkerState] /\ recon' \in [Reconciler -> ReconState]
    BY <1>9, GotoType, Nulls DEF Die, Return, TypeOK
  <2> QED
    BY <1>9, <2>1, Bounds DEF TypeOK, Die, rows
<1> QED
  BY <1>1, <1>2, <1>3, <1>4, <1>5, <1>6, <1>7, <1>8, <1>9

LEMMA PutType ==
    ASSUME IndInv, NEW w \in Worker, PutChunk(w)
    PROVE  TypeOK'
<1> USE DEF IndInv
<1> DEFINE a == worker[w].at
           next == IF provider[a].offset = worker[w].offset THEN worker[w].offset + 1
                                                            ELSE provider[a].offset
<1>1. a \in Attempt /\ worker[w].offset < Chunks /\ worker[w] \in WorkerState
  BY DEF PutChunk, WorkerInv, Serves, Busy, TypeOK
<1>2. provider[a] \in ProviderSession
  BY <1>1 DEF TypeOK
<1>3. next \in 0..Chunks
  BY <1>1, <1>2, Bounds DEF ProviderSession, WorkerState
<1>4. provider' = [provider EXCEPT ![a].offset = next] \/ UNCHANGED provider
  BY DEF PutChunk
<1> HIDE DEF next
<1>5. provider' \in [Attempt -> ProviderSession]
  <2>1. \A n \in 0..Chunks : [provider EXCEPT ![a].offset = n] \in [Attempt -> ProviderSession]
    BY DEF TypeOK, ProviderSession
  <2> QED
    BY <1>3, <1>4, <2>1 DEF TypeOK
<1>6. /\ \A answer \in {"complete", "partial"} :
           [worker[w] EXCEPT !.pc = "answer", !.offset = next, !.answer = answer] \in WorkerState
      /\ \A error \in {"transient", "terminal", "ambiguous"} :
           [worker[w] EXCEPT !.pc = "answer", !.answer = error] \in WorkerState
  BY <1>1, <1>3 DEF WorkerState
<1>7. ChunkErrors(w) \subseteq {"transient", "terminal", "ambiguous"}
  BY DEF ChunkErrors
<1>8. \E fields \in WorkerState : Goto(w, fields)
  BY <1>6, <1>7 DEF PutChunk, next
<1>9. worker' \in [Worker -> WorkerState]
  BY <1>8, GotoType
<1> QED
  BY <1>5, <1>9 DEF TypeOK, PutChunk, rows

LEMMA AnswerType ==
    ASSUME IndInv, NEW w \in Worker,
           Complete(w) \/ NextChunk(w) \/ Ambiguous(w) \/ RetryLater(w) \/ FailForGood(w)
    PROVE  TypeOK'
<1> USE DEF IndInv
<1>1. worker[w].at \in Attempt /\ worker[w] \in WorkerState
  BY DEF Complete, NextChunk, Ambiguous, RetryLater, FailForGood, Answered, WorkerInv, Serves, Busy, TypeOK
<1>2. {"SUCCEEDED", "UNKNOWN", "RETRYABLE_FAILED", "PERMANENT_FAILED"} \subseteq AttemptStates
  BY DEF AttemptStates, Unfinished
<1>3. worker' \in [Worker -> WorkerState]
  <2>1. [worker[w] EXCEPT !.pc = "fence", !.answer = "none"] \in WorkerState
    BY <1>1 DEF WorkerState
  <2> QED
    BY <2>1, GotoType, Nulls DEF Complete, NextChunk, Ambiguous, RetryLater, FailForGood, Return
<1>4. failed' \subseteq Attempt
  BY <1>1 DEF TypeOK, Complete, NextChunk, Ambiguous, RetryLater, FailForGood
<1>5. evaluation' \subseteq Attempt \X {"SUCCEEDED", "FAILED"}
  BY <1>1 DEF TypeOK, Complete, NextChunk, Ambiguous, RetryLater, FailForGood
<1>6. intent' \in [Intent -> IntentRow]
  <2>1. /\ [intent EXCEPT ![IntentOf(w)].state = "PUBLISHED"] \in [Intent -> IntentRow]
        /\ [intent EXCEPT ![IntentOf(w)].state = "FAILED"] \in [Intent -> IntentRow]
    BY DEF TypeOK, IntentRow
  <2> QED
    <3>1. CASE Complete(w) \/ FailForGood(w)
      BY <2>1, <3>1 DEF Complete, FailForGood
    <3>2. CASE RetryLater(w)
      BY <3>2, ReleasedType DEF RetryLater
    <3>3. CASE NextChunk(w) \/ Ambiguous(w)
      BY <3>3 DEF TypeOK, NextChunk, Ambiguous
    <3> QED
      BY <3>1, <3>2, <3>3
<1>7. handoff' \in [Attempt -> HandoffRow]
  <2>1. [NoHandoff EXCEPT !.status = "PENDING"] \in HandoffRow
    <3>1. \A row \in HandoffRow : [row EXCEPT !.status = "PENDING"] \in HandoffRow
      BY DEF HandoffRow
    <3> QED
      BY <3>1, Nulls
  <2> QED
    BY <2>1 DEF TypeOK, Complete, NextChunk, Ambiguous, RetryLater, FailForGood
<1>8. attempt' \in [Attempt -> AttemptRow]
  <2>1. CASE RetryLater(w) \/ FailForGood(w)
    <3>1. /\ [attempt EXCEPT ![worker[w].at].state = "RETRYABLE_FAILED"] \in [Attempt -> AttemptRow]
          /\ [attempt EXCEPT ![worker[w].at].state = "PERMANENT_FAILED"] \in [Attempt -> AttemptRow]
      BY <1>2 DEF TypeOK, AttemptRow
    <3> QED
      BY <2>1, <3>1 DEF RetryLater, FailForGood
  <2>2. CASE Complete(w)
    <3>1. \A a : [attempt EXCEPT ![a].state = "SUCCEEDED", ![a].bytes = Chunks] \in [Attempt -> AttemptRow]
      <4>1. "SUCCEEDED" \in AttemptStates /\ Chunks \in 0..Chunks
        BY <1>2, Bounds
      <4> QED
        BY <4>1 DEF TypeOK, AttemptRow
    <3> QED
      BY <2>2, <3>1 DEF Complete, BytesDone
  <2>3. CASE NextChunk(w)
    <3>1. worker[w].offset \in 0..Chunks
      BY <1>1 DEF WorkerState
    <3>2. \A a : [attempt EXCEPT ![a].bytes = worker[w].offset] \in [Attempt -> AttemptRow]
      BY <3>1 DEF TypeOK, AttemptRow
    <3> QED
      BY <2>3, <3>2 DEF NextChunk
  <2>4. CASE Ambiguous(w)
    <3>1. \A a : [attempt EXCEPT ![a].state = "UNKNOWN", ![a].status = "PENDING"] \in [Attempt -> AttemptRow]
      BY <1>2 DEF TypeOK, AttemptRow
    <3> QED
      BY <2>4, <3>1 DEF Ambiguous
  <2> QED
    BY <2>1, <2>2, <2>3, <2>4
<1>9. /\ task' \in {"RUNNING", "SUCCEEDED", "FAILED"}
       /\ UNCHANGED <<provider, queue, recon, relay>>
  BY DEF TypeOK, Complete, NextChunk, Ambiguous, RetryLater, FailForGood
<1> QED
  BY <1>3, <1>4, <1>5, <1>6, <1>7, <1>8, <1>9 DEF TypeOK

LEMMA MarkTerminalType ==
    ASSUME TypeOK, NEW a \in Attempt, MarkTerminal(a)
    PROVE  attempt' \in [Attempt -> AttemptRow] /\ failed' \subseteq Attempt
<1>1. [attempt EXCEPT ![a].state = "PERMANENT_FAILED", ![a].status = "MANUAL_HOLD"] \in [Attempt -> AttemptRow]
  BY DEF TypeOK, AttemptRow, AttemptStates
<1> QED
  BY <1>1 DEF TypeOK, MarkTerminal

LEMMA ReconcileType ==
    ASSUME IndInv, NEW r \in Reconciler, Reconcile(r)
    PROVE  TypeOK'
<1> USE DEF IndInv
<1>1. /\ recon[r] \in ReconState
      /\ recon[r].at \in Attempt
  BY DEF TypeOK, Reconcile, Settled, Expired, Denied, Asks, Permitted, QueryProvider, Apply, ReconInv, Reports
<1>2. {"pending", "terminal", "hold", "success", "incomplete"} = Outcomes
  BY DEF Outcomes
<1>3. CASE Settled(r) \/ Denied(r)
  <2>1. recon' \in [Reconciler -> ReconState]
    BY <1>2, <1>3, ReconciledType DEF Settled, Denied
  <2> QED
    BY <1>3, <2>1 DEF TypeOK, Settled, Denied, rows
<1>4. CASE Expired(r)
  <2>1. recon' \in [Reconciler -> ReconState]
    BY <1>2, <1>4, ReconciledType DEF Expired
  <2> QED
    BY <1>1, <1>4, <2>1, MarkTerminalType DEF TypeOK, Expired
<1>5. CASE Permitted(r)
  <2>1. recon' \in [Reconciler -> ReconState]
    BY <1>1, <1>5 DEF TypeOK, Permitted, ReconState
  <2> QED
    BY <1>5, <2>1 DEF TypeOK, Permitted, rows
<1>6. CASE QueryProvider(r)
  <2>1. provider[recon[r].at].offset \in 0..Chunks
    BY <1>1 DEF TypeOK, ProviderSession
  <2>2. {ProviderTruth(recon[r].at), "hold"} \subseteq Outcomes
    BY <1>2 DEF ProviderTruth
  <2>3. \A outcome \in Outcomes, n \in 0..Chunks :
          [recon[r] EXCEPT !.pc = "apply", !.outcome = outcome, !.offset = n] \in ReconState
    BY <1>1 DEF ReconState
  <2>4. recon' \in [Reconciler -> ReconState]
    <3>1. PICK outcome \in {ProviderTruth(recon[r].at), "hold"} :
            recon' = [recon EXCEPT ![r] = [recon[r] EXCEPT !.pc = "apply", !.outcome = outcome,
                                            !.offset = provider[recon[r].at].offset]]
      BY <1>6 DEF QueryProvider
    <3>2. [recon[r] EXCEPT !.pc = "apply", !.outcome = outcome,
                           !.offset = provider[recon[r].at].offset] \in ReconState
      BY <2>1, <2>2, <2>3
    <3> QED
      BY <3>1, <3>2 DEF TypeOK
  <2> QED
    BY <1>6, <2>4 DEF TypeOK, QueryProvider, rows
<1>7. CASE Apply(r)
  <2> DEFINE a == recon[r].at
  <2>1. recon[r].outcome \in Outcomes /\ recon[r].offset \in 0..Chunks
    BY <1>1 DEF ReconState
  <2>2. recon' \in [Reconciler -> ReconState]
    BY <1>7, <2>1, ReconciledType DEF Apply
  <2>3. "SUCCEEDED" \in AttemptStates
    BY DEF AttemptStates
  <2>4. /\ [attempt EXCEPT ![a].state = "SUCCEEDED", ![a].status = "CONFIRMED_SUCCESS"] \in [Attempt -> AttemptRow]
        /\ [attempt EXCEPT ![a].status = "MANUAL_HOLD"] \in [Attempt -> AttemptRow]
    BY <2>3 DEF TypeOK, AttemptRow
  <2>5. [attempt EXCEPT ![a].status = "PENDING",
                        ![a].bytes = IF @ < recon[r].offset THEN recon[r].offset ELSE @] \in [Attempt -> AttemptRow]
    <3>1. \A row \in AttemptRow, n \in 0..Chunks :
            [row EXCEPT !.status = "PENDING", !.bytes = IF @ < n THEN n ELSE @] \in AttemptRow
      BY DEF AttemptRow
    <3>2. [attempt[a] EXCEPT !.status = "PENDING",
                             !.bytes = IF @ < recon[r].offset THEN recon[r].offset ELSE @] \in AttemptRow
      BY <1>1, <2>1, <3>1 DEF TypeOK
    <3> QED
      BY <1>1, <3>2 DEF TypeOK
  <2>6. attempt' \in [Attempt -> AttemptRow] /\ failed' \subseteq Attempt
    BY <1>1, <1>7, <2>4, <2>5, MarkTerminalType DEF Apply, TypeOK
  <2>7. intent' \in [Intent -> IntentRow]
    <3>1. \A i : [intent EXCEPT ![i].state = "PUBLISHED"] \in [Intent -> IntentRow]
      BY DEF TypeOK, IntentRow
    <3> QED
      BY <1>7, <3>1 DEF TypeOK, Apply
  <2>8. task' \in {"RUNNING", "SUCCEEDED", "FAILED"} /\ evaluation' \subseteq Attempt \X {"SUCCEEDED", "FAILED"}
    BY <1>1, <1>7 DEF TypeOK, Apply
  <2> QED
    BY <1>7, <2>2, <2>6, <2>7, <2>8 DEF TypeOK, Apply
<1> QED
  BY <1>3, <1>4, <1>5, <1>6, <1>7 DEF Reconcile

LEMMA SweepType ==
    ASSUME TypeOK, NEW a \in Attempt, SessionExpires(a) \/ SweepPicks(a) \/ ReconcileAgain(a)
    PROVE  TypeOK'
<1>1. provider' \in [Attempt -> ProviderSession]
  BY DEF TypeOK, ProviderSession, SessionExpires, SweepPicks, ReconcileAgain
<1>2. recon' \in [Reconciler -> ReconState]
  <2>1. a \in 0..MaxAttempts
    BY Bounds DEF Attempt
  <2>2. \A row \in ReconState : [row EXCEPT !.pc = "ask", !.at = a] \in ReconState
    BY <2>1 DEF ReconState
  <2>3. [NoRecon EXCEPT !.pc = "ask", !.at = a] \in ReconState
    BY <2>2, Nulls
  <2> QED
    BY <2>3 DEF TypeOK, SessionExpires, SweepPicks, ReconcileAgain
<1>3. attempt' \in [Attempt -> AttemptRow]
  <2>1. [attempt EXCEPT ![a].status = "PENDING"] \in [Attempt -> AttemptRow]
    BY DEF TypeOK, AttemptRow
  <2> QED
    BY <2>1 DEF TypeOK, SessionExpires, SweepPicks, ReconcileAgain, rows
<1> QED
  BY <1>1, <1>2, <1>3 DEF TypeOK, SessionExpires, SweepPicks, ReconcileAgain, rows

LEMMA HandoffType ==
    ASSUME TypeOK, CountsBounded,
           \/ \E h \in Relay : Deliver(h) \/ DeliveryFails(h) \/ \E a \in Attempt : RelayClaim(h, a)
           \/ \E a \in Attempt : Requeue(a)
    PROVE  TypeOK' /\ CountsBounded'
<1>0. UNCHANGED <<rows, provider, worker, recon>>
  BY DEF Deliver, DeliveryFails, RelayClaim, Requeue
<1>1. ASSUME NEW h \in Relay, Deliver(h) \/ DeliveryFails(h)
      PROVE  TypeOK' /\ CountsBounded'
  <2> DEFINE b == relay[h].row
             Set(status) == [handoff EXCEPT ![b].status = status]
  <2>1. \A status \in {"DELIVERED", "DEAD_LETTER", "PENDING"} : Set(status) \in [Attempt -> HandoffRow]
    BY DEF TypeOK, HandoffRow
  <2>2. \A status : \A a \in Attempt : /\ Set(status)[a].count = handoff[a].count
                                      /\ Set(status)[a].generation = handoff[a].generation
    BY DEF TypeOK, HandoffRow
  <2>6. \/ UNCHANGED handoff
        \/ \E status \in {"DELIVERED", "DEAD_LETTER", "PENDING"} : handoff' = Set(status)
    BY <1>1 DEF Deliver, DeliveryFails
  <2> HIDE DEF Set
  <2>3. /\ handoff' \in [Attempt -> HandoffRow] /\ CountsBounded'
    BY <2>1, <2>2, <2>6 DEF TypeOK, CountsBounded
  <2>4. relay' \in [Relay -> [row : 0..MaxAttempts, generation : 0..MaxGeneration]]
    BY <1>1, Bounds DEF TypeOK, Deliver, DeliveryFails, RelayEnds
  <2>5. queue' \in 0..MaxQueue
    BY <1>1, Bounds DEF TypeOK, Deliver, DeliveryFails
  <2> QED
    BY <1>0, <2>3, <2>4, <2>5 DEF TypeOK, rows
<1>2. ASSUME NEW h \in Relay, NEW a \in Attempt, RelayClaim(h, a)
      PROVE  TypeOK' /\ CountsBounded'
  <2>1. /\ handoff[a] \in HandoffRow /\ handoff[a].generation < MaxGeneration
        /\ handoff[a].count <= handoff[a].generation
    BY <1>2 DEF TypeOK, RelayClaim, CountsBounded
  <2> DEFINE row == [status |-> "CLAIMED", count |-> handoff[a].count + 1, generation |-> handoff[a].generation + 1]
  <2>2. row \in HandoffRow /\ row.count <= row.generation
    BY <2>1, Bounds DEF HandoffRow
  <2>3. handoff' = [handoff EXCEPT ![a] = row]
    BY <1>2 DEF RelayClaim
  <2>4. a \in 0..MaxAttempts /\ handoff[a].generation + 1 \in 0..MaxGeneration
    BY <2>1, Bounds DEF Attempt, HandoffRow
  <2>5. relay' \in [Relay -> [row : 0..MaxAttempts, generation : 0..MaxGeneration]]
    BY <1>2, <2>4 DEF TypeOK, RelayClaim
  <2> HIDE DEF row
  <2>6. handoff' \in [Attempt -> HandoffRow] /\ CountsBounded'
    BY <2>2, <2>3 DEF TypeOK, CountsBounded
  <2> QED
    BY <1>0, <1>2, <2>5, <2>6 DEF TypeOK, rows, RelayClaim
<1>3. ASSUME NEW a \in Attempt, Requeue(a)
      PROVE  TypeOK' /\ CountsBounded'
  <2>1. handoff' = [handoff EXCEPT ![a] = [handoff[a] EXCEPT !.status = "PENDING", !.count = 0]]
    BY <1>3 DEF Requeue
  <2>2. handoff' \in [Attempt -> HandoffRow]
    <3>1. \A row \in HandoffRow : [row EXCEPT !.status = "PENDING", !.count = 0] \in HandoffRow
      <4>1. 0 \in 0..MaxGeneration
        BY Bounds
      <4> QED
        BY <4>1 DEF HandoffRow
    <3>2. [handoff[a] EXCEPT !.status = "PENDING", !.count = 0] \in HandoffRow
      BY <3>1 DEF TypeOK
    <3> QED
      BY <2>1, <3>2 DEF TypeOK
  <2>3. \A b \in Attempt : /\ handoff'[b].generation = handoff[b].generation
                           /\ handoff'[b].count \in {0, handoff[b].count}
                           /\ handoff[b].generation \in Nat
    BY <2>1, Bounds DEF TypeOK, HandoffRow
  <2>4. CountsBounded'
    BY <2>3 DEF CountsBounded
  <2> QED
    BY <1>0, <1>3, <2>2, <2>4 DEF TypeOK, rows, Requeue
<1> QED
  BY <1>1, <1>2, <1>3

-----------------------------------------------------------------------------
(* Rows.  Whatever a step does, an attempt stays with its intent, a session  *)
(* row stays, and so does a video.                                           *)

\* The fence of its worker commits the session row of an attempt.
Flushes(a) == \E w \in Worker : worker[w].pc = "flushed" /\ worker[w].own = a /\ worker'[w].pc # "flushed"

Kept(a) == /\ Exists(a) => Exists(a)' /\ attempt'[a].intent = attempt[a].intent
           /\ Exists(a)' => Exists(a) \/ a = NextAttempt
           /\ attempt[a].stored => attempt'[a].stored
           /\ attempt'[a].stored => attempt[a].stored \/ Flushes(a)
           /\ HasVideo(a) => HasVideo(a)'

LEMMA RowUntouched ==
    ASSUME IndInv, NEW a \in Attempt,
           attempt'[a] = attempt[a], provider'[a] = provider[a],
           failed \subseteq failed', evaluation \subseteq evaluation'
    PROVE  Row(a)' /\ Kept(a)
BY DEF IndInv, RowInv, Row, Kept, Exists, Ended, HasVideo

\* The next number is not taken.
LEMMA Numbering ==
    ASSUME Numbered
    PROVE  \E n \in 0..MaxAttempts : NextAttempt = n + 1 /\ \A a \in Attempt : Exists(a) <=> a <= n
<1>1. PICK n \in 0..MaxAttempts : \A a \in Attempt : Exists(a) <=> a <= n
  BY DEF Numbered
<1>2. {a \in Attempt : attempt[a].state # "ABSENT"} = 1..n
  BY <1>1, Bounds DEF Exists, Attempt
<1>3. Cardinality(1..n) = n
  BY <1>1, FS_Interval
<1> QED
  BY <1>1, <1>2, <1>3 DEF NextAttempt

\* What the preparation of an upload does to the rows.
LEMMA PrepareRows ==
    ASSUME IndInv, NEW w \in Worker,
           Claim(w) \/ Block(w) \/ AfterPrior(w) \/ InitializeUpload(w) \/ Fence(w),
           NEW a \in Attempt
    PROVE  Row(a)' /\ Kept(a)
<1> USE DEF IndInv
<1>1. failed \subseteq failed' /\ evaluation \subseteq evaluation'
  BY DEF Claim, Block, AfterPrior, InitializeUpload, Fence, rows
<1>2. CASE Claim(w)
  <2>1. provider'[a] = provider[a]
    BY <1>2 DEF Claim
  <2>2. CASE a # NextAttempt
    <3>1. attempt'[a] = attempt[a]
      BY <1>2, <2>2 DEF Claim, TypeOK
    <3> QED
      BY <1>1, <2>1, <3>1, RowUntouched
  <2>3. CASE a = NextAttempt
    <3>1. ~Exists(a)
      BY <2>3, Numbering DEF Attempt
    <3>2. PICK i \in Intent : attempt' = [attempt EXCEPT ![a] = [NoAttempt EXCEPT !.intent = i, !.state = "CREATED"]]
      BY <1>2, <2>3 DEF Claim, Claimable
    <3>3. attempt'[a].intent = i /\ attempt'[a].state = "CREATED" /\ ~attempt'[a].stored
      BY <3>2 DEF TypeOK, NoAttempt
    <3> QED
      BY <2>1, <2>3, <3>1, <3>3, Bounds DEF RowInv, Row, Kept, Exists, HasVideo, TypeOK, ProviderSession
  <2> QED
    BY <2>2, <2>3
<1>3. CASE Block(w) \/ AfterPrior(w)
  <2>1. worker[w].own \in Attempt /\ Exists(worker[w].own) /\ ~attempt[worker[w].own].stored
    BY <1>3 DEF Block, AfterPrior, WorkerInv, Serves, Busy
  <2>2. provider'[a] = provider[a]
    BY <1>3 DEF Block, AfterPrior
  <2>3. CASE a # worker[w].own
    <3>1. attempt'[a] = attempt[a]
      BY <1>3, <2>3 DEF Block, AfterPrior, TypeOK
    <3> QED
      BY <1>1, <2>2, <3>1, RowUntouched
  <2>4. CASE a = worker[w].own
    <3>1. /\ attempt'[a].intent = attempt[a].intent
          /\ attempt'[a].stored = attempt[a].stored
          /\ attempt'[a].state # "ABSENT"
      BY <1>3, <2>1, <2>4 DEF Block, AfterPrior, TypeOK, AttemptRow, Exists
    <3> QED
      BY <2>1, <2>2, <2>4, <3>1 DEF RowInv, Row, Kept, Exists, HasVideo
  <2> QED
    BY <2>3, <2>4
<1>4. CASE InitializeUpload(w)
  <2>1. attempt'[a] = attempt[a]
    BY <1>4 DEF InitializeUpload, rows
  <2>2. CASE a # worker[w].own
    <3>1. provider'[a] = provider[a]
      BY <1>4, <2>2 DEF InitializeUpload, TypeOK
    <3> QED
      BY <1>1, <2>1, <3>1, RowUntouched
  <2>3. CASE a = worker[w].own
    <3>1. ~attempt[a].stored
      BY <1>4, <2>3 DEF InitializeUpload, WorkerInv, Serves, Busy
    <3>2. provider'[a].offset = 0
      BY <1>4, <2>3 DEF InitializeUpload, TypeOK
    <3>3. provider[a].offset = 0 /\ Chunks > 0
      BY <3>1, Bounds DEF RowInv, Row, TypeOK, ProviderSession
    <3> QED
      BY <2>1, <3>1, <3>2, <3>3 DEF RowInv, Row, Kept, Exists, HasVideo
  <2> QED
    BY <2>2, <2>3
<1>5. CASE Fence(w)
  <2>1. provider'[a] = provider[a]
    BY <1>5 DEF Fence
  <2>2. CASE a # worker[w].own \/ worker[w].pc # "flushed"
    <3>1. attempt'[a] = attempt[a]
      BY <1>5, <2>2 DEF Fence, Committed, TypeOK
    <3> QED
      BY <1>1, <2>1, <3>1, RowUntouched
  <2>3. CASE a = worker[w].own /\ worker[w].pc = "flushed"
    <3>1. Exists(a)
      BY <2>3 DEF WorkerInv, Serves, Busy
    <3>2. /\ attempt'[a].intent = attempt[a].intent
          /\ attempt'[a].stored /\ attempt'[a].state = "UPLOADING"
      BY <1>5, <2>3 DEF Fence, Committed, TypeOK, AttemptRow
    <3>3. Flushes(a)
      BY <1>5, <2>3 DEF Flushes, Fence, Goto, Return, Idle, TypeOK, WorkerState
    <3> QED
      BY <2>1, <3>1, <3>2, <3>3 DEF RowInv, Row, Kept, Exists, HasVideo
  <2> QED
    BY <2>2, <2>3
<1> QED
  BY <1>2, <1>3, <1>4, <1>5

\* What a chunk does: the offset of an open session only rises, and only of a
\* session that has its row.
LEMMA PutRows ==
    ASSUME IndInv, NEW w \in Worker, PutChunk(w), NEW a \in Attempt
    PROVE  Row(a)' /\ Kept(a)
<1> USE DEF IndInv
<1>1. UNCHANGED <<attempt, failed, evaluation>>
  BY DEF PutChunk, rows
<1>2. CASE provider'[a] = provider[a]
  BY <1>1, <1>2, RowUntouched
<1>3. CASE provider'[a] # provider[a]
  <2>1. a = worker[w].at /\ attempt[a].stored /\ worker[w].offset < Chunks
    <3>1. attempt[worker[w].at].stored /\ worker[w].offset < Chunks
      BY DEF PutChunk, WorkerInv, Serves, Busy
    <3>2. a = worker[w].at
      BY <1>3 DEF PutChunk, TypeOK
    <3> QED
      BY <3>1, <3>2
  <2>2. HasVideo(a) => HasVideo(a)'
    <3>1. HasVideo(a) => provider[a].offset # worker[w].offset
      BY <2>1, Bounds DEF HasVideo, TypeOK, WorkerState
    <3> QED
      BY <1>3, <2>1, <3>1 DEF PutChunk, TypeOK, HasVideo, ProviderSession
  <2> QED
    BY <1>1, <2>1, <2>2 DEF RowInv, Row, Kept, Exists, Ended
<1> QED
  BY <1>2, <1>3

\* What the transactions after a chunk do: they write the row of a session that
\* is open, or record its end.
LEMMA AnswerRows ==
    ASSUME IndInv, NEW w \in Worker,
           Complete(w) \/ NextChunk(w) \/ Ambiguous(w) \/ RetryLater(w) \/ FailForGood(w),
           NEW a \in Attempt
    PROVE  Row(a)' /\ Kept(a)
<1> USE DEF IndInv
<1>1. failed \subseteq failed' /\ evaluation \subseteq evaluation' /\ UNCHANGED provider
  BY DEF Complete, NextChunk, Ambiguous, RetryLater, FailForGood
<1>2. CASE a # worker[w].at
  <2>1. attempt'[a] = attempt[a]
    BY <1>2 DEF Complete, NextChunk, Ambiguous, RetryLater, FailForGood, TypeOK
  <2> QED
    BY <1>1, <2>1, RowUntouched
<1>3. CASE a = worker[w].at
  <2>1. Exists(a)
    BY <1>3 DEF Complete, NextChunk, Ambiguous, RetryLater, FailForGood, Answered, WorkerInv, Serves, Busy
  <2>2. /\ attempt'[a].intent = attempt[a].intent
        /\ attempt'[a].stored = attempt[a].stored
    BY <1>3 DEF Complete, NextChunk, Ambiguous, RetryLater, FailForGood, TypeOK, AttemptRow
  <2>3. attempt'[a].state \in {attempt[a].state, "SUCCEEDED", "UNKNOWN", "RETRYABLE_FAILED", "PERMANENT_FAILED"}
    BY <1>3 DEF Complete, NextChunk, Ambiguous, RetryLater, FailForGood, TypeOK, AttemptRow
  <2>4. Ended(a)' \/ (~Ended(a) /\ attempt'[a].state \in {attempt[a].state, "UNKNOWN"})
    <3>1. CASE Complete(w) \/ RetryLater(w) \/ FailForGood(w)
      BY <1>3, <3>1 DEF Complete, RetryLater, FailForGood, Ended
    <3>2. CASE NextChunk(w) \/ Ambiguous(w)
      BY <1>1, <1>3, <3>2 DEF NextChunk, Ambiguous, Ended, TypeOK, AttemptRow
    <3> QED
      BY <3>1, <3>2
  <2> QED
    BY <1>1, <2>1, <2>2, <2>3, <2>4 DEF RowInv, Row, Kept, Exists, HasVideo
<1> QED
  BY <1>2, <1>3

\* What a reconciliation, the sweep and the provider do.
LEMMA ReconcileRows ==
    ASSUME IndInv, NEW a \in Attempt,
           \/ \E r \in Reconciler : Expired(r) \/ Apply(r)
           \/ \E b \in Attempt : SessionExpires(b) \/ ReconcileAgain(b)
    PROVE  Row(a)' /\ Kept(a)
<1> USE DEF IndInv
<1>1. ASSUME NEW r \in Reconciler, Expired(r) \/ Apply(r)
      PROVE  Row(a)' /\ Kept(a)
  <2>1. failed \subseteq failed' /\ evaluation \subseteq evaluation' /\ UNCHANGED provider
    BY <1>1 DEF Expired, Apply, MarkTerminal
  <2>2. CASE a # recon[r].at
    <3>1. attempt'[a] = attempt[a]
      BY <1>1, <2>2 DEF Expired, Apply, MarkTerminal, TypeOK
    <3> QED
      BY <2>1, <3>1, RowUntouched
  <2>3. CASE a = recon[r].at
    <3>1. Exists(a)
      BY <1>1, <2>3 DEF Expired, Asks, Apply, ReconInv, Reports
    <3>2. /\ attempt'[a].intent = attempt[a].intent
          /\ attempt'[a].stored = attempt[a].stored
          /\ attempt'[a].state = attempt[a].state \/ (Ended(a)' /\ Exists(a)')
      <4>1. CASE MarkTerminal(a)
        BY <4>1 DEF MarkTerminal, TypeOK, AttemptRow, Ended, Exists
      <4>2. CASE Apply(r) /\ recon[r].outcome = "success"
        <5>1. /\ attempt' = [attempt EXCEPT ![a].state = "SUCCEEDED", ![a].status = "CONFIRMED_SUCCESS"]
              /\ <<a, "SUCCEEDED">> \in evaluation'
          BY <2>3, <4>2 DEF Apply
        <5> QED
          BY <5>1 DEF TypeOK, AttemptRow, Ended, Exists
      <4>3. CASE Apply(r) /\ recon[r].outcome = "incomplete"
        <5>1. PICK n : attempt' = [attempt EXCEPT ![a] = [attempt[a] EXCEPT !.status = "PENDING", !.bytes = n]]
          BY <2>3, <4>3 DEF Apply
        <5> QED
          BY <5>1 DEF TypeOK, AttemptRow
      <4>4. CASE Apply(r) /\ recon[r].outcome = "hold"
        <5>1. attempt' = [attempt EXCEPT ![a].status = "MANUAL_HOLD"]
          BY <2>3, <4>4 DEF Apply
        <5> QED
          BY <5>1 DEF TypeOK, AttemptRow
      <4>5. MarkTerminal(a) \/ (Apply(r) /\ recon[r].outcome \in {"success", "incomplete", "hold"})
        BY <1>1, <2>3 DEF Expired, Apply
      <4> QED
        BY <4>1, <4>2, <4>3, <4>4, <4>5
    <3> QED
      BY <2>1, <3>1, <3>2 DEF RowInv, Row, Kept, Exists, HasVideo, Ended
  <2> QED
    BY <2>2, <2>3
<1>2. ASSUME NEW b \in Attempt, SessionExpires(b) \/ ReconcileAgain(b)
      PROVE  Row(a)' /\ Kept(a)
  <2>1. /\ UNCHANGED <<failed, evaluation>>
        /\ attempt'[a].intent = attempt[a].intent /\ attempt'[a].state = attempt[a].state
        /\ attempt'[a].stored = attempt[a].stored
        /\ provider'[a].offset = provider[a].offset
    <3>1. CASE SessionExpires(b)
      BY <3>1 DEF SessionExpires, rows, TypeOK, ProviderSession
    <3>2. CASE ReconcileAgain(b)
      <4>1. UNCHANGED <<failed, evaluation, provider>>
        BY <3>2 DEF ReconcileAgain
      <4>2. attempt' = [attempt EXCEPT ![b].status = "PENDING"]
        BY <3>2 DEF ReconcileAgain
      <4> QED
        BY <4>1, <4>2 DEF TypeOK, AttemptRow
    <3> QED
      BY <1>2, <3>1, <3>2
  <2> QED
    BY <2>1 DEF RowInv, Row, Kept, Exists, Ended, HasVideo
<1> QED
  BY <1>1, <1>2

\* The steps that write no row of an attempt.
LEMMA RowsAlone ==
    ASSUME IndInv, UNCHANGED <<attempt, provider, failed, evaluation>>
    PROVE  \A a \in Attempt : Row(a)' /\ Kept(a)
BY RowUntouched

LEMMA Rows ==
    ASSUME IndInv, [Next]_vars, NEW a \in Attempt
    PROVE  Row(a)' /\ Kept(a)
<1>1. CASE UNCHANGED vars
  BY <1>1, RowsAlone DEF vars
<1>2. ASSUME NEW i \in Intent, Create(i) \/ Approve(i) \/ CancelIntent(i) \/ LeaseRunsOut(i)
      PROVE  Row(a)' /\ Kept(a)
  BY <1>2, RowsAlone DEF Create, Approve, CancelIntent, LeaseRunsOut
<1>3. ASSUME NEW w \in Worker, ExecutePublish(w) \/ Die(w)
      PROVE  Row(a)' /\ Kept(a)
  <2>1. CASE Refuse(w) \/ LookForPrior(w) \/ Break(w) \/ Die(w)
    BY <2>1, RowsAlone DEF Refuse, LookForPrior, Break, Die, rows
  <2> QED
    BY <1>3, <2>1, PrepareRows, PutRows, AnswerRows DEF ExecutePublish
<1>4. ASSUME NEW b \in Attempt, SessionExpires(b) \/ SweepPicks(b) \/ ReconcileAgain(b) \/ Requeue(b)
      PROVE  Row(a)' /\ Kept(a)
  <2>1. CASE SweepPicks(b) \/ Requeue(b)
    BY <2>1, RowsAlone DEF SweepPicks, Requeue, rows
  <2> QED
    BY <1>4, <2>1, ReconcileRows
<1>5. ASSUME NEW r \in Reconciler, Reconcile(r)
      PROVE  Row(a)' /\ Kept(a)
  <2>1. CASE Settled(r) \/ Denied(r) \/ Permitted(r) \/ QueryProvider(r)
    BY <2>1, RowsAlone DEF Settled, Denied, Permitted, QueryProvider, rows
  <2> QED
    BY <1>5, <2>1, ReconcileRows DEF Reconcile
<1>6. ASSUME NEW h \in Relay, Deliver(h) \/ DeliveryFails(h) \/ \E b \in Attempt : RelayClaim(h, b)
      PROVE  Row(a)' /\ Kept(a)
  BY <1>6, RowsAlone DEF Deliver, DeliveryFails, RelayClaim, rows
<1> QED
  BY <1>1, <1>2, <1>3, <1>4, <1>5, <1>6 DEF Next

-----------------------------------------------------------------------------
(* Success. *)

\* What a step calls published or successful has its video.
Justified ==
    /\ \A i \in Intent : intent'[i].state = "PUBLISHED" =>
            \/ intent[i].state = "PUBLISHED"
            \/ \E a \in Attempt : attempt[a].intent = i /\ HasVideo(a)
    /\ \A a \in Attempt : attempt'[a].state = "SUCCEEDED" => attempt[a].state = "SUCCEEDED" \/ HasVideo(a)

LEMMA JustifiedByAnswers ==
    ASSUME IndInv, NEW w \in Worker,
           Complete(w) \/ NextChunk(w) \/ Ambiguous(w) \/ RetryLater(w) \/ FailForGood(w)
    PROVE  Justified
<1> USE DEF IndInv
<1>1. CASE Complete(w)
  <2>1. /\ worker[w].at \in Attempt /\ attempt[worker[w].at].intent = IntentOf(w)
        /\ HasVideo(worker[w].at)
    BY <1>1 DEF Complete, Answered, IntentOf, WorkerInv, Serves, Busy
  <2>2. \A i \in Intent : i # IntentOf(w) => intent'[i].state = intent[i].state
    BY <1>1 DEF Complete, TypeOK
  <2>3. \A a \in Attempt : a # worker[w].at => attempt'[a].state = attempt[a].state
    BY <1>1 DEF Complete, TypeOK
  <2> QED
    BY <2>1, <2>2, <2>3 DEF Justified
<1>2. CASE NextChunk(w)
  BY <1>2 DEF NextChunk, Justified, TypeOK, AttemptRow
<1>3. CASE Ambiguous(w)
  <2>1. \A a \in Attempt : attempt'[a].state \in {attempt[a].state, "UNKNOWN"}
    BY <1>3 DEF Ambiguous, TypeOK, AttemptRow
  <2> QED
    BY <1>3, <2>1 DEF Ambiguous, Justified
<1>4. CASE RetryLater(w)
  <2>1. \A a \in Attempt : attempt'[a].state \in {attempt[a].state, "RETRYABLE_FAILED"}
    BY <1>4 DEF RetryLater, TypeOK, AttemptRow
  <2>2. \A i \in Intent : intent'[i].state \in {intent[i].state, "APPROVED"}
    BY <1>4 DEF RetryLater, Released, TypeOK, IntentRow
  <2> QED
    BY <2>1, <2>2 DEF Justified
<1>5. CASE FailForGood(w)
  <2>1. \A a \in Attempt : attempt'[a].state \in {attempt[a].state, "PERMANENT_FAILED"}
    BY <1>5 DEF FailForGood, TypeOK, AttemptRow
  <2>2. \A i \in Intent : intent'[i].state \in {intent[i].state, "FAILED"}
    BY <1>5 DEF FailForGood, TypeOK, IntentRow
  <2> QED
    BY <2>1, <2>2 DEF Justified
<1> QED
  BY <1>1, <1>2, <1>3, <1>4, <1>5

LEMMA JustifiedByPreparation ==
    ASSUME IndInv, NEW w \in Worker, Claim(w) \/ Block(w) \/ AfterPrior(w) \/ Fence(w)
    PROVE  Justified
<1> USE DEF IndInv
<1>1. CASE Claim(w)
  <2>1. PICK i \in Intent :
          /\ intent' = [intent EXCEPT ![i] = [state |-> "CLAIMED", token |-> NextAttempt, live |-> TRUE]]
          /\ attempt' = [attempt EXCEPT ![NextAttempt] = [NoAttempt EXCEPT !.intent = i, !.state = "CREATED"]]
    BY <1>1 DEF Claim, Claimable
  <2>2. \A j \in Intent : intent'[j].state \in {intent[j].state, "CLAIMED"}
    BY <2>1 DEF TypeOK
  <2>3. \A a \in Attempt : attempt'[a].state \in {attempt[a].state, "CREATED"}
    BY <2>1 DEF TypeOK, NoAttempt
  <2> QED
    BY <2>2, <2>3 DEF Justified
<1>2. CASE Block(w) \/ AfterPrior(w)
  <2>1. \A i \in Intent : intent'[i].state \in {intent[i].state, "APPROVED"}
    BY <1>2 DEF Block, AfterPrior, Released, TypeOK
  <2>2. \A a \in Attempt : attempt'[a].state \in {attempt[a].state, "BLOCKED_GUARDIAN", "CANCELLED"}
    BY <1>2 DEF Block, AfterPrior, TypeOK, AttemptRow
  <2> QED
    BY <2>1, <2>2 DEF Justified
<1>3. CASE Fence(w)
  <2>1. \A a \in Attempt : attempt'[a].state \in {attempt[a].state, "UPLOADING"}
    BY <1>3 DEF Fence, Committed, TypeOK, AttemptRow
  <2> QED
    BY <1>3, <2>1 DEF Fence, Justified
<1> QED
  BY <1>1, <1>2, <1>3

LEMMA JustifiedByReconciliation ==
    ASSUME IndInv, NEW r \in Reconciler, Expired(r) \/ Apply(r)
    PROVE  Justified
<1> USE DEF IndInv
<1> DEFINE b == recon[r].at
<1>1. b \in Attempt
  BY DEF Expired, Asks, Apply, ReconInv, Reports
<1>2. CASE MarkTerminal(b) /\ UNCHANGED intent
  <2>1. \A a \in Attempt : attempt'[a].state \in {attempt[a].state, "PERMANENT_FAILED"}
    BY <1>2 DEF MarkTerminal, TypeOK, AttemptRow
  <2> QED
    BY <1>2, <2>1 DEF Justified
<1>3. CASE Apply(r) /\ recon[r].outcome = "success"
  <2>1. HasVideo(b)
    BY <1>3 DEF Apply, ReconInv, Reports
  <2>2. /\ attempt' = [attempt EXCEPT ![b].state = "SUCCEEDED", ![b].status = "CONFIRMED_SUCCESS"]
        /\ intent' = [intent EXCEPT ![attempt[b].intent].state = "PUBLISHED"]
    BY <1>3 DEF Apply
  <2>3. \A i \in Intent : i # attempt[b].intent => intent'[i].state = intent[i].state
    BY <2>2 DEF TypeOK
  <2>4. \A a \in Attempt : a # b => attempt'[a].state = attempt[a].state
    BY <2>2 DEF TypeOK
  <2> QED
    BY <1>1, <2>1, <2>3, <2>4 DEF Justified
<1>4. CASE Apply(r) /\ recon[r].outcome \in {"incomplete", "hold"}
  <2>1. \A a \in Attempt : attempt'[a].state = attempt[a].state
    <3>1. CASE recon[r].outcome = "hold"
      <4>1. attempt' = [attempt EXCEPT ![b] = [attempt[b] EXCEPT !.status = "MANUAL_HOLD"]]
        BY <1>4, <3>1 DEF Apply
      <4> QED
        BY <1>1, <4>1 DEF TypeOK, AttemptRow
    <3>2. CASE recon[r].outcome = "incomplete"
      <4>1. PICK n : attempt' = [attempt EXCEPT ![b] = [attempt[b] EXCEPT !.status = "PENDING", !.bytes = n]]
        BY <1>4, <3>2 DEF Apply
      <4> QED
        BY <1>1, <4>1 DEF TypeOK, AttemptRow
    <3> QED
      BY <1>4, <3>1, <3>2
  <2>2. UNCHANGED intent
    BY <1>4 DEF Apply
  <2> QED
    BY <2>1, <2>2 DEF Justified
<1>5. \/ MarkTerminal(b) /\ UNCHANGED intent
      \/ Apply(r) /\ recon[r].outcome \in {"success", "incomplete", "hold"}
  BY DEF Expired, Apply
<1> QED
  BY <1>2, <1>3, <1>4, <1>5

LEMMA JustifiedByRevisions ==
    ASSUME IndInv, NEW i \in Intent, Create(i) \/ Approve(i) \/ CancelIntent(i) \/ LeaseRunsOut(i)
    PROVE  Justified
<1> USE DEF IndInv
<1>1. UNCHANGED attempt
  BY DEF Create, Approve, CancelIntent, LeaseRunsOut
<1>2. \A j \in Intent : intent'[j].state = "PUBLISHED" => intent[j].state = "PUBLISHED"
  <2>1. CASE Create(i)
    <3>1. [NoIntent EXCEPT !.state = "DRAFT"].state = "DRAFT"
      BY DEF NoIntent
    <3>2. \A j \in Intent : [intent[j] EXCEPT !.state = "SUPERSEDED"].state = "SUPERSEDED"
      BY DEF TypeOK, IntentRow
    <3> QED
      BY <2>1, <3>1, <3>2 DEF Create
  <2>2. CASE Approve(i) \/ CancelIntent(i) \/ LeaseRunsOut(i)
    BY <2>2 DEF Approve, CancelIntent, LeaseRunsOut, TypeOK, IntentRow
  <2> QED
    BY <2>1, <2>2
<1> QED
  BY <1>1, <1>2 DEF Justified

LEMMA JustifiedAlone ==
    ASSUME UNCHANGED <<intent, attempt>> PROVE Justified
BY DEF Justified

LEMMA Published ==
    ASSUME IndInv, [Next]_vars PROVE PublishedHasVideo'
<1> USE DEF IndInv
<1>1. Justified
  <2>1. CASE UNCHANGED vars
    BY <2>1, JustifiedAlone DEF vars
  <2>2. ASSUME NEW w \in Worker, ExecutePublish(w) \/ Die(w) PROVE Justified
    <3>1. CASE Refuse(w) \/ LookForPrior(w) \/ InitializeUpload(w) \/ Break(w) \/ PutChunk(w) \/ Die(w)
      BY <3>1, JustifiedAlone DEF Refuse, LookForPrior, InitializeUpload, Break, PutChunk, Die, rows
    <3> QED
      BY <2>2, <3>1, JustifiedByPreparation, JustifiedByAnswers DEF ExecutePublish
  <2>3. ASSUME NEW b \in Attempt, SessionExpires(b) \/ SweepPicks(b) \/ ReconcileAgain(b) \/ Requeue(b)
        PROVE  Justified
    <3>1. CASE ReconcileAgain(b)
      <4>1. attempt' = [attempt EXCEPT ![b].status = "PENDING"] /\ UNCHANGED intent
        BY <3>1 DEF ReconcileAgain
      <4> QED
        BY <4>1 DEF Justified, TypeOK, AttemptRow
    <3> QED
      BY <2>3, <3>1, JustifiedAlone DEF SessionExpires, SweepPicks, Requeue, rows
  <2>4. ASSUME NEW r \in Reconciler, Reconcile(r) PROVE Justified
    <3>1. CASE Settled(r) \/ Denied(r) \/ Permitted(r) \/ QueryProvider(r)
      BY <3>1, JustifiedAlone DEF Settled, Denied, Permitted, QueryProvider, rows
    <3> QED
      BY <2>4, <3>1, JustifiedByReconciliation DEF Reconcile
  <2>5. ASSUME NEW h \in Relay, Deliver(h) \/ DeliveryFails(h) \/ \E b \in Attempt : RelayClaim(h, b)
        PROVE  Justified
    BY <2>5, JustifiedAlone DEF Deliver, DeliveryFails, RelayClaim, rows
  <2> QED
    BY <2>1, <2>2, <2>3, <2>4, <2>5, JustifiedByRevisions DEF Next
<1>2. \A a \in Attempt : HasVideo(a) => HasVideo(a)' /\ attempt'[a].intent = attempt[a].intent
  <2>1. \A a \in Attempt : HasVideo(a) => Exists(a)
    BY Bounds DEF RowInv, Row, HasVideo, Exists
  <2> QED
    BY <2>1, Rows DEF Kept
<1>3. ASSUME NEW i \in Intent, intent'[i].state = "PUBLISHED"
      PROVE  \E a \in Attempt : attempt'[a].intent = i /\ HasVideo(a)'
  <2>1. PICK a \in Attempt : attempt[a].intent = i /\ HasVideo(a)
    BY <1>1, <1>3 DEF Justified, PublishedHasVideo
  <2> QED
    BY <1>2, <2>1
<1>4. ASSUME NEW a \in Attempt, attempt'[a].state = "SUCCEEDED" PROVE HasVideo(a)'
  BY <1>1, <1>2, <1>4 DEF Justified, PublishedHasVideo
<1> QED
  BY <1>3, <1>4 DEF PublishedHasVideo

-----------------------------------------------------------------------------
(* Workers. *)

LEMMA StillServes ==
    ASSUME IndInv, \A a \in Attempt : Kept(a),
           NEW v \in Worker, Busy(v), worker'[v] = worker[v]
    PROVE  Serves(v)'
<1> USE DEF IndInv
<1>1. Serves(v)
  BY DEF WorkerInv
<1>2. ~attempt[worker[v].own].stored /\ worker[v].pc \in {"gates", "prior", "init", "flushed"}
        => ~attempt'[worker[v].own].stored
  BY <1>1 DEF Kept, Flushes, Serves, WorkerInv, Busy
<1> QED
  BY <1>1, <1>2 DEF Serves, Kept, Exists, HasVideo

LEMMA OthersServe ==
    ASSUME IndInv, \A a \in Attempt : Kept(a), UNCHANGED worker
    PROVE  WorkerInv'
<1>1. ASSUME NEW v \in Worker, Busy(v)' PROVE Serves(v)'
  BY <1>1, StillServes DEF Busy
<1> QED
  BY <1>1 DEF IndInv, WorkerInv, Busy

LEMMA OneMoves ==
    ASSUME IndInv, \A a \in Attempt : Kept(a), NEW w \in Worker,
           \A v \in Worker : v # w => worker'[v] = worker[v],
           Busy(w)' => Serves(w)',
           Busy(w)' => (Busy(w) /\ worker'[w].own = worker[w].own) \/ ~Exists(worker'[w].own)
    PROVE  WorkerInv'
<1> USE DEF IndInv
<1>1. ASSUME NEW v \in Worker, Busy(v)' PROVE Serves(v)'
  BY <1>1, StillServes DEF Busy
<1>2. ASSUME NEW u \in Worker, NEW v \in Worker, Busy(u)', Busy(v)', worker'[u].own = worker'[v].own
      PROVE  u = v
  BY <1>2 DEF WorkerInv, Serves, Busy
<1> QED
  BY <1>1, <1>2 DEF WorkerInv

\* A claim gives its worker an attempt of its own.
LEMMA ClaimServes ==
    ASSUME IndInv, NEW w \in Worker, Claim(w)
    PROVE  Serves(w)' /\ ~Exists(worker'[w].own)
<1> USE DEF IndInv
<1> DEFINE n == NextAttempt
<1>1. n \in Attempt /\ ~Exists(n)
  BY Numbering DEF Claim, Attempt
<1>2. PICK i \in Intent : attempt' = [attempt EXCEPT ![n] = [NoAttempt EXCEPT !.intent = i, !.state = "CREATED"]]
  BY DEF Claim, Claimable
<1>3. worker' = [worker EXCEPT ![w] = [Idle EXCEPT !.pc = "gates", !.own = n, !.at = n]]
  BY DEF Claim, Goto
<1> HIDE DEF n
<1>4. /\ worker'[w].pc = "gates" /\ worker'[w].own = n /\ worker'[w].at = n
      /\ worker'[w].offset = 0 /\ worker'[w].answer = "none"
  BY <1>3 DEF TypeOK, Idle
<1>5. attempt'[n].state = "CREATED" /\ ~attempt'[n].stored
  BY <1>1, <1>2 DEF TypeOK, NoAttempt
<1> QED
  BY <1>1, <1>4, <1>5 DEF Serves, Exists

\* The steps of a worker that has not begun to send.
LEMMA PreparationServes ==
    ASSUME IndInv, \A a \in Attempt : Kept(a), NEW w \in Worker,
           LookForPrior(w) \/ AfterPrior(w) \/ InitializeUpload(w) \/ Break(w) \/ Fence(w)
    PROVE  Busy(w) /\ (Busy(w)' => Serves(w)' /\ worker'[w].own = worker[w].own)
<1> USE DEF IndInv
<1>1. Busy(w) /\ Serves(w)
  BY DEF LookForPrior, AfterPrior, InitializeUpload, Break, Fence, Busy, WorkerInv
<1> DEFINE own == worker[w].own
<1>2. worker[w] \in WorkerState
  BY DEF TypeOK
<1>3. CASE LookForPrior(w)
  <2>1. UNCHANGED attempt
    BY <1>3 DEF LookForPrior, rows
  <2>2. \/ worker' = [worker EXCEPT ![w] = [worker[w] EXCEPT !.pc = "init"]]
        \/ \E a \in OpenPrior(IntentOf(w), own) :
              worker' = [worker EXCEPT ![w] = [worker[w] EXCEPT !.pc = "prior", !.at = a]]
    BY <1>3 DEF LookForPrior, Goto
  <2>3. CASE worker' = [worker EXCEPT ![w] = [worker[w] EXCEPT !.pc = "init"]]
    <3>1. /\ worker'[w].pc = "init" /\ worker'[w].own = own /\ worker'[w].at = worker[w].at
          /\ worker'[w].offset = worker[w].offset
      BY <1>2, <2>3 DEF TypeOK, WorkerState
    <3> QED
      BY <1>1, <1>3, <2>1, <3>1 DEF Serves, Exists, LookForPrior
  <2>4. ASSUME NEW a \in OpenPrior(IntentOf(w), own),
               worker' = [worker EXCEPT ![w] = [worker[w] EXCEPT !.pc = "prior", !.at = a]]
        PROVE  Serves(w)' /\ worker'[w].own = own
    <3>1. /\ worker'[w].pc = "prior" /\ worker'[w].own = own /\ worker'[w].at = a
          /\ worker'[w].offset = worker[w].offset
      BY <1>2, <2>4 DEF TypeOK, WorkerState
    <3>2. a \in Attempt /\ attempt[a].intent = IntentOf(w) /\ attempt[a].stored /\ Exists(a)
      BY DEF OpenPrior, Exists, Unfinished
    <3> QED
      BY <1>1, <1>3, <2>1, <3>1, <3>2 DEF Serves, Exists, IntentOf, LookForPrior
  <2> QED
    BY <1>1, <2>2, <2>3, <2>4
<1>4. CASE AfterPrior(w)
  <2>1. /\ ~attempt[own].stored /\ worker[w].offset = 0 /\ attempt[worker[w].at].stored
        /\ own \in Attempt /\ worker[w].at \in Attempt
    BY <1>1, <1>4 DEF AfterPrior, Serves
  <2>2. ~attempt'[own].stored
    BY <1>4, <2>1 DEF AfterPrior, TypeOK, AttemptRow
  <2>3. CASE recon[w].outcome = "incomplete"
    <3>1. recon[w].offset < Chunks
      BY <1>4, <2>3 DEF AfterPrior, ReconInv, Reports, Reconciler
    <3>2. /\ worker'[w].pc = "fence" /\ worker'[w].own = own /\ worker'[w].at = worker[w].at
          /\ worker'[w].offset = recon[w].offset
      <4>1. worker' = [worker EXCEPT ![w] = [worker[w] EXCEPT !.pc = "fence", !.offset = recon[w].offset]]
        BY <1>4, <2>3 DEF AfterPrior, Goto
      <4> QED
        BY <1>2, <4>1 DEF TypeOK, WorkerState
    <3> QED
      BY <1>1, <2>1, <3>1, <3>2 DEF Serves, Exists, Kept
  <2>4. CASE recon[w].outcome = "terminal"
    <3>1. /\ worker'[w].pc = "init" /\ worker'[w].own = own /\ worker'[w].at = own
          /\ worker'[w].offset = worker[w].offset
      <4>1. worker' = [worker EXCEPT ![w] = [worker[w] EXCEPT !.pc = "init", !.at = own]]
        BY <1>4, <2>4 DEF AfterPrior, Goto
      <4> QED
        BY <1>2, <4>1 DEF TypeOK, WorkerState
    <3> QED
      BY <1>1, <2>1, <2>2, <3>1 DEF Serves, Exists, Kept
  <2>5. CASE recon[w].outcome \notin {"incomplete", "terminal"}
    <3>1. ~Busy(w)'
      BY <1>4, <2>5 DEF AfterPrior, Return, Goto, Idle, TypeOK, Busy
    <3> QED
      BY <1>1, <3>1
  <2> QED
    BY <2>3, <2>4, <2>5
<1>5. CASE InitializeUpload(w)
  <2>1. UNCHANGED attempt
    BY <1>5 DEF InitializeUpload, rows
  <2>2. /\ worker'[w].pc = "flushed" \/ (worker'[w].pc = "answer" /\ worker'[w].answer \in {"transient", "terminal"})
        /\ worker'[w].own = own /\ worker'[w].at = worker[w].at
        /\ worker'[w].offset = worker[w].offset
    <3>1. CASE worker' = [worker EXCEPT ![w] = [worker[w] EXCEPT !.pc = "flushed"]]
      BY <1>2, <3>1 DEF TypeOK, WorkerState
    <3>2. ASSUME NEW error \in {"transient", "terminal"},
                 worker' = [worker EXCEPT ![w] = [worker[w] EXCEPT !.pc = "answer", !.answer = error]]
          PROVE  /\ worker'[w].pc = "answer" /\ worker'[w].answer \in {"transient", "terminal"}
                 /\ worker'[w].own = own /\ worker'[w].at = worker[w].at
                 /\ worker'[w].offset = worker[w].offset
      BY <1>2, <3>2 DEF TypeOK, WorkerState
    <3> QED
      BY <1>5, <3>1, <3>2 DEF InitializeUpload, Goto
  <2> QED
    BY <1>1, <1>5, <2>1, <2>2 DEF Serves, Exists, InitializeUpload
<1>6. CASE Break(w)
  <2>1. UNCHANGED attempt
    BY <1>6 DEF Break, rows
  <2>2. /\ worker'[w].pc = "answer" /\ worker'[w].answer \in {"transient", "terminal"}
        /\ worker'[w].own = own /\ worker'[w].at = own
    BY <1>2, <1>6 DEF Break, Goto, TypeOK, WorkerState
  <2> QED
    BY <1>1, <2>1, <2>2 DEF Serves, Exists
<1>7. CASE Fence(w)
  <2>1. attempt'[worker[w].at].stored
    <3>1. CASE worker[w].pc = "flushed"
      BY <1>1, <3>1, <1>7 DEF Serves, Fence, Committed, TypeOK, AttemptRow
    <3>2. CASE worker[w].pc # "flushed"
      BY <1>1, <3>2, <1>7 DEF Serves, Fence, Committed
    <3> QED
      BY <3>1, <3>2
  <2>2. worker[w].offset < Chunks
    BY <1>1, <1>7, Bounds DEF Serves, Fence
  <2>3. CASE HoldsLease(w)
    <3>1. /\ worker'[w].pc = "put" /\ worker'[w].own = own /\ worker'[w].at = worker[w].at
          /\ worker'[w].offset = worker[w].offset
      BY <1>2, <1>7, <2>3 DEF Fence, Goto, TypeOK, WorkerState
    <3> QED
      BY <1>1, <2>1, <2>2, <3>1 DEF Serves, Exists, Kept
  <2>4. CASE ~HoldsLease(w)
    <3>1. ~Busy(w)'
      BY <1>7, <2>4 DEF Fence, Return, Goto, Idle, TypeOK, Busy
    <3> QED
      BY <1>1, <3>1
  <2> QED
    BY <2>3, <2>4
<1> QED
  BY <1>3, <1>4, <1>5, <1>6, <1>7

\* A chunk: complete means that the provider has all of them.
LEMMA PutServes ==
    ASSUME IndInv, \A a \in Attempt : Kept(a), NEW w \in Worker, PutChunk(w)
    PROVE  Busy(w) /\ Serves(w)' /\ worker'[w].own = worker[w].own
<1> USE DEF IndInv
<1> DEFINE at == worker[w].at
           next == IF provider[at].offset = worker[w].offset THEN worker[w].offset + 1
                                                             ELSE provider[at].offset
<1>1. /\ Busy(w) /\ Serves(w) /\ at \in Attempt /\ attempt[at].stored
      /\ worker[w].offset < Chunks /\ worker[w].offset \in Nat /\ worker[w] \in WorkerState
  <2>1. Busy(w) /\ Serves(w) /\ worker[w].pc = "put"
    BY DEF PutChunk, Busy, WorkerInv
  <2>2. worker[w] \in WorkerState
    BY DEF TypeOK
  <2> QED
    BY <2>1, <2>2, Bounds DEF Serves, WorkerState
<1>2. provider[at].offset \in 0..Chunks
  BY <1>1 DEF TypeOK, ProviderSession
<1>3. next \in 0..Chunks
  BY <1>1, <1>2, Bounds
<1>4. UNCHANGED attempt
  BY DEF PutChunk, rows
<1>5. \/ \E error \in ChunkErrors(w) : Goto(w, [worker[w] EXCEPT !.pc = "answer", !.answer = error])
      \/ /\ provider' = [provider EXCEPT ![at].offset = next]
         /\ Goto(w, [worker[w] EXCEPT !.pc = "answer", !.offset = next,
                                      !.answer = IF next = Chunks THEN "complete" ELSE "partial"])
  BY DEF PutChunk
<1> HIDE DEF next
<1>6. ASSUME NEW error \in ChunkErrors(w), Goto(w, [worker[w] EXCEPT !.pc = "answer", !.answer = error])
      PROVE  Serves(w)' /\ worker'[w].own = worker[w].own
  <2>1. error \in {"transient", "terminal", "ambiguous"}
    BY DEF ChunkErrors
  <2>2. /\ worker'[w].pc = "answer" /\ worker'[w].answer = error
        /\ worker'[w].own = worker[w].own /\ worker'[w].at = at
    BY <1>1, <1>6 DEF Goto, TypeOK, WorkerState
  <2> QED
    BY <1>1, <1>4, <2>1, <2>2 DEF Serves, Exists
<1>7. ASSUME provider' = [provider EXCEPT ![at].offset = next],
             Goto(w, [worker[w] EXCEPT !.pc = "answer", !.offset = next,
                                       !.answer = IF next = Chunks THEN "complete" ELSE "partial"])
      PROVE  Serves(w)' /\ worker'[w].own = worker[w].own
  <2>1. /\ worker'[w].pc = "answer" /\ worker'[w].offset = next
        /\ worker'[w].answer = IF next = Chunks THEN "complete" ELSE "partial"
        /\ worker'[w].own = worker[w].own /\ worker'[w].at = at
    BY <1>1, <1>7 DEF Goto, TypeOK, WorkerState
  <2>2. provider'[at].offset = next
    BY <1>1, <1>7 DEF TypeOK, ProviderSession
  <2>3. next = Chunks \/ next < Chunks
    BY <1>3, Bounds
  <2> QED
    BY <1>1, <1>4, <2>1, <2>2, <2>3 DEF Serves, Exists, HasVideo
<1> QED
  BY <1>1, <1>5, <1>6, <1>7

\* After the answer a worker returns, or fetches the next chunk.
LEMMA AnswerServes ==
    ASSUME IndInv, \A a \in Attempt : Kept(a), NEW w \in Worker,
           Complete(w) \/ NextChunk(w) \/ Ambiguous(w) \/ RetryLater(w) \/ FailForGood(w)
    PROVE  Busy(w)' => Busy(w) /\ Serves(w)' /\ worker'[w].own = worker[w].own
<1> USE DEF IndInv
<1>1. CASE NextChunk(w)
  <2>1. Busy(w) /\ Serves(w) /\ attempt[worker[w].at].stored /\ worker[w].offset < Chunks
    BY <1>1 DEF NextChunk, Answered, Busy, WorkerInv, Serves
  <2>2. /\ worker'[w].pc = "fence" /\ worker'[w].offset = worker[w].offset
        /\ worker'[w].own = worker[w].own /\ worker'[w].at = worker[w].at
    BY <1>1 DEF NextChunk, Goto, TypeOK, WorkerState
  <2> QED
    BY <2>1, <2>2 DEF Serves, Exists, Kept
<1>2. CASE ~NextChunk(w)
  <2>1. ~Busy(w)'
    BY <1>2 DEF Complete, Ambiguous, RetryLater, FailForGood, Return, Goto, Idle, TypeOK, Busy
  <2> QED
    BY <2>1
<1> QED
  BY <1>1, <1>2

LEMMA Workers ==
    ASSUME IndInv, [Next]_vars PROVE WorkerInv'
<1> USE DEF IndInv
<1>1. \A a \in Attempt : Kept(a)
  BY Rows
<1>2. ASSUME NEW w \in Worker, ExecutePublish(w) \/ Die(w) PROVE WorkerInv'
  <2>1. CASE Refuse(w)
    BY <1>1, <2>1, OthersServe DEF Refuse
  <2>2. CASE Block(w) \/ Die(w)
    <3>1. worker' = [worker EXCEPT ![w] = Idle]
      BY <2>2 DEF Block, Die, Return, Goto
    <3>2. ~Busy(w)' /\ \A v \in Worker : v # w => worker'[v] = worker[v]
      BY <3>1 DEF TypeOK, Busy, Idle
    <3> QED
      BY <1>1, <3>2, OneMoves
  <2>3. CASE ~Refuse(w) /\ ~Block(w) /\ ~Die(w)
    <3>1. \E fields : worker' = [worker EXCEPT ![w] = fields]
      BY <1>2, <2>3 DEF ExecutePublish, Claim, LookForPrior, AfterPrior, InitializeUpload, Break, Fence,
                        PutChunk, Complete, NextChunk, Ambiguous, RetryLater, FailForGood, Goto, Return
    <3>2. \A v \in Worker : v # w => worker'[v] = worker[v]
      BY <3>1 DEF TypeOK
    <3>3. Busy(w)' => Serves(w)' /\ ((Busy(w) /\ worker'[w].own = worker[w].own) \/ ~Exists(worker'[w].own))
      BY <1>1, <1>2, <2>3, ClaimServes, PreparationServes, PutServes, AnswerServes DEF ExecutePublish
    <3> QED
      BY <1>1, <3>2, <3>3, OneMoves
  <2> QED
    BY <2>1, <2>2, <2>3
<1>3. CASE UNCHANGED worker
  BY <1>1, <1>3, OthersServe
<1>4. (\E w \in Worker : ExecutePublish(w) \/ Die(w)) \/ UNCHANGED worker
  BY DEF Next, vars, Create, Approve, CancelIntent, LeaseRunsOut, SessionExpires, SweepPicks, ReconcileAgain,
         Requeue, Reconcile, Settled, Expired, Denied, Permitted, QueryProvider, Apply, Deliver, DeliveryFails, RelayClaim
<1> QED
  BY <1>2, <1>3, <1>4

-----------------------------------------------------------------------------
(* Reconciliations. *)

LEMMA StillReports ==
    ASSUME IndInv, \A a \in Attempt : Kept(a),
           NEW r \in Reconciler, recon'[r] = recon[r], recon[r].pc # "none"
    PROVE  Reports(r)'
BY DEF IndInv, ReconInv, Reports, Kept, Exists, HasVideo

LEMMA OneReports ==
    ASSUME IndInv, \A a \in Attempt : Kept(a), NEW r \in Reconciler, NEW row,
           recon' = [recon EXCEPT ![r] = row], recon'[r].pc # "none" => Reports(r)'
    PROVE  ReconInv'
<1>1. ASSUME NEW q \in Reconciler, q # r, recon'[q].pc # "none" PROVE Reports(q)'
  <2>1. recon'[q] = recon[q]
    BY <1>1 DEF IndInv, TypeOK
  <2> QED
    BY <1>1, <2>1, StillReports
<1> QED
  BY <1>1 DEF ReconInv

\* A reconciliation begins with an attempt that exists.
LEMMA AskReports ==
    ASSUME IndInv, \A a \in Attempt : Kept(a), NEW r \in Reconciler, NEW a \in Attempt, Exists(a),
           recon' = [recon EXCEPT ![r] = [NoRecon EXCEPT !.pc = "ask", !.at = a]]
    PROVE  ReconInv'
<1>1. recon'[r].pc = "ask" /\ recon'[r].at = a
  BY DEF IndInv, TypeOK, NoRecon
<1>2. Reports(r)'
  BY <1>1 DEF Reports, Kept, Exists
<1> QED
  BY <1>2, OneReports

LEMMA DroppedReports ==
    ASSUME IndInv, \A a \in Attempt : Kept(a), NEW r \in Reconciler,
           recon' = [recon EXCEPT ![r] = NoRecon]
    PROVE  ReconInv'
<1>1. recon'[r].pc = "none"
  BY DEF IndInv, TypeOK, NoRecon
<1> QED
  BY <1>1, OneReports

LEMMA ReconciledReports ==
    ASSUME IndInv, \A a \in Attempt : Kept(a), NEW r \in Reconciler, recon[r].pc # "none",
           NEW outcome, Reconciled(r, outcome),
           outcome = "incomplete" => recon[r].offset < Chunks
    PROVE  ReconInv'
<1> USE DEF IndInv
<1>1. recon[r] \in ReconState /\ Reports(r)
  BY DEF TypeOK, ReconInv
<1>2. CASE r = Sweep
  BY <1>2, DroppedReports DEF Reconciled
<1>3. CASE r # Sweep
  <2>1. recon' = [recon EXCEPT ![r] = [recon[r] EXCEPT !.pc = "done", !.outcome = outcome]]
    BY <1>3 DEF Reconciled
  <2>2. /\ recon'[r].pc = "done" /\ recon'[r].at = recon[r].at
        /\ recon'[r].outcome = outcome /\ recon'[r].offset = recon[r].offset
    BY <1>1, <2>1 DEF TypeOK, ReconState
  <2>3. Reports(r)'
    BY <1>1, <2>2 DEF Reports, Kept, Exists
  <2> QED
    BY <2>1, <2>3, OneReports
<1> QED
  BY <1>2, <1>3

LEMMA ReconcileReports ==
    ASSUME IndInv, \A a \in Attempt : Kept(a), NEW r \in Reconciler, Reconcile(r)
    PROVE  ReconInv'
<1> USE DEF IndInv
<1>1. recon[r].pc # "none"
  BY DEF Reconcile, Settled, Expired, Denied, Asks, Permitted, QueryProvider, Apply
<1>2. recon[r] \in ReconState /\ Reports(r)
  BY <1>1 DEF TypeOK, ReconInv
<1>3. CASE Settled(r) \/ Expired(r) \/ Denied(r)
  BY <1>1, <1>3, ReconciledReports DEF Settled, Expired, Denied
<1>4. CASE Permitted(r)
  <2>1. recon' = [recon EXCEPT ![r] = [recon[r] EXCEPT !.pc = "query"]]
    BY <1>4 DEF Permitted
  <2>2. recon'[r].pc = "query" /\ recon'[r].at = recon[r].at
    BY <1>2, <2>1 DEF TypeOK, ReconState
  <2>3. Reports(r)'
    BY <1>2, <2>2 DEF Reports, Kept, Exists
  <2> QED
    BY <2>1, <2>3, OneReports
<1>5. CASE QueryProvider(r)
  <2> DEFINE a == recon[r].at
  <2>1. PICK outcome \in {ProviderTruth(a), "hold"} :
          recon' = [recon EXCEPT ![r] = [recon[r] EXCEPT !.pc = "apply", !.outcome = outcome,
                                          !.offset = provider[a].offset]]
    BY <1>5 DEF QueryProvider
  <2>2. /\ recon'[r].pc = "apply" /\ recon'[r].at = a
        /\ recon'[r].outcome = outcome /\ recon'[r].offset = provider[a].offset
    BY <1>2, <2>1 DEF TypeOK, ReconState
  <2>3. a \in Attempt /\ provider[a].offset \in 0..Chunks
    BY <1>2 DEF Reports, TypeOK, ProviderSession
  <2>4. /\ outcome = "success" => HasVideo(a)
        /\ outcome = "incomplete" => provider[a].offset # Chunks
    BY <2>1 DEF ProviderTruth, HasVideo
  <2>5. outcome = "incomplete" => provider[a].offset < Chunks
    BY <2>3, <2>4, Bounds
  <2>6. Reports(r)'
    BY <1>2, <2>2, <2>4, <2>5 DEF Reports, Kept, Exists
  <2> QED
    BY <2>1, <2>6, OneReports
<1>6. CASE Apply(r)
  <2>1. recon[r].outcome = "incomplete" => recon[r].offset < Chunks
    BY <1>2, <1>6 DEF Apply, Reports
  <2> QED
    BY <1>1, <1>6, <2>1, ReconciledReports DEF Apply
<1> QED
  BY <1>3, <1>4, <1>5, <1>6 DEF Reconcile

LEMMA Reconciliations ==
    ASSUME IndInv, [Next]_vars PROVE ReconInv'
<1> USE DEF IndInv
<1>1. \A a \in Attempt : Kept(a)
  BY Rows
<1>2. CASE UNCHANGED recon
  BY <1>1, <1>2, StillReports DEF ReconInv
<1>3. ASSUME NEW w \in Worker, LookForPrior(w) PROVE ReconInv'
  <2>1. CASE OpenPrior(IntentOf(w), worker[w].own) = {}
    BY <1>2, <1>3, <2>1 DEF LookForPrior
  <2>2. CASE OpenPrior(IntentOf(w), worker[w].own) # {}
    <3>1. PICK a \in OpenPrior(IntentOf(w), worker[w].own) :
            recon' = [recon EXCEPT ![w] = [NoRecon EXCEPT !.pc = "ask", !.at = a]]
      BY <1>3, <2>2 DEF LookForPrior
    <3>2. a \in Attempt /\ Exists(a) /\ w \in Reconciler
      BY DEF OpenPrior, Unfinished, Exists, Reconciler
    <3> QED
      BY <1>1, <3>1, <3>2, AskReports
  <2> QED
    BY <2>1, <2>2
<1>4. ASSUME NEW w \in Worker, AfterPrior(w) \/ Break(w) \/ Die(w) PROVE ReconInv'
  <2>1. w \in Reconciler /\ recon' = [recon EXCEPT ![w] = NoRecon]
    BY <1>4 DEF AfterPrior, Break, Die, Reconciler
  <2> QED
    BY <1>1, <2>1, DroppedReports
<1>5. ASSUME NEW a \in Attempt, SweepPicks(a) \/ ReconcileAgain(a) PROVE ReconInv'
  <2>1. /\ Sweep \in Reconciler /\ Exists(a)
        /\ recon' = [recon EXCEPT ![Sweep] = [NoRecon EXCEPT !.pc = "ask", !.at = a]]
    BY <1>5 DEF SweepPicks, ReconcileAgain, Reconciler, Exists
  <2> QED
    BY <1>1, <2>1, AskReports
<1>6. ASSUME NEW r \in Reconciler, Reconcile(r) PROVE ReconInv'
  BY <1>1, <1>6, ReconcileReports
<1>7. \/ UNCHANGED recon
      \/ \E w \in Worker : LookForPrior(w) \/ AfterPrior(w) \/ Break(w) \/ Die(w)
      \/ \E a \in Attempt : SweepPicks(a) \/ ReconcileAgain(a)
      \/ \E r \in Reconciler : Reconcile(r)
  <2>1. ASSUME NEW w \in Worker, ExecutePublish(w)
        PROVE  UNCHANGED recon \/ LookForPrior(w) \/ AfterPrior(w) \/ Break(w)
    BY <2>1 DEF ExecutePublish, Refuse, Claim, Block, InitializeUpload, Fence, PutChunk, Complete, NextChunk,
                Ambiguous, RetryLater, FailForGood
  <2> QED
    BY <2>1 DEF Next, vars, Create, Approve, CancelIntent, LeaseRunsOut, SessionExpires, Requeue,
                Deliver, DeliveryFails, RelayClaim
<1> QED
  BY <1>2, <1>3, <1>4, <1>5, <1>6, <1>7

LEMMA Numbers ==
    ASSUME IndInv, [Next]_vars PROVE Numbered'
<1>1. PICK n \in 0..MaxAttempts : NextAttempt = n + 1 /\ \A a \in Attempt : Exists(a) <=> a <= n
  BY Numbering DEF IndInv
<1>2. \A a \in Attempt : (Exists(a) => Exists(a)') /\ (Exists(a)' => Exists(a) \/ a = n + 1)
  BY <1>1, Rows DEF Kept
<1>3. CASE n + 1 \in Attempt /\ Exists(n + 1)'
  <2>1. n + 1 \in 0..MaxAttempts
    BY <1>3, Bounds DEF Attempt
  <2>2. \A a \in Attempt : Exists(a)' <=> a <= n + 1
    BY <1>1, <1>2, <1>3, Bounds DEF Attempt
  <2> QED
    BY <2>1, <2>2 DEF Numbered, Exists
<1>4. CASE ~(n + 1 \in Attempt /\ Exists(n + 1)')
  <2>1. \A a \in Attempt : Exists(a)' <=> a <= n
    BY <1>1, <1>2, <1>4
  <2> QED
    BY <2>1 DEF Numbered, Exists
<1> QED
  BY <1>3, <1>4

-----------------------------------------------------------------------------
(* The theorems. *)

LEMMA Start == Init => IndInv
<1> HAVE Init
<1>1. TypeOK /\ CountsBounded
  BY TypeInit
<1>2. \A a \in Attempt : ~Exists(a) /\ ~attempt[a].stored /\ provider[a].offset = 0
  BY DEF Init, Exists, NoAttempt, NoSession
<1>3. Numbered
  <2>1. \A a \in Attempt : ~(a <= 0)
    BY Bounds DEF Attempt
  <2> QED
    BY <1>2, <2>1, Bounds DEF Numbered
<1>4. RowInv
  BY <1>2, Bounds DEF RowInv, Row
<1>5. PublishedHasVideo
  <2>1. \A i \in Intent : intent[i].state # "PUBLISHED"
    <3>1. [NoIntent EXCEPT !.state = "APPROVED"].state = "APPROVED" /\ NoIntent.state = "ABSENT"
      BY DEF NoIntent
    <3> QED
      BY <3>1 DEF Init
  <2>2. \A a \in Attempt : attempt[a].state # "SUCCEEDED"
    BY <1>2 DEF Init, NoAttempt
  <2> QED
    BY <2>1, <2>2 DEF PublishedHasVideo
<1>6. WorkerInv /\ ReconInv
  BY DEF Init, WorkerInv, Busy, Idle, ReconInv, NoRecon
<1> QED
  BY <1>1, <1>3, <1>4, <1>5, <1>6 DEF IndInv

LEMMA Types == ASSUME IndInv, [Next]_vars PROVE TypeOK' /\ CountsBounded'
<1> USE DEF IndInv
<1>1. (UNCHANGED handoff => CountsBounded') /\ (UNCHANGED vars => TypeOK')
  BY DEF CountsBounded, TypeOK, vars
<1>2. ASSUME NEW i \in Intent, Create(i) \/ Approve(i) \/ CancelIntent(i) \/ LeaseRunsOut(i)
      PROVE  TypeOK' /\ CountsBounded'
  BY <1>1, <1>2, UsersType DEF Create, Approve, CancelIntent, LeaseRunsOut
<1>3. ASSUME NEW w \in Worker, ExecutePublish(w) \/ Die(w) PROVE TypeOK' /\ CountsBounded'
  <2>1. TypeOK'
    BY <1>3, PrepareType, PutType, AnswerType DEF ExecutePublish
  <2>2. CountsBounded'
    <3>1. CASE RetryLater(w)
      <4>1. \A a \in Attempt : handoff'[a] = handoff[a] \/ (handoff'[a].count = 0 /\ handoff'[a].generation = 0)
        BY <3>1 DEF RetryLater, TypeOK, NoHandoff
      <4> QED
        BY <4>1 DEF CountsBounded
    <3>2. CASE ~RetryLater(w)
      BY <1>1, <1>3, <3>2 DEF ExecutePublish, Die, Refuse, Claim, Block, LookForPrior, AfterPrior,
           InitializeUpload, Break, Fence, PutChunk, Complete, NextChunk, Ambiguous, FailForGood
    <3> QED
      BY <3>1, <3>2
  <2> QED
    BY <2>1, <2>2
<1>4. ASSUME NEW b \in Attempt, SessionExpires(b) \/ SweepPicks(b) \/ ReconcileAgain(b)
      PROVE  TypeOK' /\ CountsBounded'
  BY <1>1, <1>4, SweepType DEF SessionExpires, SweepPicks, ReconcileAgain
<1>5. ASSUME NEW r \in Reconciler, Reconcile(r) PROVE TypeOK' /\ CountsBounded'
  BY <1>1, <1>5, ReconcileType DEF Reconcile, Settled, Expired, Denied, Permitted, QueryProvider, Apply
<1>6. CASE UNCHANGED vars
  BY <1>1, <1>6 DEF vars
<1> QED
  BY <1>2, <1>3, <1>4, <1>5, <1>6, HandoffType DEF Next

\* The strengthening that every theorem below rests on is inductive.
THEOREM Inductive == Spec => []IndInv
<1>1. IndInv /\ [Next]_vars => IndInv'
  BY Types, Numbers, Rows, Published, Workers, Reconciliations DEF IndInv, RowInv
<1> QED
  BY Start, <1>1, PTL DEF Spec

\* Every variable keeps its type: no chunk, count or number runs past its bound.
THEOREM PublishTypeCorrect == Spec => []TypeOK
<1>1. IndInv => TypeOK
  BY DEF IndInv
<1> QED
  BY Inductive, <1>1, PTL

\* Bytes are sent only in a session that the database knows of, so whenever a
\* publish worker dies its upload can be found and reconciled.
THEOREM BytesAreRecorded == Spec => []RecordedBeforeBytes
<1>1. IndInv => RecordedBeforeBytes
  BY DEF IndInv, RowInv, Row, RecordedBeforeBytes
<1> QED
  BY Inductive, <1>1, PTL

\* No attempt and no intent succeeds without a video at the provider, whatever
\* late answer, takeover or reconciliation recorded the success.
THEOREM SuccessHasVideo == Spec => []PublishedHasVideo
<1>1. IndInv => PublishedHasVideo
  BY DEF IndInv
<1> QED
  BY Inductive, <1>1, PTL

\* Until its end is on record, an upload that has begun is among the open prior
\* sessions that a later claim of its intent queries.
THEOREM UploadsStayFindable == Spec => []NoUploadForgotten
<1>1. IndInv => NoUploadForgotten
  <2> SUFFICES ASSUME IndInv, NEW a \in Attempt, provider[a].offset > 0, ~Ended(a)
               PROVE  a \in OpenPrior(attempt[a].intent, 0)
    BY DEF NoUploadForgotten
  <2>1. attempt[a].stored /\ attempt[a].state \in Unfinished
    BY DEF IndInv, RowInv, Row, Unfinished
  <2>2. a # 0
    BY Bounds DEF Attempt
  <2> QED
    BY <2>1, <2>2 DEF OpenPrior
<1> QED
  BY Inductive, <1>1, PTL
=============================================================================
