------------------------------- MODULE Publish -------------------------------
(***************************************************************************)
(* The publication of one Task: its PublishIntent revisions, the attempts  *)
(* of the publish workers, the resumable upload sessions at the provider,  *)
(* the reconciliation of uploads whose outcome is not known, and the       *)
(* handoffs that bring a failed attempt back through the scheduler.        *)
(*                                                                         *)
(* An attempt is made by the claim that creates it, so its number serves   *)
(* as the claim token and as the attempt_generation of that claim.  A      *)
(* lease runs out whenever a worker may have been slow for three minutes:  *)
(* between any two of its steps.  Messages are counted, not told apart:    *)
(* each carries only the task.                                             *)
(*                                                                         *)
(* The network preflight commits and closes the session it is handed, so   *)
(* the row locks a reconciliation takes are gone before it asks the        *)
(* provider, and its answer is applied to whatever the rows are by then.   *)
(***************************************************************************)
EXTENDS Naturals, FiniteSets

CONSTANTS
    Worker,         \* bound: publish tasks executed at a time
    Relay,          \* bound: handoff relays at a time
    MaxIntents,     \* bound: revisions of the PublishIntent
    MaxAttempts,    \* bound: claims, and so attempts
    Chunks,         \* chunks of the video
    MaxHandoffs,    \* MAX_HANDOFF_ATTEMPTS
    MaxGeneration,  \* bound: delivery_generation of a handoff
    MaxQueue        \* bound: publish messages waiting

ASSUME PublishAssumption ==
    {MaxIntents, MaxAttempts, Chunks, MaxHandoffs, MaxGeneration, MaxQueue} \subseteq Nat \ {0}

VARIABLES
    intent,     \* intent[i]: revision i of the PublishIntent
    attempt,    \* attempt[a]: a PublishAttempt row with its UploadSession row
    provider,   \* provider[a]: the session made at the provider for attempt a
    failed,     \* attempts with an audit row to a FAILED state
    task,       \* Task.state
    evaluation, \* keys of the terminal Mission evaluations
    queue,      \* publish messages waiting
    worker,     \* worker[w]: an execute_publish call
    recon,      \* recon[r]: a reconcile_attempt_detailed call
    handoff,    \* handoff[a]: the retry handoff of attempt a
    relay       \* relay[r]: the row a handoff relay has claimed

rows == <<intent, attempt, failed, task, evaluation>>
vars == <<intent, attempt, provider, failed, task, evaluation, queue, worker, recon,
          handoff, relay>>

Intent == 1..MaxIntents
Attempt == 1..MaxAttempts
Sweep == "sweep"
Reconciler == Worker \cup {Sweep}

Unfinished == {"CREATED", "UPLOADING", "UNKNOWN"}
AttemptStates == Unfinished \cup {"ABSENT", "SUCCEEDED", "RETRYABLE_FAILED", "PERMANENT_FAILED",
                                  "BLOCKED_GUARDIAN", "CANCELLED"}

\* token: the attempt whose claim the row carries, 0 for NULL.  live: the lease
\* has not run out.
IntentRow == [state : {"ABSENT", "DRAFT", "APPROVED", "CLAIMED", "PUBLISHED", "FAILED", "SUPERSEDED", "CANCELLED"},
              token : 0..MaxAttempts, live : BOOLEAN]
NoIntent == [state |-> "ABSENT", token |-> 0, live |-> FALSE]

\* stored: its UploadSession row is committed; bytes: bytes_uploaded, in chunks.
AttemptRow == [intent : 0..MaxIntents, state : AttemptStates, stored : BOOLEAN,
               bytes : 0..Chunks, status : {"none", "PENDING", "MANUAL_HOLD", "CONFIRMED_SUCCESS"}]
NoAttempt == [intent |-> 0, state |-> "ABSENT", stored |-> FALSE, bytes |-> 0, status |-> "none"]

\* The provider keeps a session until it expires, and a video once all chunks came.
ProviderSession == [known : {"never", "open", "expired"}, offset : 0..Chunks]
NoSession == [known |-> "never", offset |-> 0]
HasVideo(a) == provider[a].offset = Chunks

\* own: the attempt of the claim; at: the attempt whose session is driven.
WorkerState == [pc : {"idle", "gates", "prior", "init", "flushed", "fence", "put", "answer"},
                own : 0..MaxAttempts, at : 0..MaxAttempts, offset : 0..Chunks,
                answer : {"none", "complete", "partial", "ambiguous", "transient", "terminal"}]
Idle == [pc |-> "idle", own |-> 0, at |-> 0, offset |-> 0, answer |-> "none"]

Outcomes == {"success", "incomplete", "terminal", "pending", "hold"}
ReconState == [pc : {"none", "ask", "query", "apply", "done"}, at : 0..MaxAttempts, outcome : Outcomes,
               offset : 0..Chunks]
NoRecon == [pc |-> "none", at |-> 0, outcome |-> "pending", offset |-> 0]

HandoffRow == [status : {"ABSENT", "PENDING", "CLAIMED", "DELIVERED", "DEAD_LETTER"},
               count : 0..MaxGeneration, generation : 0..MaxGeneration]
NoHandoff == [status |-> "ABSENT", count |-> 0, generation |-> 0]

TypeOK == /\ intent \in [Intent -> IntentRow]
          /\ attempt \in [Attempt -> AttemptRow]
          /\ provider \in [Attempt -> ProviderSession]
          /\ failed \subseteq Attempt
          /\ task \in {"RUNNING", "SUCCEEDED", "FAILED"}
          /\ evaluation \subseteq Attempt \X {"SUCCEEDED", "FAILED"}
          /\ queue \in 0..MaxQueue
          /\ worker \in [Worker -> WorkerState]
          /\ recon \in [Reconciler -> ReconState]
          /\ handoff \in [Attempt -> HandoffRow]
          /\ relay \in [Relay -> [row : 0..MaxAttempts, generation : 0..MaxGeneration]]

\* The worker of the Mission has committed the approved intent with its dispatch.
Init == /\ intent = [i \in Intent |-> IF i = 1 THEN [NoIntent EXCEPT !.state = "APPROVED"] ELSE NoIntent]
        /\ attempt = [a \in Attempt |-> NoAttempt]
        /\ provider = [a \in Attempt |-> NoSession]
        /\ failed = {} /\ task = "RUNNING" /\ evaluation = {} /\ queue \in 1..MaxQueue
        /\ worker = [w \in Worker |-> Idle]
        /\ recon = [r \in Reconciler |-> NoRecon]
        /\ handoff = [a \in Attempt |-> NoHandoff]
        /\ relay = [r \in Relay |-> [row |-> 0, generation |-> 0]]

Goto(w, fields) == worker' = [worker EXCEPT ![w] = fields]
Return(w) == Goto(w, Idle)

-----------------------------------------------------------------------------
(* Intents. *)

Active(i) == intent[i].state \in {"DRAFT", "APPROVED", "CLAIMED"}

\* create_publish_intent with other metadata: the active revision, claimed or
\* not, is superseded and the new one is a draft.
Create(i) ==
    /\ i > 1 /\ intent[i - 1].state # "ABSENT" /\ intent[i].state = "ABSENT"
    /\ intent' = [j \in Intent |-> IF j = i THEN [NoIntent EXCEPT !.state = "DRAFT"]
                                  ELSE IF Active(j) THEN [intent[j] EXCEPT !.state = "SUPERSEDED"]
                                  ELSE intent[j]]
    /\ UNCHANGED <<attempt, provider, failed, task, evaluation, queue, worker, recon, handoff, relay>>

\* cancel_intent, whatever the state.
CancelIntent(i) ==
    /\ intent[i].state \notin {"ABSENT", "CANCELLED"}
    /\ intent' = [intent EXCEPT ![i].state = "CANCELLED"]
    /\ UNCHANGED <<attempt, provider, failed, task, evaluation, queue, worker, recon, handoff, relay>>

\* approve_intent, and the user schedules its publication.
Approve(i) ==
    /\ intent[i].state = "DRAFT"
    /\ queue < MaxQueue
    /\ intent' = [intent EXCEPT ![i].state = "APPROVED"]
    /\ queue' = queue + 1
    /\ UNCHANGED <<attempt, provider, failed, task, evaluation, worker, recon, handoff, relay>>

LeaseRunsOut(i) ==
    /\ intent[i].live
    /\ intent' = [intent EXCEPT ![i].live = FALSE]
    /\ UNCHANGED <<attempt, provider, failed, task, evaluation, queue, worker, recon, handoff, relay>>

Released(i) == [intent EXCEPT ![i] = [state |-> "APPROVED", token |-> 0, live |-> FALSE]]

-----------------------------------------------------------------------------
(* execute_publish. *)

Claimable == {i \in Intent : \/ intent[i].state = "APPROVED"
                             \/ intent[i].state = "CLAIMED" /\ ~intent[i].live}

NextAttempt == Cardinality({a \in Attempt : attempt[a].state # "ABSENT"}) + 1

\* A message of which no single intent can be claimed ends in an error.
Refuse(w) ==
    /\ worker[w].pc = "idle" /\ queue > 0
    /\ Cardinality(Claimable) # 1
    /\ queue' = queue - 1
    /\ UNCHANGED <<rows, provider, worker, recon, handoff, relay>>

Claim(w) ==
    /\ worker[w].pc = "idle" /\ queue > 0
    /\ NextAttempt \in Attempt
    /\ \E i \in Claimable :
        /\ Claimable = {i}
        /\ intent' = [intent EXCEPT ![i] = [state |-> "CLAIMED", token |-> NextAttempt, live |-> TRUE]]
        /\ attempt' = [attempt EXCEPT ![NextAttempt] = [NoAttempt EXCEPT !.intent = i, !.state = "CREATED"]]
        /\ Goto(w, [Idle EXCEPT !.pc = "gates", !.own = NextAttempt, !.at = NextAttempt])
    /\ queue' = queue - 1
    /\ UNCHANGED <<provider, failed, task, evaluation, recon, handoff, relay>>

IntentOf(w) == attempt[worker[w].own].intent

\* The Guardian or the visibility policy blocks the attempt; the intent is released.
Block(w) ==
    /\ worker[w].pc = "gates"
    /\ attempt' = [attempt EXCEPT ![worker[w].own].state = "BLOCKED_GUARDIAN"]
    /\ intent' = Released(IntentOf(w))
    /\ Return(w)
    /\ UNCHANGED <<provider, failed, task, evaluation, queue, recon, handoff, relay>>

\* Mutant: overlooks the attempts of ambiguous outcome.
OpenUploading(i, own) ==
    {a \in Attempt \ {own} : /\ attempt[a].intent = i /\ attempt[a].stored
                             /\ attempt[a].state \in {"CREATED", "UPLOADING"}}

\* Sessions of other attempts of this intent that are not known to have ended.
OpenPrior(i, own) ==
    {a \in Attempt \ {own} : /\ attempt[a].intent = i /\ attempt[a].stored
                             /\ attempt[a].state \in Unfinished}

\* The latest session that may still be open is reconciled; without one the
\* worker goes on to make a session.
LookForPrior(w) ==
    /\ worker[w].pc = "gates"
    /\ LET open == OpenPrior(IntentOf(w), worker[w].own) IN
       IF open = {}
       THEN /\ Goto(w, [worker[w] EXCEPT !.pc = "init"])
            /\ UNCHANGED recon
       ELSE \E a \in open :
            /\ \A b \in open : b <= a
            /\ Goto(w, [worker[w] EXCEPT !.pc = "prior", !.at = a])
            /\ recon' = [recon EXCEPT ![w] = [NoRecon EXCEPT !.pc = "ask", !.at = a]]
    /\ UNCHANGED <<rows, provider, queue, handoff, relay>>

\* What the worker makes of the reconciled session: the prior attempt succeeded,
\* it is resumed, it is terminal, or this attempt is redundant.
AfterPrior(w) ==
    /\ worker[w].pc = "prior" /\ recon[w].pc = "done"
    /\ recon' = [recon EXCEPT ![w] = NoRecon]
    /\ LET own == worker[w].own
           cancelled == [attempt EXCEPT ![own].state = "CANCELLED"] IN
       \/ /\ recon[w].outcome = "success"
          /\ attempt' = cancelled
          /\ Return(w)
          /\ UNCHANGED intent
       \/ /\ recon[w].outcome = "incomplete"
          /\ attempt' = cancelled
          /\ Goto(w, [worker[w] EXCEPT !.pc = "fence", !.offset = recon[w].offset])
          /\ UNCHANGED intent
       \/ /\ recon[w].outcome = "terminal"
          /\ Goto(w, [worker[w] EXCEPT !.pc = "init", !.at = own])
          /\ UNCHANGED <<attempt, intent>>
       \/ /\ recon[w].outcome \in {"pending", "hold"}
          /\ attempt' = cancelled
          /\ intent' = Released(IntentOf(w))
          /\ Return(w)
    /\ UNCHANGED <<provider, failed, task, evaluation, queue, handoff, relay>>

\* The provider makes a session; its row is flushed and not yet committed.  When
\* the answer is lost nobody will know of the session.
InitializeUpload(w) ==
    /\ worker[w].pc = "init"
    /\ provider' = [provider EXCEPT ![worker[w].own] = [known |-> "open", offset |-> 0]]
    /\ \/ Goto(w, [worker[w] EXCEPT !.pc = "flushed"])
       \/ \E error \in {"transient", "terminal"} :
            Goto(w, [worker[w] EXCEPT !.pc = "answer", !.answer = error])
    /\ UNCHANGED <<rows, queue, recon, handoff, relay>>

\* The artifact, the account, the credentials, a preflight or the database fail
\* the attempt while it has no session.
Break(w) ==
    /\ worker[w].pc \in {"gates", "prior", "init"}
    /\ \E error \in {"transient", "terminal"} :
            Goto(w, [worker[w] EXCEPT !.pc = "answer", !.at = worker[w].own, !.answer = error])
    /\ recon' = [recon EXCEPT ![w] = NoRecon]
    /\ UNCHANGED <<rows, provider, queue, handoff, relay>>

HoldsLease(w) == /\ intent[IntentOf(w)].token = worker[w].own
                 /\ intent[IntentOf(w)].live

\* Mutant: the session row is committed later.
Uncommitted(w) == attempt

Committed(w) == IF worker[w].pc = "flushed"
                THEN [attempt EXCEPT ![worker[w].own].stored = TRUE, ![worker[w].own].state = "UPLOADING"]
                ELSE attempt

\* TX-PRE-CHUNK renews the lease of this claim, whatever the state of the
\* intent, and commits what was flushed; without the lease the worker stops.
Fence(w) ==
    /\ worker[w].pc \in {"flushed", "fence"}
    /\ attempt' = Committed(w)
    /\ IF HoldsLease(w) THEN Goto(w, [worker[w] EXCEPT !.pc = "put"]) ELSE Return(w)
    /\ UNCHANGED <<intent, provider, failed, task, evaluation, queue, recon, handoff, relay>>

FinalChunk(w) == worker[w].offset + 1 >= Chunks

\* How an exception of the chunk request is classified.
ChunkErrors(w) == {"transient", "terminal"} \cup IF FinalChunk(w) THEN {"ambiguous"} ELSE {}

\* The request reaches an open session or not; a chunk that is not the next one
\* leaves the offset alone.  The answer tells where the session stands, or is lost.
PutChunk(w) ==
    /\ worker[w].pc = "put"
    /\ LET a == worker[w].at
           next == IF provider[a].offset = worker[w].offset THEN worker[w].offset + 1
                                                           ELSE provider[a].offset IN
       \/ /\ provider[a].known = "open"
          /\ provider' = [provider EXCEPT ![a].offset = next]
          /\ \/ Goto(w, [worker[w] EXCEPT !.pc = "answer", !.offset = next,
                                          !.answer = IF next = Chunks THEN "complete" ELSE "partial"])
             \/ \E error \in ChunkErrors(w) :
                    Goto(w, [worker[w] EXCEPT !.pc = "answer", !.answer = error])
       \/ /\ \E error \in ChunkErrors(w) :
                    Goto(w, [worker[w] EXCEPT !.pc = "answer", !.answer = error])
          /\ UNCHANGED provider
    /\ UNCHANGED <<rows, queue, recon, handoff, relay>>

Answered(w, answer) == worker[w].pc = "answer" /\ worker[w].answer = answer

\* Mutant: the last chunk is counted twice.
CountedAgain(w) == worker[w].offset + 1

BytesDone(w) == Chunks

\* TX-POST-CHUNK: none of these transactions looks at the claim.
Complete(w) ==
    /\ Answered(w, "complete")
    /\ attempt' = [attempt EXCEPT ![worker[w].at].state = "SUCCEEDED", ![worker[w].at].bytes = BytesDone(w)]
    /\ intent' = [intent EXCEPT ![IntentOf(w)].state = "PUBLISHED"]
    /\ task' = "SUCCEEDED"
    /\ evaluation' = evaluation \cup {<<worker[w].at, "SUCCEEDED">>}
    /\ Return(w)
    /\ UNCHANGED <<provider, failed, queue, recon, handoff, relay>>

NextChunk(w) ==
    /\ Answered(w, "partial")
    /\ attempt' = [attempt EXCEPT ![worker[w].at].bytes = worker[w].offset]
    /\ Goto(w, [worker[w] EXCEPT !.pc = "fence", !.answer = "none"])
    /\ UNCHANGED <<intent, provider, failed, task, evaluation, queue, recon, handoff, relay>>

\* A timeout or 5xx on the final chunk: left to the reconciliation.
Ambiguous(w) ==
    /\ Answered(w, "ambiguous")
    /\ attempt' = [attempt EXCEPT ![worker[w].at].state = "UNKNOWN", ![worker[w].at].status = "PENDING"]
    /\ Return(w)
    /\ UNCHANGED <<intent, provider, failed, task, evaluation, queue, recon, handoff, relay>>

\* One handoff per claim: its key holds the attempt_generation.
RetryLater(w) ==
    /\ Answered(w, "transient")
    /\ handoff' = [handoff EXCEPT ![worker[w].own] = [NoHandoff EXCEPT !.status = "PENDING"]]
    /\ attempt' = [attempt EXCEPT ![worker[w].at].state = "RETRYABLE_FAILED"]
    /\ failed' = failed \cup {worker[w].at}
    /\ intent' = Released(IntentOf(w))
    /\ Return(w)
    /\ UNCHANGED <<provider, task, evaluation, queue, recon, relay>>

FailForGood(w) ==
    /\ Answered(w, "terminal")
    /\ attempt' = [attempt EXCEPT ![worker[w].at].state = "PERMANENT_FAILED"]
    /\ failed' = failed \cup {worker[w].at}
    /\ intent' = [intent EXCEPT ![IntentOf(w)].state = "FAILED"]
    /\ task' = "FAILED"
    /\ evaluation' = evaluation \cup {<<worker[w].at, "FAILED">>}
    /\ Return(w)
    /\ UNCHANGED <<provider, queue, recon, handoff, relay>>

\* The worker dies: what it flushed is rolled back and its message comes again.
Die(w) ==
    /\ worker[w].pc # "idle" /\ queue < MaxQueue
    /\ queue' = queue + 1
    /\ Return(w)
    /\ recon' = [recon EXCEPT ![w] = NoRecon]
    /\ UNCHANGED <<rows, provider, handoff, relay>>

SessionExpires(a) ==
    /\ provider[a].known = "open"
    /\ provider' = [provider EXCEPT ![a].known = "expired"]
    /\ UNCHANGED <<rows, queue, worker, recon, handoff, relay>>

-----------------------------------------------------------------------------
(* Reconciliation, called by a publish worker, the sweep or an operator. *)

SweepPicks(a) ==
    /\ recon[Sweep].pc = "none"
    /\ attempt[a].state = "UNKNOWN" /\ attempt[a].status = "PENDING"
    /\ recon' = [recon EXCEPT ![Sweep] = [NoRecon EXCEPT !.pc = "ask", !.at = a]]
    /\ UNCHANGED <<rows, provider, queue, worker, handoff, relay>>

ReconcileAgain(a) ==
    /\ recon[Sweep].pc = "none"
    /\ attempt[a].state = "UNKNOWN" /\ attempt[a].status = "MANUAL_HOLD"
    /\ attempt' = [attempt EXCEPT ![a].status = "PENDING"]
    /\ recon' = [recon EXCEPT ![Sweep] = [NoRecon EXCEPT !.pc = "ask", !.at = a]]
    /\ UNCHANGED <<intent, provider, failed, task, evaluation, queue, worker, handoff, relay>>

\* The caller gets the outcome; the sweep only counts it.
Reconciled(r, outcome) ==
    recon' = [recon EXCEPT ![r] = IF r = Sweep THEN NoRecon
                                  ELSE [@ EXCEPT !.pc = "done", !.outcome = outcome]]

\* An expired session: recorded before a replacement is made.
MarkTerminal(a) ==
    /\ attempt' = [attempt EXCEPT ![a].state = "PERMANENT_FAILED", ![a].status = "MANUAL_HOLD"]
    /\ failed' = failed \cup {a}

\* Under its locks the attempt must still be unresolved; otherwise nothing is done.
Settled(r) ==
    /\ recon[r].pc = "ask"
    /\ attempt[recon[r].at].state \notin {"UNKNOWN", "UPLOADING"}
    /\ Reconciled(r, "pending")
    /\ UNCHANGED <<rows, provider, queue, worker, handoff, relay>>

Asks(r, known) ==
    /\ recon[r].pc = "ask"
    /\ attempt[recon[r].at].state \in {"UNKNOWN", "UPLOADING"}
    /\ provider[recon[r].at].known = known

Expired(r) ==
    /\ Asks(r, "expired")
    /\ MarkTerminal(recon[r].at)
    /\ Reconciled(r, "terminal")
    /\ UNCHANGED <<intent, provider, task, evaluation, queue, worker, handoff, relay>>

\* The preflight denies the query.
Denied(r) ==
    /\ Asks(r, "open")
    /\ Reconciled(r, "pending")
    /\ UNCHANGED <<rows, provider, queue, worker, handoff, relay>>

Permitted(r) ==
    /\ Asks(r, "open")
    /\ recon' = [recon EXCEPT ![r].pc = "query"]
    /\ UNCHANGED <<rows, provider, queue, worker, handoff, relay>>

\* Mutant: an expired session counts as a success.
TrustsExpired(a) == IF HasVideo(a) \/ provider[a].known = "expired" THEN "success" ELSE "incomplete"

\* What the provider says of the session.
ProviderTruth(a) == CASE provider[a].known = "expired" -> "terminal"
                      [] HasVideo(a) -> "success"
                      [] OTHER -> "incomplete"

QueryProvider(r) ==
    /\ recon[r].pc = "query"
    /\ \E outcome \in {ProviderTruth(recon[r].at), "hold"} :
        recon' = [recon EXCEPT ![r] = [@ EXCEPT !.pc = "apply", !.outcome = outcome,
                                                !.offset = provider[recon[r].at].offset]]
    /\ UNCHANGED <<rows, provider, queue, worker, handoff, relay>>

\* The answer is written without another look at the rows.
Apply(r) ==
    /\ recon[r].pc = "apply"
    /\ LET a == recon[r].at IN
       \/ /\ recon[r].outcome = "success"
          /\ attempt' = [attempt EXCEPT ![a].state = "SUCCEEDED", ![a].status = "CONFIRMED_SUCCESS"]
          /\ intent' = [intent EXCEPT ![attempt[a].intent].state = "PUBLISHED"]
          /\ task' = "SUCCEEDED"
          /\ evaluation' = evaluation \cup {<<a, "SUCCEEDED">>}
          /\ UNCHANGED failed
       \/ /\ recon[r].outcome = "incomplete"
          /\ attempt' = [attempt EXCEPT ![a].status = "PENDING",
                            ![a].bytes = IF @ < recon[r].offset THEN recon[r].offset ELSE @]
          /\ UNCHANGED <<intent, failed, task, evaluation>>
       \/ /\ recon[r].outcome = "terminal"
          /\ MarkTerminal(a)
          /\ UNCHANGED <<intent, task, evaluation>>
       \/ /\ recon[r].outcome = "hold"
          /\ attempt' = [attempt EXCEPT ![a].status = "MANUAL_HOLD"]
          /\ UNCHANGED <<intent, failed, task, evaluation>>
    /\ Reconciled(r, recon[r].outcome)
    /\ UNCHANGED <<provider, queue, worker, handoff, relay>>

-----------------------------------------------------------------------------
(* Handoffs of failed attempts to the scheduler. *)

\* The lease of a CLAIMED row may have run out at any time.
RelayClaim(h, a) ==
    /\ relay[h].row = 0
    /\ handoff[a].status \in {"PENDING", "CLAIMED"}
    /\ handoff[a].generation < MaxGeneration
    /\ handoff' = [handoff EXCEPT ![a] = [status |-> "CLAIMED", count |-> @.count + 1,
                                          generation |-> @.generation + 1]]
    /\ relay' = [relay EXCEPT ![h] = [row |-> a, generation |-> handoff[a].generation + 1]]
    /\ UNCHANGED <<rows, provider, queue, worker, recon>>

HoldsRow(h) == LET a == relay[h].row IN
    /\ handoff[a].status = "CLAIMED" /\ handoff[a].generation = relay[h].generation

RelayEnds(h) == relay' = [relay EXCEPT ![h] = [row |-> 0, generation |-> 0]]

\* The scheduler decides, and dispatches the publish task or not; the
\* acknowledgement finds the row with the relay's token, or the relay died before it.
Deliver(h) ==
    /\ relay[h].row # 0
    /\ \E sent \in {0, 1} : queue + sent <= MaxQueue /\ queue' = queue + sent
    /\ \/ /\ HoldsRow(h)
          /\ handoff' = [handoff EXCEPT ![relay[h].row].status = "DELIVERED"]
       \/ UNCHANGED handoff
    /\ RelayEnds(h)
    /\ UNCHANGED <<rows, provider, worker, recon>>

DeliveryFails(h) ==
    /\ relay[h].row # 0
    /\ handoff' = IF HoldsRow(h)
                  THEN [handoff EXCEPT ![relay[h].row].status =
                            IF handoff[relay[h].row].count >= MaxHandoffs THEN "DEAD_LETTER" ELSE "PENDING"]
                  ELSE handoff
    /\ RelayEnds(h)
    /\ UNCHANGED <<rows, provider, queue, worker, recon>>

\* requeue_dead_letter: only for an intent that nobody claims and that has no
\* attempt of unknown outcome.
Requeue(a) ==
    /\ handoff[a].status = "DEAD_LETTER"
    /\ LET i == attempt[a].intent IN
       /\ intent[i] = [state |-> "APPROVED", token |-> 0, live |-> FALSE]
       /\ \A b \in Attempt : attempt[b].intent = i => attempt[b].state # "UNKNOWN"
    /\ handoff' = [handoff EXCEPT ![a].status = "PENDING", ![a].count = 0]
    /\ UNCHANGED <<rows, provider, queue, worker, recon, relay>>

-----------------------------------------------------------------------------
ExecutePublish(w) ==
    \/ Refuse(w) \/ Claim(w) \/ Block(w) \/ LookForPrior(w) \/ AfterPrior(w)
    \/ InitializeUpload(w) \/ Break(w) \/ Fence(w) \/ PutChunk(w)
    \/ Complete(w) \/ NextChunk(w) \/ Ambiguous(w) \/ RetryLater(w) \/ FailForGood(w)

Reconcile(r) == Settled(r) \/ Expired(r) \/ Denied(r) \/ Permitted(r) \/ QueryProvider(r) \/ Apply(r)

Next == \/ \E i \in Intent : Create(i) \/ Approve(i) \/ CancelIntent(i) \/ LeaseRunsOut(i)
        \/ \E w \in Worker : ExecutePublish(w) \/ Die(w)
        \/ \E a \in Attempt : SessionExpires(a) \/ SweepPicks(a) \/ ReconcileAgain(a) \/ Requeue(a)
        \/ \E r \in Reconciler : Reconcile(r)
        \/ \E h \in Relay : Deliver(h) \/ DeliveryFails(h) \/ \E a \in Attempt : RelayClaim(h, a)

Spec == Init /\ [][Next]_vars

-----------------------------------------------------------------------------
(* Properties. *)

\* Its end is on record: an audit row of a failure, or the evaluation of its success.
Ended(a) == a \in failed \/ <<a, "SUCCEEDED">> \in evaluation

\* An upload that has begun is never lost sight of: until its end is on record the
\* query of every later claim finds it, whichever of the workers that lost their
\* claim, the sweep and the late answers of the provider was the last to write its row.
NoUploadForgotten ==
    \A a \in Attempt :
        provider[a].offset > 0 /\ ~Ended(a) => a \in OpenPrior(attempt[a].intent, 0)

\* The provider never holds bytes in a session the database does not know of:
\* whenever a worker dies, its upload can be found and reconciled.
RecordedBeforeBytes == \A a \in Attempt : provider[a].offset > 0 => attempt[a].stored

\* What the database calls published, the provider has: through late answers,
\* reconciliation and takeovers no attempt and no intent succeeds without a video.
PublishedHasVideo ==
    /\ \A i \in Intent : intent[i].state = "PUBLISHED" =>
            \E a \in Attempt : attempt[a].intent = i /\ HasVideo(a)
    /\ \A a \in Attempt : attempt[a].state = "SUCCEEDED" => HasVideo(a)
=============================================================================
