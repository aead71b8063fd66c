--------------------------- MODULE DispatchOutbox ---------------------------
(***************************************************************************)
(* What the durable dispatch outbox promises to the code that writes an    *)
(* intent in its own transaction (ProductionDispatchService, the mission   *)
(* planner, the evaluation wakeup...): an intent, once committed, is       *)
(* handed to the Celery broker at least once before it counts as sent, and *)
(* an intent that is settled stays settled.  Nothing is promised about how *)
(* often, or how late, the broker receives it: a relay whose claim was     *)
(* taken over may still publish after the intent is settled.               *)
(***************************************************************************)
CONSTANT Intent         \* the idempotency keys an intent may have

VARIABLES
    phase,      \* phase[i]: absent, active (still to be delivered), sent, dead
    handed      \* the intents the broker has been handed at least once

outboxVars == <<phase, handed>>

Phases == {"absent", "active", "sent", "dead"}

OutboxTypeOK == /\ phase \in [Intent -> Phases]
                /\ handed \subseteq Intent

OutboxInit == /\ phase = [i \in Intent |-> "absent"]
              /\ handed = {}

Enqueue(i) == /\ phase[i] = "absent"
              /\ phase' = [phase EXCEPT ![i] = "active"]
              /\ UNCHANGED handed

Handoff(i) == /\ phase[i] # "absent"
              /\ handed' = handed \cup {i}
              /\ UNCHANGED phase

Settle(i) == /\ phase[i] = "active"
             /\ i \in handed
             /\ phase' = [phase EXCEPT ![i] = "sent"]
             /\ UNCHANGED handed

Abandon(i) == /\ phase[i] = "active"
              /\ phase' = [phase EXCEPT ![i] = "dead"]
              /\ UNCHANGED handed

\* One sweep may give up several intents in one statement.
AbandonAll(D) == /\ \A i \in D : phase[i] = "active"
                 /\ phase' = [i \in Intent |-> IF i \in D THEN "dead" ELSE phase[i]]
                 /\ UNCHANGED handed

OutboxNext == \/ \E i \in Intent : \/ Enqueue(i)
                                   \/ Handoff(i)
                                   \/ Settle(i)
                                   \/ Abandon(i)
              \/ \E D \in SUBSET Intent : AbandonAll(D)

OutboxSpec == OutboxInit /\ [][OutboxNext]_outboxVars

\* An intent is recorded as sent only after the broker was handed its message.
SentWasHanded == \A i \in Intent : phase[i] = "sent" => i \in handed
=============================================================================
