------------------------- MODULE MCDurableDispatch -------------------------
(* Small instances of DurableDispatch for TLC. *)
EXTENDS DurableDispatch, TLC

\* Intents, relays and producers are interchangeable; no run that checks a
\* liveness property uses this.
Symmetry == Permutations(Intent) \cup Permutations(Relay) \cup Permutations(Producer)
=============================================================================
