------------------------- MODULE MCRecurringSchedule -------------------------
(* A small instance of RecurringSchedule, with its campaign, for TLC. *)
EXTENDS RecurringSchedule, TLC

\* The first version admits campaign items at two times and catches up with
\* both; the second makes Missions at an interval, the latest only.
Definitions2 == <<
    [every |-> 0, at |-> {1, 2}, policy |-> "RUN_ALL_BOUNDED", most |-> 2, target |-> "CAMPAIGN_ADMISSION"],
    [every |-> 1, at |-> {}, policy |-> "RUN_LATEST_ONLY", most |-> 1, target |-> "STANDALONE_MISSION"]>>

Symmetry == Permutations(Sweep)
=============================================================================
