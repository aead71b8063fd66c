\* One job of a Mission: stalls, redispatches, repeated deliveries, dying workers.
SPECIFICATION FairSpec
CONSTANTS
    MaxJobs = 1
    MaxGen = 3
    Exec = {e1, e2}
    NoExec = NoExec
    Sweeper = {s1, s2}
    Canceller = {}
    Failer = {}
    Allocators = {"mission"}
    OwnerMayFail = FALSE
    Pauses = FALSE
    RecordFaults = FALSE
INVARIANTS TypeOK DispatchFollowsGeneration
PROPERTIES TerminalWakesMission JobsEnd RequestsSettle
\* The system really stops: every call was made and every job has ended.
CHECK_DEADLOCK FALSE
