\* One job under cancel, fail and a failed owner.
SPECIFICATION Spec
CONSTANTS
    MaxJobs = 1
    MaxGen = 2
    Exec = {e1, e2}
    NoExec = NoExec
    Sweeper = {s1}
    Canceller = {c1}
    Failer = {f1}
    Allocators = {"mission"}
    OwnerMayFail = TRUE
    Pauses = TRUE
    RecordFaults = TRUE
SYMMETRY Symmetry
INVARIANTS RunningHasWork
PROPERTIES FinishedJobsFrozen
\* The system really stops: every call was made and every job has ended.
CHECK_DEADLOCK FALSE
