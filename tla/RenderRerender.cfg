\* Renders and rerenders side by side, under a failed owner and stalled workers.
SPECIFICATION Spec
CONSTANTS
    MaxJobs = 2
    MaxGen = 1
    Exec = {e1, e2}
    NoExec = NoExec
    Sweeper = {s1}
    Canceller = {}
    Failer = {}
    Allocators = {"render", "rerender"}
    OwnerMayFail = TRUE
    Pauses = TRUE
    RecordFaults = TRUE
SYMMETRY Symmetry
INVARIANTS RenderedOnce SuccessHasEvidence
PROPERTIES CurrentGivesWayToAccepted
\* The system really stops: every call was made and every job has ended.
CHECK_DEADLOCK FALSE
