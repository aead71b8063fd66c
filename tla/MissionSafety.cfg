\* Every call, crash, hold and verdict, with messages delivered again, on two stages.
SPECIFICATION Spec
CONSTANTS
    t1 = t1
    t2 = t2
    t3 = t3
    Task <- Pair
    Prereq <- PairPrereq
    Approval = {t2}
    Production = {}
    MaxRetries = 1
    MaxEpoch = 3
    Evaluator = {e1, e2}
    Worker = {w1}
    Resumer = {r1}
    Calls = {"pause", "cancel", "reject"}
    Verdicts = {"allow", "pause", "fail"}
    MaxRepeats = 1
    Crashes = TRUE
    PolicyHolds = TRUE
    SlowRenders = FALSE
SYMMETRY Symmetry
INVARIANTS TypeOK PrerequisitesFirst ApprovalFirst OutcomeIsEarned QueuedHasIntent
\* The system really stops: the Mission has ended and nobody calls.
CHECK_DEADLOCK FALSE
