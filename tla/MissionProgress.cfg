\* Two evaluations on a chain with a production; nobody pauses, cancels or rejects,
\* and each message comes once.
SPECIFICATION FairSpec
CONSTANTS
    t1 = t1
    t2 = t2
    t3 = t3
    Task <- ChainTasks
    Prereq <- Chain
    Approval = {t3}
    Production = {t2}
    MaxRetries = 1
    MaxEpoch = 2
    Evaluator = {e1, e2}
    Worker = {w1, w2}
    Resumer = {}
    Calls = {}
    Verdicts = {"allow", "fail"}
    MaxRepeats = 0
    Crashes = FALSE
    PolicyHolds = FALSE
    SlowRenders = TRUE
PROPERTIES TransitionsLegal MissionSettles
\* The system really stops: the Mission has ended and nobody calls.
CHECK_DEADLOCK FALSE
