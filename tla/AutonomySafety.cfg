\* Two iterations: a second may begin while the first one's dispatch is in flight.
\* Both caps are below the cost of two of the dearer plans.
CONSTANTS
    MaxIterations = 2
    LastDay = 1
    LifetimeCap = 3
    DailyCap = 2
    Kinds = {"content", "research", "readiness", "schedule"}
    Cost <- MCCost
    NeedsApproval <- MCNeedsApproval
    Answers <- MCAnswers
SPECIFICATION Spec
\* A cancelled loop whose workers are done stops.
CHECK_DEADLOCK FALSE
INVARIANTS
    TypeOK
    LiabilityWithinCap
    OneOpenIteration
    CalledOnce
