\* Two sweeps of a schedule of two versions beside a campaign of one item.
SPECIFICATION Spec
CONSTANTS
    MaxItems = 1
    MaxConcurrent = 1
    MaxTries = 1
    Caller = {c1}
    MaxVersion = 2
    Definition <- Definitions2
    MaxTime = 2
    MaxBacklog = 2
    MaxAttempts = 2
    Sweep = {s1, s2}
SYMMETRY Symmetry
INVARIANTS TypeOK OccurrenceOnce 
PROPERTIES TicksRecorded
\* The system really stops: the schedule and the campaign have ended.
CHECK_DEADLOCK FALSE
