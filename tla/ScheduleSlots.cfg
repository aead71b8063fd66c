\* A task and a publication that compete for one slot, with two evaluations.
SPECIFICATION Spec
CONSTANTS
    Target = {t1, p1}
    Publication = {p1}
    Slot = {1}
    Limit = 1
    Gap = 0
    DailyCap = 2
    MaxSends = 1
    Evaluator = {v1, v2}
    Relay = {r1}
    MaxReservations = 2
    MaxEpoch = 2
    MaxQueue = 1
    MaxFaults = 1
SYMMETRY Symmetry
INVARIANTS TypeOK SlotsWithinLimits
\* The system really stops: every reservation is closed and none can be made.
CHECK_DEADLOCK FALSE
