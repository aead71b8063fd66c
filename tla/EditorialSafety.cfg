\* The tasks of one Mission beside the calls of the API.
SPECIFICATION Spec
CONSTANTS
    Worker = {w1, w2}
    Request = {r1, r2}
    Hook = {h1, h2}
    DefaultHook = h1
    MaxVersion = 2
    MaxCalls = 3
SYMMETRY Symmetry
INVARIANTS TypeOK OneCurrent AcceptedIsSound
\* The system really stops: every version is made and the calls are spent.
CHECK_DEADLOCK FALSE
