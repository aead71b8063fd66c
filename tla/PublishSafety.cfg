\* Two revisions, two attempts of two chunks, two workers, the sweep and a relay.
SPECIFICATION Spec
CONSTANTS
    Worker = {w1, w2}
    Relay = {h1}
    MaxIntents = 2
    MaxAttempts = 2
    Chunks = 2
    MaxHandoffs = 2
    MaxGeneration = 2
    MaxQueue = 2
SYMMETRY Symmetry
INVARIANTS TypeOK NoUploadForgotten RecordedBeforeBytes PublishedHasVideo
\* The system really stops: every message was taken and every attempt has ended.
CHECK_DEADLOCK FALSE
