\* Two producers, two relays: conflicting keys, stale claims, shared tokens, crashes.
SPECIFICATION Spec
CONSTANTS
    Intent = {i1, i2}
    Identity = {d1, d2}
    NoIdentity = NoIdentity
    Producer = {p1, p2}
    Relay = {r1, r2}
    MaxAttempts = 2
    Limit = 2
SYMMETRY Symmetry
INVARIANTS TypeOK EffectHasItsIntent DeliveriesCounted
PROPERTIES SettledForGood ImplementsOutbox
