\* Two relays with a batch limit of one: each intent is settled.
SPECIFICATION FairSpec
CONSTANTS
    Intent = {i1, i2}
    Identity = {d1}
    NoIdentity = NoIdentity
    Producer = {p1}
    Relay = {r1, r2}
    MaxAttempts = 2
    Limit = 1
PROPERTIES EventuallySettled
