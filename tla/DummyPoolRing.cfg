\* Two dummies at once and a ring buffer with room for one: dummies are lost.
CONSTANTS
    s1 = s1
    s2 = s2
    s3 = s3
    k1 = k1
    k2 = k2
    None = None
    Socks <- MCTwoSocks
    Keys <- MCKeys
    KeyOf <- MCTwoKeyOf
    NumDummies = 2
    RingCap = 1
    Quarantine = 1
    MaxDelay = 0
    MaxBacklog = 1

SPECIFICATION Spec
INVARIANTS TypeOK
PROPERTIES ImplementsLending
CHECK_DEADLOCK FALSE
