\* A statement of the sources that the pool does not keep.
CONSTANTS
    s1 = s1
    s2 = s2
    s3 = s3
    k1 = k1
    k2 = k2
    None = None
    Socks <- MCSocks
    Keys <- MCKeys
    KeyOf <- MCKeyOf
    NumDummies = 1
    RingCap = 1
    Quarantine = 2
    MaxDelay = 1
    MaxBacklog = 2

SPECIFICATION Spec
INVARIANTS ClosedConnsLeaveNoState
CHECK_DEADLOCK FALSE
