\* One dummy for three connections: every one after the first is lent what the
\* one before left behind.
CONSTANTS
    s1 = s1
    s2 = s2
    s3 = s3
    k1 = k1
    k2 = k2
    None = None
    Socks <- MCSocks
    Keys <- MCKeys
    KeyOf <- MCKeyOf
    NumDummies = 1
    RingCap = 1
    Quarantine = 2
    MaxDelay = 1
    MaxBacklog = 2

SPECIFICATION FairSpec
INVARIANTS ExclusiveLending NoSilentLoss FreeDummiesAreFresh Isolation TableIsOwn
PROPERTIES Recycled
CHECK_DEADLOCK FALSE
