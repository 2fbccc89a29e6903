SPECIFICATION FairSpec
CONSTANTS
    p1 = p1
    p2 = p2
    u1 = u1
    Partition = {p1, p2}
    Instance = {i1, i2}
    Uuid = {u1}
    Absent = Absent
    Free = Free
    Nobody = Nobody
    Idle = Idle
    MaxTroubles = 1
    Topics <- MCTopics
INVARIANTS
    TypeOK
    OneRequestPerInstance
    OwnersWorkOnTheirSession
    AtLeastOnce
PROPERTIES
    GroupRefinesOrderedIndex
    TopicCommitted
CHECK_DEADLOCK FALSE
