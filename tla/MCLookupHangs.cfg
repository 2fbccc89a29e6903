SPECIFICATION OwnSpec
CONSTANTS
    p1 = p1
    p2 = p2
    u1 = u1
    u2 = u2
    Partition = {p1, p2}
    Uuid = {u1, u2}
    Absent = Absent
    Free = Free
    MaxRestarts = 1
    Topics <- LookupTopics
PROPERTY
    LookupCostsOnlyFields
CHECK_DEADLOCK FALSE
