SPECIFICATION GateSpec
CONSTANTS
    n1 = n1
    n2 = n2
    h1 = h1
    Absent = Absent
    Upstreams = {n1, n2}
    Handlers = {h1}
CHECK_DEADLOCK FALSE
INVARIANTS
    FlagIsRecent
PROPERTY
    FlagsSettle
