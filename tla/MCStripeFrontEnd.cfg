SPECIFICATION Spec
CONSTANTS
    h1 = h1
    h2 = h2
    c1 = c1
    c2 = c2
    c3 = c3
    lb = lb
    l1 = l1
    l2 = l2
    l3 = l3
    l4 = l4
    None = None
    Blank = Blank
    Handlers = {h1, h2}
    Clients = {c1, c2, c3}
    Proxies = {lb}
    Limiters = {l1, l2, l3, l4}
    MaxIPLimiters = 2
    IPBurst = 1
    GlobalBurst = 1
    MaxProxies = 2
    Waits = TRUE
CHECK_DEADLOCK FALSE
INVARIANTS
    TypeOK
    OwnBucket
PROPERTY
    AdmittedAnswered
