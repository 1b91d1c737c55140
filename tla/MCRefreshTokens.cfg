SPECIFICATION Spec
CONSTANTS
    r1 = r1
    r2 = r2
    r3 = r3
    r4 = r4
    t1 = t1
    t2 = t2
    t3 = t3
    u1 = u1
    u2 = u2
    None = None
    Requests = {r1, r2, r3, r4}
    Tokens = {t1, t2, t3}
    Users = {u1, u2}
SYMMETRY Interchangeable
INVARIANTS
    TypeOK
    ReplacedIsDead
    ReplacedOnceUnlessDoubled
    ReuseDetectable
    ReuseEndsSessions
    RevokedForCause
CHECK_DEADLOCK FALSE
