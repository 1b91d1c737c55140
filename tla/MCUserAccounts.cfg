SPECIFICATION Spec
CONSTANTS
    h1 = h1
    h2 = h2
    u1 = u1
    u2 = u2
    p1 = p1
    p2 = p2
    t1 = t1
    e1 = e1
    admin = admin
    editor = editor
    Anonymous = Anonymous
    Mangled = Mangled
    None = None
    Handlers = {h1, h2}
    Users = {u1, u2}
    Emails = {e1}
    Passwords = {p1, p2}
    Roles = {admin, editor}
    Tokens = {t1}
SYMMETRY Interchangeable
CHECK_DEADLOCK FALSE
INVARIANT
    TypeOK
PROPERTIES
    LosesNothing
    FrozenOnceDeleted
