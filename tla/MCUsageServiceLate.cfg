SPECIFICATION Spec
CONSTANTS
    e1 = e1
    e2 = e2
    e3 = e3
    w1 = w1
    w2 = w2
    None = None
    Events = {e1, e2, e3}
    Workers = {w1, w2}
    QueueSize = 2
INVARIANT AcceptedEventsProcessed
CHECK_DEADLOCK FALSE
