SPECIFICATION Spec
CONSTANTS
    b1 = b1
    b2 = b2
    i1 = i1
    Batches = {b1, b2}
    Items = {i1}
    Item <- MCItem
    Quantity <- MCQuantity
    MaxRetries = 1
    Threshold = 2
    MaxCalls = 2
INVARIANT NoLostUnits
CHECK_DEADLOCK FALSE
