CONSTANTS
    x1 = x1
    x2 = x2
    Rows = {x1, x2}
    AddressOf <- OneAddress
    Messages = {m1}
    Workers = {w1, w2}
    MaxTransientBounces = 0
SPECIFICATION FairSpec
INVARIANTS TypeOK VerifiedByItsOwner
PROPERTIES ComplaintsAreRecorded
CHECK_DEADLOCK FALSE
