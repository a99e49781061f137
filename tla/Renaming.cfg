CONSTANTS
    Apps = {a1, a2}
    Names = {n1, n2}
    Orgs = {o1, o2}
    Workers = {w1}
    MaxRequests = 0
SPECIFICATION Spec
INVARIANT NamesAreReserved
CHECK_DEADLOCK FALSE
