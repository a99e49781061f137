CONSTANTS
    Apps = {a1, a2}
    Names = {n1, n2}
    Orgs = {o1, o2}
    Workers = {w1, w2}
    MaxRequests = 1
SYMMETRY Symmetry
SPECIFICATION Spec
INVARIANT OneOrganizationEach
PROPERTIES NamesStayReserved ApprovalStands
CHECK_DEADLOCK FALSE
