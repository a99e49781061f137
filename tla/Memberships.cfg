CONSTANTS
    Users = {u1, u2}
    Projects = {p}
    Orgs = {o1,o2}
    Workers = {w1, w2}
    Beat = beat
    MaxRequests = 2
SYMMETRY AccountSymmetry
SPECIFICATION Spec
INVARIANTS ProjectsHaveAnOwner OrganizationsHaveAnOwner OneOrganization MembershipsEndTogether RightsStayBehind AcceptableIsPending
CHECK_DEADLOCK FALSE
