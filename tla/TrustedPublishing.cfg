CONSTANTS
    u1 = u1
    u2 = u2
    c1 = c1
    c2 = c2
    x1 = x1
    x2 = x2
    t1 = t1
    t2 = t2
    t3 = t3
    r1 = r1
    r2 = r2
    Users = {u1, u2}
    Configs = {c1, c2}
    Registrations = {x1, x2}
    UserOf <- Registrants
    ConfigOf <- RegisteredFor
    Jwts = {t1, t2, t3}
    IssuedTo <- Issued
    Identified = {t1, t2}
    Checking = {c1}
    Requests = {r1, r2}
    Exp = 0
    Leeway = 1
    Margin = 1
    Attempts = 2
    MaxProjects = 2
    MaxRows = 1
    MaxUses = 1
SPECIFICATION Spec
SYMMETRY Symmetry
INVARIANTS OneTokenPerIdentifier UsedUpForAToken
PROPERTY PublishersAreChosen
CHECK_DEADLOCK FALSE
