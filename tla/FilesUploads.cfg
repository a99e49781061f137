CONSTANTS
    s1 = s1
    s2 = s2
    w = w
    r1 = r1
    Uploads = {u1, u2}
    Jobs = {}
    Reconcilers = {}
    Names = {s1, s2}
    Contents = {c1, c2}
    Releases = {r1}
    ReleaseOf <- OneRelease
    Sdists = {s1, s2}
    Attempts = 2
    BatchSize = 1
SYMMETRY WorkerSymmetry
SPECIFICATION Spec
INVARIANTS SingleSdist ConfirmedWasPublished
PROPERTIES ImplementsPackageIndex
