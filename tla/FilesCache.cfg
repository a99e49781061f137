CONSTANTS
    s1 = s1
    s2 = s2
    w = w
    r1 = r1
    Uploads = {u1}
    Jobs = {j1}
    Reconcilers = {k1, k2}
    Names = {s1, w}
    Contents = {c1, c2}
    Releases = {r1}
    ReleaseOf <- OneRelease
    Sdists = {s1}
    Attempts = 1
    BatchSize = 2
SPECIFICATION FairSpec
INVARIANTS ArchiveHoldsFiles CachedFilesAreServed
PROPERTIES EventuallyCached
