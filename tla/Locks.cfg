CONSTANTS
    a = a
    b = b
    c = c
    Tx = {t1, t2, t3}
    NoTx = NoTx
    Rows <- MCRows
    Projects <- OneProject
    Modes = {1, 2, 3}
    Deletable <- MCRows
    MaxSerial = 2
    MaxWork = 20
    PageLimit = 1
    Requests <- ProjectRequests
    ReleasesRow <- MCReleasesRow
    VersionRow <- MCVersionRow
    FileRow <- MCFileRow
    FilesRow <- MCFilesRow
    EventsRow = 7
SYMMETRY WorkerSymmetry
SPECIFICATION LockSpec
INVARIANTS OnlyLatePairsDeadlock AdvisoryHolderWaitsForItsFile StoreWithoutAdvisory
