CONSTANTS
    Tx = {t1, t2}
    NoTx = NoTx
    Rows = {1, 2}
    Projects = {1, 2}
    Modes = {2}
    Deletable = {2}
    MaxSerial = 2
    MaxWork = 2
    PageLimit = 1
SYMMETRY WorkerSymmetry
SPECIFICATION Spec
INVARIANTS MirrorMissesNothing LastSerialCurrent JournalsConserved
PROPERTIES SerialsInCommitOrder ImplementsChangelog
