CONSTANTS
    Tx = {t1, t2}
    NoTx = NoTx
    Rows = {1, 2}
    Projects = {1}
    Modes = {2}
    Deletable = {}
    MaxSerial = 2
    MaxWork = 2
    PageLimit = 1
SPECIFICATION FairSpec
PROPERTIES CommitsEnd MirrorCatchesUp
