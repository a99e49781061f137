CONSTANTS
    Tx = {t1, t2, t3}
    NoTx = NoTx
    Spellings = {foo, Foo}
    MaxSerial = 4
SYMMETRY MCSymmetry
SPECIFICATION Spec
INVARIANTS CurrentUnlessRenamed
PROPERTIES LastSerialNeverFalls
