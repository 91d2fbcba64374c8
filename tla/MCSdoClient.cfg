SPECIFICATION FairSpec
CONSTANTS
    Setups <- MCSetups
    Chars <- MCChars
    SEGMENT_DATA_SIZE = 2
    EXPEDITED_SIZE = 1
    ByteRange = 6
    NonPrintable <- MCNonPrintable
    TIMEOUT = 2
INVARIANTS TypeOK ReadReturnsTheObject WrittenIsStored NoCallFails NothingLeftBehind IndexNeverConfused
PROPERTIES EveryCallReturns
CHECK_DEADLOCK FALSE
