SPECIFICATION Spec
CONSTANTS
    Setups <- MCAbortSetups
    Chars <- MCChars
    SEGMENT_DATA_SIZE = 2
    EXPEDITED_SIZE = 1
    ByteRange = 6
    NonPrintable <- MCNonPrintable
    TIMEOUT = 2
INVARIANT ReadReturnsTheObject
CHECK_DEADLOCK FALSE
