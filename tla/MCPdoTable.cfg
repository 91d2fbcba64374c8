SPECIFICATION Spec
CONSTANTS
    PDO_MAX = 2
    MAX_LENGTH = 1
    Bytes <- MCBytes
    AddCalls <- MCTableCalls
    DelCalls <- MCDelCalls
    TimerIds = {1, 2, 3}
    NoTimer = 0
INVARIANTS
    TypeOK
    OneSlotPerId
    TimersBelongToSlots
    CleanFrameIsScheduled
PROPERTIES
    DeletedPdoIsGone
    AddInstallsOrTableFull
