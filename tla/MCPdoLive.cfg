SPECIFICATION FairSpec
CONSTANTS
    PDO_MAX = 2
    MAX_LENGTH = 1
    Bytes <- MCBytes
    AddCalls <- MCCyclicCalls
    DelCalls <- MCCyclicDels
    TimerIds = {1, 2, 3}
    NoTimer = 0
PROPERTIES
    ImplementsMap
    CyclicPdoKeepsBeingSent
