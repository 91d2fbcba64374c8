SPECIFICATION Spec
CONSTANTS
    PDO_MAX = 1
    MAX_LENGTH = 1
    Bytes <- MCBytes
    AddCalls <- MCTableCalls
    DelCalls <- MCDelCalls
    TimerIds = {1, 2}
    NoTimer = 0
PROPERTIES
    FramesHaveValidIds
