SPECIFICATION FairSpec
CONSTANTS
    CAN_MAX_INTERFACES = 2
    Scheduling = {TRUE}
    MaxRequests = 1
    MaxPlugs = 0
PROPERTY SwitchIsHonoured
CHECK_DEADLOCK FALSE
