SPECIFICATION FairSpec
CONSTANTS
    CAN_MAX_INTERFACES = 2
    Scheduling = {TRUE, FALSE}
    MaxRequests = 2
    MaxPlugs = 3
INVARIANTS TypeOK InitialisedChannelIsOpen NoInterfaceLeaked
PROPERTIES Reconnects RemovalIsNoticed SwitchInTurnIsHonoured
CHECK_DEADLOCK FALSE
