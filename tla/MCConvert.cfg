SPECIFICATION Spec
CONSTANTS
    Lines <- MCLines
    HexName <- MCHexName
    Profiles <- MCProfiles
    Trouble = {"open", "memory", "create", "print"}
    MaxLost = 1
INVARIANTS TypeOK RoomForEveryEntry DocumentIsWhole ErrorKeepsOldFile
