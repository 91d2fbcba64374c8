SPECIFICATION Spec
CONSTANTS
    Words <- MCWords
    InputLines <- MCLines
    Unfinished <- MCUnfinished
    ScriptNames <- MCScriptNames
    ScriptNmt <- MCScriptNmt
    Ids <- MCIds
    Frames <- MCFrames
    DbcFiles <- MCDbcFiles
    NoFile = "no file"
    Like <- MCLike
    HasText <- MCHasText
    ResultSize = 110
    MaxNull = 1
    EdsFiles <- MCEdsFiles
    MissingFile = "no file"
    Sections <- MCSections
    SubsSize = 4
INVARIANTS AnswersFromTheLastFile EveryObjectJudgedOnce FrameIsTheCommandGiven CompletionIsACommand
CHECK_DEADLOCK FALSE
