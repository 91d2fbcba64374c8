SPECIFICATION Spec
CONSTANTS
    Files <- MCFiles
    Indices = {1, 2, 3, 4}
    SubIndices = {0, 1, 2, 3}
    Trouble = {"thread", "read", "dir", "memory"}
    Suites = {"generic", "other"}
    NoSuite = "unnamed"
    DefaultSuite = "generic"
    Hash <- MCHash
    MaxResults = 3
    max_script_search_paths = 2
    Shelf <- MCShelf
INVARIANTS TypeOK LoadedIsActive NoTreeLeaked OneSuitePerName SuccessEndsSearch DeinitReleasesAll DescribesTheObject PrintsTheEntryDescribed PredefinedSetIsNamed
PROPERTIES DeinitReturns ReportedOnce
