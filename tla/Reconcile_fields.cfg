\* Two settings and two writes of a program, with or without a segment read,
\* and an edit by another program between them.
SPECIFICATION Spec
CONSTANTS
    NONE = NONE
    Files <- MCFiles
    Captions <- MCCaptions
    CreatorLists <- MCCreatorLists
    KeywordLists <- MCKeywordLists
    Dates <- MCDates
    Names <- MCNames
    Skips <- MCSkips
    Limit = 3
    MaxDatasets = 10
    MaxTotal = 60
    MaxSets = 2
    MaxWrites = 2
INVARIANTS
    SetIsRead
    FormsAgree
    OthersKept
CHECK_DEADLOCK FALSE
