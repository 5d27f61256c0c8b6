\* A text that the IPTC does not declare to be UTF-8, and a write of it.
SPECIFICATION Spec
CONSTANTS
    NONE = NONE
    Files <- MCFiles
    Captions <- MCCaptions
    CreatorLists <- MCCreatorLists
    KeywordLists <- MCKeywordLists
    Dates <- MCDates
    Names <- MCNames
    Skips <- MCSkips
    Limit = 3
    MaxDatasets = 10
    MaxTotal = 60
    MaxSets = 2
    MaxWrites = 2
INVARIANTS
    TextKept
CHECK_DEADLOCK FALSE
