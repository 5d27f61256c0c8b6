\* An IPTC newer than the rest of the file, and a setting of one of its fields.
SPECIFICATION Spec
CONSTANTS
    NONE = NONE
    Files <- MCFiles
    Captions <- MCCaptions
    CreatorLists <- MCCreatorLists
    KeywordLists <- MCKeywordLists
    Dates <- MCDates
    Names <- MCNames
    Skips <- MCSkips
    Limit = 3
    MaxDatasets = 10
    MaxTotal = 60
    MaxSets = 2
    MaxWrites = 2
INVARIANTS
    ElevatedKept
CHECK_DEADLOCK FALSE
