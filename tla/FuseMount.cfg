\* Two accounts, three inodes besides the fixed ones and files of two pieces.
SPECIFICATION FuseSpec
CONSTANTS
    Ids <- MCIds
    NoId = "none"
    Stems <- MCStems
    Uuid <- MCUuid
    Spelling <- MCSpelling
    LookupNames <- MCLookupNames
    MaxInode = 7
    FirstAccounts <- MCFirstAccounts
    MaxData = 3
    ContentLength = 2
INVARIANTS
    FuseTypeOK
    InodesMatch
    AnswersAgree
    ReadsResolve
    PathsResolve
    CursorExact
    LeftBehind
PROPERTIES
    InodeStable
