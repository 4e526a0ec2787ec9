SPECIFICATION Spec
CONSTANTS
    NoID = NoID
    MaxVersion = 2
    Paths <- MCPaths
    Rank <- MCRank
    Diff <- MCDiff
    FileLength <- MCFileLength
    RefOf <- MCRefOf
    Requests <- MCRequests
INVARIANTS
    OpeningTypeOK
    FailureLeavesNothing
    RegisteredGraphIsSound
    StepsFollowFiles
    EntryPointsComeFirst
    HunksShowTheFile
    CommitContextMatchesDiff
PROPERTY
    CancelledOpenReturns
