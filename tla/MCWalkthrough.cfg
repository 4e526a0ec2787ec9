SPECIFICATION Spec
CONSTANTS
    NoID <- NoNodeID
    Requests <- MCRequests
    Height <- MCHeight
INVARIANTS
    WalkthroughTypeOK
    FailureLeavesNothing
    RegisteredGraphIsSound
    ChildrenKeepTheirSteps
    FunctionsAreBuilt
    
    BuiltGraphHasNoCycle
PROPERTY
    OpenReturns
