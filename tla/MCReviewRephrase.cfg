SPECIFICATION Spec
CONSTANTS
    first = first
    second = second
    noStep = noStep
    EDGE_LABEL_NEXT = EDGE_LABEL_NEXT
    Labels = {EDGE_LABEL_NEXT}
    IDs <- MCIDs
    Steps <- MCSteps
    EntryID = first
    Edges <- MCEdges
    Review = TRUE
    HunkSteps <- MCHunks
    OmitRawSource = FALSE
    Calls = {c1}
    NTokens = 2
    ChanCap = 1
    UpstreamFails = TRUE
    ClientCancels = TRUE
    Requests <- MCWalk
    Nothing = Nothing
INVARIANTS
    PromptHasCode
CHECK_DEADLOCK FALSE
