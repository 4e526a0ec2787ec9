SPECIFICATION FairSpec
CONSTANTS
    first = first
    second = second
    noStep = noStep
    EDGE_LABEL_NEXT = EDGE_LABEL_NEXT
    Labels = {EDGE_LABEL_NEXT}
    IDs <- MCIDs
    Steps <- MCSteps
    EntryID = first
    Edges <- MCEdges
    Review = TRUE
    HunkSteps <- MCHunks
    OmitRawSource = FALSE
    Calls = {c1}
    NTokens = 3
    ChanCap = 1
    UpstreamFails = TRUE
    ClientCancels = TRUE
    Requests <- MCRequests
    Nothing = Nothing
PROPERTIES
    OnlySilenceHoldsACall
    SummaryGoroutineEnds
CHECK_DEADLOCK FALSE
