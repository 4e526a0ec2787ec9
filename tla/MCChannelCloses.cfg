SPECIFICATION FairSpec
CONSTANTS
    first = first
    second = second
    noStep = noStep
    EDGE_LABEL_NEXT = EDGE_LABEL_NEXT
    Labels = {EDGE_LABEL_NEXT}
    IDs <- MCIDs
    Steps <- MCSteps
    EntryID = first
    Edges <- MCEdges
    Review = FALSE
    HunkSteps <- MCHunks
    OmitRawSource = FALSE
    Calls = {c1}
    NTokens = 2
    ChanCap = 1
    UpstreamFails = FALSE
    ClientCancels = TRUE
    Requests <- MCStay
    Nothing = Nothing
PROPERTIES
    ChannelCloses
CHECK_DEADLOCK FALSE
