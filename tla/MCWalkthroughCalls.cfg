SPECIFICATION Spec
CONSTANTS
    first = first
    second = second
    noStep = noStep
    EDGE_LABEL_NEXT = EDGE_LABEL_NEXT
    Labels = {EDGE_LABEL_NEXT}
    IDs <- MCIDs
    Steps <- MCSteps
    EntryID = first
    Edges <- MCEdges
    Review = FALSE
    HunkSteps <- MCHunks
    OmitRawSource = TRUE
    Calls = {c1, c2, c3}
    NTokens = 1
    ChanCap = 1
    UpstreamFails = FALSE
    ClientCancels = TRUE
    Requests <- MCWalk
    Nothing = Nothing
SYMMETRY CallSymmetry
INVARIANT
    AnswersAgree
PROPERTY
    NarrationIsConversation
CHECK_DEADLOCK FALSE
