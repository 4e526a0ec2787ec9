SPECIFICATION WalkerSpec
CONSTANTS
    main = main
    assign = assign
    cond = cond
    inner = inner
    other = other
    noStep = noStep
    EDGE_LABEL_NEXT = EDGE_LABEL_NEXT
    EDGE_LABEL_CALL = EDGE_LABEL_CALL
    Labels = {EDGE_LABEL_NEXT, EDGE_LABEL_CALL}
    IDs <- MCIDs
    Steps <- MCSteps
    EntryID = main
    Edges <- MCEdges
    MaxTrail = 5
INVARIANTS
    WalkerTypeOK
    TrailIsSound
PROPERTIES
    RefusalLeavesWalker
    WalkerIsHistory
CHECK_DEADLOCK TRUE
