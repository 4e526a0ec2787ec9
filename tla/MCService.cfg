SPECIFICATION FairSpec
CONSTANTS
    Calls = {c1, c2}
    MaxSignals = 2
    Requests <- MCRequests
    Environments <- MCEnvironments
INVARIANTS
    ServiceTypeOK
    StopCutsNoCall
    NothingCrashes
    HandledCallsAreSettled
    StatusTellsTheCause
PROPERTY
    SignalEndsTheProcess
CHECK_DEADLOCK FALSE
