SPECIFICATION FairStoreSpec
CONSTANTS
    Threads = {t1, t2}
    Sessions = {s1}
    TTL = 1
    Interval = 2
    Evictor = Evictor
    None = None
INVARIANTS
    StoreTypeOK
    NoStoreRace
PROPERTIES
    EveryCallFinishes
    IdleSessionsLeave
    StoreIsRegistry
