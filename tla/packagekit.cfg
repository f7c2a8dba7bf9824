CONSTANTS
    Operations = {o1, o2}
    Queries = {q1}
    MayVanish = TRUE

SPECIFICATION FairSpec

INVARIANTS
    TypeOK
    OneThingAwaited
    LastSignalIsLast

PROPERTIES
    QueryIsAnswered
    KeepsPromise

\* The backend stops when every request is over or its daemon is gone.
CHECK_DEADLOCK FALSE
