CONSTANTS
    Managers = {m1}
    Commands = {c1}
    MaxCalls = 2
    MayNotStart = TRUE

SPECIFICATION FairSpec

INVARIANTS
    TypeOK
    CallIsInOnePlace
    NotOvertaken

PROPERTY KeepsPromise

\* The system stops when every client has ended or asked all it asks.
CHECK_DEADLOCK FALSE
