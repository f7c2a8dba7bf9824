CONSTANTS
    MaxRequests = 2
    RetryLimits = {0, 2}
    Addresses = {a1, a2, a3}
    NullReply = NullReply

SPECIFICATION FairSpec

INVARIANTS
    TypeOK
    OneThingGoingOn
    WithinRetryLimit
    RunningAttemptIsTimed

PROPERTIES
    KeepsPromise

\* The client may stop when every request is answered, and when the program ends.
CHECK_DEADLOCK FALSE
