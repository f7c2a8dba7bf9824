CONSTANTS
    MaxRequests = 1
    RetryLimits = {1}
    Addresses = {a1, a2}
    NullReply = NullReply

SPECIFICATION Spec

PROPERTIES
    TimeoutEndsOwnAttempt

\* The client may stop when every request is answered.
CHECK_DEADLOCK FALSE
