CONSTANTS
    Kinds = {"FedoraStable", "RawhideLocal", "FedoraRawhide", "CachyOs"}
    MayNotStart = TRUE
    MaxFetches = 4
    Lines <- MCLines
    Elements <- MCElements
    MaxListed = 4

SPECIFICATION AnswersSpec

INVARIANTS
    TypeOK
    OneThingUnderWay
    AnswerTellsPackages

PROPERTIES
    KeepsPromise

\* The source stops when nobody asks it again and when its program is lost.
CHECK_DEADLOCK FALSE
