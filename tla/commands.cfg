CONSTANTS
    Processes = {p1, p2}
    Versions = {v1, v2}
    Fedora = fedora
    Running = v1
    PinReadFails = FALSE
    NoCommand = NoCommand

SPECIFICATION FairSpec

INVARIANTS
    TypeOK
    VersionHasOneRow
    OkMeansDone

PROPERTIES
    RunningNeverRemoved
    PinPreventsRemoval
    EveryCommandEnds

\* The system stops when both commands have reported and their dnf has ended.
CHECK_DEADLOCK FALSE
