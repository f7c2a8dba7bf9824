CONSTANTS
    Sources = {fedora, cachyos}
    Query = rpm
    Versions = {v1}
    Fedora = fedora
    Running = v1
    MayNotStart = {fedora}
    MaxRefreshes = 2

SPECIFICATION FairSpec

PROPERTIES
    RefreshEnds

\* A refresh that waits for a program that never started waits for ever.
CHECK_DEADLOCK FALSE
