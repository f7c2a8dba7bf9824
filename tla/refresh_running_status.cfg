CONSTANTS
    Sources = {fedora, cachyos}
    Query = rpm
    Versions = {v1, v2}
    Fedora = fedora
    Running = v1
    MayNotStart = {}
    MaxRefreshes = 1

SPECIFICATION Spec

INVARIANTS
    RunningKernelIsMarked
