CONSTANTS
    Sources = {fedora, rawhide, cachyos}
    Query = rpm
    Versions = {v1, v2}
    Fedora = fedora
    Running = v1
    MayNotStart = {}
    MaxRefreshes = 2

SPECIFICATION FairSpec

INVARIANTS
    TypeOK
    CountersMatchOutstanding
    OneRowPerAnsweredKernel
    ReportedNeverOffered

PROPERTIES
    KeepsPromise
