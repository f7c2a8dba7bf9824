CONSTANTS
    Processes = {p1, p2, p3}
    Versions = {v1, v2}
    NoNote = NoNote
    NewKernels = {v3}
    MaxAnnounced = 2

SPECIFICATION NotificationsSpec

INVARIANTS
    TypeOK
    LocksAreReleased
    SchemaIsWhole
    OpenIsMigrated
    ImportOkMeansAll
    AnnouncedOnce
