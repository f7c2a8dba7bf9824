CONSTANTS
    Sources <- MCSources
    Intervals <- MCIntervals
    SecondInterval = 360
    Themes <- MCThemes
    DefaultTheme = "system"
    Unshown <- MCRest
    DefaultRest = "default"
    InitialFiles <- MCFiles
    Versions = {1}
    Fedora = 0
    Running = 2
    Notes <- MCNotes
    NoNote = ""
    NoVersion = 0
    MaxClicks = 3
    MaxOperations = 2

SPECIFICATION Spec

INVARIANTS
    TypeOK
    ShownIsStored
    RecordedAsReported
    AnsweredOnce

PROPERTIES
    AcceptChangesOnlyEdits

\* The user stops.
CHECK_DEADLOCK FALSE
