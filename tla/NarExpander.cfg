CONSTANTS
    Nars <- ShortNars
    Modes = {"expand", "collapse"}
    BufferEntries = 2
    BufferBytes = 4
    GzModulus = 8
SPECIFICATION FairSpec
INVARIANTS TypeOK BufferKept CleanEnd NoFalseAlarm
PROPERTIES KeepsPromise Ends
CHECK_DEADLOCK FALSE
