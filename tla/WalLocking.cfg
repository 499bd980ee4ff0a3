\* The bound on begun transactions ends every behaviour.
SPECIFICATION FairSpec
CONSTANTS
    main = main
    worker = worker
    other = other
    checkpoint = checkpoint
    Conn <- MCConn
    MainConn <- MCMainConn
    Checkpointer <- MCCheckpointer
    Slot <- MCSlot
    LastMark = 1
    MaxBegun = 4
    MaxTimeOuts = 1
INVARIANTS
    ShmTypeOK
    MutualExclusion
    FileLockMirrors
    NoWakeUpLost
PROPERTIES
    ImplementsSlotLocks
    SleepersAreWoken
CHECK_DEADLOCK FALSE
