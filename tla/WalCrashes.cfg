\* The bounds on transactions, salts and checkpoints end every behaviour.
SPECIFICATION Spec
CONSTANTS
    main = main
    worker = worker
    checkpoint = checkpoint
    Conn <- MCOne
    Checkpointer <- MCCheckpointer
    Slot <- MCSlot
    Page <- MCPage
    NMarks = 2
    READMARK_NOT_USED = 99
    IdleCheckpoints = FALSE
    MaxTx = 3
    MaxSalt = 3
    MaxCheckpoints = 1
    MaxFaults = 1
INVARIANTS
    CommitsAreSeen
    KilledNowKeepsCommits
    SyncedSurvives
PROPERTIES
    KeepsThePromises
CHECK_DEADLOCK FALSE
