\* The bounds on transactions, salts and checkpoints end every behaviour.
SPECIFICATION Spec
CONSTANTS
    main = main
    worker = worker
    checkpoint = checkpoint
    Conn <- MCOne
    Checkpointer <- MCCheckpointer
    Slot <- MCSlot
    Page <- MCPage
    NMarks = 2
    READMARK_NOT_USED = 99
    IdleCheckpoints = TRUE
    MaxTx = 2
    MaxSalt = 2
    MaxCheckpoints = 2
    MaxFaults = 0
INVARIANTS
    CommitsAreSeen
CHECK_DEADLOCK FALSE
