\* The bounds on transactions, salts and checkpoints end every behaviour.
SPECIFICATION Spec
CONSTANTS
    main = main
    worker = worker
    checkpoint = checkpoint
    Conn <- MCConn
    Checkpointer <- MCCheckpointer
    Slot <- MCSlot
    Page <- MCPage
    NMarks = 2
    READMARK_NOT_USED = 99
    IdleCheckpoints = FALSE
    MaxTx = 2
    MaxSalt = 2
    MaxCheckpoints = 2
    MaxFaults = 0
SYMMETRY Alike
INVARIANTS
    TypeOK
    CommitsAreSeen
PROPERTIES
    HeldMarksStay
    KeepsThePromises
CHECK_DEADLOCK FALSE
