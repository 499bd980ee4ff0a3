----------------------------- MODULE WalProofs -----------------------------
(***************************************************************************)
(* For any number of connections, marks, pages, crashes and failed writes: *)
(* one connection writes at a time, and the mark a reader holds stays.     *)
(*                                                                         *)
(* The invariant: slots are held exclusively or shared, and a connection   *)
(* that is half-way through a recovery or a restart of the log holds the   *)
(* slots it is about to move the marks of.  A second one, ContentInv, is   *)
(* about what readers see.                                                 *)
(***************************************************************************)
EXTENDS Wal, FiniteSetTheorems, SequenceTheorems, NaturalsInduction, TLAPS

\* No slot is held exclusively by one connection and in any way by another.
LocksExclude ==
    \A c, d \in Conn : c # d => exclusive[c] \cap (exclusive[d] \cup shared[d]) = {}

\* Who moves marks in two steps holds their slots in between.
MoversHoldMarks ==
    \A c \in Conn : /\ pc[c] = "recover" => Slot \subseteq exclusive[c]
                    /\ pc[c] = "restart" => Marks \subseteq exclusive[c]

LocksTyped ==
    /\ shared = [c \in Conn |-> shared[c]]
    /\ exclusive = [c \in Conn |-> exclusive[c]]
    /\ pc = [c \in Conn |-> pc[c]]
    /\ readMark = [i \in Mark |-> readMark[i]]

WalInv == LocksTyped /\ LocksExclude /\ MoversHoldMarks

-----------------------------------------------------------------------------
LEMMA MarkSlots ==
    /\ Marks \subseteq Slot
    /\ \A i \in Mark : WAL_READ_LOCK(i) \in Marks
    /\ WAL_WRITE_LOCK \in Slot /\ WAL_CKPT_LOCK \in Slot /\ WAL_READ_LOCK(0) \in Slot
BY WalAssumption DEF Marks, Mark, WAL_READ_LOCK, WAL_WRITE_LOCK, WAL_CKPT_LOCK

\* A set of marks that is not empty has a least one.
LEMMA LeastMark ==
    ASSUME NEW S \in SUBSET Mark, S # {}
    PROVE  Least(S) \in S
<1>1. S \subseteq Nat
    BY WalAssumption DEF Mark
<1>2. PICK x \in S : \A y \in S : <<y, x>> \notin OpToRel(<, Nat)
    BY <1>1, WFMin, NatLessThanWellFounded, Zenon
<1>3. \A y \in S : ~(y < x)
    BY <1>1, <1>2, Zenon DEF OpToRel
<1>4. \A y \in S : x <= y
    BY <1>1, <1>3
<1> QED
    BY <1>4, Zenon DEF Least

-----------------------------------------------------------------------------
(***************************************************************************)
(* A step of one connection.                                               *)
(***************************************************************************)
Out == {"idle", "choose", "lock", "check", "read", "restartlog", "restarted", "frames",
        "synchdr", "log", "publish", "checkpoint", "limit", "backfill", "checkpointed"}

\* The one call the step makes on the lock table, if any.
LockCall(c) ==
    \/ UNCHANGED lockVars
    \/ \E slot : Share(c, slot)
    \/ \E slots : Exclude(c, slots) \/ Release(c, slots)

\* Where the connection is afterwards, and what it holds if it is to move marks.
Arrives(c, l) ==
    /\ pc' = [pc EXCEPT ![c] = l]
    /\ \/ l \in Out
       \/ l = "recover" /\ Exclude(c, Slot)
       \/ l = "restart" /\ Exclude(c, Marks)

\* The marks the step moves are held by no other connection.
MovesFreeMarks(c) ==
    /\ readMark' = [i \in Mark |-> readMark'[i]]
    /\ \A i \in Mark :
          readMark'[i] # readMark[i] =>
              /\ pc[c] # "read"
              /\ \A d \in Conn \ {c} : WAL_READ_LOCK(i) \notin shared[d]

StepOf(c) ==
    /\ LockCall(c)
    /\ \E l : Arrives(c, l)
    /\ MovesFreeMarks(c)

LEMMA LockCallKeeps ==
    ASSUME WalInv, NEW c \in Conn, LockCall(c)
    PROVE  /\ shared' = [d \in Conn |-> shared'[d]] /\ exclusive' = [d \in Conn |-> exclusive'[d]]
           /\ LocksExclude'
           /\ \A d \in Conn \ {c} : shared'[d] = shared[d] /\ exclusive'[d] = exclusive[d]
<1> USE DEF WalInv, LocksTyped
<1>1. CASE UNCHANGED lockVars
    BY <1>1 DEF lockVars, LocksExclude
<1>2. ASSUME NEW slot, Share(c, slot)
      PROVE  /\ shared' = [d \in Conn |-> shared'[d]] /\ exclusive' = [d \in Conn |-> exclusive'[d]]
             /\ LocksExclude'
             /\ \A d \in Conn \ {c} : shared'[d] = shared[d] /\ exclusive'[d] = exclusive[d]
    BY <1>2 DEF Share, CanShare, LocksExclude
<1>3. ASSUME NEW slots, Exclude(c, slots)
      PROVE  /\ shared' = [d \in Conn |-> shared'[d]] /\ exclusive' = [d \in Conn |-> exclusive'[d]]
             /\ LocksExclude'
             /\ \A d \in Conn \ {c} : shared'[d] = shared[d] /\ exclusive'[d] = exclusive[d]
    BY <1>3 DEF Exclude, CanExclude, LocksExclude
<1>4. ASSUME NEW slots, Release(c, slots)
      PROVE  /\ shared' = [d \in Conn |-> shared'[d]] /\ exclusive' = [d \in Conn |-> exclusive'[d]]
             /\ LocksExclude'
             /\ \A d \in Conn \ {c} : shared'[d] = shared[d] /\ exclusive'[d] = exclusive[d]
    BY <1>4 DEF Release, LocksExclude
<1> QED
    BY <1>1, <1>2, <1>3, <1>4 DEF LockCall

LEMMA StepKeeps ==
    ASSUME WalInv, NEW c \in Conn, StepOf(c)
    PROVE  WalInv'
<1>1. /\ shared' = [d \in Conn |-> shared'[d]] /\ exclusive' = [d \in Conn |-> exclusive'[d]]
      /\ LocksExclude'
      /\ \A d \in Conn \ {c} : shared'[d] = shared[d] /\ exclusive'[d] = exclusive[d]
    BY LockCallKeeps DEF StepOf
<1>2. PICK l : Arrives(c, l)
    BY DEF StepOf
<1>3. DOMAIN pc = Conn
    BY DEF WalInv, LocksTyped
<1>4. \A d \in Conn : pc'[d] = IF d = c THEN l ELSE pc[d]
    BY <1>2, <1>3 DEF Arrives
<1>5. pc' = [d \in Conn |-> pc'[d]]
    BY <1>2, <1>3 DEF Arrives
<1>6. ASSUME NEW d \in Conn
      PROVE  /\ pc'[d] = "recover" => Slot \subseteq exclusive'[d]
             /\ pc'[d] = "restart" => Marks \subseteq exclusive'[d]
    <2>1. CASE d # c
        BY <1>1, <1>4, <2>1 DEF WalInv, MoversHoldMarks
    <2>2. CASE d = c /\ l \in Out
        BY <1>4, <2>2 DEF Out
    <2>3. CASE d = c /\ l = "recover" /\ Exclude(c, Slot)
        BY <1>4, <2>3 DEF Exclude, WalInv, LocksTyped
    <2>4. CASE d = c /\ l = "restart" /\ Exclude(c, Marks)
        BY <1>4, <2>4 DEF Exclude, WalInv, LocksTyped
    <2> QED
        BY <1>2, <2>1, <2>2, <2>3, <2>4 DEF Arrives
<1> QED
    BY <1>1, <1>5, <1>6 DEF WalInv, LocksTyped, MoversHoldMarks, StepOf, MovesFreeMarks

\* A reader that holds a mark before and after a step of a connection, itself
\* or another, finds it where it was.
LEMMA StepLeavesHeldMarks ==
    ASSUME WalInv, NEW c \in Conn, StepOf(c), NEW d \in Conn, NEW i \in Mark,
           WAL_READ_LOCK(i) \in shared[d], pc[d] = "read"
    PROVE  readMark'[i] = readMark[i]
BY DEF StepOf, MovesFreeMarks

\* Steps that move no mark, or say where they go.
LEMMA NoMarkMoved ==
    ASSUME WalInv, NEW c \in Conn, UNCHANGED readMark
    PROVE  MovesFreeMarks(c)
BY DEF WalInv, LocksTyped, MovesFreeMarks

LEMMA Stays ==
    ASSUME WalInv, NEW c \in Conn, UNCHANGED pc, pc[c] \in Out
    PROVE  Arrives(c, pc[c])
<1>1. pc' = [pc EXCEPT ![c] = pc[c]]
    BY DEF WalInv, LocksTyped
<1> QED
    BY <1>1 DEF Arrives

LEMMA Outside ==
    ASSUME NEW c \in Conn, NEW l \in Out, Goto(c, l)
    PROVE  \E k : Arrives(c, k)
BY DEF Goto, Arrives

LEMMA LeftOrRetried ==
    ASSUME NEW c \in Conn, Leave(c) \/ Retry(c)
    PROVE  \E k : Arrives(c, k)
<1>1. CASE Leave(c)
    BY <1>1, Outside DEF Leave, Out
<1>2. CASE Retry(c)
    BY <1>2, <1>1, Outside DEF Retry, Out
<1> QED
    BY <1>1, <1>2

\* A slot that can be locked exclusively is held by nobody.
LEMMA FreeMarks ==
    ASSUME NEW c \in Conn, NEW i \in Mark, CanExclude({WAL_READ_LOCK(i)})
    PROVE  \A d \in Conn : WAL_READ_LOCK(i) \notin shared[d]
BY DEF CanExclude

\* What a connection holds exclusively no other holds.
LEMMA OwnMarks ==
    ASSUME WalInv, NEW c \in Conn, Marks \subseteq exclusive[c]
    PROVE  \A i \in Mark : \A d \in Conn \ {c} : WAL_READ_LOCK(i) \notin shared[d]
BY MarkSlots DEF WalInv, LocksExclude

-----------------------------------------------------------------------------
LEMMA RecoverySteps ==
    ASSUME WalInv, NEW c \in Conn, Recover(c) \/ ResetCkptInfo(c)
    PROVE  StepOf(c)
<1>1. CASE Recover(c)
    <2>1. Exclude(c, Slot) /\ Goto(c, "recover") /\ UNCHANGED readMark
        BY <1>1 DEF Recover
    <2>2. Arrives(c, "recover")
        BY <2>1 DEF Goto, Arrives
    <2> QED
        BY <2>1, <2>2, NoMarkMoved DEF StepOf, LockCall
<1>2. CASE ResetCkptInfo(c)
    <2>1. pc[c] = "recover" /\ Release(c, Slot) /\ Goto(c, "idle")
        BY <1>2 DEF ResetCkptInfo
    <2>2. Marks \subseteq exclusive[c]
        BY <2>1, MarkSlots DEF WalInv, MoversHoldMarks
    <2>3. readMark' = [i \in Mark |-> readMark'[i]]
        BY <1>2 DEF ResetCkptInfo
    <2>4. MovesFreeMarks(c)
        BY <2>1, <2>2, <2>3, OwnMarks DEF MovesFreeMarks
    <2> QED
        BY <2>1, <2>4, Outside DEF StepOf, LockCall, Out
<1> QED
    BY <1>1, <1>2

LEMMA ReaderSteps ==
    ASSUME WalInv, NEW c \in Conn, BeginRead(c) \/ EndTransaction(c)
    PROVE  StepOf(c)
<1>1. CASE ReadHdr(c)
    <2>1. UNCHANGED lockVars /\ Goto(c, "choose") /\ UNCHANGED readMark
        BY <1>1 DEF ReadHdr, shm
    <2> QED
        BY <2>1, NoMarkMoved, Outside DEF StepOf, LockCall, Out
<1>2. CASE IgnoreLog(c)
    <2>1. UNCHANGED readMark
        BY <1>2 DEF IgnoreLog, shm
    <2>2. CASE hdr = my[c]
        <3>1. Share(c, WAL_READ_LOCK(0)) /\ Goto(c, "read")
            BY <1>2, <2>2 DEF IgnoreLog
        <3> QED
            BY <2>1, <3>1, NoMarkMoved, Outside DEF StepOf, LockCall, Out
    <2>3. CASE hdr # my[c]
        <3>1. Retry(c) /\ UNCHANGED lockVars
            BY <1>2, <2>3 DEF IgnoreLog
        <3> QED
            BY <2>1, <3>1, NoMarkMoved, LeftOrRetried DEF StepOf, LockCall
    <2> QED
        BY <2>2, <2>3
<1>3. CASE ChooseMark(c)
    <2> DEFINE mx == my[c].mxFrame
               fit == {i \in Mark : readMark[i] <= mx}
               best == Greatest({i \in fit : \A j \in fit : readMark[j] <= readMark[i]})
               free == {i \in Mark : CanExclude({WAL_READ_LOCK(i)})}
    <2>1. /\ pc[c] = "choose"
          /\ UNCHANGED lockVars
          /\ Goto(c, "lock") \/ Retry(c)
          /\ \/ UNCHANGED readMark
             \/ free # {} /\ readMark' = [readMark EXCEPT ![Least(free)] = mx]
        BY <1>3 DEF ChooseMark
    <2>2. free \in SUBSET Mark /\ \A i \in free : CanExclude({WAL_READ_LOCK(i)})
        OBVIOUS
    <2> HIDE DEF mx, fit, best, free
    <2>3. ASSUME free # {}, readMark' = [readMark EXCEPT ![Least(free)] = mx]
          PROVE  MovesFreeMarks(c)
        <3>1. Least(free) \in free
            BY <2>2, <2>3, LeastMark
        <3>2. \A d \in Conn : WAL_READ_LOCK(Least(free)) \notin shared[d]
            BY <2>2, <3>1, FreeMarks
        <3>3. /\ readMark' = [i \in Mark |-> readMark'[i]]
              /\ \A i \in Mark : readMark'[i] # readMark[i] => i = Least(free)
            BY <2>3 DEF WalInv, LocksTyped
        <3> QED
            BY <2>1, <3>2, <3>3 DEF MovesFreeMarks
    <2>4. MovesFreeMarks(c)
        BY <2>1, <2>3, NoMarkMoved
    <2> QED
        BY <2>1, <2>4, Outside, LeftOrRetried DEF StepOf, LockCall, Out
<1>4. CASE LockMark(c)
    <2>1. UNCHANGED readMark
        BY <1>4 DEF LockMark, shm
    <2>2. \/ Share(c, WAL_READ_LOCK(at[c][1])) /\ Goto(c, "check")
          \/ Retry(c) /\ UNCHANGED lockVars
        BY <1>4 DEF LockMark
    <2> QED
        BY <2>1, <2>2, NoMarkMoved, Outside, LeftOrRetried DEF StepOf, LockCall, Out
<1>5. CASE CheckMark(c)
    <2>1. UNCHANGED readMark
        BY <1>5 DEF CheckMark, shm
    <2>2. \/ /\ UNCHANGED lockVars
             /\ Goto(c, "frames") \/ Goto(c, "read")
          \/ Retry(c) /\ Release(c, shared[c])
        BY <1>5 DEF CheckMark
    <2> QED
        BY <2>1, <2>2, NoMarkMoved, Outside, LeftOrRetried DEF StepOf, LockCall, Out
<1>6. CASE EndTransaction(c)
    <2>1. Release(c, Slot) /\ Leave(c) /\ UNCHANGED readMark
        BY <1>6 DEF EndTransaction, shm
    <2> QED
        BY <2>1, NoMarkMoved, LeftOrRetried DEF StepOf, LockCall
<1> QED
    BY <1>1, <1>2, <1>3, <1>4, <1>5, <1>6 DEF BeginRead

LEMMA WriterSteps ==
    ASSUME WalInv, NEW c \in Conn, WriteTransaction(c)
    PROVE  StepOf(c)
<1>1. CASE BeginWrite(c)
    <2>1. UNCHANGED readMark
        BY <1>1 DEF BeginWrite, shm
    <2>2. \/ /\ Exclude(c, {WAL_WRITE_LOCK})
             /\ Goto(c, "restartlog") \/ Goto(c, "frames")
          \/ Release(c, shared[c]) /\ Leave(c)
        BY <1>1 DEF BeginWrite
    <2> QED
        BY <2>1, <2>2, NoMarkMoved, Outside, LeftOrRetried DEF StepOf, LockCall, Out
<1>2. CASE RestartHdr(c)
    <2>1. Exclude(c, Marks) /\ Goto(c, "restart") /\ UNCHANGED readMark
        BY <1>2 DEF RestartHdr
    <2>2. Arrives(c, "restart")
        BY <2>1 DEF Goto, Arrives
    <2> QED
        BY <2>1, <2>2, NoMarkMoved DEF StepOf, LockCall
<1>3. CASE RestartMarks(c)
    <2>1. pc[c] = "restart" /\ Release(c, Marks) /\ Goto(c, "restarted")
        BY <1>3 DEF RestartMarks
    <2>2. Marks \subseteq exclusive[c]
        BY <2>1 DEF WalInv, MoversHoldMarks
    <2>3. readMark' = [i \in Mark |-> readMark'[i]]
        BY <1>3 DEF RestartMarks
    <2>4. MovesFreeMarks(c)
        BY <2>1, <2>2, <2>3, OwnMarks DEF MovesFreeMarks
    <2> QED
        BY <2>1, <2>4, Outside DEF StepOf, LockCall, Out
<1>4. CASE LeaveZero(c)
    <2>1. Release(c, {WAL_READ_LOCK(0)}) /\ Goto(c, "choose") /\ UNCHANGED readMark
        BY <1>4 DEF LeaveZero, shm
    <2> QED
        BY <2>1, NoMarkMoved, Outside DEF StepOf, LockCall, Out
<1>5. CASE WriteWalHdr(c) \/ SyncWalHdr(c)
    <2>1. UNCHANGED lockVars /\ UNCHANGED readMark /\ (Goto(c, "synchdr") \/ Goto(c, "log"))
        BY <1>5 DEF WriteWalHdr, SyncWalHdr, shm
    <2> QED
        BY <2>1, NoMarkMoved, Outside DEF StepOf, LockCall, Out
<1>6. CASE WriteFrame(c)
    <2>1. UNCHANGED lockVars /\ UNCHANGED readMark /\ (Goto(c, "publish") \/ Goto(c, "log"))
        BY <1>6 DEF WriteFrame, shm
    <2> QED
        BY <2>1, NoMarkMoved, Outside DEF StepOf, LockCall, Out
<1>7. CASE FailWrite(c) \/ Publish(c)
    <2>1. UNCHANGED lockVars /\ UNCHANGED readMark /\ Goto(c, "read")
        BY <1>7 DEF FailWrite, Publish, shm
    <2> QED
        BY <2>1, NoMarkMoved, Outside DEF StepOf, LockCall, Out
<1> QED
    BY <1>1, <1>2, <1>3, <1>4, <1>5, <1>6, <1>7 DEF WriteTransaction

LEMMA CheckpointSteps ==
    ASSUME WalInv, NEW c \in Conn, Checkpoint(c)
    PROVE  StepOf(c)
<1>1. CASE BeginCheckpoint(c)
    <2>1. Exclude(c, {WAL_CKPT_LOCK}) /\ Goto(c, "checkpoint") /\ UNCHANGED readMark
        BY <1>1 DEF BeginCheckpoint, shm
    <2> QED
        BY <2>1, NoMarkMoved, Outside DEF StepOf, LockCall, Out
<1>2. CASE SomethingToDo(c)
    <2>1. UNCHANGED lockVars /\ Goto(c, "limit") /\ UNCHANGED readMark
        BY <1>2 DEF SomethingToDo, shm
    <2> QED
        BY <2>1, NoMarkMoved, Outside DEF StepOf, LockCall, Out
<1>3. CASE LimitByMark(c)
    <2> DEFINE i == at[c][1]
    <2>1. /\ pc[c] = "limit" /\ UNCHANGED pc /\ UNCHANGED lockVars
          /\ i \in Mark
          /\ \/ UNCHANGED readMark
             \/ /\ CanExclude({WAL_READ_LOCK(i)})
                /\ \E x : readMark' = [readMark EXCEPT ![i] = x]
        BY <1>3 DEF LimitByMark
    <2> HIDE DEF i
    <2>2. ASSUME CanExclude({WAL_READ_LOCK(i)}), \E x : readMark' = [readMark EXCEPT ![i] = x]
          PROVE  MovesFreeMarks(c)
        <3>1. \A d \in Conn : WAL_READ_LOCK(i) \notin shared[d]
            BY <2>1, <2>2, FreeMarks
        <3>2. /\ readMark' = [j \in Mark |-> readMark'[j]]
              /\ \A j \in Mark : readMark'[j] # readMark[j] => j = i
            BY <2>2 DEF WalInv, LocksTyped
        <3> QED
            BY <2>1, <3>1, <3>2 DEF MovesFreeMarks
    <2>3. MovesFreeMarks(c)
        BY <2>1, <2>2, NoMarkMoved
    <2>4. Arrives(c, pc[c])
        BY <2>1, Stays DEF Out
    <2> QED
        BY <2>1, <2>3, <2>4 DEF StepOf, LockCall
<1>4. CASE SyncLog(c)
    <2>1. Exclude(c, {WAL_READ_LOCK(0)}) /\ Goto(c, "backfill") /\ UNCHANGED readMark
        BY <1>4 DEF SyncLog, shm
    <2> QED
        BY <2>1, NoMarkMoved, Outside DEF StepOf, LockCall, Out
<1>5. CASE BackfillPage(c)
    <2>1. UNCHANGED lockVars /\ UNCHANGED readMark /\ UNCHANGED pc /\ pc[c] = "backfill"
        BY <1>5 DEF BackfillPage, shm
    <2>2. Arrives(c, pc[c])
        BY <2>1, Stays DEF Out
    <2> QED
        BY <2>1, <2>2, NoMarkMoved DEF StepOf, LockCall
<1>8. CASE FailSyncLog(c)
    <2>1. Exclude(c, {WAL_READ_LOCK(0)}) /\ Goto(c, "checkpointed") /\ UNCHANGED readMark
        BY <1>8 DEF FailSyncLog, shm
    <2> QED
        BY <2>1, NoMarkMoved, Outside DEF StepOf, LockCall, Out
<1>6. CASE FailBackfill(c) \/ Backfilled(c)
    <2>1. UNCHANGED lockVars /\ UNCHANGED readMark /\ Goto(c, "checkpointed")
        BY <1>6 DEF FailBackfill, Backfilled, shm
    <2> QED
        BY <2>1, NoMarkMoved, Outside DEF StepOf, LockCall, Out
<1>7. CASE EndCheckpoint(c)
    <2>1. Release(c, Slot) /\ Leave(c) /\ UNCHANGED readMark
        BY <1>7 DEF EndCheckpoint, shm
    <2> QED
        BY <2>1, NoMarkMoved, LeftOrRetried DEF StepOf, LockCall
<1> QED
    BY <1>1, <1>2, <1>3, <1>4, <1>5, <1>6, <1>7, <1>8 DEF Checkpoint

\* A crash leaves nobody with a lock.
LEMMA CrashSteps ==
    ASSUME Kill \/ PowerLoss
    PROVE  /\ WalInv'
           /\ \A c \in Conn : shared'[c] = {}
<1>1. Stop
    BY DEF Kill, PowerLoss
<1>2. /\ shared' = [c \in Conn |-> {}]
      /\ exclusive' = [c \in Conn |-> {}]
      /\ pc' = [c \in Conn |-> "idle"]
      /\ readMark' = [i \in Mark |-> 0]
    BY <1>1 DEF Stop, Each
<1> QED
    BY <1>2 DEF WalInv, LocksTyped, LocksExclude, MoversHoldMarks

-----------------------------------------------------------------------------
\* One connection writes at a time.
OneWriter == \A c, d \in Conn : IsWriter(c) /\ IsWriter(d) => c = d

LEMMA WalInitially == Init => WalInv
BY DEF Init, LocksInit, LocksFree, Each, WalInv, LocksTyped, LocksExclude, MoversHoldMarks

\* A step is one connection's, or a crash.
LEMMA WhoSteps ==
    ASSUME WalInv, Next
    PROVE  (\E c \in Conn : StepOf(c)) \/ Kill \/ PowerLoss
BY RecoverySteps, ReaderSteps, WriterSteps, CheckpointSteps, WalAssumption DEF Next

LEMMA WalStep == WalInv /\ [Next]_vars => WalInv'
<1> SUFFICES ASSUME WalInv, [Next]_vars PROVE WalInv'
    OBVIOUS
<1>1. CASE Next
    BY <1>1, WhoSteps, StepKeeps, CrashSteps
<1>2. CASE UNCHANGED vars
    BY <1>2 DEF vars, shm, lockVars, conns, WalInv, LocksTyped, LocksExclude, MoversHoldMarks
<1> QED
    BY <1>1, <1>2

LEMMA WalInvariant == Spec => []WalInv
BY WalInitially, WalStep, PTL DEF Spec

\* walTryBeginRead, walRestartHdr and walCheckpoint move a mark only while
\* nobody holds it: the frame up to which a reader reads is its own until it
\* ends, for any number of readers, marks, restarts of the log and crashes.
THEOREM ReadersKeepTheirMarks == Spec => HeldMarksStay
<1> DEFINE Stays1(i) == (\E c \in Conn : /\ WAL_READ_LOCK(i) \in shared[c] \cap shared'[c]
                                         /\ pc[c] = "read" /\ pc'[c] = "read")
                            => readMark'[i] = readMark[i]
<1>1. WalInv /\ [Next]_vars => [\A i \in Mark : Stays1(i)]_vars
    <2> SUFFICES ASSUME WalInv, Next, NEW i \in Mark, NEW d \in Conn,
                        WAL_READ_LOCK(i) \in shared[d] \cap shared'[d], pc[d] = "read"
                 PROVE  readMark'[i] = readMark[i]
        OBVIOUS
    <2>1. ASSUME NEW c \in Conn, StepOf(c)
          PROVE  readMark'[i] = readMark[i]
        BY <2>1, StepLeavesHeldMarks
    <2>2. CASE Kill \/ PowerLoss
        BY <2>2, CrashSteps
    <2> QED
        BY <2>1, <2>2, WhoSteps
<1> QED
    BY <1>1, WalInvariant, PTL DEF Spec, HeldMarksStay

\* However transactions, restarts, failed writes, checkpoints and crashes
\* interleave, one connection is in a write transaction at a time, and none
\* while the index is rebuilt (WRITE_LOCK, sqlite3WalBeginWriteTransaction).
THEOREM WritersAreAlone == Spec => []OneWriter
<1>1. WalInv => OneWriter
    BY DEF WalInv, LocksExclude, OneWriter, IsWriter
<1> QED
    BY <1>1, WalInvariant, PTL

-----------------------------------------------------------------------------
(***************************************************************************)
(* What a reader sees: the pages copied to the database and the frames     *)
(* that are not make up the last content committed, as long as no          *)
(* checkpoint begins on a log that is wholly copied.  The invariant and    *)
(* its steps are here, but for a power loss; WalRecoveryProofs adds what   *)
(* the files hold and draws the conclusions.                               *)
(***************************************************************************)

-----------------------------------------------------------------------------
(***************************************************************************)
(* Least, greatest, last.                                                  *)
(***************************************************************************)

LEMMA LeastOf ==
    ASSUME NEW S \in SUBSET Nat, S # {}
    PROVE  Least(S) \in S
<1>1. PICK x \in S : \A y \in S : <<y, x>> \notin OpToRel(<, Nat)
    BY WFMin, NatLessThanWellFounded, Zenon
<1>2. \A y \in S : ~(y < x)
    BY <1>1, Zenon DEF OpToRel
<1>3. \A y \in S : x <= y
    BY <1>2
<1> QED
    BY <1>3, Zenon DEF Least

LEMMA GreatestOf ==
    ASSUME NEW n \in Nat, NEW S \in SUBSET (0..n), S # {}
    PROVE  Greatest(S) \in S /\ \A x \in S : x <= Greatest(S)
<1> DEFINE T == {n - x : x \in S}
<1>1. T \in SUBSET Nat /\ T # {}
    <2>1. \A x \in S : n - x \in Nat
        OBVIOUS
    <2> QED
        BY <2>1
<1>2. PICK t \in T : \A u \in T : <<u, t>> \notin OpToRel(<, Nat)
    BY <1>1, WFMin, NatLessThanWellFounded, Zenon
<1>3. \A u \in T : ~(u < t)
    BY <1>1, <1>2, Zenon DEF OpToRel
<1>4. PICK x \in S : t = n - x
    OBVIOUS
<1>5. \A y \in S : n - y \in T /\ ~(n - y < n - x)
    BY <1>3, <1>4
<1>6. \A y \in S : x >= y
    BY <1>5
<1>7. Greatest(S) \in S /\ \A y \in S : Greatest(S) >= y
    BY <1>6, Zenon DEF Greatest
<1> QED
    BY <1>7

\* f is the last frame of page p from lo to hi; 0 if there is none.
LastIn(frames, f, p, lo, hi) ==
    \/ f = 0 /\ \A g \in lo..hi : frames[g].page # p
    \/ f \in lo..hi /\ frames[f].page = p /\ \A g \in (f + 1)..hi : frames[g].page # p

LEMMA OneLast ==
    ASSUME NEW frames, NEW p, NEW lo \in Nat \ {0}, NEW hi \in Nat, NEW f, NEW g,
           LastIn(frames, f, p, lo, hi), LastIn(frames, g, p, lo, hi)
    PROVE  f = g
BY DEF LastIn

LEMMA LastKept ==
    ASSUME NEW frames, NEW others, NEW p, NEW lo \in Nat \ {0}, NEW hi \in Nat, NEW f \in Nat,
           \A g \in 1..hi : others[g] = frames[g], LastIn(others, f, p, lo, hi)
    PROVE  LastIn(frames, f, p, lo, hi)
<1>1. \A g \in lo..hi : others[g] = frames[g]
    OBVIOUS
<1>2. f \in lo..hi => \A g \in (f + 1)..hi : g \in lo..hi
    OBVIOUS
<1> QED
    BY <1>1, <1>2 DEF LastIn

LEMMA LastBelow ==
    ASSUME NEW frames, NEW p, NEW lo \in Nat \ {0}, NEW mid \in Nat, NEW hi \in Nat,
           lo <= mid + 1, mid <= hi, NEW f \in Nat,
           \A g \in (mid + 1)..hi : frames[g].page # p
    PROVE  LastIn(frames, f, p, lo, hi) <=> LastIn(frames, f, p, lo, mid)
<1>1. \A g \in lo..hi : g \in lo..mid \/ g \in (mid + 1)..hi
    OBVIOUS
<1>2. \A g \in lo..mid : g \in lo..hi
    OBVIOUS
<1>3. \A g \in (f + 1)..mid : g \in (f + 1)..hi
    OBVIOUS
<1>4. \A g \in (f + 1)..hi : g \in (f + 1)..mid \/ g \in (mid + 1)..hi
    OBVIOUS
<1> QED
    BY <1>1, <1>2, <1>3, <1>4, Zenon DEF LastIn

\* sqlite3WalFindFrame finds it.
LEMMA FindsLast ==
    ASSUME NEW frames, NEW pages, NEW p, NEW lo \in Nat \ {0}, NEW hi \in Nat,
           hi <= Len(pages), Len(pages) \in Nat, \A g \in lo..hi : pages[g] = frames[g].page
    PROVE  LastIn(frames, FindFrame(pages, p, lo, hi), p, lo, hi)
<1> DEFINE S == {0} \cup {f \in lo..hi : f <= Len(pages) /\ pages[f] = p}
<1>1. S \in SUBSET (0..hi) /\ S # {}
    OBVIOUS
<1>2. Greatest(S) \in S /\ \A x \in S : x <= Greatest(S)
    BY <1>1, GreatestOf
<1>3. \A f \in lo..hi : f \in S <=> frames[f].page = p
    OBVIOUS
<1>4. FindFrame(pages, p, lo, hi) = Greatest(S)
    BY DEF FindFrame
<1>5. Greatest(S) \in 0..hi
    BY <1>1, <1>2
<1> DEFINE m == Greatest(S)
<1> HIDE DEF S, m
<1>6. m \in 0..hi /\ m \in S /\ \A x \in S : x <= m
    BY <1>2, <1>5 DEF m
<1>7. m = 0 \/ m \in lo..hi
    BY <1>6 DEF S
<1>8. \A g \in lo..hi : g > m => frames[g].page # p
    BY <1>3, <1>6
<1>9. LastIn(frames, m, p, lo, hi)
    BY <1>3, <1>6, <1>7, <1>8 DEF LastIn
<1> QED
    BY <1>4, <1>9 DEF m

-----------------------------------------------------------------------------
(***************************************************************************)
(* The invariant.                                                          *)
(***************************************************************************)
ZERO == WAL_READ_LOCK(0)

AnyHdr == [isInit : BOOLEAN, salt : Nat, mxFrame : Nat]
AnyFrame == [salt : Nat, page : Nat, tx : Int, commit : BOOLEAN, after : Nat \X Int]
AnyWork == [tx : Nat, pages : SUBSET Page, done : SUBSET Page]

FilesTyped ==
    /\ db \in [Page -> Int]
    /\ wal \in [salt : Nat, frames : Seq(AnyFrame)]
    /\ hdr \in AnyHdr /\ nBackfill \in Nat /\ readMark \in [Mark -> Nat] /\ index \in Seq(Nat)
    /\ iterator \in [Page -> Nat]
    /\ history \in Seq([Page -> Int]) /\ history # <<>>
    /\ count \in [tx : Nat, salt : Nat, checkpoints : Nat, faults : Nat]

ConnsTyped ==
    /\ shared = [c \in Conn |-> shared[c]] /\ exclusive \in [Conn -> SUBSET Slot]
    /\ pc = [c \in Conn |-> pc[c]]
    /\ my \in [Conn -> AnyHdr] /\ minFrame \in [Conn -> Nat] /\ at \in [Conn -> Nat \X Nat]
    /\ work \in [Conn -> AnyWork]

Writing == {"restartlog", "restart", "restarted", "frames", "synchdr", "log", "publish"}
Free == {"idle", "choose", "lock", "check", "read"}
Transacting == Free \cup {"recover"} \cup Writing
Copying == {"checkpoint", "limit", "backfill"}
Checkpointing == Copying \cup {"checkpointed"}

\* Which locks a connection holds where, and a transaction before its frames.
Own(c) ==
    /\ exclusive[c] \cap shared[c] = {}
    /\ pc[c] \in IF c \in Checkpointer THEN {"idle"} \cup Checkpointing ELSE Transacting
    /\ pc[c] \in Free => exclusive[c] = {} \/ (pc[c] # "idle" /\ WAL_WRITE_LOCK \in exclusive[c])
    /\ pc[c] = "lock" => at[c][1] \in Mark
    /\ pc[c] \in Writing => WAL_WRITE_LOCK \in exclusive[c]
    /\ pc[c] \in Checkpointing => WAL_CKPT_LOCK \in exclusive[c] /\ WAL_WRITE_LOCK \notin exclusive[c]
    /\ pc[c] = "backfill" => ZERO \in exclusive[c]
    /\ ZERO \in shared[c] => pc[c] \in {"read", "restartlog", "restart", "restarted"}
    /\ WAL_WRITE_LOCK \in exclusive[c] /\ pc[c] \notin {"read", "recover", "log", "publish"} =>
           work[c].done = {} /\ work[c].pages # {}

\* Headers are written in the order of their salts and frames.
Before(h, k) == h.salt < k.salt \/ (h.salt = k.salt /\ h.mxFrame <= k.mxFrame)

\* Who reads the database alone with the latest header has all of the log in it.
ZeroReads(c) ==
    ZERO \in shared[c] /\ pc[c] \in {"read", "restartlog"} =>
        Before(my[c], hdr) /\ (my[c] = hdr => nBackfill = hdr.mxFrame)

Restarts(c) ==
    /\ pc[c] = "recover" => nBackfill = 0
    /\ pc[c] = "restartlog" => ZERO \in shared[c] /\ my[c] = hdr
    /\ pc[c] = "restart" => hdr.mxFrame = 0 /\ nBackfill > 0

\* The frames of the transaction of c follow those of the header.
LogHolds(c) ==
    LET first == my[c].mxFrame + 1
        last == my[c].mxFrame + Cardinality(work[c].done)
    IN  /\ last <= Len(wal.frames)
        /\ \A f \in first..last : /\ wal.frames[f].page \in work[c].done
                                   /\ wal.frames[f].tx = work[c].tx
        /\ \A p \in work[c].done : \E f \in first..last : wal.frames[f].page = p

Writes(c) ==
    /\ pc[c] = "frames" => my[c] = hdr
    /\ pc[c] \in {"synchdr", "log", "publish"} =>
           my[c].isInit /\ my[c].mxFrame = hdr.mxFrame /\ my[c].salt >= hdr.salt
    /\ pc[c] = "log" =>
           LogHolds(c) /\ work[c].done \subseteq work[c].pages /\ work[c].pages # work[c].done
    /\ pc[c] = "publish" => LogHolds(c) /\ work[c].pages = work[c].done /\ work[c].pages # {}

InRange(c, f) == f \in minFrame[c]..at[c][2]

\* A checkpoint copies frames its header has, and the log is not restarted.
Copies(c) ==
    /\ pc[c] \in Copying => nBackfill < my[c].mxFrame /\ my[c].mxFrame <= hdr.mxFrame
    /\ pc[c] \in {"limit", "backfill"} =>
           /\ at[c][2] <= my[c].mxFrame
           /\ \A p \in Page : LastIn(wal.frames, iterator[p], p, 1, my[c].mxFrame)
    /\ pc[c] = "backfill" =>
           /\ nBackfill < at[c][2] /\ minFrame[c] = nBackfill + 1
           /\ \A p \in Page \ work[c].pages :
                 InRange(c, iterator[p]) => db[p] = wal.frames[iterator[p]].tx

Salted(c) == my[c].salt <= count.salt

\* Until the wal-index is built nothing is done.
Pristine ==
    ~hdr.isInit => (\A c \in Conn : pc[c] = "idle") /\ hdr.mxFrame = 0 /\ nBackfill = 0

Mirrors ==
    /\ hdr.mxFrame <= Len(index) /\ hdr.mxFrame <= Len(wal.frames)
    /\ \A f \in 1..hdr.mxFrame : index[f] = wal.frames[f].page

\* The frames from lo to hi, over a base, make up a content.
Makes(base, frames, lo, hi, content) ==
    \A p \in Page : \A f \in Nat :
        LastIn(frames, f, p, lo, hi) => content[p] = IF f = 0 THEN base[p] ELSE frames[f].tx

Shows(lo, hi) == Makes(db, wal.frames, lo, hi, LastOf(history))

Seen == hdr.isInit => Shows(nBackfill + 1, hdr.mxFrame)

\* What walIndexRecover would rebuild shows the last content committed.
Rebuildable == ~hdr.isInit => wal.salt <= count.salt /\ Shows(1, RecoveredHdr(wal).mxFrame)

Ahead == nBackfill > hdr.mxFrame => \E c \in Conn : pc[c] = "restart"

Part(c) == Own(c) /\ ZeroReads(c) /\ Restarts(c) /\ Writes(c) /\ Copies(c) /\ Salted(c)
Whole == FilesTyped /\ Pristine /\ Mirrors /\ Seen /\ Ahead /\ hdr.salt <= count.salt
ContentInv == WalInv /\ ConnsTyped /\ Whole /\ \A c \in Conn : Part(c)

-----------------------------------------------------------------------------
(***************************************************************************)
(* What a step of one connection leaves to the others.                     *)
(***************************************************************************)
Same(d) ==
    /\ pc'[d] = pc[d] /\ shared'[d] = shared[d] /\ exclusive'[d] = exclusive[d]
    /\ my'[d] = my[d] /\ minFrame'[d] = minFrame[d] /\ at'[d] = at[d] /\ work'[d] = work[d]

Apart(c) == \A d \in Conn \ {c} : Same(d)

SameHdr == hdr' = hdr /\ nBackfill' = nBackfill
SameFrames == wal'.frames = wal.frames
SameCopies == db' = db /\ iterator' = iterator
MoreSalt == count'.salt \in Nat /\ count.salt <= count'.salt

LEMMA OwnKept ==
    ASSUME NEW d \in Conn, Own(d), Same(d)
    PROVE  Own(d)'
BY DEF Own, Same

LEMMA ZeroKept ==
    ASSUME NEW d \in Conn, ZeroReads(d), Same(d), SameHdr
    PROVE  ZeroReads(d)'
BY DEF ZeroReads, Same, SameHdr, Before

LEMMA RestartsKept ==
    ASSUME NEW d \in Conn, Restarts(d), Same(d), SameHdr
    PROVE  Restarts(d)'
BY DEF Restarts, Same, SameHdr

LEMMA WritesKept ==
    ASSUME NEW d \in Conn, Writes(d), Same(d), SameHdr, SameFrames
    PROVE  Writes(d)'
BY DEF Writes, Same, SameHdr, SameFrames, LogHolds

\* A checkpoint does not look beyond the frames of the header.
LEMMA CopiesKept ==
    ASSUME NEW d \in Conn, ConnsTyped, FilesTyped, Copies(d), Same(d), SameCopies,
           nBackfill' = nBackfill, hdr'.mxFrame \in Nat, hdr.mxFrame <= hdr'.mxFrame,
           \A f \in 1..hdr.mxFrame : wal'.frames[f] = wal.frames[f]
    PROVE  Copies(d)'
<1> DEFINE mx == my[d].mxFrame
<1>1. /\ pc'[d] = pc[d] /\ my'[d] = my[d] /\ at'[d] = at[d] /\ work'[d] = work[d]
      /\ minFrame'[d] = minFrame[d] /\ iterator' = iterator /\ db' = db
    BY DEF Same, SameCopies
<1>2. mx \in Nat /\ hdr.mxFrame \in Nat /\ at[d][2] \in Nat /\ minFrame[d] \in Nat
    BY DEF ConnsTyped, FilesTyped, AnyHdr
<1>3. CASE pc[d] \notin Copying
    BY <1>1, <1>3 DEF Copies, Copying
<1>4. CASE pc[d] \in Copying
    <2>1. nBackfill < mx /\ mx <= hdr.mxFrame
        BY <1>4 DEF Copies
    <2>2. \A f \in 1..mx : wal'.frames[f] = wal.frames[f]
        BY <1>2, <2>1
    <2>3. ASSUME pc[d] \in {"limit", "backfill"}
          PROVE  /\ at[d][2] <= mx
                 /\ \A q \in Page : LastIn(wal'.frames, iterator[q], q, 1, mx)
        <3>1. at[d][2] <= mx /\ \A q \in Page : LastIn(wal.frames, iterator[q], q, 1, mx)
            BY <2>3 DEF Copies
        <3>2. ASSUME NEW q \in Page
              PROVE  LastIn(wal'.frames, iterator[q], q, 1, mx)
            <4>1. LastIn(wal.frames, iterator[q], q, 1, mx)
                BY <3>1
            <4> HIDE DEF mx
            <4> QED
                BY <1>2, <2>2, <4>1 DEF LastIn
        <3> QED
            BY <3>1, <3>2
    <2>4. ASSUME pc[d] = "backfill"
          PROVE  /\ nBackfill < at[d][2] /\ minFrame[d] = nBackfill + 1
                 /\ \A q \in Page \ work[d].pages :
                       InRange(d, iterator[q]) => db[q] = wal'.frames[iterator[q]].tx
        <3>1. /\ nBackfill < at[d][2] /\ minFrame[d] = nBackfill + 1
              /\ \A q \in Page \ work[d].pages :
                       InRange(d, iterator[q]) => db[q] = wal.frames[iterator[q]].tx
            BY <2>4 DEF Copies
        <3>2. \A f : InRange(d, f) => f \in 1..mx
            <4>1. nBackfill \in Nat /\ at[d][2] <= mx
                BY <2>3, <2>4 DEF FilesTyped
            <4> HIDE DEF mx
            <4> QED
                BY <1>2, <3>1, <4>1 DEF InRange
        <3> QED
            BY <2>2, <3>1, <3>2
    <2>5. \A f : InRange(d, f)' <=> InRange(d, f)
        BY <1>1 DEF InRange
    <2>6. my'[d].mxFrame = mx /\ nBackfill < mx /\ mx <= hdr'.mxFrame
        BY <1>1, <1>2, <2>1
    <2> HIDE DEF mx
    <2> QED
        BY <1>1, <1>4, <2>3, <2>4, <2>5, <2>6 DEF Copies, Copying
<1> QED
    BY <1>3, <1>4

LEMMA SaltedKept ==
    ASSUME NEW d \in Conn, ConnsTyped, FilesTyped, Salted(d), Same(d), MoreSalt
    PROVE  Salted(d)'
<1>1. my[d] \in AnyHdr /\ count.salt \in Nat
    BY DEF ConnsTyped, FilesTyped
<1>2. my[d].salt \in Nat
    BY <1>1 DEF AnyHdr
<1> QED
    BY <1>1, <1>2 DEF Salted, Same, MoreSalt

\* A step that changes none of what the others build on.
LEMMA PartKept ==
    ASSUME NEW d \in Conn, ConnsTyped, FilesTyped, Mirrors, Part(d), Same(d),
           SameHdr, SameFrames, SameCopies, MoreSalt
    PROVE  Part(d)'
<1>1. hdr'.mxFrame \in Nat /\ hdr.mxFrame <= hdr'.mxFrame /\ nBackfill' = nBackfill
    BY DEF SameHdr, FilesTyped, AnyHdr
<1>2. \A f \in 1..hdr.mxFrame : wal'.frames[f] = wal.frames[f]
    BY DEF SameFrames
<1> QED
    BY <1>1, <1>2, OwnKept, ZeroKept, RestartsKept, WritesKept, CopiesKept, SaltedKept DEF Part

-----------------------------------------------------------------------------
\* Whoever holds WRITE_LOCK is alone in writing, restarting and recovering.
LEMMA OnlyWriter ==
    ASSUME ContentInv, NEW c \in Conn, WAL_WRITE_LOCK \in exclusive[c], NEW d \in Conn \ {c}
    PROVE  /\ WAL_WRITE_LOCK \notin exclusive[d]
           /\ pc[d] \notin Writing \cup {"recover"}
<1>1. WAL_WRITE_LOCK \notin exclusive[d]
    BY DEF ContentInv, WalInv, LocksExclude
<1>2. Own(d)
    BY DEF ContentInv, Part
<1>3. pc[d] # "recover"
    BY <1>1, MarkSlots DEF ContentInv, WalInv, MoversHoldMarks
<1> QED
    BY <1>1, <1>2, <1>3 DEF Own

\* Whoever holds CKPT_LOCK is alone in checkpointing.
LEMMA OnlyCheckpoint ==
    ASSUME ContentInv, NEW c \in Conn, WAL_CKPT_LOCK \in exclusive[c], NEW d \in Conn \ {c}
    PROVE  pc[d] \notin Checkpointing
<1>1. WAL_CKPT_LOCK \notin exclusive[d]
    BY DEF ContentInv, WalInv, LocksExclude
<1>2. Own(d)
    BY DEF ContentInv, Part
<1> QED
    BY <1>1, <1>2 DEF Own

\* Nobody does anything before the wal-index is built.
LEMMA Built ==
    ASSUME ContentInv, NEW c \in Conn, pc[c] # "idle"
    PROVE  hdr.isInit
BY DEF ContentInv, Whole, Pristine

\* The content does not change when nothing it is made of does.
SameContent == SameHdr /\ SameFrames /\ db' = db /\ index' = index /\ history' = history

LEMMA WholeKept ==
    ASSUME ContentInv, NEW c \in Conn, Apart(c), SameContent, FilesTyped', MoreSalt,
           hdr.isInit, pc[c] # "restart" \/ hdr.mxFrame >= nBackfill'
    PROVE  Whole'
<1>1. Whole
    BY DEF ContentInv
<1>2. Pristine'
    BY DEF Pristine, SameContent, SameHdr
<1>3. Mirrors'
    BY <1>1 DEF Whole, Mirrors, SameContent, SameHdr, SameFrames
<1>4. Seen'
    BY <1>1 DEF Whole, Seen, Shows, Makes, SameContent, SameHdr, SameFrames
<1>5. Ahead'
    <2>1. CASE nBackfill > hdr.mxFrame
        <3>1. PICK d \in Conn : pc[d] = "restart"
            BY <1>1, <2>1 DEF Whole, Ahead
        <3>2. d # c
            <4>1. nBackfill' = nBackfill /\ nBackfill \in Nat /\ hdr.mxFrame \in Nat
                BY <1>1 DEF Whole, FilesTyped, AnyHdr, SameContent, SameHdr
            <4> QED
                BY <2>1, <3>1, <4>1
        <3> QED
            BY <3>1, <3>2 DEF Apart, Same, Ahead
    <2>2. CASE ~(nBackfill > hdr.mxFrame)
        BY <2>2 DEF Ahead, SameContent, SameHdr
    <2> QED
        BY <2>1, <2>2
<1>6. hdr'.salt <= count'.salt
    BY <1>1 DEF Whole, SameContent, SameHdr, MoreSalt, FilesTyped, AnyHdr
<1> QED
    BY <1>2, <1>3, <1>4, <1>5, <1>6 DEF Whole

\* A step that changes nothing the others build on: only the part of the
\* connection that takes it is left to be shown.
LEMMA Quietly ==
    ASSUME ContentInv, NEW c \in Conn, Apart(c), WalInv', ConnsTyped', FilesTyped', MoreSalt,
           SameContent, iterator' = iterator, pc[c] # "restart", hdr.isInit, Part(c)'
    PROVE  ContentInv'
<1>1. Whole'
    BY WholeKept
<1>2. ASSUME NEW d \in Conn \ {c} PROVE Part(d)'
    <2>1. Part(d) /\ Same(d) /\ ConnsTyped /\ FilesTyped /\ Mirrors
        BY DEF ContentInv, Apart, Whole
    <2>2. SameHdr /\ SameFrames /\ SameCopies
        BY DEF SameContent, SameCopies
    <2> QED
        BY <2>1, <2>2, PartKept
<1> QED
    BY <1>1, <1>2 DEF ContentInv

\* A connection that holds no lock of writers or checkpoints owes nothing but
\* its header.
LEMMA FreeStep ==
    ASSUME ContentInv, NEW c \in Conn, Apart(c), WalInv', ConnsTyped', FilesTyped', MoreSalt,
           SameContent, iterator' = iterator, pc[c] # "restart", hdr.isInit,
           Own(c)', Salted(c)', pc'[c] \in Free, ZERO \notin shared'[c]
    PROVE  ContentInv'
<1>1. Part(c)'
    BY DEF Part, Free, ZeroReads, Restarts, Writes, Copies, Copying
<1> QED
    BY <1>1, Quietly

\* The locks after a call.
LocksGo(c) ==
    /\ shared' = [d \in Conn |-> shared'[d]] /\ exclusive' \in [Conn -> SUBSET Slot]
    /\ \A d \in Conn \ {c} : shared'[d] = shared[d] /\ exclusive'[d] = exclusive[d]

LEMMA LocksMoved ==
    ASSUME ConnsTyped, NEW c \in Conn,
           \/ UNCHANGED lockVars
           \/ \E slot : Share(c, slot)
           \/ \E slots \in SUBSET Slot : Exclude(c, slots)
           \/ \E slots : Release(c, slots)
    PROVE  LocksGo(c)
<1>0. shared = [d \in Conn |-> shared[d]] /\ exclusive \in [Conn -> SUBSET Slot]
    BY DEF ConnsTyped
<1>1. CASE UNCHANGED lockVars
    BY <1>0, <1>1 DEF lockVars, LocksGo
<1>2. CASE \E slot : Share(c, slot)
    BY <1>0, <1>2 DEF Share, LocksGo
<1>3. CASE \E slots \in SUBSET Slot : Exclude(c, slots)
    BY <1>0, <1>3 DEF Exclude, LocksGo
<1>4. CASE \E slots : Release(c, slots)
    BY <1>0, <1>4 DEF Release, LocksGo
<1> QED
    BY <1>1, <1>2, <1>3, <1>4

\* The rest of what a connection has.
Turns(c, l, m, b, a, w) ==
    /\ LocksGo(c)
    /\ pc' = [pc EXCEPT ![c] = l]
    /\ m \in AnyHdr /\ my' = [my EXCEPT ![c] = m]
    /\ b \in Nat /\ minFrame' = [minFrame EXCEPT ![c] = b]
    /\ a \in Nat \X Nat /\ at' = [at EXCEPT ![c] = a]
    /\ w \in AnyWork /\ work' = [work EXCEPT ![c] = w]

Turned(c, l, m, b, a, w) ==
    /\ ConnsTyped' /\ Apart(c)
    /\ pc'[c] = l /\ my'[c] = m /\ minFrame'[c] = b /\ at'[c] = a /\ work'[c] = w

LEMMA RestMoved ==
    ASSUME ConnsTyped, NEW c \in Conn, NEW l, NEW m, NEW b, NEW a, NEW w, Turns(c, l, m, b, a, w)
    PROVE  Turned(c, l, m, b, a, w)
<1> USE DEF Turns
<1>1. /\ pc = [d \in Conn |-> pc[d]]
      /\ my \in [Conn -> AnyHdr] /\ minFrame \in [Conn -> Nat] /\ at \in [Conn -> Nat \X Nat]
      /\ work \in [Conn -> AnyWork]
    BY DEF ConnsTyped
<1>2. /\ pc' = [d \in Conn |-> pc'[d]] /\ pc'[c] = l
      /\ \A d \in Conn \ {c} : pc'[d] = pc[d]
    BY <1>1
<1>3. /\ my' \in [Conn -> AnyHdr] /\ my'[c] = m
      /\ \A d \in Conn \ {c} : my'[d] = my[d]
    BY <1>1
<1>4. /\ minFrame' \in [Conn -> Nat] /\ minFrame'[c] = b
      /\ \A d \in Conn \ {c} : minFrame'[d] = minFrame[d]
    BY <1>1
<1>5. /\ at' \in [Conn -> Nat \X Nat] /\ at'[c] = a
      /\ \A d \in Conn \ {c} : at'[d] = at[d]
    BY <1>1
<1>6. /\ work' \in [Conn -> AnyWork] /\ work'[c] = w
      /\ \A d \in Conn \ {c} : work'[d] = work[d]
    BY <1>1
<1> QED
    BY <1>2, <1>3, <1>4, <1>5, <1>6 DEF ConnsTyped, Apart, Same, Turned, LocksGo

\* What a connection leaves alone is set to what it was.
LEMMA LeftAlone ==
    ASSUME ConnsTyped, NEW c \in Conn
    PROVE  /\ UNCHANGED pc => pc' = [pc EXCEPT ![c] = pc[c]]
           /\ UNCHANGED my => my' = [my EXCEPT ![c] = my[c]]
           /\ UNCHANGED minFrame => minFrame' = [minFrame EXCEPT ![c] = minFrame[c]]
           /\ UNCHANGED at => at' = [at EXCEPT ![c] = at[c]]
           /\ UNCHANGED work => work' = [work EXCEPT ![c] = work[c]]
           /\ my[c] \in AnyHdr /\ minFrame[c] \in Nat /\ at[c] \in Nat \X Nat /\ work[c] \in AnyWork
           /\ my[c].mxFrame \in Nat /\ my[c].salt \in Nat /\ at[c][1] \in Nat /\ at[c][2] \in Nat
           /\ work[c].pages \in SUBSET Page /\ work[c].done \in SUBSET Page /\ work[c].tx \in Nat
           /\ NoHdr \in AnyHdr /\ NoWork \in AnyWork /\ <<0, 0>> \in Nat \X Nat
<1>1. my[c] \in AnyHdr /\ minFrame[c] \in Nat /\ at[c] \in Nat \X Nat /\ work[c] \in AnyWork
    BY DEF ConnsTyped
<1>2. /\ UNCHANGED pc => pc' = [pc EXCEPT ![c] = pc[c]]
      /\ UNCHANGED my => my' = [my EXCEPT ![c] = my[c]]
      /\ UNCHANGED minFrame => minFrame' = [minFrame EXCEPT ![c] = minFrame[c]]
      /\ UNCHANGED at => at' = [at EXCEPT ![c] = at[c]]
      /\ UNCHANGED work => work' = [work EXCEPT ![c] = work[c]]
    BY DEF ConnsTyped
<1>3. /\ my[c].mxFrame \in Nat /\ my[c].salt \in Nat /\ at[c][1] \in Nat /\ at[c][2] \in Nat
      /\ work[c].pages \in SUBSET Page /\ work[c].done \in SUBSET Page /\ work[c].tx \in Nat
    BY <1>1 DEF AnyHdr, AnyWork
<1>4. NoHdr \in AnyHdr /\ NoWork \in AnyWork /\ <<0, 0>> \in Nat \X Nat
    BY DEF NoHdr, NoWork, AnyHdr, AnyWork
<1> QED
    BY <1>1, <1>2, <1>3, <1>4

\* Files, header and counters stay.
LEMMA FilesLeft ==
    ASSUME ContentInv,
           UNCHANGED <<db, wal, hdr, nBackfill, index, iterator, history, count>>,
           readMark' \in [Mark -> Nat]
    PROVE  FilesTyped' /\ MoreSalt /\ SameContent /\ iterator' = iterator
BY DEF ContentInv, Whole, FilesTyped, MoreSalt, SameContent, SameHdr, SameFrames

-----------------------------------------------------------------------------
(***************************************************************************)
(* Readers.                                                                *)
(***************************************************************************)
LEMMA Numbers ==
    ASSUME ContentInv
    PROVE  /\ hdr \in AnyHdr /\ hdr.mxFrame \in Nat /\ hdr.salt \in Nat /\ hdr.isInit \in BOOLEAN
           /\ nBackfill \in Nat /\ count.salt \in Nat /\ count.tx \in Nat
           /\ hdr.salt <= count.salt
           /\ wal.frames \in Seq(AnyFrame) /\ Len(wal.frames) \in Nat
           /\ index \in Seq(Nat) /\ Len(index) \in Nat
<1>1. FilesTyped /\ hdr.salt <= count.salt
    BY DEF ContentInv, Whole
<1>2. hdr \in AnyHdr /\ wal \in [salt : Nat, frames : Seq(AnyFrame)] /\ index \in Seq(Nat)
    BY <1>1 DEF FilesTyped
<1>3. wal.frames \in Seq(AnyFrame)
    BY <1>2
<1>4. Len(wal.frames) \in Nat /\ Len(index) \in Nat
    BY <1>2, <1>3, LenProperties
<1>5. nBackfill \in Nat /\ count.salt \in Nat /\ count.tx \in Nat
    BY <1>1 DEF FilesTyped
<1> QED
    BY <1>1, <1>2, <1>3, <1>4, <1>5 DEF AnyHdr

LEMMA RetryMoves ==
    ASSUME ConnsTyped, NEW c \in Conn, Leave(c) \/ Retry(c), UNCHANGED work, LocksGo(c)
    PROVE  \/ Turned(c, "idle", NoHdr, 0, <<0, 0>>, work[c]) /\ (Leave(c) \/ ~IsWriter(c))
           \/ Turned(c, "choose", my[c], minFrame[c], at[c], work[c]) /\ IsWriter(c)
<1>1. ASSUME Leave(c) PROVE Turned(c, "idle", NoHdr, 0, <<0, 0>>, work[c])
    <2>1. Turns(c, "idle", NoHdr, 0, <<0, 0>>, work[c])
        BY <1>1, LeftAlone DEF Leave, Goto, Turns
    <2> QED
        BY <2>1, RestMoved
<1>2. ASSUME Retry(c), IsWriter(c) PROVE Turned(c, "choose", my[c], minFrame[c], at[c], work[c])
    <2>1. pc' = [pc EXCEPT ![c] = "choose"] /\ UNCHANGED <<my, minFrame, at>>
        BY <1>2 DEF Retry, Goto
    <2>2. Turns(c, "choose", my[c], minFrame[c], at[c], work[c])
        BY <2>1, LeftAlone DEF Turns
    <2> QED
        BY <2>2, RestMoved
<1>3. Retry(c) /\ ~IsWriter(c) => Leave(c)
    BY DEF Retry
<1> QED
    BY <1>1, <1>2, <1>3

LEMMA ReadHdrContent ==
    ASSUME ContentInv, WalInv', NEW c \in Conn \ Checkpointer, ReadHdr(c)
    PROVE  ContentInv'
<1>1. /\ pc[c] = "idle" /\ hdr.isInit
      /\ my' = [my EXCEPT ![c] = hdr] /\ pc' = [pc EXCEPT ![c] = "choose"]
      /\ UNCHANGED <<db, wal, hdr, nBackfill, readMark, index, iterator, history, count>>
      /\ UNCHANGED <<shared, exclusive, minFrame, at, work>>
    BY DEF ReadHdr, Goto, files, shm, lockVars, ghosts
<1>2. ConnsTyped /\ Own(c) /\ readMark \in [Mark -> Nat]
    BY DEF ContentInv, Part, Whole, FilesTyped
<1>3. Turns(c, "choose", hdr, minFrame[c], at[c], work[c])
    BY <1>1, <1>2, LocksMoved, LeftAlone, Numbers DEF lockVars, Turns
<1>4. /\ ConnsTyped' /\ Apart(c) /\ pc'[c] = "choose" /\ my'[c] = hdr /\ at'[c] = at[c]
      /\ work'[c] = work[c]
    BY <1>2, <1>3, RestMoved DEF Turned
<1>5. FilesTyped' /\ MoreSalt /\ SameContent /\ iterator' = iterator
    BY <1>1, <1>2, FilesLeft
<1>6. Own(c)' /\ ZERO \notin shared'[c]
    BY <1>1, <1>2, <1>4 DEF Own, Free, Transacting, Writing, Checkpointing, Copying
<1>7. Salted(c)'
    BY <1>1, <1>4, Numbers DEF Salted
<1> QED
    BY <1>1, <1>4, <1>5, <1>6, <1>7, FreeStep DEF Free

\* Back outside, or back to the choice of a mark.
LEMMA BackOut ==
    ASSUME ContentInv, WalInv', NEW c \in Conn \ Checkpointer, pc[c] \in Free \ {"idle"},
           UNCHANGED <<db, wal, hdr, nBackfill, readMark, index, iterator, history, count, work>>,
           LocksGo(c), ZERO \notin shared'[c], exclusive'[c] \cap shared'[c] = {},
           \/ Leave(c) /\ exclusive'[c] = {}
           \/ Retry(c) /\ pc[c] # "read" /\ exclusive'[c] = exclusive[c]
    PROVE  ContentInv'
<1>1. ConnsTyped /\ Own(c) /\ Salted(c) /\ readMark \in [Mark -> Nat]
    BY DEF ContentInv, Part, Whole, FilesTyped
<1>2. FilesTyped' /\ MoreSalt /\ SameContent /\ iterator' = iterator
    BY <1>1, FilesLeft
<1>3. hdr.isInit /\ pc[c] # "restart"
    BY Built DEF Free
<1>4. CASE Turned(c, "idle", NoHdr, 0, <<0, 0>>, work[c]) /\ (Leave(c) \/ ~IsWriter(c))
    <2>1. ConnsTyped' /\ Apart(c) /\ pc'[c] = "idle" /\ my'[c] = NoHdr
        BY <1>4 DEF Turned
    <2>2. exclusive'[c] = {}
        <3>1. CASE ~IsWriter(c)
            BY <1>1, <3>1 DEF Own, IsWriter
        <3>2. CASE IsWriter(c) /\ Retry(c)
            BY <1>1, <2>1, <3>2 DEF Retry, Goto, ConnsTyped
        <3> QED
            BY <3>1, <3>2
    <2>3. Own(c)'
        BY <2>1, <2>2 DEF Own, Free, Transacting, Writing, Checkpointing, Copying
    <2>4. Salted(c)'
        BY <2>1, Numbers DEF Salted, NoHdr
    <2> QED
        BY <1>2, <1>3, <2>1, <2>3, <2>4, FreeStep DEF Free
<1>5. CASE Turned(c, "choose", my[c], minFrame[c], at[c], work[c]) /\ IsWriter(c) /\ ~Leave(c)
    <2>1. /\ ConnsTyped' /\ Apart(c) /\ pc'[c] = "choose" /\ my'[c] = my[c] /\ at'[c] = at[c]
          /\ work'[c] = work[c]
        BY <1>5 DEF Turned
    <2>2. exclusive'[c] = exclusive[c] /\ WAL_WRITE_LOCK \in exclusive[c] /\ pc[c] # "read"
        BY <1>5 DEF IsWriter
    <2>3. Own(c)'
        BY <1>1, <2>1, <2>2 DEF Own, Free, Transacting, Writing, Checkpointing, Copying
    <2>4. Salted(c)'
        BY <1>1, <2>1 DEF Salted
    <2> QED
        BY <1>2, <1>3, <2>1, <2>3, <2>4, FreeStep DEF Free
<1>6. \/ Turned(c, "idle", NoHdr, 0, <<0, 0>>, work[c]) /\ (Leave(c) \/ ~IsWriter(c))
      \/ Turned(c, "choose", my[c], minFrame[c], at[c], work[c]) /\ IsWriter(c)
    BY <1>1, RetryMoves
<1>7. Leave(c) => Turned(c, "idle", NoHdr, 0, <<0, 0>>, work[c])
    BY <1>1, <1>6, LeftAlone, RestMoved DEF Leave, Goto, Turns
<1> QED
    BY <1>4, <1>5, <1>6, <1>7

LEMMA IgnoreLogContent ==
    ASSUME ContentInv, WalInv', NEW c \in Conn \ Checkpointer, IgnoreLog(c)
    PROVE  ContentInv'
<1>1. /\ pc[c] = "choose" /\ ~IsWriter(c) /\ nBackfill = my[c].mxFrame
      /\ UNCHANGED <<db, wal, hdr, nBackfill, readMark, index, iterator, history, count>>
      /\ UNCHANGED work
    BY DEF IgnoreLog, MayIgnoreLog, files, shm, ghosts
<1>2. ConnsTyped /\ Own(c) /\ Salted(c) /\ readMark \in [Mark -> Nat]
    BY DEF ContentInv, Part, Whole, FilesTyped
<1>3. CASE hdr = my[c]
    <2>1. /\ Share(c, ZERO) /\ pc' = [pc EXCEPT ![c] = "read"]
          /\ UNCHANGED <<my, minFrame, at>>
        BY <1>3 DEF IgnoreLog, Goto, ZERO
    <2>2. LocksGo(c)
        BY <1>2, <2>1, LocksMoved
    <2>3. Turns(c, "read", my[c], minFrame[c], at[c], work[c])
        BY <1>1, <1>2, <2>1, <2>2, LeftAlone DEF Turns
    <2>4. ConnsTyped' /\ Apart(c) /\ pc'[c] = "read" /\ my'[c] = my[c]
        BY <1>2, <2>3, RestMoved DEF Turned
    <2>5. exclusive[c] = {} /\ exclusive'[c] = {}
        BY <1>1, <1>2, <2>1 DEF Own, Free, IsWriter, Share
    <2>6. Own(c)'
        BY <2>4, <2>5 DEF Own, Free, Transacting, Writing, Checkpointing, Copying
    <2>7. ZeroReads(c)'
        BY <1>1, <1>3, <2>4, Numbers DEF ZeroReads, Before
    <2>8. Salted(c)'
        BY <1>1, <1>2, <2>4 DEF Salted
    <2>9. Part(c)'
        BY <2>4, <2>6, <2>7, <2>8 DEF Part, Restarts, Writes, Copies, Copying
    <2>10. FilesTyped' /\ MoreSalt /\ SameContent /\ iterator' = iterator
        BY <1>1, <1>2, FilesLeft
    <2> QED
        BY <1>1, <2>4, <2>9, <2>10, Built, Quietly
<1>4. CASE hdr # my[c]
    <2>1. Retry(c) /\ UNCHANGED lockVars
        BY <1>4 DEF IgnoreLog
    <2>2. LocksGo(c)
        BY <1>2, <2>1, LocksMoved
    <2>3. /\ ZERO \notin shared'[c] /\ exclusive'[c] \cap shared'[c] = {}
          /\ exclusive'[c] = exclusive[c]
        BY <1>1, <1>2, <2>1 DEF Own, lockVars
    <2> QED
        BY <1>1, <2>1, <2>2, <2>3, BackOut DEF Free
<1> QED
    BY <1>3, <1>4

LEMMA EndTransactionContent ==
    ASSUME ContentInv, WalInv', NEW c \in Conn \ Checkpointer, EndTransaction(c)
    PROVE  ContentInv'
<1>1. /\ pc[c] = "read" /\ Release(c, Slot) /\ Leave(c)
      /\ UNCHANGED <<db, wal, hdr, nBackfill, readMark, index, iterator, history, count>>
      /\ UNCHANGED work
    BY DEF EndTransaction, files, shm, ghosts
<1>2. ConnsTyped /\ Own(c)
    BY DEF ContentInv, Part
<1>3. LocksGo(c)
    BY <1>1, <1>2, LocksMoved
<1>4. exclusive'[c] = {} /\ ZERO \notin shared'[c]
    BY <1>1, <1>2, MarkSlots DEF Release, ConnsTyped, ZERO
<1> QED
    BY <1>1, <1>3, <1>4, BackOut DEF Free

\* The mark a reader takes is one of the marks.
LEMMA BestMark ==
    ASSUME NEW mx \in Nat, readMark \in [Mark -> Nat],
           NEW fit, fit = {i \in Mark : readMark[i] <= mx}, fit # {}
    PROVE  Greatest({i \in fit : \A j \in fit : readMark[j] <= readMark[i]}) \in fit
<1> DEFINE V == {readMark[i] : i \in fit}
           B == {i \in fit : \A j \in fit : readMark[j] <= readMark[i]}
<1>1. V \in SUBSET (0..mx) /\ V # {}
    OBVIOUS
<1>2. Greatest(V) \in V /\ \A x \in V : x <= Greatest(V)
    BY <1>1, GreatestOf
<1>3. PICK i \in fit : readMark[i] = Greatest(V)
    BY <1>2
<1>4. i \in B
    BY <1>2, <1>3
<1>5. B \in SUBSET (0..NMarks) /\ B # {} /\ NMarks \in Nat
    <2>1. NMarks \in Nat
        BY WalAssumption
    <2>2. Mark \subseteq 0..NMarks
        BY <2>1 DEF Mark
    <2>3. B \subseteq Mark
        OBVIOUS
    <2> QED
        BY <1>4, <2>1, <2>2, <2>3
<1>6. Greatest(B) \in B
    BY <1>5, GreatestOf
<1> QED
    BY <1>6

LEMMA ChooseMarkContent ==
    ASSUME ContentInv, WalInv', NEW c \in Conn \ Checkpointer, ChooseMark(c)
    PROVE  ContentInv'
<1> DEFINE mx == my[c].mxFrame
           fit == {i \in Mark : readMark[i] <= mx}
           best == Greatest({i \in fit : \A j \in fit : readMark[j] <= readMark[i]})
           free == {i \in Mark : CanExclude({WAL_READ_LOCK(i)})}
           Take(i, mark) == /\ at' = [at EXCEPT ![c] = <<i, mark>>]
                            /\ pc' = [pc EXCEPT ![c] = "lock"]
                            /\ UNCHANGED <<my, minFrame>>
<1>1. /\ pc[c] = "choose"
      /\ UNCHANGED <<db, wal, hdr, nBackfill, index, iterator, history, count>>
      /\ UNCHANGED <<shared, exclusive, work>>
      /\ \/ /\ \E i \in fit : readMark[i] = mx
            /\ Take(best, mx)
            /\ UNCHANGED readMark
         \/ /\ free # {}
            /\ readMark' = [readMark EXCEPT ![Least(free)] = mx]
            /\ Take(Least(free), mx)
         \/ IF fit = {} THEN Retry(c) /\ UNCHANGED readMark
                        ELSE Take(best, readMark[best]) /\ UNCHANGED readMark
    BY DEF ChooseMark, Goto, files, lockVars, ghosts
<1>2. ConnsTyped /\ Own(c) /\ Salted(c) /\ readMark \in [Mark -> Nat]
    BY DEF ContentInv, Part, Whole, FilesTyped
<1>3. mx \in Nat
    BY <1>2, LeftAlone
<1>4. fit # {} => best \in Mark
    BY <1>2, <1>3, BestMark
<1>5. free # {} => Least(free) \in Mark
    BY LeastMark
<1>6. LocksGo(c)
    BY <1>1, <1>2, LocksMoved DEF lockVars
<1>7. ASSUME NEW i \in Mark, NEW mark \in Nat, Take(i, mark), readMark' \in [Mark -> Nat]
      PROVE  ContentInv'
    <2>1. <<i, mark>> \in Nat \X Nat
        BY WalAssumption DEF Mark
    <2>2. Turns(c, "lock", my[c], minFrame[c], <<i, mark>>, work[c])
        BY <1>1, <1>2, <1>6, <1>7, <2>1, LeftAlone DEF Turns
    <2>3. /\ ConnsTyped' /\ Apart(c) /\ pc'[c] = "lock" /\ my'[c] = my[c] /\ at'[c][1] = i
          /\ work'[c] = work[c]
        BY <1>2, <2>2, RestMoved DEF Turned
    <2>4. Own(c)' /\ ZERO \notin shared'[c]
        BY <1>1, <1>2, <2>3 DEF Own, Free, Transacting, Writing, Checkpointing, Copying
    <2>5. Salted(c)'
        BY <1>1, <1>2, <2>3 DEF Salted
    <2>6. FilesTyped' /\ MoreSalt /\ SameContent /\ iterator' = iterator
        BY <1>1, <1>7, FilesLeft
    <2> QED
        BY <1>1, <2>3, <2>4, <2>5, <2>6, Built, FreeStep DEF Free
<1>8. ASSUME Retry(c), UNCHANGED readMark
      PROVE  ContentInv'
    <2>1. /\ ZERO \notin shared'[c] /\ exclusive'[c] \cap shared'[c] = {}
          /\ exclusive'[c] = exclusive[c]
        BY <1>1, <1>2 DEF Own
    <2> QED
        BY <1>1, <1>6, <1>8, <2>1, BackOut DEF Free
<1>9. ASSUME free # {}, readMark' = [readMark EXCEPT ![Least(free)] = mx]
      PROVE  readMark' \in [Mark -> Nat]
    BY <1>2, <1>3, <1>9
<1>10. fit # {} => readMark[best] \in Nat
    BY <1>2, <1>4
<1> HIDE DEF fit, best, free, mx, Take
<1>11. UNCHANGED readMark => readMark' \in [Mark -> Nat]
    BY <1>2
<1>12. (\E i \in fit : readMark[i] = mx) => fit # {}
    OBVIOUS
<1> QED
    BY <1>1, <1>3, <1>4, <1>5, <1>7, <1>8, <1>9, <1>10, <1>11, <1>12

LEMMA LockMarkContent ==
    ASSUME ContentInv, WalInv', NEW c \in Conn \ Checkpointer, LockMark(c)
    PROVE  ContentInv'
<1>1. /\ pc[c] = "lock"
      /\ UNCHANGED <<db, wal, hdr, nBackfill, readMark, index, iterator, history, count>>
      /\ UNCHANGED work
    BY DEF LockMark, files, shm, ghosts
<1>2. ConnsTyped /\ Own(c) /\ Salted(c) /\ readMark \in [Mark -> Nat]
    BY DEF ContentInv, Part, Whole, FilesTyped
<1> DEFINE slot == WAL_READ_LOCK(at[c][1])
<1>3. slot # ZERO
    BY <1>1, <1>2, WalAssumption DEF Own, Mark, ZERO, WAL_READ_LOCK
<1>4. CASE CanShare(slot)
    <2>1. /\ Share(c, slot) /\ pc' = [pc EXCEPT ![c] = "check"]
          /\ minFrame' = [minFrame EXCEPT ![c] = nBackfill + 1]
          /\ UNCHANGED <<my, at>>
        BY <1>4 DEF LockMark, Goto
    <2>2. LocksGo(c)
        BY <1>2, <2>1, LocksMoved
    <2>0. nBackfill + 1 \in Nat
        BY Numbers
    <2>3. Turns(c, "check", my[c], nBackfill + 1, at[c], work[c])
        BY <1>1, <1>2, <2>0, <2>1, <2>2, LeftAlone DEF Turns
    <2>4. /\ ConnsTyped' /\ Apart(c) /\ pc'[c] = "check" /\ my'[c] = my[c] /\ work'[c] = work[c]
        BY <1>2, <2>3, RestMoved DEF Turned
    <2>5. /\ exclusive'[c] = exclusive[c] /\ shared'[c] = shared[c] \cup {slot}
          /\ slot \notin exclusive[c]
        BY <1>2, <2>1 DEF Share, CanShare, ConnsTyped
    <2> HIDE DEF slot
    <2>6. Own(c)' /\ ZERO \notin shared'[c]
        BY <1>1, <1>2, <1>3, <2>4, <2>5 DEF Own, Free, Transacting, Writing, Checkpointing, Copying
    <2>7. Salted(c)'
        BY <1>1, <1>2, <2>4 DEF Salted
    <2>8. FilesTyped' /\ MoreSalt /\ SameContent /\ iterator' = iterator
        BY <1>1, <1>2, FilesLeft
    <2> QED
        BY <1>1, <2>4, <2>6, <2>7, <2>8, Built, FreeStep DEF Free
<1>5. CASE ~CanShare(slot)
    <2>1. Retry(c) /\ UNCHANGED lockVars
        BY <1>5 DEF LockMark
    <2>2. LocksGo(c)
        BY <1>2, <2>1, LocksMoved
    <2>3. /\ ZERO \notin shared'[c] /\ exclusive'[c] \cap shared'[c] = {}
          /\ exclusive'[c] = exclusive[c]
        BY <1>1, <1>2, <2>1 DEF Own, lockVars
    <2> QED
        BY <1>1, <2>1, <2>2, <2>3, BackOut DEF Free
<1> QED
    BY <1>4, <1>5

LEMMA CheckMarkContent ==
    ASSUME ContentInv, WalInv', NEW c \in Conn \ Checkpointer, CheckMark(c)
    PROVE  ContentInv'
<1>1. /\ pc[c] = "check"
      /\ UNCHANGED <<db, wal, hdr, nBackfill, readMark, index, iterator, history, count>>
      /\ UNCHANGED work
    BY DEF CheckMark, files, shm, ghosts
<1>2. ConnsTyped /\ Own(c) /\ Salted(c) /\ readMark \in [Mark -> Nat]
    BY DEF ContentInv, Part, Whole, FilesTyped
<1>3. FilesTyped' /\ MoreSalt /\ SameContent /\ iterator' = iterator
    BY <1>1, <1>2, FilesLeft
<1> DEFINE l == IF IsWriter(c) THEN "frames" ELSE "read"
<1>4. CASE readMark[at[c][1]] = at[c][2] /\ hdr = my[c]
    <2>1. /\ pc' = [pc EXCEPT ![c] = l] /\ at' = [at EXCEPT ![c] = <<0, 0>>]
          /\ UNCHANGED <<my, minFrame, shared, exclusive>>
        BY <1>4 DEF CheckMark, Goto, lockVars
    <2>2. LocksGo(c)
        BY <1>2, <2>1, LocksMoved DEF lockVars
    <2>3. Turns(c, l, my[c], minFrame[c], <<0, 0>>, work[c])
        BY <1>1, <1>2, <2>1, <2>2, LeftAlone DEF Turns
    <2>4. ConnsTyped' /\ Apart(c) /\ pc'[c] = l /\ my'[c] = my[c] /\ work'[c] = work[c]
        BY <1>2, <2>3, RestMoved DEF Turned
    <2>5. Salted(c)'
        BY <1>1, <1>2, <2>4 DEF Salted
    <2>6. Own(c)' /\ ZERO \notin shared'[c]
        BY <1>1, <1>2, <2>1, <2>4
           DEF Own, Free, Transacting, Writing, Checkpointing, Copying, IsWriter
    <2>7. l \in {"frames", "read"} /\ my'[c] = hdr'
        BY <1>1, <1>4, <2>4
    <2> HIDE DEF l
    <2>8. Part(c)'
        BY <2>4, <2>5, <2>6, <2>7 DEF Part, ZeroReads, Restarts, Writes, Copies, Copying
    <2> QED
        BY <1>1, <1>3, <2>4, <2>8, Built, Quietly
<1>5. CASE ~(readMark[at[c][1]] = at[c][2] /\ hdr = my[c])
    <2>1. Retry(c) /\ Release(c, shared[c])
        BY <1>5 DEF CheckMark
    <2>2. LocksGo(c)
        BY <1>2, <2>1, LocksMoved
    <2>3. /\ ZERO \notin shared'[c] /\ exclusive'[c] \cap shared'[c] = {}
          /\ exclusive'[c] = exclusive[c]
        BY <1>2, <2>1 DEF Own, Release, ConnsTyped
    <2> QED
        BY <1>1, <2>1, <2>2, <2>3, BackOut DEF Free
<1> QED
    BY <1>4, <1>5

-----------------------------------------------------------------------------
(***************************************************************************)
(* Writers.                                                                *)
(***************************************************************************)
LEMMA Counted ==
    ASSUME count \in [tx : Nat, salt : Nat, checkpoints : Nat, faults : Nat],
           NEW what \in {"tx", "salt", "checkpoints", "faults"}, Counts(what)
    PROVE  /\ count' \in [tx : Nat, salt : Nat, checkpoints : Nat, faults : Nat] /\ MoreSalt
           /\ what = "salt" => count'.salt = count.salt + 1
<1>1. CASE what = "tx"
    BY <1>1 DEF Counts, MoreSalt
<1>2. CASE what = "salt"
    BY <1>2 DEF Counts, MoreSalt
<1>3. CASE what = "checkpoints"
    BY <1>3 DEF Counts, MoreSalt
<1>4. CASE what = "faults"
    BY <1>4 DEF Counts, MoreSalt
<1> QED
    BY <1>1, <1>2, <1>3, <1>4

LEMMA BeginWriteContent ==
    ASSUME ContentInv, WalInv', NEW c \in Conn \ Checkpointer, BeginWrite(c)
    PROVE  ContentInv'
<1>1. /\ pc[c] = "read" /\ CanExclude({WAL_WRITE_LOCK})
      /\ UNCHANGED <<db, wal, hdr, nBackfill, readMark, index, iterator, history>>
    BY DEF BeginWrite, files, shm, ghosts
<1>2. ConnsTyped /\ Own(c) /\ Salted(c) /\ ZeroReads(c) /\ readMark \in [Mark -> Nat]
    BY DEF ContentInv, Part, Whole, FilesTyped
<1>3. WAL_WRITE_LOCK \notin exclusive[c] /\ WAL_WRITE_LOCK \notin shared[c]
    BY <1>1 DEF CanExclude
<1>4. exclusive[c] = {}
    BY <1>1, <1>2, <1>3 DEF Own, Free
<1>5. CASE hdr = my[c]
    <2> DEFINE l == IF ZERO \in shared[c] THEN "restartlog" ELSE "frames"
    <2>1. /\ Exclude(c, {WAL_WRITE_LOCK})
          /\ \E pages \in (SUBSET Page) \ {{}} :
                work' = [work EXCEPT ![c] = [tx |-> count.tx + 1, pages |-> pages, done |-> {}]]
          /\ pc' = [pc EXCEPT ![c] = l]
          /\ Counts("tx")
          /\ UNCHANGED <<my, minFrame, at>>
        BY <1>5 DEF BeginWrite, Goto, ZERO
    <2>2. PICK pages \in (SUBSET Page) \ {{}} :
                work' = [work EXCEPT ![c] = [tx |-> count.tx + 1, pages |-> pages, done |-> {}]]
        BY <2>1
    <2> DEFINE w == [tx |-> count.tx + 1, pages |-> pages, done |-> {}]
    <2>3. w \in AnyWork /\ w.pages # {} /\ w.done = {}
        BY Numbers DEF AnyWork
    <2>4. LocksGo(c)
        BY <1>2, <2>1, LocksMoved, MarkSlots
    <2>5. Turns(c, l, my[c], minFrame[c], at[c], w)
        BY <1>2, <2>1, <2>2, <2>3, <2>4, LeftAlone DEF Turns
    <2>6. ConnsTyped' /\ Apart(c) /\ pc'[c] = l /\ my'[c] = my[c] /\ work'[c] = w
        BY <1>2, <2>5, RestMoved DEF Turned
    <2>7. exclusive'[c] = {WAL_WRITE_LOCK} /\ shared'[c] = shared[c]
        BY <1>2, <1>4, <2>1 DEF Exclude, ConnsTyped
    <2> HIDE DEF w
    <2>8. FilesTyped' /\ MoreSalt /\ SameContent /\ iterator' = iterator
        <3>1. FilesTyped
            BY DEF ContentInv, Whole
        <3>2. count' \in [tx : Nat, salt : Nat, checkpoints : Nat, faults : Nat] /\ MoreSalt
            BY <2>1, <3>1, Counted DEF FilesTyped
        <3> QED
            BY <1>1, <3>1, <3>2 DEF FilesTyped, SameContent, SameHdr, SameFrames
    <2>9. Salted(c)'
        BY <1>2, <2>6, <2>8, SaltedKept, LeftAlone, Numbers DEF Salted, MoreSalt
    <2>10. /\ \/ l = "restartlog" /\ ZERO \in shared'[c]
              \/ l = "frames" /\ ZERO \notin shared'[c]
           /\ my'[c] = hdr'
        BY <1>1, <1>5, <2>6, <2>7
    <2> HIDE DEF l
    <2>11. Own(c)'
        BY <1>3, <2>3, <2>6, <2>7, <2>10 DEF Own, Free, Transacting, Writing, Checkpointing, Copying
    <2>12. ZeroReads(c)'
        BY <1>1, <1>2, <1>5, <2>6, <2>7, <2>10 DEF ZeroReads
    <2>13. Restarts(c)' /\ Writes(c)' /\ Copies(c)'
        BY <2>6, <2>10 DEF Restarts, Writes, Copies, Copying
    <2>14. Part(c)'
        BY <2>9, <2>11, <2>12, <2>13 DEF Part
    <2> QED
        BY <1>1, <2>6, <2>8, <2>14, Built, Quietly
<1>6. CASE hdr # my[c]
    <2>1. Release(c, shared[c]) /\ Leave(c) /\ UNCHANGED <<work, count>>
        BY <1>6 DEF BeginWrite
    <2>2. LocksGo(c)
        BY <1>2, <2>1, LocksMoved
    <2>3. ZERO \notin shared'[c] /\ exclusive'[c] = {}
        BY <1>2, <1>4, <2>1 DEF Release, ConnsTyped
    <2> QED
        BY <1>1, <2>1, <2>2, <2>3, BackOut DEF Free
<1> QED
    BY <1>5, <1>6

LEMMA LeaveZeroContent ==
    ASSUME ContentInv, WalInv', NEW c \in Conn \ Checkpointer, LeaveZero(c)
    PROVE  ContentInv'
<1>1. /\ pc[c] \in {"restartlog", "restarted"}
      /\ Release(c, {ZERO}) /\ pc' = [pc EXCEPT ![c] = "choose"]
      /\ UNCHANGED <<db, wal, hdr, nBackfill, readMark, index, iterator, history, count>>
      /\ UNCHANGED <<my, minFrame, at, work>>
    BY DEF LeaveZero, Goto, ZERO, files, shm, ghosts
<1>2. ConnsTyped /\ Own(c) /\ Salted(c) /\ readMark \in [Mark -> Nat]
    BY DEF ContentInv, Part, Whole, FilesTyped
<1>3. LocksGo(c)
    BY <1>1, <1>2, LocksMoved
<1>4. Turns(c, "choose", my[c], minFrame[c], at[c], work[c])
    BY <1>1, <1>2, <1>3, LeftAlone DEF Turns
<1>5. /\ ConnsTyped' /\ Apart(c) /\ pc'[c] = "choose" /\ my'[c] = my[c] /\ work'[c] = work[c]
    BY <1>2, <1>4, RestMoved DEF Turned
<1>6. shared'[c] = shared[c] \ {ZERO} /\ exclusive'[c] = exclusive[c] \ {ZERO}
    BY <1>1, <1>2 DEF Release, ConnsTyped
<1>7. WAL_WRITE_LOCK # ZERO
    BY DEF WAL_WRITE_LOCK, ZERO, WAL_READ_LOCK
<1>8. WAL_WRITE_LOCK \in exclusive[c] /\ work[c].done = {} /\ work[c].pages # {}
    BY <1>1, <1>2 DEF Own, Writing
<1>9. Own(c)' /\ ZERO \notin shared'[c]
    BY <1>2, <1>5, <1>6, <1>7, <1>8 DEF Own, Free, Transacting, Writing, Checkpointing, Copying
<1>10. Salted(c)'
    BY <1>1, <1>2, <1>5 DEF Salted
<1>11. FilesTyped' /\ MoreSalt /\ SameContent /\ iterator' = iterator
    BY <1>1, <1>2, FilesLeft
<1> QED
    BY <1>1, <1>5, <1>9, <1>10, <1>11, Built, FreeStep DEF Free

LEMMA WriteWalHdrContent ==
    ASSUME ContentInv, WalInv', NEW c \in Conn \ Checkpointer, WriteWalHdr(c)
    PROVE  ContentInv'
<1>1. /\ pc[c] = "frames" /\ my[c].mxFrame = 0 /\ pc' = [pc EXCEPT ![c] = "synchdr"]
      /\ \/ UNCHANGED <<my, count>>
         \/ my' = [my EXCEPT ![c].salt = count.salt + 1] /\ Counts("salt")
      /\ wal' = [wal EXCEPT !.salt = my'[c].salt]
      /\ UNCHANGED <<db, hdr, nBackfill, readMark, index, iterator, history>>
      /\ UNCHANGED <<shared, exclusive, minFrame, at, work>>
    BY DEF WriteWalHdr, Goto, shm, lockVars, ghosts
<1>2. ConnsTyped /\ Own(c) /\ Salted(c) /\ Writes(c) /\ FilesTyped
    BY DEF ContentInv, Part, Whole
<1>3. hdr.isInit /\ my[c] = hdr
    BY <1>1, <1>2, Built DEF Writes
<1> DEFINE m == my'[c]
<1>4. /\ m \in AnyHdr /\ my' = [my EXCEPT ![c] = m] /\ m.isInit /\ m.mxFrame = hdr.mxFrame
      /\ m.salt \in Nat /\ m.salt >= hdr.salt /\ m.salt <= count'.salt /\ MoreSalt
      /\ count' \in [tx : Nat, salt : Nat, checkpoints : Nat, faults : Nat]
    <2>1. CASE UNCHANGED <<my, count>>
        <3>1. m = hdr
            BY <1>3, <2>1
        <3>2. my' = [my EXCEPT ![c] = m]
            BY <1>2, <2>1, LeftAlone
        <3>3. count' = count /\ count \in [tx : Nat, salt : Nat, checkpoints : Nat, faults : Nat]
            BY <1>2, <2>1 DEF FilesTyped
        <3> HIDE DEF m
        <3> QED
            BY <1>3, <3>1, <3>2, <3>3, Numbers DEF MoreSalt
    <2>2. CASE my' = [my EXCEPT ![c].salt = count.salt + 1] /\ Counts("salt")
        <3>1. my' = [my EXCEPT ![c] = [my[c] EXCEPT !.salt = count.salt + 1]]
            BY <2>2
        <3>2. my \in [Conn -> AnyHdr]
            BY <1>2 DEF ConnsTyped
        <3>3. m = [hdr EXCEPT !.salt = count.salt + 1]
            BY <1>3, <3>1, <3>2
        <3>4. /\ count' \in [tx : Nat, salt : Nat, checkpoints : Nat, faults : Nat] /\ MoreSalt
              /\ count'.salt = count.salt + 1
            BY <1>2, <2>2, Counted DEF FilesTyped
        <3>5. /\ m \in AnyHdr /\ m.isInit /\ m.mxFrame = hdr.mxFrame /\ m.salt = count.salt + 1
            <4>1. hdr \in AnyHdr /\ count.salt \in Nat
                BY Numbers
            <4> HIDE DEF m
            <4> QED
                BY <1>3, <3>3, <4>1 DEF AnyHdr
        <3>6. my' = [my EXCEPT ![c] = m]
            BY <1>3, <3>1, <3>3
        <3> HIDE DEF m
        <3> QED
            BY <3>4, <3>5, <3>6, Numbers
    <2> QED
        BY <1>1, <2>1, <2>2
<1> HIDE DEF m
<1>5. LocksGo(c)
    BY <1>1, <1>2, LocksMoved DEF lockVars
<1>6. Turns(c, "synchdr", m, minFrame[c], at[c], work[c])
    BY <1>1, <1>2, <1>4, <1>5, LeftAlone DEF Turns
<1>7. /\ ConnsTyped' /\ Apart(c) /\ pc'[c] = "synchdr" /\ my'[c] = m /\ work'[c] = work[c]
    BY <1>2, <1>6, RestMoved DEF Turned
<1>8. FilesTyped' /\ SameContent
    <2>1. wal' = [wal EXCEPT !.salt = m.salt] /\ wal \in [salt : Nat, frames : Seq(AnyFrame)]
        BY <1>1, <1>2 DEF FilesTyped, m
    <2>2. wal' \in [salt : Nat, frames : Seq(AnyFrame)] /\ wal'.frames = wal.frames
        BY <1>4, <2>1
    <2> QED
        BY <1>1, <1>2, <1>4, <2>2 DEF FilesTyped, SameContent, SameHdr, SameFrames
<1>9. Own(c)'
    BY <1>1, <1>2, <1>7 DEF Own, Free, Transacting, Writing, Checkpointing, Copying
<1>10. Writes(c)' /\ Salted(c)'
    BY <1>1, <1>4, <1>7 DEF Writes, Salted
<1>11. Part(c)'
    BY <1>7, <1>9, <1>10 DEF Part, ZeroReads, Restarts, Copies, Copying
<1> QED
    BY <1>1, <1>3, <1>4, <1>7, <1>8, <1>11, Quietly

\* A log with no frame of the transaction yet, whole up to the header.
LEMMA NoFrameYet ==
    ASSUME ContentInv, NEW c \in Conn, my[c].mxFrame = hdr.mxFrame, work[c].done = {}
    PROVE  LogHolds(c)
<1>1. Cardinality(work[c].done) = 0
    BY FS_EmptySet
<1>2. hdr.mxFrame <= Len(wal.frames)
    BY DEF ContentInv, Whole, Mirrors
<1> QED
    BY <1>1, <1>2, Numbers DEF LogHolds

LEMMA SyncWalHdrContent ==
    ASSUME ContentInv, WalInv', NEW c \in Conn \ Checkpointer, SyncWalHdr(c)
    PROVE  ContentInv'
<1>1. /\ pc[c] = "synchdr" /\ pc' = [pc EXCEPT ![c] = "log"]
      /\ UNCHANGED <<db, wal, hdr, nBackfill, readMark, index, iterator, history, count>>
      /\ UNCHANGED <<shared, exclusive, my, minFrame, at, work>>
    BY DEF SyncWalHdr, Goto, shm, lockVars, ghosts
<1>2. ConnsTyped /\ Own(c) /\ Salted(c) /\ Writes(c) /\ readMark \in [Mark -> Nat]
    BY DEF ContentInv, Part, Whole, FilesTyped
<1>3. LocksGo(c)
    BY <1>1, <1>2, LocksMoved DEF lockVars
<1>4. Turns(c, "log", my[c], minFrame[c], at[c], work[c])
    BY <1>1, <1>2, <1>3, LeftAlone DEF Turns
<1>5. /\ ConnsTyped' /\ Apart(c) /\ pc'[c] = "log" /\ my'[c] = my[c] /\ work'[c] = work[c]
    BY <1>2, <1>4, RestMoved DEF Turned
<1>6. FilesTyped' /\ MoreSalt /\ SameContent /\ iterator' = iterator
    BY <1>1, <1>2, FilesLeft
<1>7. work[c].done = {} /\ work[c].pages # {}
    BY <1>1, <1>2 DEF Own, Writing
<1>8. LogHolds(c)
    BY <1>1, <1>2, <1>7, NoFrameYet DEF Writes
<1>9. LogHolds(c)'
    BY <1>1, <1>5, <1>8 DEF LogHolds
<1>10. Writes(c)' /\ Salted(c)'
    BY <1>1, <1>2, <1>5, <1>7, <1>9 DEF Writes, Salted
<1>11. Own(c)'
    BY <1>1, <1>2, <1>5 DEF Own, Free, Transacting, Writing, Checkpointing, Copying
<1>12. Part(c)'
    BY <1>5, <1>10, <1>11 DEF Part, ZeroReads, Restarts, Copies, Copying
<1> QED
    BY <1>1, <1>5, <1>6, <1>12, Built, Quietly

\* Restarting the log.  The database has all of it, so that nobody is copying,
\* and a reader of the database alone has a header older than the new one.
LEMMA NobodyCopies ==
    ASSUME ContentInv, nBackfill >= hdr.mxFrame, NEW d \in Conn
    PROVE  pc[d] \notin Copying
<1>1. Copies(d) /\ my[d].mxFrame \in Nat
    BY LeftAlone DEF ContentInv, Part
<1> QED
    BY <1>1, Numbers DEF Copies

LEMMA RestartHdrContent ==
    ASSUME ContentInv, WalInv', NEW c \in Conn \ Checkpointer, RestartHdr(c)
    PROVE  ContentInv'
<1> DEFINE h == [isInit |-> TRUE, salt |-> count.salt + 1, mxFrame |-> 0]
<1>1. /\ pc[c] = "restartlog" /\ nBackfill > 0 /\ Exclude(c, Marks)
      /\ hdr' = h /\ my' = [my EXCEPT ![c] = h] /\ Counts("salt")
      /\ pc' = [pc EXCEPT ![c] = "restart"]
      /\ UNCHANGED <<db, wal, nBackfill, readMark, index, iterator, history>>
      /\ UNCHANGED <<minFrame, at, work>>
    BY DEF RestartHdr, CanRestart, Goto, files, ghosts
<1>2. ConnsTyped /\ Own(c) /\ ZeroReads(c) /\ Restarts(c) /\ Whole
    BY DEF ContentInv, Part
<1>3. nBackfill = hdr.mxFrame
    BY <1>1, <1>2 DEF Restarts, ZeroReads
<1>4. /\ count' \in [tx : Nat, salt : Nat, checkpoints : Nat, faults : Nat] /\ MoreSalt
      /\ count'.salt = count.salt + 1
    BY <1>1, <1>2, Counted DEF Whole, FilesTyped
<1>5. h \in AnyHdr /\ h.isInit /\ h.mxFrame = 0 /\ h.salt = count.salt + 1 /\ h.salt > hdr.salt
    BY Numbers DEF AnyHdr
<1> HIDE DEF h
<1>6. LocksGo(c)
    BY <1>1, <1>2, LocksMoved, MarkSlots
<1>7. Turns(c, "restart", h, minFrame[c], at[c], work[c])
    BY <1>1, <1>2, <1>5, <1>6, LeftAlone DEF Turns
<1>8. /\ ConnsTyped' /\ Apart(c) /\ pc'[c] = "restart" /\ my'[c] = h /\ work'[c] = work[c]
    BY <1>2, <1>7, RestMoved DEF Turned
<1>9. /\ exclusive'[c] = exclusive[c] \cup Marks /\ shared'[c] = shared[c]
      /\ Marks \cap shared[c] = {}
    BY <1>1, <1>2 DEF Exclude, CanExclude, ConnsTyped
<1>10. WAL_WRITE_LOCK \in exclusive[c]
    BY <1>1, <1>2 DEF Own, Writing
<1>11. Own(c)'
    BY <1>1, <1>2, <1>8, <1>9, <1>10 DEF Own, Free, Transacting, Writing, Checkpointing, Copying
<1>12. Restarts(c)' /\ Salted(c)'
    BY <1>1, <1>4, <1>5, <1>8 DEF Restarts, Salted
<1>13. Part(c)'
    BY <1>8, <1>11, <1>12 DEF Part, ZeroReads, Writes, Copies, Copying
<1>14. ASSUME NEW d \in Conn \ {c} PROVE Part(d)'
    <2>1. Part(d) /\ Same(d)
        BY <1>8 DEF ContentInv, Apart
    <2>2. pc[d] \notin Writing \cup {"recover"} /\ pc[d] \notin Copying
        BY <1>3, <1>10, OnlyWriter, NobodyCopies, Numbers
    <2>3. ZeroReads(d)'
        <3>1. my[d].salt \in Nat /\ my[d].mxFrame \in Nat
            BY <1>2, LeftAlone
        <3> QED
            BY <1>1, <1>5, <2>1, <3>1, Numbers DEF Part, Same, ZeroReads, Before
    <2>4. Restarts(d)' /\ Writes(d)' /\ Copies(d)'
        BY <2>1, <2>2 DEF Same, Restarts, Writes, Copies, Writing, Copying
    <2> QED
        BY <1>2, <1>4, <2>1, <2>3, <2>4, OwnKept, SaltedKept DEF Part, Whole
<1>15. Whole'
    <2>1. FilesTyped'
        BY <1>1, <1>2, <1>4, <1>5 DEF Whole, FilesTyped
    <2>2. Pristine' /\ hdr'.salt <= count'.salt
        BY <1>1, <1>4, <1>5, Numbers DEF Pristine
    <2>3. Mirrors'
        BY <1>1, <1>5, Numbers DEF Mirrors
    <2>4. Seen'
        <3> SUFFICES ASSUME NEW p \in Page, NEW f \in Nat,
                            LastIn(wal.frames, f, p, nBackfill + 1, 0)
                     PROVE  LastOf(history)[p] = IF f = 0 THEN db[p] ELSE wal.frames[f].tx
            BY <1>1, <1>5 DEF Seen, Shows, Makes
        <3>1. f = 0
            BY Numbers DEF LastIn
        <3>2. LastIn(wal.frames, 0, p, nBackfill + 1, hdr.mxFrame)
            BY <1>3, Numbers DEF LastIn
        <3> QED
            BY <1>1, <1>2, <3>1, <3>2, Built DEF Whole, Seen, Shows, Makes
    <2>5. Ahead'
        BY <1>8 DEF Ahead
    <2> QED
        BY <2>1, <2>2, <2>3, <2>4, <2>5 DEF Whole
<1> QED
    BY <1>8, <1>13, <1>14, <1>15 DEF ContentInv

LEMMA RestartMarksContent ==
    ASSUME ContentInv, WalInv', NEW c \in Conn \ Checkpointer, RestartMarks(c)
    PROVE  ContentInv'
<1>1. /\ pc[c] = "restart" /\ Release(c, Marks) /\ nBackfill' = 0
      /\ readMark' = [i \in Mark |-> IF i = 1 THEN 0 ELSE READMARK_NOT_USED]
      /\ pc' = [pc EXCEPT ![c] = "restarted"]
      /\ UNCHANGED <<db, wal, hdr, index, iterator, history, count>>
      /\ UNCHANGED <<my, minFrame, at, work>>
    BY DEF RestartMarks, Goto, files, ghosts
<1>2. ConnsTyped /\ Own(c) /\ Restarts(c) /\ Salted(c) /\ Whole
    BY DEF ContentInv, Part
<1>3. hdr.mxFrame = 0 /\ nBackfill > 0
    BY <1>1, <1>2 DEF Restarts
<1>4. LocksGo(c)
    BY <1>1, <1>2, LocksMoved
<1>5. Turns(c, "restarted", my[c], minFrame[c], at[c], work[c])
    BY <1>1, <1>2, <1>4, LeftAlone DEF Turns
<1>6. /\ ConnsTyped' /\ Apart(c) /\ pc'[c] = "restarted" /\ my'[c] = my[c]
      /\ work'[c] = work[c]
    BY <1>2, <1>5, RestMoved DEF Turned
<1>7. shared'[c] = shared[c] \ Marks /\ exclusive'[c] = exclusive[c] \ Marks
    BY <1>1, <1>2 DEF Release, ConnsTyped
<1>8. WAL_WRITE_LOCK \in exclusive[c] /\ WAL_WRITE_LOCK \notin Marks
    BY <1>1, <1>2, WalAssumption DEF Own, Writing, Marks, Mark, WAL_WRITE_LOCK, WAL_READ_LOCK
<1>9. work[c].done = {} /\ work[c].pages # {}
    BY <1>1, <1>2, <1>8 DEF Own
<1>10. Own(c)'
    BY <1>1, <1>2, <1>6, <1>7, <1>8, <1>9
       DEF Own, Free, Transacting, Writing, Checkpointing, Copying
<1>11. Part(c)'
    BY <1>1, <1>2, <1>6, <1>10 DEF Part, Salted, ZeroReads, Restarts, Writes, Copies, Copying
<1>12. MoreSalt
    BY <1>1, Numbers DEF MoreSalt
<1>13. ASSUME NEW d \in Conn \ {c} PROVE Part(d)'
    <2>1. Part(d) /\ Same(d)
        BY <1>6 DEF ContentInv, Apart
    <2>2. pc[d] \notin Writing \cup {"recover"} /\ pc[d] \notin Copying
        BY <1>3, <1>8, OnlyWriter, NobodyCopies, Numbers
    <2>3. ZeroReads(d)'
        BY <1>1, <1>3, <2>1 DEF Part, Same, ZeroReads, Before
    <2>4. Restarts(d)' /\ Writes(d)' /\ Copies(d)'
        BY <2>1, <2>2 DEF Same, Restarts, Writes, Copies, Writing, Copying
    <2> QED
        BY <1>2, <1>12, <2>1, <2>3, <2>4, OwnKept, SaltedKept DEF Part, Whole
<1>14. Whole'
    <2>1. FilesTyped'
        <3>1. readMark' \in [Mark -> Nat]
            BY <1>1, WalAssumption
        <3> QED
            BY <1>1, <1>2, <3>1 DEF Whole, FilesTyped
    <2>2. Pristine' /\ hdr'.salt <= count'.salt
        BY <1>1, <1>2, <1>6, Built DEF Pristine, Whole
    <2>3. Mirrors'
        BY <1>1, <1>2 DEF Mirrors, Whole
    <2>4. Seen'
        <3> SUFFICES ASSUME NEW p \in Page, NEW f \in Nat,
                            LastIn(wal.frames, f, p, 1, 0)
                     PROVE  LastOf(history)[p] = IF f = 0 THEN db[p] ELSE wal.frames[f].tx
            BY <1>1, <1>3 DEF Seen, Shows, Makes
        <3>1. f = 0
            BY DEF LastIn
        <3>2. LastIn(wal.frames, 0, p, nBackfill + 1, hdr.mxFrame)
            BY <1>3, Numbers DEF LastIn
        <3> QED
            BY <1>1, <1>2, <3>1, <3>2, Built DEF Whole, Seen, Shows, Makes
    <2>5. Ahead'
        BY <1>1, <1>3 DEF Ahead
    <2> QED
        BY <2>1, <2>2, <2>3, <2>4, <2>5 DEF Whole
<1> QED
    BY <1>6, <1>11, <1>13, <1>14 DEF ContentInv

\* Writing frames.
Extends(put, f, frame) ==
    /\ put \in [salt : Nat, frames : Seq(AnyFrame)]
    /\ Len(put.frames) \in Nat /\ Len(put.frames) >= Len(wal.frames)
    /\ Len(put.frames) >= f
    /\ Len(put.frames) = f \/ Len(put.frames) = Len(wal.frames)
    /\ put.frames[f] = frame
    /\ \A g \in 1..Len(wal.frames) : g # f => put.frames[g] = wal.frames[g]

LEMMA Put ==
    ASSUME wal \in [salt : Nat, frames : Seq(AnyFrame)],
           NEW f \in 1..(Len(wal.frames) + 1), NEW frame \in AnyFrame
    PROVE  Extends(PutFrame(f, frame), f, frame)
<1> DEFINE n == Len(wal.frames)
           m == IF f > n THEN f ELSE n
           new == [g \in 1..m |-> IF g = f THEN frame ELSE wal.frames[g]]
           put == PutFrame(f, frame)
<1>1. wal.frames \in Seq(AnyFrame)
    OBVIOUS
<1>2. n \in Nat /\ wal.frames \in [1..n -> AnyFrame]
    BY <1>1, LenProperties
<1>3. m \in Nat /\ m >= n /\ m >= f /\ (m = f \/ m = n) /\ f \in 1..m /\ \A g \in 1..m : g # f => g \in 1..n
    BY <1>2
<1>4. put = [wal EXCEPT !.frames = new]
    BY DEF PutFrame
<1> HIDE DEF n, m, put
<1>5. \A g \in 1..m : (IF g = f THEN frame ELSE wal.frames[g]) \in AnyFrame
    BY <1>2, <1>3
<1>6. new \in Seq(AnyFrame)
    BY <1>3, <1>5, IsASeq
<1>7. Len(new) = m
    BY <1>3, <1>6, LenProperties
<1>8. put.frames = new
    BY <1>4
<1>9. put \in [salt : Nat, frames : Seq(AnyFrame)]
    BY <1>4, <1>6
<1>10. new[f] = frame /\ \A g \in 1..n : g # f => new[g] = wal.frames[g]
    BY <1>2, <1>3
<1> HIDE DEF new
<1> QED
    BY <1>2, <1>3, <1>7, <1>8, <1>9, <1>10 DEF n, put, Extends

\* The frame comes after those of the header.
SameUpTo(n) == \A f \in 1..n : wal'.frames[f] = wal.frames[f]

LEMMA FramesGrow ==
    ASSUME ContentInv, WalInv', NEW c \in Conn, WAL_WRITE_LOCK \in exclusive[c],
           Apart(c), ConnsTyped', FilesTyped', MoreSalt, hdr.isInit, pc[c] # "restart",
           UNCHANGED <<db, hdr, nBackfill, index, iterator, history>>,
           SameUpTo(hdr.mxFrame), hdr.mxFrame <= Len(wal'.frames), Part(c)'
    PROVE  ContentInv'
<1>1. Whole /\ ConnsTyped
    BY DEF ContentInv
<1>2. ASSUME NEW d \in Conn \ {c} PROVE Part(d)'
    <2>1. Part(d) /\ Same(d)
        BY DEF ContentInv, Apart
    <2>2. pc[d] \notin Writing \cup {"recover"}
        BY OnlyWriter
    <2>3. Writes(d)'
        BY <2>1, <2>2 DEF Same, Writes, Writing
    <2>4. SameHdr /\ SameCopies /\ hdr'.mxFrame \in Nat /\ hdr.mxFrame <= hdr'.mxFrame
        BY Numbers DEF SameHdr, SameCopies
    <2>5. Copies(d)'
        BY <1>1, <2>1, <2>4, CopiesKept DEF Part, Whole, SameUpTo
    <2> QED
        BY <1>1, <2>1, <2>3, <2>4, <2>5, OwnKept, ZeroKept, RestartsKept, SaltedKept
           DEF Part, Whole
<1>3. Whole'
    <2>1. Pristine' /\ hdr'.salt <= count'.salt
        BY <1>1, Numbers DEF Pristine, Whole, MoreSalt
    <2>2. Mirrors'
        BY <1>1 DEF Mirrors, Whole, SameUpTo
    <2>3. Seen'
        <3> SUFFICES ASSUME NEW p \in Page, NEW f \in Nat,
                            LastIn(wal'.frames, f, p, nBackfill + 1, hdr.mxFrame)
                     PROVE  LastOf(history)[p] = IF f = 0 THEN db[p] ELSE wal'.frames[f].tx
            BY DEF Seen, Shows, Makes
        <3>0. nBackfill + 1 \in Nat \ {0} /\ hdr.mxFrame \in Nat
            BY Numbers
        <3>1. LastIn(wal.frames, f, p, nBackfill + 1, hdr.mxFrame)
            BY <3>0, LastKept DEF SameUpTo
        <3>2. f # 0 => f \in 1..hdr.mxFrame
            BY <3>1, Numbers DEF LastIn
        <3> QED
            BY <1>1, <3>1, <3>2 DEF Whole, Seen, Shows, Makes, SameUpTo
    <2>4. Ahead'
        <3>1. \A d \in Conn : pc[d] = "restart" => pc'[d] = "restart"
            BY DEF Apart, Same
        <3> QED
            BY <1>1, <3>1 DEF Whole, Ahead
    <2> QED
        BY <2>1, <2>2, <2>3, <2>4 DEF Whole
<1> QED
    BY <1>2, <1>3 DEF ContentInv

\* What a writer that may write a frame has.
LEMMA ReadyToWrite ==
    ASSUME ContentInv, NEW c \in Conn \ Checkpointer, InLog(c)
    PROVE  /\ WAL_WRITE_LOCK \in exclusive[c] /\ hdr.isInit /\ pc[c] \in {"frames", "log"}
           /\ my[c].isInit /\ my[c].mxFrame = hdr.mxFrame /\ my[c].salt >= hdr.salt
           /\ LogHolds(c) /\ work[c].done \subseteq work[c].pages /\ work[c].pages # work[c].done
           /\ ZERO \notin shared[c]
<1>1. ConnsTyped /\ Own(c) /\ Writes(c)
    BY DEF ContentInv, Part
<1>2. pc[c] \in {"frames", "log"} /\ hdr.isInit
    BY Built DEF InLog
<1>3. CASE pc[c] = "log"
    BY <1>1, <1>2, <1>3 DEF Own, Writes, Writing
<1>4. CASE pc[c] = "frames"
    <2>1. WAL_WRITE_LOCK \in exclusive[c] /\ work[c].done = {} /\ work[c].pages # {} /\ my[c] = hdr
        BY <1>1, <1>4 DEF Own, Writes, Writing
    <2> QED
        BY <1>1, <1>2, <1>4, <2>1, NoFrameYet, Numbers DEF Own
<1> QED
    BY <1>2, <1>3, <1>4 DEF InLog

LEMMA WriteFrameContent ==
    ASSUME ContentInv, WalInv', NEW c \in Conn \ Checkpointer, WriteFrame(c)
    PROVE  ContentInv'
<1> DEFINE w == work[c]
           p == Least(w.pages \ w.done)
           f == NextFrame(c)
           last == w.pages \ w.done = {p}
           frame == [salt |-> my[c].salt, page |-> p, tx |-> w.tx,
                     commit |-> last, after |-> Identity(wal.frames, f - 1)]
           mx == hdr.mxFrame
           n == Cardinality(w.done)
<1>1. /\ InLog(c)
      /\ wal' = PutFrame(f, frame)
      /\ work' = [work EXCEPT ![c].done = @ \cup {p}]
      /\ pc' = [pc EXCEPT ![c] = IF last THEN "publish" ELSE "log"]
      /\ UNCHANGED <<db, hdr, nBackfill, readMark, index, iterator, history, count>>
      /\ UNCHANGED <<shared, exclusive, my, minFrame, at>>
    BY DEF WriteFrame, Goto, shm, lockVars, ghosts
<1>2. ConnsTyped /\ Own(c) /\ Salted(c) /\ FilesTyped
    BY DEF ContentInv, Part, Whole
<1>3. /\ WAL_WRITE_LOCK \in exclusive[c] /\ hdr.isInit /\ pc[c] \in {"frames", "log"}
      /\ my[c].isInit /\ my[c].mxFrame = mx /\ my[c].salt >= hdr.salt
      /\ LogHolds(c) /\ w.done \subseteq w.pages /\ w.pages # w.done
      /\ ZERO \notin shared[c]
    BY <1>1, ReadyToWrite
<1>4. p \in w.pages \ w.done /\ p \in Page /\ p \in Nat
    <2>1. w.pages \subseteq Page
        BY <1>2, LeftAlone
    <2>2. (w.pages \ w.done) \in SUBSET Nat /\ w.pages \ w.done # {}
        BY <1>3, <2>1, WalAssumption
    <2> QED
        BY <2>1, <2>2, LeastOf
<1>5. n \in Nat /\ Cardinality(w.done \cup {p}) = n + 1
    <2>1. w.done \subseteq Page
        BY <1>2, LeftAlone
    <2>2. IsFiniteSet(w.done)
        BY <2>1, WalAssumption, FS_Subset
    <2> QED
        BY <1>4, <2>2, FS_AddElement, FS_CardinalityType
<1>6. /\ f = mx + n + 1 /\ f \in 1..(Len(wal.frames) + 1) /\ f > mx
      /\ mx + n <= Len(wal.frames)
    <2>1. f = mx + n + 1
        BY <1>3 DEF NextFrame
    <2>2. mx + n <= Len(wal.frames)
        BY <1>3 DEF LogHolds
    <2>3. mx \in Nat /\ Len(wal.frames) \in Nat
        BY Numbers
    <2> HIDE DEF f, n, mx
    <2> QED
        BY <1>5, <2>1, <2>2, <2>3
<1>7. frame \in AnyFrame
    <2>1. Identity(wal.frames, f - 1) \in Nat \X Int
        <3>1. CASE f - 1 = 0
            BY <3>1 DEF Identity
        <3>2. CASE f - 1 # 0
            <4>1. f - 1 \in 1..Len(wal.frames)
                BY <1>6, <3>2, Numbers
            <4>2. wal.frames[f - 1] \in AnyFrame
                BY <4>1, Numbers, ElementOfSeq
            <4> QED
                BY <3>2, <4>2 DEF Identity, AnyFrame
        <3> QED
            BY <3>1, <3>2
    <2>2. my[c].salt \in Nat /\ w.tx \in Nat
        BY <1>2, LeftAlone
    <2> HIDE DEF p, f, w
    <2> QED
        BY <1>4, <2>1, <2>2 DEF AnyFrame
<1>8. frame.page = p /\ frame.tx = w.tx
    OBVIOUS
<1> DEFINE v == [w EXCEPT !.done = @ \cup {p}]
<1>9. /\ v \in AnyWork /\ v.pages = w.pages /\ v.done = w.done \cup {p} /\ v.tx = w.tx
      /\ work' = [work EXCEPT ![c] = v]
    <2>1. w \in AnyWork
        BY <1>2, LeftAlone
    <2>2. work' = [work EXCEPT ![c] = v]
        BY <1>1
    <2> HIDE DEF w, p
    <2>3. /\ v \in AnyWork /\ v.pages = w.pages /\ v.done = w.done \cup {p} /\ v.tx = w.tx
        BY <1>4, <2>1 DEF AnyWork
    <2> QED
        BY <2>2, <2>3
<1> DEFINE l == IF last THEN "publish" ELSE "log"
<1>10. /\ l \in {"publish", "log"} /\ (l = "publish" <=> w.pages = w.done \cup {p})
       /\ w.done \cup {p} \subseteq w.pages
    BY <1>3, <1>4
<1>11. LocksGo(c)
    BY <1>1, <1>2, LocksMoved DEF lockVars
<1>12. Turns(c, l, my[c], minFrame[c], at[c], v)
    <2> HIDE DEF l, v
    <2> QED
        BY <1>1, <1>2, <1>9, <1>11, LeftAlone DEF Turns, l
<1> HIDE DEF l, v
<1>13. /\ ConnsTyped' /\ Apart(c) /\ pc'[c] = l /\ my'[c] = my[c] /\ work'[c] = v
    BY <1>2, <1>12, RestMoved DEF Turned
<1> HIDE DEF w, p, f, last, frame, mx, n
<1>14. /\ wal' \in [salt : Nat, frames : Seq(AnyFrame)]
       /\ Len(wal'.frames) \in Nat /\ Len(wal'.frames) >= Len(wal.frames)
       /\ Len(wal'.frames) >= f
       /\ wal'.frames[f] = frame
       /\ \A g \in 1..Len(wal.frames) : g # f => wal'.frames[g] = wal.frames[g]
    <2>1. wal \in [salt : Nat, frames : Seq(AnyFrame)]
        BY <1>2 DEF FilesTyped
    <2>2. Extends(PutFrame(f, frame), f, frame)
        BY <1>6, <1>7, <2>1, Put
    <2>3. Extends(wal', f, frame)
        BY <1>1, <2>2
    <2> QED
        BY <2>3 DEF Extends
<1>15. mx \in Nat /\ mx <= Len(wal.frames)
    BY Numbers DEF ContentInv, Whole, Mirrors, mx
<1>16. SameUpTo(hdr.mxFrame) /\ hdr.mxFrame <= Len(wal'.frames)
    <2>1. Len(wal.frames) \in Nat
        BY Numbers
    <2>2. SameUpTo(mx) /\ mx <= Len(wal'.frames)
        BY <1>6, <1>14, <1>15, <2>1 DEF SameUpTo
    <2> QED
        BY <2>2 DEF mx
<1>17. FilesTyped' /\ MoreSalt
    BY <1>1, <1>2, <1>14, Numbers DEF FilesTyped, MoreSalt
<1>18. LogHolds(c)'
    <2>1. /\ mx + n <= Len(wal.frames)
          /\ \A g \in (mx + 1)..(mx + n) : wal.frames[g].page \in w.done /\ wal.frames[g].tx = w.tx
          /\ \A q \in w.done : \E g \in (mx + 1)..(mx + n) : wal.frames[g].page = q
        BY <1>3 DEF LogHolds, mx, n, w
    <2>2. \A g \in (mx + 1)..(mx + n) : wal'.frames[g] = wal.frames[g]
        <3>1. Len(wal.frames) \in Nat
            BY Numbers
        <3>2. \A g \in (mx + 1)..(mx + n) : g \in 1..Len(wal.frames) /\ g # f
            BY <1>5, <1>6, <1>15, <3>1
        <3> QED
            BY <1>14, <3>2
    <2>3. \A g \in (mx + 1)..f : g = f \/ g \in (mx + 1)..(mx + n)
        BY <1>5, <1>6, <1>15
    <2>4. f \in (mx + 1)..f /\ \A g \in (mx + 1)..(mx + n) : g \in (mx + 1)..f
        BY <1>5, <1>6, <1>15
    <2>5. \A g \in (mx + 1)..f : wal'.frames[g].page \in w.done \cup {p} /\ wal'.frames[g].tx = w.tx
        <3> SUFFICES ASSUME NEW g \in (mx + 1)..f
                     PROVE  wal'.frames[g].page \in w.done \cup {p} /\ wal'.frames[g].tx = w.tx
            OBVIOUS
        <3>1. CASE g = f
            BY <1>8, <1>14, <3>1
        <3>2. CASE g \in (mx + 1)..(mx + n)
            <4>1. wal.frames[g].page \in w.done /\ wal.frames[g].tx = w.tx
                BY <2>1, <3>2
            <4>2. wal'.frames[g] = wal.frames[g]
                BY <2>2, <3>2
            <4> QED
                BY <4>1, <4>2
        <3> QED
            BY <2>3, <3>1, <3>2
    <2>6. \A q \in w.done \cup {p} : \E g \in (mx + 1)..f : wal'.frames[g].page = q
        BY <1>8, <1>14, <2>1, <2>2, <2>4
    <2>7. my'[c].mxFrame + 1 = mx + 1 /\ my'[c].mxFrame + Cardinality(work'[c].done) = f
        <3>1. my'[c].mxFrame = mx
            BY <1>3, <1>13
        <3>2. Cardinality(work'[c].done) = n + 1
            BY <1>5, <1>9, <1>13
        <3>3. mx + (n + 1) = f
            BY <1>5, <1>6, <1>15
        <3> QED
            BY <3>1, <3>2, <3>3
    <2>8. work'[c].done = w.done \cup {p} /\ work'[c].tx = w.tx
        BY <1>9, <1>13
    <2>9. f <= Len(wal'.frames)
        BY <1>6, <1>14
    <2> QED
        BY <2>5, <2>6, <2>7, <2>8, <2>9, Zenon DEF LogHolds
<1>19. Own(c)'
    BY <1>1, <1>2, <1>3, <1>10, <1>13 DEF Own, Free, Transacting, Writing, Checkpointing, Copying
<1>20. Writes(c)' /\ Salted(c)'
    BY <1>1, <1>2, <1>3, <1>9, <1>10, <1>13, <1>18 DEF Writes, Salted, mx
<1>21. Part(c)'
    BY <1>10, <1>13, <1>19, <1>20 DEF Part, ZeroReads, Restarts, Copies, Copying
<1> QED
    BY <1>1, <1>3, <1>13, <1>16, <1>17, <1>21, FramesGrow

\* What a writer whose write fails has.
LEMMA WriterAtWork ==
    ASSUME ContentInv, NEW c \in Conn \ Checkpointer, pc[c] \in {"frames", "synchdr", "log"}
    PROVE  /\ WAL_WRITE_LOCK \in exclusive[c] /\ hdr.isInit
           /\ my[c].mxFrame = hdr.mxFrame /\ ZERO \notin shared[c]
<1>1. Own(c) /\ Writes(c)
    BY DEF ContentInv, Part
<1> QED
    BY <1>1, Built DEF Own, Writes, Writing

LEMMA FailWriteContent ==
    ASSUME ContentInv, WalInv', NEW c \in Conn \ Checkpointer, FailWrite(c)
    PROVE  ContentInv'
<1> DEFINE f == NextFrame(c)
<1>1. /\ pc[c] \in {"frames", "synchdr", "log"}
      /\ wal' = wal \/ (InLog(c) /\ wal' = PutFrame(f, TornFrame))
      /\ my' = [my EXCEPT ![c] = hdr] /\ work' = [work EXCEPT ![c] = NoWork]
      /\ Counts("faults") /\ pc' = [pc EXCEPT ![c] = "read"]
      /\ UNCHANGED <<db, hdr, nBackfill, readMark, index, iterator, history>>
      /\ UNCHANGED <<shared, exclusive, minFrame, at>>
    BY DEF FailWrite, Goto, shm, lockVars, ghosts
<1>2. ConnsTyped /\ Own(c) /\ FilesTyped
    BY DEF ContentInv, Part, Whole
<1>3. /\ WAL_WRITE_LOCK \in exclusive[c] /\ hdr.isInit /\ my[c].mxFrame = hdr.mxFrame
      /\ ZERO \notin shared[c]
    BY <1>1, WriterAtWork
<1>4. InLog(c) => f \in 1..(Len(wal.frames) + 1) /\ f > hdr.mxFrame
    <2> SUFFICES ASSUME InLog(c) PROVE f \in 1..(Len(wal.frames) + 1) /\ f > hdr.mxFrame
        OBVIOUS
    <2>0. LogHolds(c)
        BY ReadyToWrite
    <2>1. work[c].done \subseteq Page
        BY <1>2, LeftAlone
    <2>2. Cardinality(work[c].done) \in Nat
        BY <2>1, WalAssumption, FS_Subset, FS_CardinalityType
    <2>3. f = hdr.mxFrame + Cardinality(work[c].done) + 1
        BY <1>3 DEF NextFrame
    <2>4. hdr.mxFrame + Cardinality(work[c].done) <= Len(wal.frames)
        BY <1>3, <2>0 DEF LogHolds
    <2> QED
        BY <2>2, <2>3, <2>4, Numbers
<1>5. TornFrame \in AnyFrame
    BY DEF TornFrame, AnyFrame, Torn
<1>6. hdr.mxFrame <= Len(wal.frames)
    BY DEF ContentInv, Whole, Mirrors
<1> HIDE DEF f
<1>7. /\ wal' \in [salt : Nat, frames : Seq(AnyFrame)]
      /\ SameUpTo(hdr.mxFrame) /\ hdr.mxFrame <= Len(wal'.frames)
    <2>1. CASE wal' = wal
        BY <1>2, <1>6, <2>1 DEF FilesTyped, SameUpTo
    <2>2. CASE InLog(c) /\ wal' = PutFrame(f, TornFrame)
        <3>1. /\ wal' \in [salt : Nat, frames : Seq(AnyFrame)]
              /\ Len(wal'.frames) \in Nat /\ Len(wal'.frames) >= Len(wal.frames)
              /\ \A g \in 1..Len(wal.frames) : g # f => wal'.frames[g] = wal.frames[g]
            <4>1. wal \in [salt : Nat, frames : Seq(AnyFrame)]
                BY <1>2 DEF FilesTyped
            <4>2. Extends(PutFrame(f, TornFrame), f, TornFrame)
                BY <1>4, <1>5, <2>2, <4>1, Put
            <4>3. Extends(wal', f, TornFrame)
                BY <2>2, <4>2
            <4> QED
                BY <4>3 DEF Extends
        <3>2. \A g \in 1..hdr.mxFrame : g \in 1..Len(wal.frames) /\ g # f
            BY <1>4, <1>6, <2>2, Numbers
        <3>3. hdr.mxFrame <= Len(wal'.frames)
            BY <1>6, <3>1, Numbers
        <3> QED
            BY <3>1, <3>2, <3>3 DEF SameUpTo
    <2> QED
        BY <1>1, <2>1, <2>2
<1>8. /\ count' \in [tx : Nat, salt : Nat, checkpoints : Nat, faults : Nat] /\ MoreSalt
    BY <1>1, <1>2, Counted DEF FilesTyped
<1>9. FilesTyped'
    BY <1>1, <1>2, <1>7, <1>8 DEF FilesTyped
<1>10. LocksGo(c)
    BY <1>1, <1>2, LocksMoved DEF lockVars
<1>11. Turns(c, "read", hdr, minFrame[c], at[c], NoWork)
    BY <1>1, <1>2, <1>10, LeftAlone, Numbers DEF Turns
<1>12. /\ ConnsTyped' /\ Apart(c) /\ pc'[c] = "read" /\ my'[c] = hdr
    BY <1>2, <1>11, RestMoved DEF Turned
<1>13. Own(c)' /\ ZERO \notin shared'[c]
    BY <1>1, <1>2, <1>3, <1>12 DEF Own, Free, Transacting, Writing, Checkpointing, Copying
<1>14. Salted(c)'
    BY <1>8, <1>12, Numbers DEF Salted, MoreSalt
<1>15. Part(c)'
    BY <1>12, <1>13, <1>14 DEF Part, ZeroReads, Restarts, Writes, Copies, Copying
<1> QED
    BY <1>1, <1>3, <1>7, <1>8, <1>9, <1>12, <1>15, FramesGrow

\* Publishing the frames.
IsIndex(new, frames, n) ==
    new \in Seq(Nat) /\ Len(new) = n /\ \A f \in 1..n : new[f] = frames[f].page

LEMMA IndexOf ==
    ASSUME NEW frames \in Seq(AnyFrame), NEW n \in Nat, n <= Len(frames)
    PROVE  IsIndex(PagesOf(SubSeq(frames, 1, n)), frames, n)
<1> DEFINE sub == SubSeq(frames, 1, n)
           new == PagesOf(sub)
<1>1. Len(frames) \in Nat
    BY LenProperties
<1>2. sub \in Seq(AnyFrame) /\ Len(sub) = n /\ \A f \in 1..n : sub[f] = frames[f]
    BY <1>1, SubSeqProperties
<1> HIDE DEF sub
<1>3. DOMAIN sub = 1..n /\ \A f \in 1..n : sub[f] \in AnyFrame
    BY <1>2, LenProperties, ElementOfSeq
<1>4. new = [f \in 1..n |-> sub[f].page]
    BY <1>3 DEF PagesOf
<1>5. \A f \in 1..n : sub[f].page \in Nat
    BY <1>3 DEF AnyFrame
<1> HIDE DEF new
<1>6. new \in Seq(Nat)
    BY <1>4, <1>5, IsASeq
<1>7. Len(new) = n
    BY <1>4, <1>6, LenProperties
<1> QED
    BY <1>2, <1>4, <1>6, <1>7 DEF new, sub, IsIndex

LEMMA LastContent ==
    ASSUME ContentInv
    PROVE  /\ LastOf(history) \in [Page -> Int]
           /\ \A x \in [Page -> Int] : /\ Append(history, x) \in Seq([Page -> Int])
                                       /\ Append(history, x) # <<>>
                                       /\ LastOf(Append(history, x)) = x
<1>1. history \in Seq([Page -> Int]) /\ history # <<>>
    BY DEF ContentInv, Whole, FilesTyped
<1>2. Len(history) \in Nat /\ Len(history) # 0
    BY <1>1, LenProperties, EmptySeq
<1>3. Len(history) \in 1..Len(history)
    BY <1>2
<1>4. LastOf(history) \in [Page -> Int]
    BY <1>1, <1>3, ElementOfSeq DEF LastOf
<1>5. ASSUME NEW x \in [Page -> Int]
      PROVE  /\ Append(history, x) \in Seq([Page -> Int])
             /\ Append(history, x) # <<>>
             /\ LastOf(Append(history, x)) = x
    <2>1. /\ Append(history, x) \in Seq([Page -> Int])
          /\ Append(history, x) # <<>>
          /\ Len(Append(history, x)) = Len(history) + 1
          /\ Append(history, x)[Len(history) + 1] = x
        <3> DEFINE S == [Page -> Int]
        <3>1. history \in Seq(S) /\ x \in S
            BY <1>1
        <3> HIDE DEF S
        <3>2. /\ Append(history, x) \in Seq(S)
              /\ Append(history, x) # <<>>
              /\ Len(Append(history, x)) = Len(history) + 1
              /\ Append(history, x)[Len(history) + 1] = x
            BY <3>1, AppendProperties
        <3> QED
            BY <3>2 DEF S
    <2> QED
        BY <2>1 DEF LastOf
<1> QED
    BY <1>4, <1>5

LEMMA PublishContent ==
    ASSUME ContentInv, WalInv', NEW c \in Conn \ Checkpointer, Publish(c)
    PROVE  ContentInv'
<1> DEFINE w == work[c]
           n == Cardinality(w.pages)
           mx == hdr.mxFrame
           h == [my[c] EXCEPT !.mxFrame = @ + n]
<1>1. /\ pc[c] = "publish" /\ hdr' = h
      /\ index' = PagesOf(SubSeq(wal.frames, 1, hdr'.mxFrame))
      /\ my' = [my EXCEPT ![c] = h] /\ work' = [work EXCEPT ![c] = NoWork]
      /\ history' = Append(history, Written(c)) /\ pc' = [pc EXCEPT ![c] = "read"]
      /\ UNCHANGED <<db, wal, nBackfill, readMark, iterator, count>>
      /\ UNCHANGED <<shared, exclusive, minFrame, at>>
    BY DEF Publish, Goto, files, lockVars
<1>2. ConnsTyped /\ Own(c) /\ Salted(c) /\ Writes(c) /\ Whole
    BY DEF ContentInv, Part
<1>3. /\ WAL_WRITE_LOCK \in exclusive[c] /\ hdr.isInit /\ ZERO \notin shared[c]
      /\ my[c].isInit /\ my[c].mxFrame = mx /\ my[c].salt >= hdr.salt
      /\ LogHolds(c) /\ w.done = w.pages /\ w.pages # {}
    BY <1>1, <1>2, Built DEF Own, Writes, Writing
<1>4. n \in Nat \ {0}
    <2>1. w.pages \subseteq Page
        BY <1>2, LeftAlone
    <2>2. IsFiniteSet(w.pages)
        BY <2>1, WalAssumption, FS_Subset
    <2> QED
        BY <1>3, <2>2, FS_EmptySet, FS_CardinalityType
<1>5. /\ h \in AnyHdr /\ h.isInit /\ h.mxFrame = mx + n /\ h.salt = my[c].salt
      /\ my[c].salt \in Nat /\ h.salt <= count.salt
    <2>1. my[c] \in AnyHdr /\ my[c].salt \in Nat
        BY <1>2, LeftAlone
    <2>2. mx \in Nat
        BY Numbers
    <2> HIDE DEF n, mx
    <2> QED
        BY <1>2, <1>3, <1>4, <2>1, <2>2 DEF AnyHdr, Salted
<1>6. /\ mx + n <= Len(wal.frames)
      /\ \A f \in (mx + 1)..(mx + n) : wal.frames[f].page \in w.pages /\ wal.frames[f].tx = w.tx
      /\ \A p \in w.pages : \E f \in (mx + 1)..(mx + n) : wal.frames[f].page = p
    BY <1>3 DEF LogHolds
<1> HIDE DEF h, n
<1>7. LocksGo(c)
    BY <1>1, <1>2, LocksMoved DEF lockVars
<1>8. Turns(c, "read", h, minFrame[c], at[c], NoWork)
    BY <1>1, <1>2, <1>5, <1>7, LeftAlone DEF Turns
<1>9. ConnsTyped' /\ Apart(c) /\ pc'[c] = "read" /\ my'[c] = h
    BY <1>2, <1>8, RestMoved DEF Turned
<1> HIDE DEF w, mx
<1>10. mx = hdr.mxFrame /\ mx \in Nat /\ mx + n \in Nat /\ mx < mx + n
    BY <1>4, Numbers DEF mx
<1>11. /\ index' \in Seq(Nat) /\ Len(index') = mx + n
       /\ \A f \in 1..(mx + n) : index'[f] = wal.frames[f].page
    <2>1. IsIndex(PagesOf(SubSeq(wal.frames, 1, mx + n)), wal.frames, mx + n)
        BY <1>6, <1>10, Numbers, IndexOf
    <2>2. IsIndex(index', wal.frames, mx + n)
        BY <1>1, <1>5, <2>1
    <2> QED
        BY <2>2 DEF IsIndex
<1>12. Written(c) \in [Page -> Int]
    <2>1. w.tx \in Int
        BY <1>2, LeftAlone DEF w
    <2>2. LastOf(history) \in [Page -> Int]
        BY LastContent
    <2> QED
        BY <2>1, <2>2 DEF Written, w
<1>13. /\ history' \in Seq([Page -> Int]) /\ history' # <<>> /\ LastOf(history') = Written(c)
    BY <1>1, <1>12, LastContent
<1>14. MoreSalt
    BY <1>1, Numbers DEF MoreSalt
<1>15. Part(c)'
    <2>1. Own(c)' /\ ZERO \notin shared'[c]
        BY <1>1, <1>2, <1>3, <1>9 DEF Own, Free, Transacting, Writing, Checkpointing, Copying
    <2>2. Salted(c)'
        BY <1>1, <1>5, <1>9 DEF Salted
    <2> QED
        BY <1>9, <2>1, <2>2 DEF Part, ZeroReads, Restarts, Writes, Copies, Copying
<1>16. ASSUME NEW d \in Conn \ {c} PROVE Part(d)'
    <2>1. Part(d) /\ Same(d) /\ ConnsTyped /\ FilesTyped
        BY <1>2, <1>9 DEF ContentInv, Apart, Whole
    <2>2. pc[d] \notin Writing \cup {"recover"}
        BY <1>3, OnlyWriter
    <2>3. ZeroReads(d)'
        <3>1. my[d].salt \in Nat /\ my[d].mxFrame \in Nat
            BY <1>2, LeftAlone
        <3>2. Before(my[d], hdr) => Before(my[d], h) /\ my[d] # h
            <4>1. hdr.salt \in Nat /\ h.salt \in Nat /\ hdr.mxFrame \in Nat
                BY <1>5, Numbers
            <4>2. hdr.mxFrame < h.mxFrame /\ h.mxFrame \in Nat /\ hdr.salt <= h.salt
                BY <1>3, <1>5, <1>10
            <4> QED
                BY <3>1, <4>1, <4>2 DEF Before
        <3> QED
            BY <1>1, <2>1, <3>2 DEF Part, Same, ZeroReads
    <2>4. Restarts(d)' /\ Writes(d)'
        BY <2>1, <2>2 DEF Same, Restarts, Writes, Writing
    <2>5. /\ SameCopies /\ nBackfill' = nBackfill /\ hdr'.mxFrame \in Nat
          /\ hdr.mxFrame <= hdr'.mxFrame
          /\ \A f \in 1..hdr.mxFrame : wal'.frames[f] = wal.frames[f]
        BY <1>1, <1>5, <1>10 DEF SameCopies
    <2>6. Copies(d)'
        BY <2>1, <2>5, CopiesKept DEF Part
    <2> QED
        BY <1>14, <2>1, <2>3, <2>4, <2>6, OwnKept, SaltedKept DEF Part
<1>17. nBackfill <= mx
    <2>1. \A d \in Conn : pc[d] # "restart"
        BY <1>1, <1>3, OnlyWriter DEF Writing
    <2> QED
        BY <1>2, <1>10, <2>1, Numbers DEF Whole, Ahead
<1>18. Whole'
    <2>1. FilesTyped'
        BY <1>1, <1>2, <1>5, <1>11, <1>13 DEF Whole, FilesTyped
    <2>2. Pristine' /\ hdr'.salt <= count'.salt
        BY <1>1, <1>5 DEF Pristine
    <2>3. Mirrors'
        BY <1>1, <1>5, <1>6, <1>10, <1>11 DEF Mirrors
    <2>4. Seen'
        <3> SUFFICES ASSUME NEW p \in Page, NEW f \in Nat,
                            LastIn(wal.frames, f, p, nBackfill + 1, mx + n)
                     PROVE  Written(c)[p] = IF f = 0 THEN db[p] ELSE wal.frames[f].tx
            BY <1>1, <1>5, <1>13 DEF Seen, Shows, Makes
        <3>1. CASE p \in w.pages
            <4>1. PICK g \in (mx + 1)..(mx + n) : wal.frames[g].page = p
                BY <1>6, <3>1
            <4>2. f \in (mx + 1)..(mx + n)
                <5>1. nBackfill \in Nat
                    BY Numbers
                <5>2. g \in (nBackfill + 1)..(mx + n)
                    BY <1>10, <1>17, <4>1, <5>1
                <5>3. f # 0 /\ \A e \in (f + 1)..(mx + n) : wal.frames[e].page # p
                    BY <1>10, <4>1, <5>1, <5>2 DEF LastIn
                <5>4. f <= mx + n
                    BY <1>10, <5>1, <5>3 DEF LastIn
                <5>5. ~(f < g)
                    BY <1>10, <4>1, <5>3
                <5> QED
                    BY <1>10, <4>1, <5>4, <5>5
            <4>3. f # 0 /\ wal.frames[f].tx = w.tx
                BY <1>6, <1>10, <4>2
            <4> QED
                BY <3>1, <4>3 DEF Written, w
        <3>2. CASE p \notin w.pages
            <4>1. \A g \in (mx + 1)..(mx + n) : wal.frames[g].page # p
                BY <1>6, <3>2
            <4>0. nBackfill + 1 \in Nat \ {0} /\ nBackfill + 1 <= mx + 1 /\ mx <= mx + n
                BY <1>10, <1>17, Numbers
            <4>2. LastIn(wal.frames, f, p, nBackfill + 1, mx)
                BY <1>10, <4>0, <4>1, LastBelow
            <4>3. LastOf(history)[p] = IF f = 0 THEN db[p] ELSE wal.frames[f].tx
                BY <1>2, <1>3, <1>10, <4>2 DEF Whole, Seen, Shows, Makes
            <4> QED
                BY <3>2, <4>3 DEF Written, w
        <3> QED
            BY <3>1, <3>2
    <2>5. Ahead'
        BY <1>1, <1>5, <1>10, <1>17, Numbers DEF Ahead
    <2> QED
        BY <2>1, <2>2, <2>3, <2>4, <2>5 DEF Whole
<1> QED
    BY <1>9, <1>15, <1>16, <1>18 DEF ContentInv

-----------------------------------------------------------------------------
(***************************************************************************)
(* The wal-index is built from the log.                                    *)
(***************************************************************************)
LEMMA RecoveredTyped ==
    ASSUME NEW log \in [salt : Nat, frames : Seq(AnyFrame)]
    PROVE  /\ RecoveredHdr(log) \in AnyHdr
           /\ RecoveredHdr(log).isInit
           /\ RecoveredHdr(log).salt = log.salt
           /\ RecoveredHdr(log).mxFrame \in 0..Len(log.frames)
<1> DEFINE good == {n \in 1..Len(log.frames) :
                        log.salt # 0 /\ \A f \in 1..n : Decodes(log, f)}
           S == {0} \cup {n \in good : log.frames[n].commit}
<1>1. Len(log.frames) \in Nat /\ log.salt \in Nat
    BY LenProperties
<1>2. S \in SUBSET (0..Len(log.frames)) /\ S # {}
    BY <1>1
<1>3. RecoveredHdr(log) = [isInit |-> TRUE, salt |-> log.salt, mxFrame |-> Greatest(S)]
    BY DEF RecoveredHdr
<1> HIDE DEF S
<1>4. Greatest(S) \in 0..Len(log.frames)
    BY <1>1, <1>2, GreatestOf
<1> QED
    BY <1>1, <1>3, <1>4 DEF AnyHdr

LEMMA RecoverContent ==
    ASSUME ContentInv, WalInv', Rebuildable, NEW c \in Conn \ Checkpointer, Recover(c)
    PROVE  ContentInv'
<1>1. /\ pc[c] = "idle" /\ ~hdr.isInit /\ Exclude(c, Slot)
      /\ hdr' = RecoveredHdr(wal)
      /\ index' = PagesOf(SubSeq(wal.frames, 1, hdr'.mxFrame))
      /\ pc' = [pc EXCEPT ![c] = "recover"]
      /\ UNCHANGED <<db, wal, nBackfill, readMark, iterator, history, count>>
      /\ UNCHANGED <<my, minFrame, at, work>>
    BY DEF Recover, Goto, files, ghosts
<1>2. ConnsTyped /\ Own(c) /\ Salted(c) /\ Whole
    BY DEF ContentInv, Part
<1>3. (\A d \in Conn : pc[d] = "idle") /\ nBackfill = 0
    BY <1>1, <1>2 DEF Whole, Pristine
<1>4. wal.salt <= count.salt /\ Shows(1, hdr'.mxFrame)
    BY <1>1 DEF Rebuildable
<1>5. /\ hdr' \in AnyHdr /\ hdr'.isInit /\ hdr'.salt = wal.salt
      /\ hdr'.mxFrame \in 0..Len(wal.frames)
    BY <1>1, <1>2, RecoveredTyped DEF Whole, FilesTyped
<1>6. hdr'.mxFrame \in Nat /\ hdr'.mxFrame <= Len(wal.frames)
    BY <1>5, Numbers
<1>7. /\ index' \in Seq(Nat) /\ Len(index') = hdr'.mxFrame
      /\ \A f \in 1..hdr'.mxFrame : index'[f] = wal.frames[f].page
    <2>1. IsIndex(PagesOf(SubSeq(wal.frames, 1, hdr'.mxFrame)), wal.frames, hdr'.mxFrame)
        BY <1>6, Numbers, IndexOf
    <2>2. IsIndex(index', wal.frames, hdr'.mxFrame)
        BY <1>1, <2>1
    <2> QED
        BY <2>2 DEF IsIndex
<1>8. LocksGo(c)
    BY <1>1, <1>2, LocksMoved
<1>9. Turns(c, "recover", my[c], minFrame[c], at[c], work[c])
    BY <1>1, <1>2, <1>8, LeftAlone DEF Turns
<1>10. ConnsTyped' /\ Apart(c) /\ pc'[c] = "recover" /\ my'[c] = my[c]
    BY <1>2, <1>9, RestMoved DEF Turned
<1>11. /\ exclusive'[c] = Slot /\ shared'[c] = shared[c] /\ Slot \cap shared[c] = {}
    <2>1. exclusive[c] = {}
        BY <1>1, <1>2 DEF Own, Free
    <2> QED
        BY <1>1, <1>2, <2>1 DEF Exclude, CanExclude, ConnsTyped
<1>12. Part(c)'
    <2>1. Own(c)'
        BY <1>10, <1>11, MarkSlots
           DEF Own, Free, Transacting, Writing, Checkpointing, Copying, ZERO
    <2> QED
        BY <1>1, <1>2, <1>3, <1>10, <2>1
           DEF Part, Salted, ZeroReads, Restarts, Writes, Copies, Copying
<1>13. MoreSalt
    BY <1>1, Numbers DEF MoreSalt
<1>14. ASSUME NEW d \in Conn \ {c} PROVE Part(d)'
    <2>1. Part(d) /\ Same(d) /\ pc[d] = "idle"
        BY <1>3, <1>10 DEF ContentInv, Apart
    <2>0. shared[d] = {} \/ ZERO \notin shared[d]
        BY <2>1 DEF Part, Own
    <2>2. ZeroReads(d)' /\ Restarts(d)' /\ Writes(d)' /\ Copies(d)'
        BY <2>1, <2>0 DEF Same, ZeroReads, Restarts, Writes, Copies, Copying
    <2> QED
        BY <1>2, <1>13, <2>1, <2>2, OwnKept, SaltedKept DEF Part, Whole
<1>15. Whole'
    <2>1. FilesTyped'
        BY <1>1, <1>2, <1>5, <1>7 DEF Whole, FilesTyped
    <2>2. Pristine' /\ hdr'.salt <= count'.salt
        BY <1>1, <1>4, <1>5 DEF Pristine
    <2>3. Mirrors'
        BY <1>1, <1>6, <1>7 DEF Mirrors
    <2>4. Seen'
        <3>1. nBackfill' + 1 = 1
            BY <1>1, <1>3
        <3> QED
            BY <1>1, <1>4, <3>1 DEF Seen, Shows, Makes
    <2>5. Ahead'
        BY <1>1, <1>3, <1>6 DEF Ahead
    <2> QED
        BY <2>1, <2>2, <2>3, <2>4, <2>5 DEF Whole
<1> QED
    BY <1>10, <1>12, <1>14, <1>15 DEF ContentInv

LEMMA ResetCkptInfoContent ==
    ASSUME ContentInv, WalInv', NEW c \in Conn \ Checkpointer, ResetCkptInfo(c)
    PROVE  ContentInv'
<1>1. /\ pc[c] = "recover" /\ nBackfill' = 0 /\ Release(c, Slot)
      /\ readMark' = [i \in Mark |-> IF i = 1 /\ hdr.mxFrame > 0 THEN hdr.mxFrame
                                      ELSE READMARK_NOT_USED]
      /\ pc' = [pc EXCEPT ![c] = "idle"]
      /\ UNCHANGED <<db, wal, hdr, index, iterator, history, count>>
      /\ UNCHANGED <<my, minFrame, at, work>>
    BY DEF ResetCkptInfo, Goto, files, ghosts
<1>2. ConnsTyped /\ Own(c) /\ Salted(c) /\ Restarts(c)
    BY DEF ContentInv, Part
<1>3. UNCHANGED <<db, wal, hdr, nBackfill, index, iterator, history, count>>
    BY <1>1, <1>2 DEF Restarts
<1>4. readMark' \in [Mark -> Nat]
    BY <1>1, Numbers, WalAssumption
<1>5. LocksGo(c)
    BY <1>1, <1>2, LocksMoved
<1>6. Turns(c, "idle", my[c], minFrame[c], at[c], work[c])
    BY <1>1, <1>2, <1>5, LeftAlone DEF Turns
<1>7. ConnsTyped' /\ Apart(c) /\ pc'[c] = "idle" /\ my'[c] = my[c]
    BY <1>2, <1>6, RestMoved DEF Turned
<1>8. exclusive'[c] = {} /\ ZERO \notin shared'[c]
    BY <1>1, <1>2, MarkSlots DEF Release, ConnsTyped, ZERO
<1>9. Own(c)'
    BY <1>7, <1>8 DEF Own, Free, Transacting, Writing, Checkpointing, Copying
<1>10. Salted(c)'
    BY <1>1, <1>2, <1>7 DEF Salted
<1>11. FilesTyped' /\ MoreSalt /\ SameContent /\ iterator' = iterator
    BY <1>3, <1>4, FilesLeft
<1> QED
    BY <1>1, <1>7, <1>8, <1>9, <1>10, <1>11, Built, FreeStep DEF Free

-----------------------------------------------------------------------------
(***************************************************************************)
(* Checkpoints.                                                            *)
(***************************************************************************)
LEMMA BeginCheckpointContent ==
    ASSUME ContentInv, WalInv', ~IdleCheckpoints, NEW c \in Checkpointer, BeginCheckpoint(c)
    PROVE  ContentInv'
<1>1. /\ pc[c] = "idle" /\ hdr.isInit /\ nBackfill < hdr.mxFrame
      /\ Exclude(c, {WAL_CKPT_LOCK}) /\ my' = [my EXCEPT ![c] = hdr]
      /\ Counts("checkpoints") /\ pc' = [pc EXCEPT ![c] = "checkpoint"]
      /\ UNCHANGED <<db, wal, hdr, nBackfill, readMark, index, iterator, history>>
      /\ UNCHANGED <<minFrame, at, work>>
    BY DEF BeginCheckpoint, Goto, files, shm, ghosts
<1>2. ConnsTyped /\ Own(c) /\ FilesTyped /\ c \in Conn
    BY WalAssumption DEF ContentInv, Part, Whole
<1>3. /\ count' \in [tx : Nat, salt : Nat, checkpoints : Nat, faults : Nat] /\ MoreSalt
    BY <1>1, <1>2, Counted DEF FilesTyped
<1>4. LocksGo(c)
    BY <1>1, <1>2, LocksMoved, MarkSlots
<1>5. Turns(c, "checkpoint", hdr, minFrame[c], at[c], work[c])
    BY <1>1, <1>2, <1>4, LeftAlone, Numbers DEF Turns
<1>6. ConnsTyped' /\ Apart(c) /\ pc'[c] = "checkpoint" /\ my'[c] = hdr
    BY <1>2, <1>5, RestMoved DEF Turned
<1>7. /\ exclusive'[c] = {WAL_CKPT_LOCK} /\ shared'[c] = shared[c]
      /\ WAL_CKPT_LOCK \notin shared[c]
    <2>1. exclusive[c] = {}
        BY <1>1, <1>2 DEF Own, Free
    <2> QED
        BY <1>1, <1>2, <2>1 DEF Exclude, CanExclude, ConnsTyped
<1>8. WAL_WRITE_LOCK # WAL_CKPT_LOCK
    BY DEF WAL_WRITE_LOCK, WAL_CKPT_LOCK
<1>9. Own(c)'
    BY <1>1, <1>2, <1>6, <1>7, <1>8 DEF Own, Free, Transacting, Writing, Checkpointing, Copying
<1>10. Copies(c)' /\ Salted(c)'
    BY <1>1, <1>3, <1>6, Numbers DEF Copies, Copying, Salted, MoreSalt
<1>11. Part(c)'
    BY <1>6, <1>9, <1>10 DEF Part, ZeroReads, Restarts, Writes
<1>12. FilesTyped' /\ SameContent
    BY <1>1, <1>2, <1>3 DEF FilesTyped, SameContent, SameHdr, SameFrames
<1> QED
    BY <1>1, <1>2, <1>3, <1>6, <1>11, <1>12, Quietly

\* A step of the one checkpoint: the others copy nothing.
LEMMA CopierStep ==
    ASSUME ContentInv, WalInv', NEW c \in Conn, WAL_CKPT_LOCK \in exclusive[c],
           Apart(c), ConnsTyped', FilesTyped', MoreSalt, hdr.isInit, pc[c] # "restart",
           UNCHANGED <<wal, hdr, nBackfill, index, history>>, Seen', Part(c)'
    PROVE  ContentInv'
<1>1. Whole /\ ConnsTyped
    BY DEF ContentInv
<1>2. ASSUME NEW d \in Conn \ {c} PROVE Part(d)'
    <2>1. Part(d) /\ Same(d) /\ SameHdr /\ SameFrames
        BY DEF ContentInv, Apart, SameHdr, SameFrames
    <2>2. pc[d] \notin Checkpointing
        BY OnlyCheckpoint
    <2>3. Copies(d)'
        BY <2>1, <2>2 DEF Same, Copies, Copying, Checkpointing
    <2> QED
        BY <1>1, <2>1, <2>3, OwnKept, ZeroKept, RestartsKept, WritesKept, SaltedKept
           DEF Part, Whole
<1>3. Whole'
    <2>1. Pristine' /\ hdr'.salt <= count'.salt
        BY <1>1, Numbers DEF Pristine, Whole, MoreSalt
    <2>2. Mirrors'
        BY <1>1 DEF Mirrors, Whole
    <2>3. Ahead'
        <3>1. \A d \in Conn : pc[d] = "restart" => pc'[d] = "restart"
            BY DEF Apart, Same
        <3> QED
            BY <1>1, <3>1 DEF Whole, Ahead
    <2> QED
        BY <2>1, <2>2, <2>3 DEF Whole
<1> QED
    BY <1>2, <1>3 DEF ContentInv

LEMMA SeenStill ==
    ASSUME ContentInv, UNCHANGED <<db, wal, hdr, nBackfill, history>>
    PROVE  Seen'
BY DEF ContentInv, Whole, Seen, Shows, Makes

LEMMA SomethingToDoContent ==
    ASSUME ContentInv, WalInv', NEW c \in Checkpointer, SomethingToDo(c)
    PROVE  ContentInv'
<1> DEFINE mx == my[c].mxFrame
<1>1. /\ pc[c] = "checkpoint" /\ nBackfill < mx
      /\ iterator' = [p \in Page |-> FindFrame(index, p, 1, mx)]
      /\ at' = [at EXCEPT ![c] = <<1, mx>>] /\ pc' = [pc EXCEPT ![c] = "limit"]
      /\ UNCHANGED <<db, wal, hdr, nBackfill, readMark, index, history, count>>
      /\ UNCHANGED <<shared, exclusive, my, minFrame, work>>
    BY DEF SomethingToDo, Goto, files, shm, lockVars, ghosts
<1>2. ConnsTyped /\ Own(c) /\ Copies(c) /\ Salted(c) /\ Whole /\ c \in Conn
    BY WalAssumption DEF ContentInv, Part
<1>3. mx \in Nat /\ mx <= hdr.mxFrame /\ hdr.mxFrame \in Nat
    BY <1>1, <1>2, LeftAlone, Numbers DEF Copies, Copying
<1>4. mx <= Len(index) /\ \A f \in 1..mx : index[f] = wal.frames[f].page
    <2> HIDE DEF mx
    <2>1. hdr.mxFrame <= Len(index) /\ \A f \in 1..hdr.mxFrame : index[f] = wal.frames[f].page
        BY <1>2 DEF Whole, Mirrors
    <2> QED
        <3>1. Len(index) \in Nat
            BY Numbers
        <3>2. \A f \in 1..mx : f \in 1..hdr.mxFrame
            BY <1>3
        <3> QED
            BY <1>3, <2>1, <3>1, <3>2
<1>5. LocksGo(c)
    BY <1>1, <1>2, LocksMoved DEF lockVars
<1>6. Turns(c, "limit", my[c], minFrame[c], <<1, mx>>, work[c])
    BY <1>1, <1>2, <1>3, <1>5, LeftAlone DEF Turns
<1>7. /\ ConnsTyped' /\ Apart(c) /\ pc'[c] = "limit" /\ my'[c] = my[c] /\ at'[c] = <<1, mx>>
      /\ work'[c] = work[c]
    BY <1>2, <1>6, RestMoved DEF Turned
<1> HIDE DEF mx
<1>8. ASSUME NEW p \in Page
      PROVE  iterator'[p] \in Nat /\ LastIn(wal.frames, iterator'[p], p, 1, mx)
    <2>1. iterator'[p] = FindFrame(index, p, 1, mx)
        BY <1>1
    <2>2. LastIn(wal.frames, FindFrame(index, p, 1, mx), p, 1, mx)
        <3>1. 1 \in Nat \ {0} /\ Len(index) \in Nat
            BY Numbers
        <3> QED
            BY <1>3, <1>4, <3>1, FindsLast
    <2> QED
        BY <1>3, <2>1, <2>2 DEF LastIn
<1>9. iterator' \in [Page -> Nat]
    BY <1>1, <1>8
<1>10. FilesTyped' /\ MoreSalt
    BY <1>1, <1>2, <1>9, Numbers DEF Whole, FilesTyped, MoreSalt
<1>11. Own(c)'
    BY <1>1, <1>2, <1>7 DEF Own, Free, Transacting, Writing, Checkpointing, Copying
<1>12. Copies(c)' /\ Salted(c)'
    BY <1>1, <1>2, <1>3, <1>7, <1>8 DEF Copies, Copying, Salted, mx
<1>13. Part(c)'
    BY <1>7, <1>11, <1>12 DEF Part, ZeroReads, Restarts, Writes
<1>14. WAL_CKPT_LOCK \in exclusive[c]
    BY <1>1, <1>2 DEF Own, Checkpointing, Copying
<1> QED
    BY <1>1, <1>2, <1>7, <1>10, <1>13, <1>14, SeenStill, Built, CopierStep

LEMMA LimitByMarkContent ==
    ASSUME ContentInv, WalInv', NEW c \in Checkpointer, LimitByMark(c)
    PROVE  ContentInv'
<1> DEFINE i == at[c][1]
           safe == at[c][2]
<1>1. /\ pc[c] = "limit" /\ i \in Mark
      /\ \E new \in {readMark[i], safe} :
            new <= safe /\ at' = [at EXCEPT ![c] = <<i + 1, new>>]
      /\ \/ UNCHANGED readMark
         \/ readMark' = [readMark EXCEPT ![i] = IF i = 1 THEN safe ELSE READMARK_NOT_USED]
      /\ UNCHANGED <<db, wal, hdr, nBackfill, index, iterator, history, count>>
      /\ UNCHANGED <<shared, exclusive, pc, my, minFrame, work>>
    <2>1. ConnsTyped /\ readMark \in [Mark -> Nat] /\ c \in Conn
        BY WalAssumption DEF ContentInv, Whole, FilesTyped
    <2>2. safe \in Nat
        BY <2>1, LeftAlone
    <2> DEFINE limit == IF readMark[i] < safe /\ ~CanExclude({WAL_READ_LOCK(i)})
                       THEN readMark[i] ELSE safe
    <2>3. /\ pc[c] = "limit" /\ i \in Mark
          /\ at' = [at EXCEPT ![c] = <<i + 1, limit>>]
          /\ readMark' = IF readMark[i] < safe /\ CanExclude({WAL_READ_LOCK(i)})
                         THEN [readMark EXCEPT ![i] = IF i = 1 THEN safe ELSE READMARK_NOT_USED]
                         ELSE readMark
          /\ UNCHANGED <<db, wal, hdr, nBackfill, index, iterator, history, count>>
          /\ UNCHANGED <<shared, exclusive, pc, my, minFrame, work>>
        BY DEF LimitByMark, files, lockVars, ghosts
    <2>4. readMark[i] \in Nat
        BY <2>1, <2>3
    <2> HIDE DEF i, safe
    <2>5. \E new \in {readMark[i], safe} :
             new <= safe /\ at' = [at EXCEPT ![c] = <<i + 1, new>>]
        <3>1. limit \in {readMark[i], safe} /\ limit <= safe
            BY <2>2, <2>4
        <3> HIDE DEF limit
        <3> QED
            BY <2>3, <3>1
    <2>6. \/ UNCHANGED readMark
          \/ readMark' = [readMark EXCEPT ![i] = IF i = 1 THEN safe ELSE READMARK_NOT_USED]
        BY <2>3
    <2> QED
        BY <2>3, <2>5, <2>6
<1>2. /\ ConnsTyped /\ Own(c) /\ Copies(c) /\ Salted(c) /\ c \in Conn
      /\ readMark \in [Mark -> Nat]
    BY WalAssumption DEF ContentInv, Part, Whole, FilesTyped
<1>3. i \in Nat /\ safe \in Nat /\ readMark[i] \in Nat
    BY <1>1, <1>2, LeftAlone
<1>4. PICK new \in {readMark[i], safe} :
            new <= safe /\ at' = [at EXCEPT ![c] = <<i + 1, new>>]
    BY <1>1
<1>5. readMark' \in [Mark -> Nat]
    BY <1>1, <1>2, <1>3, WalAssumption
<1>6. LocksGo(c)
    BY <1>1, <1>2, LocksMoved DEF lockVars
<1>7. <<i + 1, new>> \in Nat \X Nat /\ new \in Nat
    BY <1>3
<1> HIDE DEF i, safe
<1>8. Turns(c, "limit", my[c], minFrame[c], <<i + 1, new>>, work[c])
    BY <1>1, <1>2, <1>4, <1>6, <1>7, LeftAlone DEF Turns
<1>9. /\ ConnsTyped' /\ Apart(c) /\ pc'[c] = "limit" /\ my'[c] = my[c] /\ at'[c] = <<i + 1, new>>
      /\ work'[c] = work[c]
    BY <1>2, <1>8, RestMoved DEF Turned
<1>10. FilesTyped' /\ MoreSalt /\ SameContent /\ iterator' = iterator
    BY <1>1, <1>5, FilesLeft
<1>11. Own(c)'
    BY <1>1, <1>2, <1>9 DEF Own, Free, Transacting, Writing, Checkpointing, Copying
<1>12. Copies(c)' /\ Salted(c)'
    <2>1. at'[c][2] <= my[c].mxFrame
        <3>1. at[c][2] <= my[c].mxFrame /\ my[c].mxFrame \in Nat
            BY <1>1, <1>2, LeftAlone DEF Copies
        <3>2. at'[c][2] = new /\ new <= at[c][2]
            BY <1>4, <1>9 DEF safe
        <3> QED
            BY <1>3, <1>7, <3>1, <3>2 DEF safe
    <2> QED
        BY <1>1, <1>2, <1>9, <2>1 DEF Copies, Copying, Salted
<1>13. Part(c)'
    BY <1>9, <1>11, <1>12 DEF Part, ZeroReads, Restarts, Writes
<1> QED
    BY <1>1, <1>2, <1>9, <1>10, <1>13, Built, Quietly

LEMMA SyncLogContent ==
    ASSUME ContentInv, WalInv', NEW c \in Checkpointer, SyncLog(c)
    PROVE  ContentInv'
<1> DEFINE w == [NoWork EXCEPT !.pages = Page]
<1>1. /\ pc[c] = "limit" /\ nBackfill < at[c][2] /\ Exclude(c, {ZERO})
      /\ minFrame' = [minFrame EXCEPT ![c] = nBackfill + 1]
      /\ work' = [work EXCEPT ![c] = w] /\ pc' = [pc EXCEPT ![c] = "backfill"]
      /\ UNCHANGED <<db, wal, hdr, nBackfill, readMark, index, iterator, history, count>>
      /\ UNCHANGED <<my, at>>
    BY DEF SyncLog, Goto, shm, ZERO
<1>2. /\ ConnsTyped /\ Own(c) /\ Copies(c) /\ Salted(c) /\ c \in Conn
      /\ readMark \in [Mark -> Nat]
    BY WalAssumption DEF ContentInv, Part, Whole, FilesTyped
<1>3. w \in AnyWork /\ w.pages = Page
    BY DEF NoWork, AnyWork
<1>4. nBackfill + 1 \in Nat
    BY Numbers
<1>5. LocksGo(c)
    BY <1>1, <1>2, LocksMoved, MarkSlots DEF ZERO
<1> HIDE DEF w
<1>6. Turns(c, "backfill", my[c], nBackfill + 1, at[c], w)
    BY <1>1, <1>2, <1>3, <1>4, <1>5, LeftAlone DEF Turns
<1>7. /\ ConnsTyped' /\ Apart(c) /\ pc'[c] = "backfill" /\ my'[c] = my[c] /\ at'[c] = at[c]
      /\ minFrame'[c] = nBackfill + 1 /\ work'[c] = w
    BY <1>2, <1>6, RestMoved DEF Turned
<1>8. FilesTyped' /\ MoreSalt /\ SameContent /\ iterator' = iterator
    BY <1>1, <1>2, FilesLeft
<1>9. /\ exclusive'[c] = exclusive[c] \cup {ZERO} /\ shared'[c] = shared[c] /\ ZERO \notin shared[c]
    BY <1>1, <1>2 DEF Exclude, CanExclude, ConnsTyped
<1>10. ZERO # WAL_WRITE_LOCK
    BY DEF ZERO, WAL_READ_LOCK, WAL_WRITE_LOCK
<1>11. Own(c)'
    BY <1>1, <1>2, <1>7, <1>9, <1>10 DEF Own, Free, Transacting, Writing, Checkpointing, Copying
<1>12. Copies(c)' /\ Salted(c)'
    BY <1>1, <1>2, <1>3, <1>7 DEF Copies, Copying, Salted
<1>13. Part(c)'
    BY <1>7, <1>11, <1>12 DEF Part, ZeroReads, Restarts, Writes
<1> QED
    BY <1>1, <1>2, <1>7, <1>8, <1>13, Built, Quietly

LEMMA FailSyncLogContent ==
    ASSUME ContentInv, WalInv', NEW c \in Checkpointer, FailSyncLog(c)
    PROVE  ContentInv'
<1>1. /\ pc[c] = "limit" /\ Exclude(c, {ZERO})
      /\ Counts("faults") /\ pc' = [pc EXCEPT ![c] = "checkpointed"]
      /\ UNCHANGED <<db, wal, hdr, nBackfill, readMark, index, iterator, history>>
      /\ UNCHANGED <<my, minFrame, at, work>>
    BY DEF FailSyncLog, Goto, files, shm, ghosts, ZERO
<1>2. ConnsTyped /\ Own(c) /\ Salted(c) /\ FilesTyped /\ c \in Conn
    BY WalAssumption DEF ContentInv, Part, Whole
<1>3. LocksGo(c)
    BY <1>1, <1>2, LocksMoved, MarkSlots DEF ZERO
<1>4. Turns(c, "checkpointed", my[c], minFrame[c], at[c], work[c])
    BY <1>1, <1>2, <1>3, LeftAlone DEF Turns
<1>5. ConnsTyped' /\ Apart(c) /\ pc'[c] = "checkpointed" /\ my'[c] = my[c]
    BY <1>2, <1>4, RestMoved DEF Turned
<1>6. count' \in [tx : Nat, salt : Nat, checkpoints : Nat, faults : Nat] /\ MoreSalt
    BY <1>1, <1>2, Counted DEF FilesTyped
<1>7. FilesTyped' /\ SameContent
    BY <1>1, <1>2, <1>6 DEF FilesTyped, SameContent, SameHdr, SameFrames
<1>8. /\ exclusive'[c] = exclusive[c] \cup {ZERO} /\ shared'[c] = shared[c] /\ ZERO \notin shared[c]
    BY <1>1, <1>2 DEF Exclude, CanExclude, ConnsTyped
<1>9. ZERO # WAL_WRITE_LOCK
    BY DEF ZERO, WAL_READ_LOCK, WAL_WRITE_LOCK
<1>10. Own(c)'
    BY <1>1, <1>2, <1>5, <1>8, <1>9 DEF Own, Free, Transacting, Writing, Checkpointing, Copying
<1>11. Salted(c)'
    <2>1. my[c].salt \in Nat /\ count.salt \in Nat
        BY <1>2, LeftAlone, Numbers
    <2> QED
        BY <1>2, <1>5, <1>6, <2>1 DEF Salted, MoreSalt
<1>12. Part(c)'
    BY <1>5, <1>8, <1>10, <1>11 DEF Part, ZeroReads, Restarts, Writes, Copies, Copying
<1>13. hdr.isInit
    BY <1>1, <1>2, Built
<1> QED
    BY <1>1, <1>2, <1>5, <1>6, <1>7, <1>12, <1>13, Quietly

\* What a checkpoint at work knows of its frames.
LEMMA Copier ==
    ASSUME ContentInv, NEW c \in Checkpointer, pc[c] = "backfill"
    PROVE  /\ c \in Conn /\ WAL_CKPT_LOCK \in exclusive[c] /\ WAL_WRITE_LOCK \notin exclusive[c]
           /\ ZERO \in exclusive[c] /\ hdr.isInit
           /\ my[c].mxFrame \in Nat /\ nBackfill < my[c].mxFrame /\ my[c].mxFrame <= hdr.mxFrame
           /\ at[c][2] \in Nat /\ at[c][2] <= my[c].mxFrame
           /\ nBackfill < at[c][2] /\ minFrame[c] = nBackfill + 1
           /\ \A p \in Page : /\ LastIn(wal.frames, iterator[p], p, 1, my[c].mxFrame)
                              /\ iterator[p] \in Nat
           /\ \A f : InRange(c, f) <=> f \in (nBackfill + 1)..at[c][2]
           /\ \A p \in Page \ work[c].pages :
                 InRange(c, iterator[p]) => db[p] = wal.frames[iterator[p]].tx
<1>1. ConnsTyped /\ FilesTyped /\ Own(c) /\ Copies(c) /\ c \in Conn
    BY WalAssumption DEF ContentInv, Part, Whole
<1>2. hdr.isInit
    BY <1>1, Built
<1>3. my[c].mxFrame \in Nat /\ at[c][2] \in Nat
    BY <1>1, LeftAlone
<1>4. \A p \in Page : iterator[p] \in Nat
    BY <1>1 DEF FilesTyped
<1>5. WAL_CKPT_LOCK \in exclusive[c] /\ WAL_WRITE_LOCK \notin exclusive[c] /\ ZERO \in exclusive[c]
    BY <1>1 DEF Own, Checkpointing, Copying
<1>6. /\ nBackfill < my[c].mxFrame /\ my[c].mxFrame <= hdr.mxFrame
      /\ at[c][2] <= my[c].mxFrame /\ nBackfill < at[c][2] /\ minFrame[c] = nBackfill + 1
      /\ \A p \in Page : LastIn(wal.frames, iterator[p], p, 1, my[c].mxFrame)
      /\ \A p \in Page \ work[c].pages :
            InRange(c, iterator[p]) => db[p] = wal.frames[iterator[p]].tx
    BY <1>1 DEF Copies, Copying
<1>7. \A f : InRange(c, f) <=> f \in (nBackfill + 1)..at[c][2]
    BY <1>6 DEF InRange
<1> QED
    BY <1>1, <1>2, <1>3, <1>4, <1>5, <1>6, <1>7

\* Whatever a checkpoint does to a page in the database, a copy of it in the
\* log is read instead.
LEMMA SeenDespite ==
    ASSUME ContentInv, NEW c \in Checkpointer, pc[c] = "backfill", NEW p \in Page,
           \A q \in Page \ {p} : db'[q] = db[q],
           InRange(c, iterator[p]) \/ db'[p] = db[p],
           UNCHANGED <<wal, hdr, nBackfill, history>>
    PROVE  Seen'
<1> SUFFICES ASSUME NEW q \in Page, NEW f \in Nat,
                    LastIn(wal.frames, f, q, nBackfill + 1, hdr.mxFrame)
             PROVE  LastOf(history)[q] = IF f = 0 THEN db'[q] ELSE wal.frames[f].tx
    BY DEF Seen, Shows, Makes
<1>1. LastOf(history)[q] = IF f = 0 THEN db[q] ELSE wal.frames[f].tx
    BY Built, WalAssumption DEF ContentInv, Whole, Seen, Shows, Makes
<1>2. ASSUME q = p, f = 0 PROVE db'[p] = db[p]
    <2>1. \A g \in (nBackfill + 1)..hdr.mxFrame : wal.frames[g].page # p
        BY <1>2, Numbers DEF LastIn
    <2> SUFFICES ASSUME InRange(c, iterator[p]) PROVE FALSE
        OBVIOUS
    <2>2. iterator[p] \in (nBackfill + 1)..at[c][2]
        BY Copier
    <2>3. iterator[p] \in (nBackfill + 1)..hdr.mxFrame /\ iterator[p] # 0
        <3>1. /\ at[c][2] \in Nat /\ at[c][2] <= my[c].mxFrame
              /\ my[c].mxFrame \in Nat /\ my[c].mxFrame <= hdr.mxFrame
            BY Copier
        <3>2. nBackfill \in Nat /\ hdr.mxFrame \in Nat
            BY Numbers
        <3> QED
            BY <2>2, <3>1, <3>2
    <2>4. wal.frames[iterator[p]].page = p
        BY <2>3, Copier DEF LastIn
    <2> QED
        BY <2>1, <2>3, <2>4
<1> QED
    BY <1>1, <1>2

LEMMA BackfillPageContent ==
    ASSUME ContentInv, WalInv', NEW c \in Checkpointer, BackfillPage(c)
    PROVE  ContentInv'
<1> DEFINE p == Least(work[c].pages)
           f == iterator[p]
           w == [work[c] EXCEPT !.pages = @ \ {p}]
<1>1. /\ pc[c] = "backfill" /\ work[c].pages # {}
      /\ db' = IF f \in minFrame[c]..at[c][2]
               THEN [db EXCEPT ![p] = FrameContent(wal.frames, f, p)] ELSE db
      /\ work' = [work EXCEPT ![c].pages = @ \ {p}]
      /\ UNCHANGED <<wal, hdr, nBackfill, readMark, index, iterator, history, count>>
      /\ UNCHANGED <<shared, exclusive, pc, my, minFrame, at>>
    BY DEF BackfillPage, shm, lockVars, ghosts
<1>2. ConnsTyped /\ Own(c) /\ Salted(c) /\ Whole /\ c \in Conn
    BY WalAssumption DEF ContentInv, Part
<1>3. p \in work[c].pages /\ p \in Page
    <2>1. work[c].pages \subseteq Page
        BY <1>2, LeftAlone
    <2>2. work[c].pages \in SUBSET Nat
        BY <2>1, WalAssumption
    <2> QED
        BY <1>1, <2>1, <2>2, LeastOf
<1>4. w \in AnyWork /\ w.pages = work[c].pages \ {p} /\ work' = [work EXCEPT ![c] = w]
    <2>1. work[c] \in AnyWork
        BY <1>2, LeftAlone
    <2>2. work' = [work EXCEPT ![c] = w]
        BY <1>1
    <2> HIDE DEF p
    <2> QED
        BY <2>1, <2>2 DEF AnyWork
<1> HIDE DEF w, p, f
<1>5. /\ db' \in [Page -> Int] /\ \A q \in Page \ {p} : db'[q] = db[q]
      /\ ~InRange(c, f) => db'[p] = db[p]
      /\ InRange(c, f) => db'[p] = wal.frames[f].tx
    <2>1. db \in [Page -> Int]
        BY <1>2 DEF Whole, FilesTyped
    <2>2. CASE ~InRange(c, f)
        BY <1>1, <2>1, <2>2 DEF InRange
    <2>3. CASE InRange(c, f)
        <3>1. db' = [db EXCEPT ![p] = FrameContent(wal.frames, f, p)]
            BY <1>1, <2>3 DEF InRange
        <3>2. f \in (nBackfill + 1)..at[c][2]
            BY <1>1, <2>3, Copier
        <3>3. f # 0 /\ f \in 1..Len(wal.frames)
            <4>1. hdr.mxFrame <= Len(wal.frames)
                BY <1>2 DEF Whole, Mirrors
            <4>2. at[c][2] \in Nat /\ at[c][2] <= my[c].mxFrame /\ my[c].mxFrame <= hdr.mxFrame
                  /\ my[c].mxFrame \in Nat
                BY <1>1, Copier
            <4>3. nBackfill \in Nat /\ hdr.mxFrame \in Nat /\ Len(wal.frames) \in Nat
                BY Numbers
            <4> HIDE DEF f
            <4> QED
                BY <3>2, <4>1, <4>2, <4>3
        <3>4. wal.frames[f].page = p
            BY <1>1, <1>3, <3>3, Copier DEF LastIn, f
        <3>5. wal.frames[f] \in AnyFrame
            BY <3>3, Numbers, ElementOfSeq
        <3>6. FrameContent(wal.frames, f, p) = wal.frames[f].tx /\ wal.frames[f].tx \in Int
            BY <3>4, <3>5 DEF FrameContent, AnyFrame
        <3> QED
            BY <1>3, <2>1, <2>3, <3>1, <3>6
    <2> QED
        BY <2>2, <2>3
<1>6. Seen'
    BY <1>1, <1>3, <1>5, SeenDespite DEF f
<1>7. LocksGo(c)
    BY <1>1, <1>2, LocksMoved DEF lockVars
<1>8. Turns(c, "backfill", my[c], minFrame[c], at[c], w)
    BY <1>1, <1>2, <1>4, <1>7, LeftAlone DEF Turns
<1>9. /\ ConnsTyped' /\ Apart(c) /\ pc'[c] = "backfill" /\ my'[c] = my[c] /\ at'[c] = at[c]
      /\ minFrame'[c] = minFrame[c] /\ work'[c] = w
    BY <1>2, <1>8, RestMoved DEF Turned
<1>10. FilesTyped' /\ MoreSalt
    <2>1. FilesTyped
        BY <1>2 DEF Whole
    <2>2. FilesTyped'
        BY <1>1, <1>5, <2>1 DEF FilesTyped
    <2>3. MoreSalt
        BY <1>1, Numbers DEF MoreSalt
    <2> QED
        BY <2>2, <2>3
<1>11. Own(c)'
    BY <1>1, <1>2, <1>9 DEF Own, Free, Transacting, Writing, Checkpointing, Copying
<1>12. Copies(c)'
    <2>1. \A q \in Page \ w.pages : InRange(c, iterator[q]) => db'[q] = wal.frames[iterator[q]].tx
        BY <1>1, <1>4, <1>5, Copier DEF f
    <2>2. \A q \in Page \ work'[c].pages :
              iterator'[q] \in minFrame'[c]..at'[c][2] => db'[q] = wal'.frames[iterator'[q]].tx
        <3>1. /\ iterator' = iterator /\ wal' = wal /\ work'[c].pages = w.pages
              /\ minFrame'[c] = minFrame[c] /\ at'[c] = at[c]
            BY <1>1, <1>9
        <3> QED
            BY <2>1, <3>1, Zenon DEF InRange
    <2>3. /\ nBackfill' < my'[c].mxFrame /\ my'[c].mxFrame <= hdr'.mxFrame
          /\ at'[c][2] <= my'[c].mxFrame
          /\ nBackfill' < at'[c][2] /\ minFrame'[c] = nBackfill' + 1
          /\ \A q \in Page : LastIn(wal'.frames, iterator'[q], q, 1, my'[c].mxFrame)
        BY <1>1, <1>9, Copier
    <2> QED
        BY <2>2, <2>3, Zenon DEF Copies, InRange
<1>13. Salted(c)'
    BY <1>1, <1>2, <1>9 DEF Salted
<1>14. Part(c)'
    BY <1>9, <1>11, <1>12, <1>13 DEF Part, ZeroReads, Restarts, Writes
<1> QED
    BY <1>1, <1>2, <1>6, <1>9, <1>10, <1>14, Copier, CopierStep

LEMMA CopierEnds ==
    ASSUME ContentInv, WalInv', NEW c \in Conn, Own(c), pc[c] \in Checkpointing,
           ConnsTyped', Apart(c), pc'[c] = "checkpointed", UNCHANGED <<shared, exclusive>>,
           my'[c] = my[c], MoreSalt
    PROVE  Part(c)'
<1>1. ConnsTyped /\ FilesTyped /\ Salted(c)
    BY DEF ContentInv, Part, Whole
<1>2. my[c].salt \in Nat /\ count.salt \in Nat
    BY <1>1, LeftAlone, Numbers
<1>3. Salted(c)'
    BY <1>1, <1>2 DEF Salted, MoreSalt
<1>4. Own(c)'
    BY DEF Own, Free, Transacting, Writing, Checkpointing, Copying
<1> QED
    BY <1>3, <1>4 DEF Part, ZeroReads, Restarts, Writes, Copies, Copying

LEMMA FailBackfillContent ==
    ASSUME ContentInv, WalInv', NEW c \in Checkpointer, FailBackfill(c)
    PROVE  ContentInv'
<1>1. /\ pc[c] = "backfill"
      /\ \/ db' = db
         \/ \E p \in work[c].pages : InRange(c, iterator[p]) /\ db' = [db EXCEPT ![p] = Torn]
      /\ work' = [work EXCEPT ![c] = NoWork] /\ Counts("faults")
      /\ pc' = [pc EXCEPT ![c] = "checkpointed"]
      /\ UNCHANGED <<wal, hdr, nBackfill, readMark, index, iterator, history>>
      /\ UNCHANGED <<shared, exclusive, my, minFrame, at>>
    BY DEF FailBackfill, Goto, shm, lockVars, ghosts, InRange
<1>2. ConnsTyped /\ Own(c) /\ Whole /\ c \in Conn
    BY WalAssumption DEF ContentInv, Part
<1>3. PICK p \in Page :
            db' = db \/ (InRange(c, iterator[p]) /\ db' = [db EXCEPT ![p] = Torn])
    <2>1. work[c].pages \subseteq Page /\ Page # {}
        BY <1>2, LeftAlone, WalAssumption
    <2> QED
        BY <1>1, <2>1
<1>4. /\ db' \in [Page -> Int] /\ \A q \in Page \ {p} : db'[q] = db[q]
      /\ InRange(c, iterator[p]) \/ db'[p] = db[p]
    <2>1. db \in [Page -> Int] /\ Torn \in Int
        BY <1>2 DEF Whole, FilesTyped, Torn
    <2> QED
        BY <1>1, <1>3, <2>1
<1>5. Seen'
    BY <1>1, <1>3, <1>4, SeenDespite
<1>6. LocksGo(c)
    BY <1>1, <1>2, LocksMoved DEF lockVars
<1>7. Turns(c, "checkpointed", my[c], minFrame[c], at[c], NoWork)
    BY <1>1, <1>2, <1>6, LeftAlone DEF Turns
<1>8. ConnsTyped' /\ Apart(c) /\ pc'[c] = "checkpointed" /\ my'[c] = my[c]
    BY <1>2, <1>7, RestMoved DEF Turned
<1>9. count' \in [tx : Nat, salt : Nat, checkpoints : Nat, faults : Nat] /\ MoreSalt
    BY <1>1, <1>2, Counted DEF Whole, FilesTyped
<1>10. FilesTyped'
    BY <1>1, <1>2, <1>4, <1>9 DEF Whole, FilesTyped
<1>11. Part(c)'
    BY <1>1, <1>2, <1>8, <1>9, CopierEnds DEF Checkpointing, Copying
<1> QED
    BY <1>1, <1>2, <1>5, <1>8, <1>9, <1>10, <1>11, Copier, CopierStep

\* The pages copied up to `safe' take the place of the frames up to it.
LEMMA BackfilledSeen ==
    ASSUME ContentInv, NEW c \in Checkpointer, pc[c] = "backfill", work[c].pages = {},
           NEW p \in Page, NEW f \in Nat,
           LastIn(wal.frames, f, p, at[c][2] + 1, hdr.mxFrame)
    PROVE  LastOf(history)[p] = IF f = 0 THEN db[p] ELSE wal.frames[f].tx
<1> DEFINE lo == nBackfill + 1
           safe == at[c][2]
           mid == my[c].mxFrame
           mx == hdr.mxFrame
           g == iterator[p]
           Of(h) == wal.frames[h].page = p
<1>1. /\ lo \in Nat \ {0} /\ safe \in Nat /\ mid \in Nat /\ mx \in Nat /\ g \in Nat
      /\ lo <= safe /\ safe <= mid /\ mid <= mx
    <2>1. /\ nBackfill < safe /\ safe <= mid /\ mid <= mx /\ safe \in Nat /\ mid \in Nat /\ g \in Nat
        BY Copier
    <2> HIDE DEF safe, mid, mx, g
    <2>2. mx \in Nat /\ nBackfill \in Nat
        BY Numbers DEF mx
    <2> QED
        BY <2>1, <2>2
<1>2. \A h \in Nat : LastIn(wal.frames, h, p, lo, mx) =>
          LastOf(history)[p] = IF h = 0 THEN db[p] ELSE wal.frames[h].tx
    BY Built, WalAssumption DEF ContentInv, Whole, Seen, Shows, Makes
<1>3. LastIn(wal.frames, g, p, 1, mid)
    BY Copier
<1>4. g \in lo..safe => db[p] = wal.frames[g].tx
    BY Copier
<1>5. \/ f = 0 /\ \A h \in (safe + 1)..mx : ~Of(h)
      \/ f \in (safe + 1)..mx /\ Of(f) /\ \A h \in (f + 1)..mx : ~Of(h)
    BY DEF LastIn
<1>6. \/ g = 0 /\ \A h \in 1..mid : ~Of(h)
      \/ g \in 1..mid /\ Of(g) /\ \A h \in (g + 1)..mid : ~Of(h)
    BY <1>3 DEF LastIn
<1>7. \A h \in Nat :
          (\/ h = 0 /\ \A i \in lo..mx : ~Of(i)
           \/ h \in lo..mx /\ Of(h) /\ \A i \in (h + 1)..mx : ~Of(i))
              => LastIn(wal.frames, h, p, lo, mx)
    BY DEF LastIn
<1> HIDE DEF lo, safe, mid, mx, g, Of
<1>8. CASE f # 0
    <2>1. f \in lo..mx /\ Of(f) /\ \A h \in (f + 1)..mx : ~Of(h)
        BY <1>1, <1>5, <1>8
    <2> QED
        BY <1>2, <1>7, <1>8, <2>1
<1>9. CASE f = 0 /\ g \in lo..safe
    <2>1. g \in lo..mx /\ g # 0 /\ Of(g)
        BY <1>1, <1>6, <1>9
    <2>2. \A h \in (g + 1)..mx : h \in (g + 1)..mid \/ h \in (safe + 1)..mx
        BY <1>1, <1>9
    <2>3. \A h \in (g + 1)..mx : ~Of(h)
        BY <1>1, <1>5, <1>6, <1>9, <2>1, <2>2
    <2> QED
        BY <1>1, <1>2, <1>4, <1>7, <1>9, <2>1, <2>3
<1>10. CASE f = 0 /\ g \notin lo..safe
    <2>1. \A h \in (safe + 1)..mx : ~Of(h)
        BY <1>1, <1>5, <1>10
    <2>2. ASSUME NEW h \in lo..mx PROVE ~Of(h)
        <3>1. CASE h > safe
            BY <1>1, <2>1, <3>1
        <3>2. CASE h <= safe /\ g < lo
            <4>1. h \in (g + 1)..mid /\ h \in 1..mid
                BY <1>1, <3>2
            <4> QED
                BY <1>6, <4>1
        <3>3. CASE h <= safe /\ g > safe
            <4>1. g # 0 /\ g \in 1..mid /\ Of(g)
                BY <1>1, <1>6, <3>3
            <4>2. g \in (safe + 1)..mx
                BY <1>1, <3>3, <4>1
            <4> QED
                BY <2>1, <4>1, <4>2
        <3> QED
            BY <1>1, <1>10, <3>1, <3>2, <3>3
    <2> QED
        BY <1>2, <1>7, <1>10, <2>2
<1> QED
    BY <1>8, <1>9, <1>10

LEMMA BackfilledContent ==
    ASSUME ContentInv, WalInv', NEW c \in Checkpointer, Backfilled(c)
    PROVE  ContentInv'
<1>1. /\ pc[c] = "backfill" /\ work[c].pages = {} /\ nBackfill' = at[c][2]
      /\ work' = [work EXCEPT ![c] = NoWork] /\ pc' = [pc EXCEPT ![c] = "checkpointed"]
      /\ UNCHANGED <<db, wal, hdr, readMark, index, iterator, history, count>>
      /\ UNCHANGED <<shared, exclusive, my, minFrame, at>>
    BY DEF Backfilled, Goto, lockVars, ghosts
<1>2. ConnsTyped /\ Own(c) /\ Whole /\ c \in Conn
    BY WalAssumption DEF ContentInv, Part
<1>3. /\ WAL_CKPT_LOCK \in exclusive[c] /\ ZERO \in exclusive[c] /\ hdr.isInit
      /\ my[c].mxFrame \in Nat /\ nBackfill < my[c].mxFrame /\ my[c].mxFrame <= hdr.mxFrame
      /\ at[c][2] \in Nat /\ at[c][2] <= my[c].mxFrame
    BY <1>1, Copier
<1>4. nBackfill' \in Nat /\ nBackfill' <= hdr.mxFrame /\ hdr.mxFrame # 0
    BY <1>1, <1>3, Numbers
<1>5. LocksGo(c)
    BY <1>1, <1>2, LocksMoved DEF lockVars
<1>6. Turns(c, "checkpointed", my[c], minFrame[c], at[c], NoWork)
    BY <1>1, <1>2, <1>5, LeftAlone DEF Turns
<1>7. ConnsTyped' /\ Apart(c) /\ pc'[c] = "checkpointed" /\ my'[c] = my[c]
    BY <1>2, <1>6, RestMoved DEF Turned
<1>8. MoreSalt
    BY <1>1, Numbers DEF MoreSalt
<1>9. Part(c)'
    BY <1>1, <1>2, <1>7, <1>8, CopierEnds DEF Checkpointing, Copying
<1>10. ASSUME NEW d \in Conn \ {c} PROVE Part(d)'
    <2>1. Part(d) /\ Same(d)
        BY <1>7 DEF ContentInv, Apart
    <2>2. pc[d] \notin Checkpointing
        BY <1>2, <1>3, OnlyCheckpoint
    <2>3. ZERO \notin shared[d]
        BY <1>2, <1>3 DEF ContentInv, WalInv, LocksExclude
    <2>4. ZeroReads(d)' /\ Copies(d)'
        BY <2>1, <2>2, <2>3 DEF Same, ZeroReads, Copies, Copying, Checkpointing
    <2>5. Restarts(d)'
        <3>1. pc[d] # "recover"
            BY <1>2, <1>3, MarkSlots DEF ContentInv, WalInv, LocksExclude, MoversHoldMarks, ZERO
        <3> QED
            BY <1>1, <1>4, <2>1, <3>1 DEF Part, Same, Restarts
    <2>6. Writes(d)'
        BY <1>1, <2>1 DEF Part, Same, Writes, LogHolds
    <2> QED
        BY <1>2, <1>8, <2>1, <2>4, <2>5, <2>6, OwnKept, SaltedKept DEF Part, Whole
<1>11. Whole'
    <2>1. FilesTyped'
        BY <1>1, <1>2, <1>4 DEF Whole, FilesTyped
    <2>2. Pristine' /\ hdr'.salt <= count'.salt /\ Mirrors'
        BY <1>1, <1>2, <1>3 DEF Pristine, Whole, Mirrors
    <2>3. Seen'
        BY <1>1, BackfilledSeen DEF Seen, Shows, Makes
    <2>4. Ahead'
        BY <1>1, <1>4, Numbers DEF Ahead
    <2> QED
        BY <2>1, <2>2, <2>3, <2>4 DEF Whole
<1> QED
    BY <1>7, <1>9, <1>10, <1>11 DEF ContentInv

LEMMA EndCheckpointContent ==
    ASSUME ContentInv, WalInv', NEW c \in Checkpointer, EndCheckpoint(c)
    PROVE  ContentInv'
<1>1. /\ pc[c] \in {"checkpoint", "limit", "checkpointed"} /\ iterator' = NoFrames
      /\ Release(c, Slot) /\ Leave(c)
      /\ UNCHANGED <<db, wal, hdr, nBackfill, readMark, index, history, count>>
      /\ UNCHANGED work
    BY DEF EndCheckpoint, files, shm, ghosts
<1>2. ConnsTyped /\ Own(c) /\ FilesTyped /\ c \in Conn
    BY WalAssumption DEF ContentInv, Part, Whole
<1>3. LocksGo(c)
    BY <1>1, <1>2, LocksMoved
<1>4. Turns(c, "idle", NoHdr, 0, <<0, 0>>, work[c])
    BY <1>1, <1>2, <1>3, LeftAlone DEF Leave, Goto, Turns
<1>5. ConnsTyped' /\ Apart(c) /\ pc'[c] = "idle" /\ my'[c] = NoHdr
    BY <1>2, <1>4, RestMoved DEF Turned
<1>6. exclusive'[c] = {} /\ ZERO \notin shared'[c]
    BY <1>1, <1>2, MarkSlots DEF Release, ConnsTyped, ZERO
<1>7. Own(c)'
    BY <1>5, <1>6 DEF Own, Free, Transacting, Writing, Checkpointing, Copying
<1>8. Salted(c)'
    BY <1>1, <1>5, Numbers DEF Salted, NoHdr
<1>9. Part(c)'
    BY <1>5, <1>7, <1>8 DEF Part, ZeroReads, Restarts, Writes, Copies, Copying
<1>10. FilesTyped' /\ MoreSalt
    <2>1. iterator' \in [Page -> Nat]
        BY <1>1 DEF NoFrames
    <2> QED
        BY <1>1, <1>2, <2>1, Numbers DEF FilesTyped, MoreSalt
<1>11. WAL_CKPT_LOCK \in exclusive[c] /\ hdr.isInit
    BY <1>1, <1>2, Built DEF Own, Checkpointing, Copying
<1> QED
    BY <1>1, <1>2, <1>5, <1>9, <1>10, <1>11, SeenStill, CopierStep

-----------------------------------------------------------------------------
(***************************************************************************)
(* The invariant from the start to every step, and what it means.          *)
(***************************************************************************)
LEMMA ContentInitially == Init => ContentInv
<1> SUFFICES ASSUME Init PROVE ContentInv
    OBVIOUS
<1>1. /\ db = [p \in Page |-> 0] /\ wal = [salt |-> 0, frames |-> <<>>]
      /\ hdr = NoHdr /\ nBackfill = 0 /\ readMark = [i \in Mark |-> 0] /\ index = <<>>
      /\ iterator = NoFrames /\ history = <<db>>
      /\ count = [tx |-> 0, salt |-> 0, checkpoints |-> 0, faults |-> 0]
      /\ shared = [c \in Conn |-> {}] /\ exclusive = [c \in Conn |-> {}]
      /\ pc = [c \in Conn |-> "idle"] /\ my = [c \in Conn |-> NoHdr]
      /\ minFrame = [c \in Conn |-> 0] /\ at = [c \in Conn |-> <<0, 0>>]
      /\ work = [c \in Conn |-> NoWork]
    BY DEF Init, LocksInit, LocksFree, Each
<1>2. NoHdr \in AnyHdr /\ NoWork \in AnyWork /\ NoFrames \in [Page -> Nat]
    BY DEF NoHdr, AnyHdr, NoWork, AnyWork, NoFrames
<1>3. ConnsTyped
    BY <1>1, <1>2 DEF ConnsTyped
<1>4. FilesTyped
    <2>1. db \in [Page -> Int] /\ readMark \in [Mark -> Nat]
        BY <1>1
    <2>2. history \in Seq([Page -> Int]) /\ history # <<>>
        BY <1>1, <2>1
    <2>3. wal \in [salt : Nat, frames : Seq(AnyFrame)] /\ index \in Seq(Nat)
        BY <1>1
    <2> QED
        BY <1>1, <1>2, <2>1, <2>2, <2>3 DEF FilesTyped
<1>5. \A c \in Conn : Part(c)
    <2> SUFFICES ASSUME NEW c \in Conn PROVE Part(c)
        OBVIOUS
    <2>1. /\ pc[c] = "idle" /\ shared[c] = {} /\ exclusive[c] = {} /\ my[c] = NoHdr
          /\ count.salt = 0
        BY <1>1
    <2> QED
        BY <2>1 DEF Part, Own, ZeroReads, Restarts, Writes, Copies, Salted, NoHdr, Free,
                    Transacting, Writing, Copying, Checkpointing
<1>6. Whole
    <2>1. hdr.mxFrame = 0 /\ hdr.salt = 0 /\ ~hdr.isInit
        BY <1>1 DEF NoHdr
    <2>2. Pristine /\ Mirrors /\ Ahead /\ hdr.salt <= count.salt
        BY <1>1, <2>1 DEF Pristine, Mirrors, Ahead
    <2>3. Seen
        <3> SUFFICES ASSUME NEW p \in Page, NEW f \in Nat,
                            LastIn(wal.frames, f, p, nBackfill + 1, hdr.mxFrame)
                     PROVE  LastOf(history)[p] = IF f = 0 THEN db[p] ELSE wal.frames[f].tx
            BY DEF Seen, Shows, Makes
        <3>1. f = 0
            BY <1>1, <2>1 DEF LastIn
        <3>2. LastOf(history) = db
            BY <1>1 DEF LastOf
        <3> QED
            BY <3>1, <3>2
    <2> QED
        BY <1>4, <2>2, <2>3 DEF Whole
<1> QED
    BY <1>3, <1>5, <1>6, WalInitially DEF ContentInv

LEMMA ReaderContent ==
    ASSUME ContentInv, WalInv', Rebuildable, NEW c \in Conn \ Checkpointer,
           BeginRead(c) \/ EndTransaction(c) \/ Recover(c) \/ ResetCkptInfo(c)
    PROVE  ContentInv'
BY ReadHdrContent, IgnoreLogContent, ChooseMarkContent, LockMarkContent, CheckMarkContent,
   EndTransactionContent, RecoverContent, ResetCkptInfoContent DEF BeginRead

LEMMA WriterContent ==
    ASSUME ContentInv, WalInv', NEW c \in Conn \ Checkpointer, WriteTransaction(c)
    PROVE  ContentInv'
BY BeginWriteContent, RestartHdrContent, RestartMarksContent, LeaveZeroContent,
   WriteWalHdrContent, SyncWalHdrContent, WriteFrameContent, FailWriteContent, PublishContent
DEF WriteTransaction

LEMMA CheckpointContent ==
    ASSUME ~IdleCheckpoints, ContentInv, WalInv', NEW c \in Checkpointer, Checkpoint(c)
    PROVE  ContentInv'
BY BeginCheckpointContent, SomethingToDoContent, LimitByMarkContent, SyncLogContent,
   FailSyncLogContent, BackfillPageContent, FailBackfillContent, BackfilledContent, EndCheckpointContent
DEF Checkpoint

\* A crash leaves nothing but the files.
LEMMA StoppedContent ==
    ASSUME ContentInv, WalInv', Stop, NEW what \in {"faults"}, Counts(what),
           db' \in [Page -> Int], wal' \in [salt : Nat, frames : Seq(AnyFrame)],
           history' \in Seq([Page -> Int]), history' # <<>>
    PROVE  ContentInv'
<1>1. /\ hdr' = NoHdr /\ nBackfill' = 0 /\ readMark' = [i \in Mark |-> 0] /\ index' = <<>>
      /\ iterator' = NoFrames
      /\ shared' = [c \in Conn |-> {}] /\ exclusive' = [c \in Conn |-> {}]
      /\ pc' = [c \in Conn |-> "idle"] /\ my' = [c \in Conn |-> NoHdr]
      /\ minFrame' = [c \in Conn |-> 0] /\ at' = [c \in Conn |-> <<0, 0>>]
      /\ work' = [c \in Conn |-> NoWork]
    BY DEF Stop, Each
<1>2. NoHdr \in AnyHdr /\ NoWork \in AnyWork /\ NoFrames \in [Page -> Nat]
    BY DEF NoHdr, AnyHdr, NoWork, AnyWork, NoFrames
<1>3. ConnsTyped'
    BY <1>1, <1>2 DEF ConnsTyped
<1>4. count' \in [tx : Nat, salt : Nat, checkpoints : Nat, faults : Nat]
    BY Counted DEF ContentInv, Whole, FilesTyped
<1>5. FilesTyped'
    BY <1>1, <1>2, <1>4 DEF FilesTyped
<1>6. \A c \in Conn : Part(c)'
    <2> SUFFICES ASSUME NEW c \in Conn PROVE Part(c)'
        OBVIOUS
    <2>1. /\ pc'[c] = "idle" /\ shared'[c] = {} /\ exclusive'[c] = {} /\ my'[c] = NoHdr
          /\ count'.salt >= 0
        BY <1>1, <1>4
    <2> QED
        BY <2>1 DEF Part, Own, ZeroReads, Restarts, Writes, Copies, Salted, NoHdr, Free,
                    Transacting, Writing, Copying, Checkpointing
<1>7. Whole'
    <2>1. hdr'.mxFrame = 0 /\ hdr'.salt = 0 /\ ~hdr'.isInit /\ 0 <= count'.salt
        BY <1>1, <1>4 DEF NoHdr
    <2>2. Len(wal'.frames) \in Nat
        BY LenProperties
    <2>3. Pristine' /\ Mirrors' /\ Ahead' /\ Seen' /\ hdr'.salt <= count'.salt
        BY <1>1, <2>1, <2>2 DEF Pristine, Mirrors, Ahead, Seen
    <2> QED
        BY <1>5, <2>3 DEF Whole
<1> QED
    BY <1>3, <1>6, <1>7 DEF ContentInv

LEMMA WrittenTyped ==
    ASSUME ContentInv, NEW c \in Conn
    PROVE  Written(c) \in [Page -> Int]
<1>1. work[c].tx \in Int
    BY LeftAlone DEF ContentInv
<1>2. LastOf(history) \in [Page -> Int]
    BY LastContent
<1> QED
    BY <1>1, <1>2 DEF Written

LEMMA ReachedTyped ==
    ASSUME ContentInv
    PROVE  Reached \in Seq([Page -> Int]) /\ Reached # <<>>
<1>1. CASE \E c \in Conn : pc[c] = "publish"
    <2> DEFINE p == CHOOSE c \in Conn : pc[c] = "publish"
    <2>1. p \in Conn
        BY <1>1
    <2>2. Reached = Append(history, Written(p))
        BY <1>1 DEF Reached
    <2> HIDE DEF p
    <2> QED
        BY <2>1, <2>2, WrittenTyped, LastContent
<1>2. CASE ~\E c \in Conn : pc[c] = "publish"
    BY <1>2 DEF Reached, ContentInv, Whole, FilesTyped
<1> QED
    BY <1>1, <1>2

LEMMA KillContent ==
    ASSUME ContentInv, WalInv', Kill
    PROVE  ContentInv'
<1>1. Stop /\ Counts("faults") /\ history' = Reached /\ db' = db /\ wal' = wal
    BY DEF Kill, files
<1>2. db \in [Page -> Int] /\ wal \in [salt : Nat, frames : Seq(AnyFrame)]
    BY DEF ContentInv, Whole, FilesTyped
<1> QED
    BY <1>1, <1>2, ReachedTyped, StoppedContent

LEMMA ContentStep ==
    ASSUME ~IdleCheckpoints, ContentInv, Rebuildable, [Next]_vars, [~PowerLoss]_vars
    PROVE  ContentInv'
<1>1. WalInv'
    BY WalStep DEF ContentInv
<1>2. CASE UNCHANGED vars
    <2>1. /\ \A c \in Conn : Same(c)
          /\ SameHdr /\ SameFrames /\ SameCopies /\ SameContent
          /\ UNCHANGED <<db, wal, hdr, nBackfill, readMark, index, iterator, history, count>>
          /\ UNCHANGED <<shared, exclusive, pc, my, minFrame, at, work>>
        BY <1>2 DEF vars, files, shm, lockVars, conns, ghosts, Same, SameHdr, SameFrames,
                    SameCopies, SameContent
    <2>2. ConnsTyped' /\ FilesTyped' /\ MoreSalt
        BY <2>1 DEF ContentInv, Whole, ConnsTyped, FilesTyped, MoreSalt
    <2>3. \A c \in Conn : Part(c)'
        BY <2>1, <2>2, PartKept DEF ContentInv, Whole
    <2>4. Whole'
        BY <2>1, <2>2 DEF ContentInv, Whole, Pristine, Mirrors, Seen, Shows, Makes, Ahead
    <2> QED
        BY <1>1, <2>2, <2>3, <2>4 DEF ContentInv
<1>3. CASE Next /\ ~PowerLoss
    <2>1. CASE \E c \in Conn \ Checkpointer :
                  \/ Recover(c) \/ ResetCkptInfo(c)
                  \/ BeginRead(c) \/ WriteTransaction(c) \/ EndTransaction(c)
        BY <1>1, <2>1, ReaderContent, WriterContent
    <2>2. CASE \E c \in Checkpointer : Checkpoint(c)
        BY <1>1, <2>2, CheckpointContent
    <2>3. CASE Kill
        BY <1>1, <2>3, KillContent
    <2> QED
        BY <1>3, <2>1, <2>2, <2>3 DEF Next
<1> QED
    BY <1>2, <1>3

\* What the pages from lo to hi show is the content made of them.
LEMMA ShownContent ==
    ASSUME NEW base, NEW frames, NEW pages, NEW lo \in Nat \ {0}, NEW hi \in Nat,
           Len(pages) \in Nat, hi <= Len(pages),
           \A g \in 1..hi : pages[g] = frames[g].page,
           NEW content \in [Page -> Int], Makes(base, frames, lo, hi, content)
    PROVE  ContentOf(base, frames, pages, lo, hi) = content
<1> DEFINE Found(p) == FindFrame(pages, p, lo, hi)
<1>1. ASSUME NEW p \in Page
      PROVE  content[p] = IF Found(p) = 0 THEN base[p] ELSE FrameContent(frames, Found(p), p)
    <2> DEFINE f == Found(p)
    <2>1. \A g \in lo..hi : pages[g] = frames[g].page
        OBVIOUS
    <2>2. LastIn(frames, f, p, lo, hi)
        BY <2>1, FindsLast
    <2> HIDE DEF Found, f
    <2>3. f \in Nat /\ (f # 0 => frames[f].page = p)
        BY <2>2 DEF LastIn
    <2>4. content[p] = IF f = 0 THEN base[p] ELSE frames[f].tx
        BY <2>2, <2>3 DEF Makes
    <2> QED
        BY <2>3, <2>4 DEF FrameContent, f
<1>2. ContentOf(base, frames, pages, lo, hi)
          = [p \in Page |-> IF Found(p) = 0 THEN base[p] ELSE FrameContent(frames, Found(p), p)]
    BY DEF ContentOf
<1>3. content = [p \in Page |-> content[p]]
    OBVIOUS
<1> HIDE DEF Found
<1>4. content
          = [p \in Page |-> IF Found(p) = 0 THEN base[p] ELSE FrameContent(frames, Found(p), p)]
    BY <1>1, <1>3, Zenon
<1> QED
    BY <1>2, <1>4

LEMMA ContentSeen == ContentInv => CommitsAreSeen
<1> SUFFICES ASSUME ContentInv, hdr.isInit PROVE CommitsAreSeen
    BY DEF CommitsAreSeen, ContentInv, Whole, FilesTyped
<1>1. /\ FilesTyped /\ Mirrors /\ Shows(nBackfill + 1, hdr.mxFrame)
      /\ hdr.mxFrame \in Nat /\ nBackfill \in Nat
      /\ index \in Seq(Nat) /\ history # <<>>
    BY Numbers DEF ContentInv, Whole, FilesTyped, Seen
<1>2. LastOf(history) \in [Page -> Int]
    BY LastContent
<1>3. \A g \in 1..hdr.mxFrame : index[g] = wal.frames[g].page
    BY <1>1 DEF Mirrors
<1>4. nBackfill + 1 \in Nat \ {0} /\ Len(index) \in Nat /\ hdr.mxFrame <= Len(index)
    BY <1>1, Numbers DEF Mirrors
<1>5. Makes(db, wal.frames, nBackfill + 1, hdr.mxFrame, LastOf(history))
    BY <1>1 DEF Shows
<1>6. ContentOf(db, wal.frames, index, nBackfill + 1, hdr.mxFrame) = LastOf(history)
    BY <1>1, <1>2, <1>3, <1>4, <1>5, ShownContent
<1> QED
    BY <1>1, <1>6 DEF CommitsAreSeen

=============================================================================
