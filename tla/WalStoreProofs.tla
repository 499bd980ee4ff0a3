---------------------------- MODULE WalStoreProofs ----------------------------
(***************************************************************************)
(* The write-ahead log keeps the promises of Store, for any number of      *)
(* connections, marks, pages, transactions and crashes.                    *)
(*                                                                         *)
(* A transaction sees one content from its beginning to its end: whatever  *)
(* is written to the log goes behind its snapshot, whatever is copied to   *)
(* the database is in a frame it reads instead, and the log is not         *)
(* restarted.  ReadInv says why: what a transaction shares, where it is;   *)
(* between which frames it reads; and that a checkpoint which has looked   *)
(* at its mark does not copy beyond it.                                    *)
(*                                                                         *)
(* With it every variable keeps to its values (Kinds): a frame that is     *)
(* recovered, copied or half written names a page and a transaction.       *)
(***************************************************************************)
EXTENDS WalRecoveryProofs

\* Where a transaction reads what it has chosen to read.
Past == {"read", "frames", "synchdr", "log", "publish"}

Marked(c, i) == shared[c] = {WAL_READ_LOCK(i)}

\* What a connection shares, where it is.
Shares(c) ==
    /\ pc[c] = "check" => at[c][1] \in Mark /\ Marked(c, at[c][1])
    /\ pc[c] = "read" => \E i \in Mark \cup {0} : Marked(c, i)
    /\ pc[c] \in Past \ {"read"} => \E i \in Mark : Marked(c, i)
    /\ pc[c] \in {"restartlog", "restart", "restarted"} => Marked(c, 0)
    /\ pc[c] \notin Past \cup {"check", "restartlog", "restart", "restarted"} => shared[c] = {}

\* A reader of the log leaves out no frame that is not copied, and reads none
\* but those of the header, up to its mark at least.
Within(c) ==
    /\ pc[c] \in {"lock", "check"} => at[c][2] <= my[c].mxFrame
    /\ \A i \in Mark : Marked(c, i) =>
          /\ minFrame[c] \in 1..(nBackfill + 1)
          /\ pc[c] \in Past => my[c].mxFrame <= hdr.mxFrame /\ readMark[i] <= my[c].mxFrame

\* A connection has work while it transacts.
Idles(c) == c \notin Checkpointer /\ work[c] # NoWork => Transacts(c)

\* A restarted log has no frames, so that none is copied.
Restarted(c) == pc[c] = "restarted" => hdr.mxFrame = 0 /\ nBackfill = 0

\* The marks a checkpoint has looked at.
Bounded(d) ==
    /\ pc[d] = "limit" => at[d][1] \in 1..(NMarks + 1)
    /\ pc[d] = "backfill" => at[d][1] = NMarks + 1

\* A checkpoint that has looked at the mark of a transaction copies no frame
\* beyond those the transaction reads.
Spares(d, c) ==
    pc[d] \in {"limit", "backfill"} /\ pc[c] \in Past =>
        \A i \in Mark : Marked(c, i) /\ i < at[d][1] => at[d][2] <= my[c].mxFrame

\* No content is of a transaction that has not begun.
HistoryCounted == \A k \in 1..Len(history) : \A p \in Page : history[k][p] <= count.tx

Reads(c) == Shares(c) /\ Within(c) /\ Idles(c) /\ Restarted(c) /\ Bounded(c)

ReadInv == HistoryCounted /\ (\A c \in Conn : Reads(c)) /\ \A c, d \in Conn : Spares(d, c)
-----------------------------------------------------------------------------
(***************************************************************************)
(* What a step of one connection leaves to the others.                     *)
(***************************************************************************)
LEMMA MarkSlot ==
    ASSUME NEW i \in Mark \cup {0}
    PROVE  /\ WAL_READ_LOCK(i) \in Slot
           /\ WAL_READ_LOCK(i) # WAL_WRITE_LOCK /\ WAL_READ_LOCK(i) # WAL_CKPT_LOCK
BY WalAssumption DEF Mark, WAL_READ_LOCK, WAL_WRITE_LOCK, WAL_CKPT_LOCK

LEMMA OneMark ==
    ASSUME NEW i \in Mark \cup {0}, NEW j \in Mark \cup {0},
           NEW slots, slots = {WAL_READ_LOCK(i)}, slots = {WAL_READ_LOCK(j)}
    PROVE  i = j
<1>1. WAL_READ_LOCK(i) = WAL_READ_LOCK(j)
    OBVIOUS
<1> QED
    BY <1>1, WalAssumption DEF Mark, WAL_READ_LOCK

LEMMA SharesKept ==
    ASSUME NEW d \in Conn, Shares(d), Same(d)
    PROVE  Shares(d)'
BY DEF Shares, Same, Marked

\* Who holds a mark is where it says, and another moves no mark of it.
LEMMA WhoIsMarked ==
    ASSUME NEW c \in Conn, Shares(c), NEW i \in Mark, Marked(c, i)
    PROVE  /\ pc[c] \in Past \cup {"check"}
           /\ WAL_READ_LOCK(i) \in shared[c] /\ ZERO \notin shared[c]
           /\ \A j \in Mark \cup {0} : Marked(c, j) => j = i
<1>1. WAL_READ_LOCK(i) \in shared[c] /\ ZERO \notin shared[c]
    BY WalAssumption DEF Marked, ZERO, Mark, WAL_READ_LOCK
<1>2. \A j \in Mark \cup {0} : Marked(c, j) => j = i
    BY OneMark DEF Marked
<1>3. ~Marked(c, 0) /\ shared[c] # {}
    BY <1>1 DEF Marked, ZERO
<1> QED
    BY <1>1, <1>2, <1>3 DEF Shares

\* A step that takes no frame from the header and none from those copied,
\* unless nobody else reads the log.
LeavesFrames(c) ==
    \/ nBackfill <= nBackfill' /\ hdr.mxFrame <= hdr'.mxFrame
    \/ \A d \in Conn \ {c} : \A i \in Mark : ~Marked(d, i)

LEMMA WithinKept ==
    ASSUME ContentInv, ContentInv', NEW c \in Conn, MovesFreeMarks(c), LeavesFrames(c),
           NEW d \in Conn \ {c}, Same(d), Within(d)
    PROVE  Within(d)'
<1>1. /\ nBackfill \in Nat /\ nBackfill' \in Nat /\ hdr.mxFrame \in Nat /\ hdr'.mxFrame \in Nat
    BY Numbers DEF ContentInv, Whole, FilesTyped, AnyHdr
<1>2. my[d].mxFrame \in Nat /\ minFrame[d] \in Nat
    BY LeftAlone DEF ContentInv
<1>3. \A i \in Mark : Marked(d, i)' => Marked(d, i)
    BY DEF Marked, Same
<1>4. ASSUME NEW i \in Mark, Marked(d, i)
      PROVE  /\ minFrame'[d] \in 1..(nBackfill' + 1)
             /\ pc'[d] \in Past => my'[d].mxFrame <= hdr'.mxFrame /\ readMark'[i] <= my'[d].mxFrame
    <2>1. nBackfill <= nBackfill' /\ hdr.mxFrame <= hdr'.mxFrame
        BY <1>4 DEF LeavesFrames
    <2>2. readMark'[i] = readMark[i]
        BY <1>4 DEF MovesFreeMarks, Marked
    <2>3. /\ minFrame[d] \in 1..(nBackfill + 1)
          /\ pc[d] \in Past => my[d].mxFrame <= hdr.mxFrame /\ readMark[i] <= my[d].mxFrame
        BY <1>4 DEF Within
    <2>4. minFrame[d] \in 1..(nBackfill' + 1)
        BY <1>1, <1>2, <2>1, <2>3
    <2>5. my[d].mxFrame <= hdr.mxFrame => my[d].mxFrame <= hdr'.mxFrame
        BY <1>1, <1>2, <2>1
    <2> QED
        BY <2>2, <2>3, <2>4, <2>5 DEF Same
<1> QED
    BY <1>3, <1>4 DEF Within, Same

LEMMA IdlesKept ==
    ASSUME NEW d \in Conn, Idles(d), Same(d)
    PROVE  Idles(d)'
BY DEF Idles, Same, Transacts, IsWriter

LEMMA BoundedKept ==
    ASSUME NEW d \in Conn, Bounded(d), Same(d)
    PROVE  Bounded(d)'
BY DEF Bounded, Same

LEMMA SparesKept ==
    ASSUME NEW c \in Conn, NEW d \in Conn, Spares(d, c), Same(c), Same(d)
    PROVE  Spares(d, c)'
BY DEF Spares, Same, Marked

\* Where a transaction begins to read it reads all frames, and never fewer.
GoesOn(c) ==
    pc'[c] \in Past => \A i \in Mark : Marked(c, i)' =>
        \/ pc[c] \in Past /\ Marked(c, i) /\ my[c].mxFrame <= my'[c].mxFrame
        \/ hdr.mxFrame <= my'[c].mxFrame

LEMMA SparesWhoGoesOn ==
    ASSUME ContentInv, ContentInv', NEW c \in Conn, GoesOn(c), NEW d \in Conn \ {c}, Same(d),
           Spares(d, c)
    PROVE  Spares(d, c)'
<1> SUFFICES ASSUME pc[d] \in {"limit", "backfill"}, pc'[c] \in Past,
                    NEW i \in Mark, Marked(c, i)', i < at[d][1]
             PROVE  at[d][2] <= my'[c].mxFrame
    BY DEF Spares, Same
<1>1. at[d][2] <= my[d].mxFrame /\ my[d].mxFrame <= hdr.mxFrame
    BY DEF ContentInv, Part, Copies, Copying
<1>2. /\ at[d][2] \in Nat /\ my[d].mxFrame \in Nat /\ hdr.mxFrame \in Nat /\ my[c].mxFrame \in Nat
    BY LeftAlone, Numbers DEF ContentInv
<1>3. my'[c].mxFrame \in Nat
    BY DEF ContentInv, ConnsTyped, AnyHdr
<1>4. CASE pc[c] \in Past /\ Marked(c, i) /\ my[c].mxFrame <= my'[c].mxFrame
    <2>1. at[d][2] <= my[c].mxFrame
        BY <1>4 DEF Spares
    <2> QED
        BY <1>2, <1>3, <1>4, <2>1
<1>5. CASE hdr.mxFrame <= my'[c].mxFrame
    BY <1>1, <1>2, <1>3, <1>5
<1> QED
    BY <1>4, <1>5 DEF GoesOn

\* A step of c keeps ReadInv if it keeps what it must of c itself.
Keeps(c) ==
    /\ Apart(c) /\ MovesFreeMarks(c) /\ LeavesFrames(c) /\ GoesOn(c)
    /\ Reads(c)' /\ \A d \in Conn : Spares(c, d)'
    /\ UNCHANGED <<hdr, nBackfill>> \/ \A d \in Conn \ {c} : pc[d] # "restarted"

LEMMA ReadsKept ==
    ASSUME ContentInv, ReadInv, ContentInv', NEW c \in Conn, Keeps(c), HistoryCounted'
    PROVE  ReadInv'
<1>1. ASSUME NEW d \in Conn \ {c} PROVE Reads(d)'
    <2>1. Reads(d) /\ Same(d)
        BY DEF ReadInv, Keeps, Apart
    <2>2. Shares(d)' /\ Idles(d)' /\ Bounded(d)'
        BY <2>1, SharesKept, IdlesKept, BoundedKept DEF Reads
    <2>3. Within(d)'
        BY <2>1, WithinKept DEF Reads, Keeps
    <2>4. Restarted(d)'
        BY <2>1 DEF Reads, Restarted, Keeps, Same
    <2> QED
        BY <2>2, <2>3, <2>4 DEF Reads
<1>2. ASSUME NEW d \in Conn, NEW e \in Conn PROVE Spares(d, e)'
    <2>1. CASE d = c
        BY <2>1 DEF Keeps
    <2>2. CASE d # c /\ e = c
        BY <2>2, SparesWhoGoesOn DEF Keeps, Apart, ReadInv
    <2>3. CASE d # c /\ e # c
        BY <2>3, SparesKept DEF Keeps, Apart, ReadInv
    <2> QED
        BY <2>1, <2>2, <2>3
<1> QED
    BY <1>1, <1>2 DEF ReadInv, Keeps

\* What a step of one connection is, for every step.
LEMMA ReaderActs ==
    ASSUME ContentInv, NEW c \in Conn \ Checkpointer,
           BeginRead(c) \/ EndTransaction(c) \/ ResetCkptInfo(c)
    PROVE  Apart(c) /\ MovesFreeMarks(c)
<1>1. Acts(c)
    BY ChooseFar, ReadFar, WriteFar DEF BeginRead
<1> QED
    BY <1>1, StepApart DEF Acts, StepOf

LEMMA RecoverActs ==
    ASSUME ContentInv, NEW c \in Conn \ Checkpointer, Recover(c)
    PROVE  Apart(c) /\ MovesFreeMarks(c)
<1>1. StepOf(c)
    BY RecoverySteps DEF ContentInv
<1>2. UNCHANGED <<my, minFrame, at, work>>
    BY DEF Recover
<1> QED
    BY <1>1, <1>2, StepApart DEF StepOf

LEMMA WriterActs ==
    ASSUME ContentInv, NEW c \in Conn \ Checkpointer, WriteTransaction(c)
    PROVE  Apart(c) /\ MovesFreeMarks(c)
<1>1. StepOf(c) /\ ConnsTyped
    BY WriterSteps DEF ContentInv
<1>2. /\ UNCHANGED my \/ \E x : my' = [my EXCEPT ![c] = x]
      /\ UNCHANGED minFrame \/ \E x : minFrame' = [minFrame EXCEPT ![c] = x]
      /\ UNCHANGED at \/ \E x : at' = [at EXCEPT ![c] = x]
      /\ UNCHANGED work \/ \E x : work' = [work EXCEPT ![c] = x]
    <2>1. CASE BeginWrite(c)
        BY <2>1 DEF BeginWrite, Leave
    <2>2. CASE RestartHdr(c) \/ RestartMarks(c) \/ LeaveZero(c) \/ SyncWalHdr(c) \/ Publish(c)
        BY <2>2 DEF RestartHdr, RestartMarks, LeaveZero, SyncWalHdr, Publish
    <2>3. CASE WriteWalHdr(c)
        BY <2>3 DEF WriteWalHdr
    <2>4. CASE WriteFrame(c)
        BY <2>4 DEF WriteFrame
    <2>5. CASE FailWrite(c)
        BY <2>5 DEF FailWrite
    <2> QED
        BY <2>1, <2>2, <2>3, <2>4, <2>5 DEF WriteTransaction
<1>3. \A d \in Conn \ {c} : /\ my'[d] = my[d] /\ minFrame'[d] = minFrame[d]
                            /\ at'[d] = at[d] /\ work'[d] = work[d]
    BY <1>1, <1>2 DEF ConnsTyped
<1> QED
    BY <1>1, <1>3, StepApart DEF StepOf

LEMMA CheckpointActs ==
    ASSUME ContentInv, NEW c \in Checkpointer, Checkpoint(c)
    PROVE  c \in Conn /\ Apart(c) /\ MovesFreeMarks(c)
<1>1. c \in Conn
    BY WalAssumption
<1>2. StepOf(c)
    BY <1>1, CheckpointSteps DEF ContentInv
<1>3. CASE BackfillPage(c) \/ FailBackfill(c)
    BY <1>1, <1>2, <1>3, CopiesPage DEF CopiesOne, StepOf
<1>4. CASE \/ BeginCheckpoint(c) \/ SomethingToDo(c) \/ LimitByMark(c) \/ SyncLog(c)
           \/ FailSyncLog(c) \/ Backfilled(c) \/ EndCheckpoint(c)
    <2>1. Acts(c)
        BY <1>4, CheckpointFar
    <2> QED
        BY <1>1, <2>1, StepApart DEF Acts, StepOf
<1> QED
    BY <1>3, <1>4 DEF Checkpoint

-----------------------------------------------------------------------------
(***************************************************************************)
(* A transaction: what it shares, and between which frames it reads.       *)
(***************************************************************************)
LEMMA TransactorReads ==
    ASSUME ContentInv, ReadInv, ContentInv', NEW c \in Conn \ Checkpointer,
           Apart(c), MovesFreeMarks(c), LeavesFrames(c), GoesOn(c), HistoryCounted',
           Shares(c)', Within(c)', Idles(c)', Restarted(c)',
           UNCHANGED <<hdr, nBackfill>> \/ \A d \in Conn \ {c} : pc[d] # "restarted"
    PROVE  ReadInv'
<1>1. pc'[c] \in Transacting
    BY DEF ContentInv, Part, Own
<1>2. Bounded(c)' /\ \A d \in Conn : Spares(c, d)'
    BY <1>1 DEF Bounded, Spares, Transacting, Free, Writing
<1> QED
    BY <1>2, ReadsKept DEF Keeps, Reads

LEMMA HistoryStill ==
    ASSUME ContentInv, ContentInv', HistoryCounted, UNCHANGED history, count.tx <= count'.tx
    PROVE  HistoryCounted'
<1>1. count.tx \in Nat /\ count'.tx \in Nat
    BY DEF ContentInv, Whole, FilesTyped
<1>2. history \in Seq([Page -> Int])
    BY DEF ContentInv, Whole, FilesTyped
<1>4. \A k \in 1..Len(history) : history[k] \in [Page -> Int]
    BY <1>2
<1>3. \A x \in Int : x <= count.tx => x <= count'.tx
    BY <1>1
<1> QED
    BY <1>3, <1>4 DEF HistoryCounted

\* A step that changes neither the header, the backfill count nor the history.
LEMMA QuietReads ==
    ASSUME ContentInv, ReadInv, ContentInv', NEW c \in Conn \ Checkpointer,
           Apart(c), MovesFreeMarks(c), GoesOn(c),
           UNCHANGED <<hdr, nBackfill, history>>, count.tx <= count'.tx,
           Shares(c)', Within(c)', Idles(c)', Restarted(c)'
    PROVE  ReadInv'
<1>1. LeavesFrames(c)
    BY Numbers DEF LeavesFrames
<1>2. HistoryCounted'
    BY HistoryStill DEF ReadInv
<1> QED
    BY <1>1, <1>2, TransactorReads

\* Where nothing is shared there is nothing to keep.
LEMMA NothingShared ==
    ASSUME NEW c \in Conn, shared'[c] = {},
           pc'[c] \notin Past \cup {"check", "restartlog", "restart", "restarted"},
           pc'[c] = "lock" => at'[c][2] <= my'[c].mxFrame
    PROVE  Shares(c)' /\ Within(c)' /\ Restarted(c)' /\ GoesOn(c)
<1>1. \A i : ~Marked(c, i)'
    BY DEF Marked
<1>2. Shares(c)' /\ Restarted(c)' /\ GoesOn(c)
    BY DEF Shares, Restarted, GoesOn, Past
<1> QED
    BY <1>1, <1>2 DEF Within, Past

\* The work of a connection goes on or has ended.
LEMMA IdlesStill ==
    ASSUME NEW c \in Conn, Idles(c), UNCHANGED work,
           IsWriter(c) => IsWriter(c)', pc'[c] \notin {"read", "recover"} \/ ~Transacts(c)
    PROVE  Idles(c)'
BY DEF Idles, Transacts, IsWriter

\* Who retries or leaves before it has read anything.
LEMMA BackReads ==
    ASSUME ContentInv, ReadInv, ContentInv', NEW c \in Conn \ Checkpointer,
           Apart(c), MovesFreeMarks(c), UNCHANGED <<hdr, nBackfill, history, count, work>>,
           Retry(c), exclusive'[c] = exclusive[c], shared'[c] = {}, pc[c] \notin {"read", "recover"}
    PROVE  ReadInv'
<1>1. pc'[c] = "choose" \/ (pc'[c] = "idle" /\ ~IsWriter(c))
    BY DEF Retry, Leave, Goto, ContentInv, ConnsTyped
<1>2. Idles(c)'
    BY <1>1, IdlesStill DEF ReadInv, Reads, IsWriter, Transacts
<1>3. count.tx <= count'.tx
    BY Numbers
<1> QED
    BY <1>1, <1>2, <1>3, NothingShared, QuietReads DEF Past

-----------------------------------------------------------------------------
(***************************************************************************)
(* Readers.                                                                *)
(***************************************************************************)
LEMMA ReadHdrReads ==
    ASSUME ContentInv, ReadInv, ContentInv', NEW c \in Conn \ Checkpointer, ReadHdr(c)
    PROVE  ReadInv'
<1>1. /\ pc[c] = "idle" /\ pc'[c] = "choose"
      /\ UNCHANGED <<hdr, nBackfill, history, count, work, shared, exclusive>>
    BY DEF ReadHdr, Goto, shm, ghosts, lockVars, ContentInv, ConnsTyped
<1>2. Apart(c) /\ MovesFreeMarks(c)
    BY ReaderActs DEF BeginRead
<1>3. shared'[c] = {}
    BY <1>1 DEF ReadInv, Reads, Shares, Past
<1>4. Idles(c)'
    BY <1>1, IdlesStill DEF ReadInv, Reads, IsWriter
<1>5. count.tx <= count'.tx
    BY <1>1, Numbers
<1> QED
    BY <1>1, <1>2, <1>3, <1>4, <1>5, NothingShared, QuietReads DEF Past

LEMMA IgnoreLogReads ==
    ASSUME ContentInv, ReadInv, ContentInv', NEW c \in Conn \ Checkpointer, IgnoreLog(c)
    PROVE  ReadInv'
<1>1. /\ pc[c] = "choose" /\ ~IsWriter(c)
      /\ UNCHANGED <<hdr, nBackfill, history, count, work, exclusive>>
    BY DEF IgnoreLog, MayIgnoreLog, shm, ghosts, lockVars, Share
<1>2. Apart(c) /\ MovesFreeMarks(c)
    BY ReaderActs DEF BeginRead
<1>3. shared[c] = {} /\ Idles(c)
    BY <1>1 DEF ReadInv, Reads, Shares, Past
<1>4. CASE hdr = my[c]
    <2>1. Share(c, ZERO) /\ pc'[c] = "read" /\ ConnsTyped
        BY <1>4 DEF IgnoreLog, Goto, ContentInv, ConnsTyped, ZERO
    <2>2. Marked(c, 0)'
        BY <1>3, <2>1 DEF Share, Marked, ZERO, ConnsTyped
    <2>3. Shares(c)' /\ Restarted(c)'
        BY <2>1, <2>2 DEF Shares, Restarted, Past
    <2>4. \A i \in Mark : ~Marked(c, i)'
        BY <2>2, WalAssumption DEF Marked, Mark, WAL_READ_LOCK
    <2>5. Within(c)' /\ GoesOn(c)
        BY <2>1, <2>4 DEF Within, GoesOn
    <2>6. Idles(c)'
        BY <1>1, <1>3 DEF Idles, Transacts
    <2>7. count.tx <= count'.tx
        BY <1>1, Numbers
    <2> QED
        BY <1>1, <1>2, <2>3, <2>5, <2>6, <2>7, QuietReads
<1>5. CASE hdr # my[c]
    <2>1. Retry(c) /\ shared'[c] = {}
        BY <1>3, <1>5 DEF IgnoreLog, lockVars
    <2> QED
        BY <1>1, <1>2, <2>1, BackReads
<1> QED
    BY <1>4, <1>5

\* The mark a reader is about to take is not beyond its header.
LEMMA ChoosesBelow ==
    ASSUME ContentInv, NEW c \in Conn \ Checkpointer, ChooseMark(c), ~Retry(c)
    PROVE  pc'[c] = "lock" /\ at'[c][2] <= my'[c].mxFrame
<1>1. ConnsTyped /\ readMark \in [Mark -> Nat] /\ my[c].mxFrame \in Nat
    BY Numbers, LeftAlone DEF ContentInv, Whole, FilesTyped
<1> DEFINE mx == my[c].mxFrame
           fit == {i \in Mark : readMark[i] <= mx}
           best == Greatest({i \in fit : \A j \in fit : readMark[j] <= readMark[i]})
<1>2. \E i : \E mark : /\ at' = [at EXCEPT ![c] = <<i, mark>>] /\ Goto(c, "lock") /\ UNCHANGED my
                       /\ mark = mx \/ (fit # {} /\ i = best /\ mark = readMark[best])
    BY DEF ChooseMark
<1>3. PICK i, mark : /\ at' = [at EXCEPT ![c] = <<i, mark>>] /\ Goto(c, "lock") /\ UNCHANGED my
                     /\ mark = mx \/ (fit # {} /\ i = best /\ mark = readMark[best])
    BY <1>2
<1>4. at'[c] = <<i, mark>> /\ pc'[c] = "lock" /\ my'[c] = my[c]
    BY <1>1, <1>3 DEF ConnsTyped, Goto
<1>5. mark <= mx
    <2>1. CASE mark = mx
        BY <1>1, <2>1
    <2>2. CASE fit # {} /\ i = best /\ mark = readMark[best]
        <3>1. best \in fit
            BY <1>1, <2>2, BestMark
        <3> QED
            BY <2>2, <3>1
    <2> QED
        BY <1>3, <2>1, <2>2
<1> QED
    BY <1>4, <1>5

LEMMA ChooseMarkReads ==
    ASSUME ContentInv, ReadInv, ContentInv', NEW c \in Conn \ Checkpointer, ChooseMark(c)
    PROVE  ReadInv'
<1>1. /\ pc[c] = "choose" /\ UNCHANGED <<hdr, nBackfill, history, count, work, shared, exclusive>>
    BY DEF ChooseMark, ghosts, lockVars
<1>2. Apart(c) /\ MovesFreeMarks(c)
    BY ReaderActs DEF BeginRead
<1>3. shared'[c] = {} /\ Idles(c)
    BY <1>1 DEF ReadInv, Reads, Shares, Past
<1>4. CASE Retry(c)
    BY <1>1, <1>2, <1>3, <1>4, BackReads
<1>5. CASE ~Retry(c)
    <2>1. pc'[c] = "lock" /\ at'[c][2] <= my'[c].mxFrame
        BY <1>5, ChoosesBelow
    <2>2. Idles(c)'
        BY <1>1, <1>3, <2>1, IdlesStill DEF IsWriter
    <2>3. count.tx <= count'.tx
        BY <1>1, Numbers
    <2> QED
        BY <1>1, <1>2, <1>3, <2>1, <2>2, <2>3, NothingShared, QuietReads DEF Past
<1> QED
    BY <1>4, <1>5

LEMMA LockMarkReads ==
    ASSUME ContentInv, ReadInv, ContentInv', NEW c \in Conn \ Checkpointer, LockMark(c)
    PROVE  ReadInv'
<1>1. /\ pc[c] = "lock" /\ UNCHANGED <<hdr, nBackfill, history, count, work, exclusive>>
    BY DEF LockMark, shm, ghosts, lockVars, Share
<1>2. Apart(c) /\ MovesFreeMarks(c) /\ ConnsTyped /\ nBackfill \in Nat
    BY ReaderActs, Numbers DEF BeginRead, ContentInv
<1>3. shared[c] = {} /\ Idles(c) /\ at[c][1] \in Mark /\ at[c][2] <= my[c].mxFrame
    BY <1>1 DEF ReadInv, Reads, Shares, Past, Within, ContentInv, Part, Own
<1>4. CASE CanShare(WAL_READ_LOCK(at[c][1]))
    <2>1. /\ Share(c, WAL_READ_LOCK(at[c][1])) /\ pc'[c] = "check"
          /\ minFrame'[c] = nBackfill + 1 /\ my'[c] = my[c] /\ at'[c] = at[c]
        BY <1>2, <1>4 DEF LockMark, Goto, ConnsTyped
    <2>2. Marked(c, at[c][1])'
        BY <1>2, <1>3, <2>1 DEF Share, Marked, ConnsTyped
    <2>3. Shares(c)' /\ Restarted(c)' /\ GoesOn(c)
        BY <1>3, <2>1, <2>2 DEF Shares, Restarted, Past, GoesOn, Marked
    <2>4. minFrame'[c] \in 1..(nBackfill' + 1)
        BY <1>1, <1>2, <2>1
    <2>5. Within(c)'
        BY <1>3, <2>1, <2>4 DEF Within, Past
    <2>6. Idles(c)'
        BY <1>1, <1>3, <2>1, IdlesStill DEF IsWriter
    <2>7. count.tx <= count'.tx
        BY <1>1, Numbers
    <2> QED
        BY <1>1, <1>2, <2>3, <2>5, <2>6, <2>7, QuietReads
<1>5. CASE ~CanShare(WAL_READ_LOCK(at[c][1]))
    <2>1. Retry(c) /\ shared'[c] = {}
        BY <1>3, <1>5 DEF LockMark, lockVars
    <2> QED
        BY <1>1, <1>2, <2>1, BackReads
<1> QED
    BY <1>4, <1>5

LEMMA CheckMarkReads ==
    ASSUME ContentInv, ReadInv, ContentInv', NEW c \in Conn \ Checkpointer, CheckMark(c)
    PROVE  ReadInv'
<1>1. /\ pc[c] = "check" /\ UNCHANGED <<hdr, nBackfill, readMark, history, count, work>>
    BY DEF CheckMark, shm, ghosts
<1>2. /\ Apart(c) /\ MovesFreeMarks(c) /\ ConnsTyped
      /\ hdr.mxFrame \in Nat /\ my[c].mxFrame \in Nat
    BY ReaderActs, Numbers, LeftAlone DEF BeginRead, ContentInv
<1>3. /\ Marked(c, at[c][1]) /\ Idles(c) /\ at[c][1] \in Mark /\ at[c][2] <= my[c].mxFrame
      /\ minFrame[c] \in 1..(nBackfill + 1)
    BY <1>1 DEF ReadInv, Reads, Shares, Past, Within
<1>4. CASE readMark[at[c][1]] = at[c][2] /\ hdr = my[c]
    <2>1. /\ pc'[c] = IF IsWriter(c) THEN "frames" ELSE "read"
          /\ UNCHANGED <<my, minFrame, shared, exclusive>>
        BY <1>2, <1>4 DEF CheckMark, Goto, ConnsTyped, lockVars
    <2>2. shared'[c] = {WAL_READ_LOCK(at[c][1])}
        BY <1>3, <2>1 DEF Marked
    <2>3. \A i \in Mark : Marked(c, i)' => i = at[c][1]
        BY <1>3, <2>2, OneMark DEF Marked
    <2>4. Shares(c)' /\ Restarted(c)'
        <3>1. \E i \in Mark : Marked(c, i)'
            BY <1>3, <2>2 DEF Marked
        <3> QED
            BY <2>1, <3>1 DEF Shares, Restarted, Past
    <2>5. Within(c)'
        BY <1>1, <1>2, <1>3, <1>4, <2>1, <2>3 DEF Within, Past
    <2>6. GoesOn(c)
        BY <1>2, <1>4, <2>1 DEF GoesOn
    <2>7. Idles(c)'
        BY <1>1, <1>3, <2>1 DEF Idles, Transacts, IsWriter
    <2>8. count.tx <= count'.tx
        BY <1>1, Numbers
    <2> QED
        BY <1>1, <1>2, <2>4, <2>5, <2>6, <2>7, <2>8, QuietReads
<1>5. CASE ~(readMark[at[c][1]] = at[c][2] /\ hdr = my[c])
    <2>1. Retry(c) /\ Release(c, shared[c])
        BY <1>5 DEF CheckMark
    <2>2. shared'[c] = {} /\ exclusive'[c] = exclusive[c] \ shared[c]
        BY <1>2, <2>1 DEF Release, ConnsTyped
    <2>3. exclusive'[c] = exclusive[c]
        BY <2>2 DEF ContentInv, Part, Own
    <2> QED
        BY <1>1, <1>2, <2>1, <2>2, <2>3, BackReads
<1> QED
    BY <1>4, <1>5

\* What a transaction shares is a slot.
LEMMA SharesSlots ==
    ASSUME NEW c \in Conn, Shares(c)
    PROVE  shared[c] \subseteq Slot
<1>1. shared[c] = {} \/ \E i \in Mark \cup {0} : Marked(c, i)
    BY DEF Shares
<1> QED
    BY <1>1, MarkSlot DEF Marked

LEMMA EndTransactionReads ==
    ASSUME ContentInv, ReadInv, ContentInv', NEW c \in Conn \ Checkpointer, EndTransaction(c)
    PROVE  ReadInv'
<1>1. /\ pc[c] = "read" /\ UNCHANGED <<hdr, nBackfill, history, count, work>>
      /\ Release(c, Slot) /\ Leave(c)
    BY DEF EndTransaction, shm, ghosts
<1>2. Apart(c) /\ MovesFreeMarks(c) /\ ConnsTyped
    BY ReaderActs DEF ContentInv
<1>3. Shares(c) /\ work[c] = NoWork
    BY <1>1 DEF ReadInv, Reads, Idles, Transacts
<1>4. shared'[c] = {} /\ pc'[c] = "idle"
    BY <1>1, <1>2, <1>3, SharesSlots DEF Release, Leave, Goto, ConnsTyped
<1>5. Idles(c)' /\ count.tx <= count'.tx
    BY <1>1, <1>3, Numbers DEF Idles
<1> QED
    BY <1>1, <1>2, <1>4, <1>5, NothingShared, QuietReads DEF Past

\* While the index is rebuilt nobody reads.
LEMMA RecoverReads ==
    ASSUME ContentInv, ReadInv, ContentInv', NEW c \in Conn \ Checkpointer, Recover(c)
    PROVE  ReadInv'
<1>1. /\ pc[c] = "idle" /\ CanExclude(Slot) /\ UNCHANGED <<shared, nBackfill, history, count, work>>
      /\ pc'[c] = "recover"
    BY DEF Recover, Exclude, Goto, ghosts, ContentInv, ConnsTyped
<1>2. Apart(c) /\ MovesFreeMarks(c)
    BY RecoverActs
<1>3. shared'[c] = {} /\ work[c] = NoWork
    BY <1>1 DEF ReadInv, Reads, Shares, Past, Idles, Transacts, IsWriter, ContentInv, Part, Own,
                Free
<1>4. Idles(c)' /\ HistoryCounted'
    BY <1>1, <1>3, HistoryStill, Numbers DEF Idles, ReadInv
<1>5. ASSUME NEW d \in Conn, NEW i \in Mark, Marked(d, i) PROVE FALSE
    <2>1. WAL_READ_LOCK(i) \in Slot /\ WAL_READ_LOCK(i) \in shared[d]
        BY <1>5, MarkSlot DEF Marked
    <2> QED
        BY <1>1, <2>1 DEF CanExclude
<1>6. LeavesFrames(c)
    BY <1>5 DEF LeavesFrames
<1>7. \A d \in Conn : pc[d] # "restarted"
    BY <1>1, MarkSlots DEF CanExclude, ContentInv, Part, Own, Writing
<1> QED
    BY <1>1, <1>2, <1>3, <1>4, <1>6, <1>7, NothingShared, TransactorReads DEF Past

LEMMA ResetCkptInfoReads ==
    ASSUME ContentInv, ReadInv, ContentInv', NEW c \in Conn \ Checkpointer, ResetCkptInfo(c)
    PROVE  ReadInv'
<1>1. /\ pc[c] = "recover" /\ Release(c, Slot) /\ UNCHANGED <<hdr, history, count, work>>
      /\ pc'[c] = "idle" /\ ConnsTyped
    BY DEF ResetCkptInfo, Goto, ghosts, ContentInv, ConnsTyped
<1>2. Apart(c) /\ MovesFreeMarks(c)
    BY ReaderActs
<1>3. shared[c] = {} /\ work[c] = NoWork
    BY <1>1 DEF ReadInv, Reads, Shares, Past, Idles, Transacts
<1>4. shared'[c] = {} /\ Idles(c)' /\ HistoryCounted'
    BY <1>1, <1>3, HistoryStill, Numbers DEF Idles, ReadInv, Release, ConnsTyped
<1>5. Slot \subseteq exclusive[c]
    BY <1>1 DEF ContentInv, WalInv, MoversHoldMarks
<1>6. ASSUME NEW d \in Conn \ {c}, NEW i \in Mark, Marked(d, i) PROVE FALSE
    <2>1. WAL_READ_LOCK(i) \in exclusive[c] /\ WAL_READ_LOCK(i) \in shared[d]
        BY <1>5, <1>6, MarkSlot DEF Marked
    <2> QED
        BY <2>1 DEF ContentInv, WalInv, LocksExclude
<1>7. LeavesFrames(c)
    BY <1>6 DEF LeavesFrames
<1>8. \A d \in Conn \ {c} : pc[d] # "restarted"
    BY <1>5, MarkSlots, OnlyWriter DEF Writing
<1> QED
    BY <1>1, <1>2, <1>4, <1>7, <1>8, NothingShared, TransactorReads DEF Past

-----------------------------------------------------------------------------
(***************************************************************************)
(* Writers.                                                                *)
(***************************************************************************)
\* A step that keeps what the connection shares, and how far it reads.
LEMMA KeepsMark ==
    ASSUME ContentInv, ReadInv, ContentInv', NEW c \in Conn \ Checkpointer,
           shared'[c] = shared[c], minFrame'[c] = minFrame[c], UNCHANGED <<nBackfill, readMark>>,
           pc[c] \in Past, pc'[c] \in Past, ZERO \notin shared[c],
           my[c].mxFrame <= my'[c].mxFrame, my'[c].mxFrame <= hdr'.mxFrame
    PROVE  Shares(c)' /\ Within(c)' /\ Restarted(c)' /\ GoesOn(c)
<1>1. \A i : Marked(c, i)' <=> Marked(c, i)
    BY DEF Marked
<1>2. PICK i \in Mark : Marked(c, i)
    <2>1. \E i \in Mark \cup {0} : Marked(c, i)
        BY DEF ReadInv, Reads, Shares, Past
    <2> QED
        BY <2>1 DEF Marked, ZERO
<1>3. Shares(c)'
    BY <1>1, <1>2 DEF Shares, Past
<1>4. /\ my[c].mxFrame \in Nat /\ my'[c].mxFrame \in Nat /\ readMark \in [Mark -> Nat]
    BY LeftAlone DEF ContentInv, ConnsTyped, AnyHdr, Whole, FilesTyped
<1>5. \A j \in Mark : Marked(c, j) => minFrame[c] \in 1..(nBackfill + 1) /\ readMark[j] <= my'[c].mxFrame
    BY <1>4 DEF ReadInv, Reads, Within
<1>6. Within(c)'
    BY <1>1, <1>5 DEF Within, Past
<1>7. GoesOn(c) /\ Restarted(c)'
    BY <1>1 DEF GoesOn, Restarted, Past
<1> QED
    BY <1>3, <1>6, <1>7

LEMMA BeginWriteReads ==
    ASSUME ContentInv, ReadInv, ContentInv', NEW c \in Conn \ Checkpointer, BeginWrite(c)
    PROVE  ReadInv'
<1>1. pc[c] = "read" /\ UNCHANGED <<hdr, nBackfill, readMark, history>>
    BY DEF BeginWrite, shm, ghosts
<1>2. Apart(c) /\ MovesFreeMarks(c) /\ ConnsTyped /\ FilesTyped
    BY WriterActs DEF WriteTransaction, ContentInv, Whole
<1>3. Shares(c) /\ Within(c) /\ work[c] = NoWork
    BY <1>1 DEF ReadInv, Reads, Idles, Transacts
<1>4. CASE hdr = my[c]
    <2>1. /\ Exclude(c, {WAL_WRITE_LOCK}) /\ Counts("tx") /\ UNCHANGED <<my, minFrame, at>>
          /\ pc'[c] = IF ZERO \in shared[c] THEN "restartlog" ELSE "frames"
        BY <1>2, <1>4 DEF BeginWrite, Goto, ConnsTyped, ZERO
    <2>2. count.tx <= count'.tx
        BY <1>2, <2>1 DEF Counts, FilesTyped
    <2>3. shared'[c] = shared[c] /\ IsWriter(c)'
        BY <1>2, <2>1 DEF Exclude, IsWriter, ConnsTyped
    <2>4. Idles(c)'
        BY <2>1, <2>3 DEF Idles, Transacts
    <2>5. my[c].mxFrame <= my'[c].mxFrame /\ my'[c].mxFrame <= hdr'.mxFrame
        BY <1>1, <1>4, <2>1, Numbers
    <2>6. CASE ZERO \in shared[c]
        <3>1. Marked(c, 0)
            <4>1. PICK i \in Mark \cup {0} : Marked(c, i)
                BY <1>1, <1>3 DEF Shares
            <4>2. WAL_READ_LOCK(i) = ZERO
                BY <2>6, <4>1 DEF Marked
            <4> QED
                BY <4>1, <4>2 DEF Marked, ZERO
        <3>2. Marked(c, 0)' /\ \A i \in Mark : ~Marked(c, i)'
            BY <2>3, <3>1, WalAssumption DEF Marked, Mark, WAL_READ_LOCK
        <3>3. Shares(c)' /\ Within(c)' /\ Restarted(c)' /\ GoesOn(c)
            BY <2>1, <2>6, <3>2 DEF Shares, Within, Restarted, GoesOn, Past
        <3> QED
            BY <1>1, <1>2, <2>2, <2>4, <3>3, QuietReads
    <2>7. CASE ZERO \notin shared[c]
        <3>1. Shares(c)' /\ Within(c)' /\ Restarted(c)' /\ GoesOn(c)
            BY <1>1, <2>1, <2>3, <2>5, <2>7, KeepsMark DEF Past
        <3> QED
            BY <1>1, <1>2, <2>2, <2>4, <3>1, QuietReads
    <2> QED
        BY <2>6, <2>7
<1>5. CASE hdr # my[c]
    <2>1. Release(c, shared[c]) /\ Leave(c) /\ UNCHANGED <<work, count>>
        BY <1>5 DEF BeginWrite
    <2>2. shared'[c] = {} /\ pc'[c] = "idle"
        BY <1>2, <2>1 DEF Release, Leave, Goto, ConnsTyped
    <2>3. Idles(c)' /\ count.tx <= count'.tx
        BY <1>3, <2>1, Numbers DEF Idles
    <2> QED
        BY <1>1, <1>2, <2>2, <2>3, NothingShared, QuietReads DEF Past
<1> QED
    BY <1>4, <1>5

\* Whoever has all marks, or finds them free, is the only one to read.
LEMMA MarksTaken ==
    ASSUME ContentInv, NEW c \in Conn, Marks \subseteq exclusive[c] \/ CanExclude(Marks),
           NEW d \in Conn \ {c}, NEW i \in Mark
    PROVE  ~Marked(d, i)
<1> SUFFICES ASSUME Marked(d, i) PROVE FALSE
    OBVIOUS
<1>1. WAL_READ_LOCK(i) \in Marks /\ WAL_READ_LOCK(i) \in shared[d]
    BY MarkSlots DEF Marked
<1>2. CASE Marks \subseteq exclusive[c]
    BY <1>1, <1>2 DEF ContentInv, WalInv, LocksExclude
<1>3. CASE CanExclude(Marks)
    BY <1>1, <1>3 DEF CanExclude
<1> QED
    BY <1>2, <1>3

LEMMA RestartHdrReads ==
    ASSUME ContentInv, ReadInv, ContentInv', NEW c \in Conn \ Checkpointer, RestartHdr(c)
    PROVE  ReadInv'
<1>1. /\ pc[c] = "restartlog" /\ CanExclude(Marks) /\ Exclude(c, Marks) /\ pc'[c] = "restart"
      /\ Counts("salt") /\ UNCHANGED <<nBackfill, history, work>> /\ ConnsTyped /\ FilesTyped
    BY DEF RestartHdr, CanRestart, Goto, ghosts, ContentInv, ConnsTyped, Whole
<1>2. Apart(c) /\ MovesFreeMarks(c)
    BY WriterActs DEF WriteTransaction
<1>3. Marked(c, 0) /\ Idles(c) /\ WAL_WRITE_LOCK \in exclusive[c]
    BY <1>1 DEF ReadInv, Reads, Shares, ContentInv, Part, Own, Writing
<1>4. Marked(c, 0)' /\ IsWriter(c)'
    BY <1>1, <1>3 DEF Exclude, Marked, IsWriter, ConnsTyped
<1>5. \A i \in Mark : ~Marked(c, i)'
    BY <1>4, WalAssumption DEF Marked, Mark, WAL_READ_LOCK
<1>6. Shares(c)' /\ Within(c)' /\ Restarted(c)' /\ GoesOn(c)
    BY <1>1, <1>4, <1>5 DEF Shares, Within, Restarted, GoesOn, Past
<1>7. Idles(c)'
    BY <1>1, <1>4 DEF Idles, Transacts
<1>8. LeavesFrames(c)
    BY <1>1, MarksTaken DEF LeavesFrames
<1>9. HistoryCounted'
    BY <1>1, HistoryStill DEF ReadInv, Counts, FilesTyped
<1>10. \A d \in Conn \ {c} : pc[d] # "restarted"
    BY <1>3, OnlyWriter DEF Writing
<1> QED
    BY <1>2, <1>6, <1>7, <1>8, <1>9, <1>10, TransactorReads

LEMMA RestartMarksReads ==
    ASSUME ContentInv, ReadInv, ContentInv', NEW c \in Conn \ Checkpointer, RestartMarks(c)
    PROVE  ReadInv'
<1>1. /\ pc[c] = "restart" /\ Release(c, Marks) /\ pc'[c] = "restarted"
      /\ nBackfill' = 0 /\ UNCHANGED <<hdr, history, work, count>> /\ ConnsTyped
    BY DEF RestartMarks, Goto, ghosts, ContentInv, ConnsTyped
<1>2. Apart(c) /\ MovesFreeMarks(c)
    BY WriterActs DEF WriteTransaction
<1>3. Marked(c, 0) /\ WAL_WRITE_LOCK \in exclusive[c] /\ Marks \subseteq exclusive[c] /\ hdr.mxFrame = 0
    BY <1>1 DEF ReadInv, Reads, Shares, ContentInv, Part, Own, Writing, WalInv, MoversHoldMarks,
                Restarts
<1>4. WAL_READ_LOCK(0) \notin Marks /\ WAL_WRITE_LOCK \notin Marks
    BY WalAssumption DEF Marks, Mark, WAL_READ_LOCK, WAL_WRITE_LOCK
<1>5. Marked(c, 0)' /\ IsWriter(c)'
    BY <1>1, <1>3, <1>4 DEF Release, Marked, IsWriter, ConnsTyped
<1>6. \A i \in Mark : ~Marked(c, i)'
    BY <1>5, WalAssumption DEF Marked, Mark, WAL_READ_LOCK
<1>7. Shares(c)' /\ Within(c)' /\ Restarted(c)' /\ GoesOn(c)
    BY <1>1, <1>3, <1>5, <1>6 DEF Shares, Within, Restarted, GoesOn, Past
<1>8. Idles(c)'
    BY <1>1, <1>5 DEF Idles, Transacts
<1>9. LeavesFrames(c)
    BY <1>3, MarksTaken DEF LeavesFrames
<1>10. HistoryCounted'
    BY <1>1, HistoryStill, Numbers DEF ReadInv
<1>11. \A d \in Conn \ {c} : pc[d] # "restarted"
    BY <1>3, OnlyWriter DEF Writing
<1> QED
    BY <1>2, <1>7, <1>8, <1>9, <1>10, <1>11, TransactorReads

LEMMA LeaveZeroReads ==
    ASSUME ContentInv, ReadInv, ContentInv', NEW c \in Conn \ Checkpointer, LeaveZero(c)
    PROVE  ReadInv'
<1>1. /\ pc[c] \in {"restarted", "restartlog"} /\ Release(c, {ZERO}) /\ pc'[c] = "choose"
      /\ UNCHANGED <<hdr, nBackfill, history, work, count>> /\ ConnsTyped
    BY DEF LeaveZero, Goto, shm, ghosts, ContentInv, ConnsTyped, ZERO
<1>2. Apart(c) /\ MovesFreeMarks(c)
    BY WriterActs DEF WriteTransaction
<1>3. Marked(c, 0) /\ WAL_WRITE_LOCK \in exclusive[c]
    BY <1>1 DEF ReadInv, Reads, Shares, ContentInv, Part, Own, Writing
<1>4. ZERO # WAL_WRITE_LOCK
    BY DEF ZERO, WAL_READ_LOCK, WAL_WRITE_LOCK
<1>5. shared'[c] = {} /\ IsWriter(c)'
    BY <1>1, <1>3, <1>4 DEF Release, Marked, IsWriter, ConnsTyped, ZERO
<1>6. Idles(c)' /\ count.tx <= count'.tx
    BY <1>1, <1>5, Numbers DEF Idles, Transacts
<1> QED
    BY <1>1, <1>2, <1>5, <1>6, NothingShared, QuietReads DEF Past

\* A step of a writer that has its mark.
LEMMA WriterReads ==
    ASSUME ContentInv, ReadInv, ContentInv', NEW c \in Conn \ Checkpointer,
           WriteTransaction(c), UNCHANGED <<shared, exclusive, minFrame, nBackfill, readMark>>,
           pc[c] \in Past \ {"read"}, pc'[c] \in Past, pc'[c] = "read" => work'[c] = NoWork,
           my[c].mxFrame <= my'[c].mxFrame, my'[c].mxFrame <= hdr'.mxFrame,
           hdr.mxFrame <= hdr'.mxFrame, HistoryCounted'
    PROVE  ReadInv'
<1>1. Apart(c) /\ MovesFreeMarks(c)
    BY WriterActs
<1>2. WAL_WRITE_LOCK \in exclusive[c] /\ ZERO \notin shared[c]
    BY DEF ContentInv, Part, Own, Writing, Past
<1>3. Shares(c)' /\ Within(c)' /\ Restarted(c)' /\ GoesOn(c)
    BY <1>2, KeepsMark
<1>4. Idles(c)'
    BY <1>2 DEF Idles, Transacts, IsWriter, Past
<1>5. LeavesFrames(c)
    BY Numbers DEF LeavesFrames
<1>6. \A d \in Conn \ {c} : pc[d] # "restarted"
    BY <1>2, OnlyWriter DEF Writing
<1> QED
    BY <1>1, <1>3, <1>4, <1>5, <1>6, TransactorReads

LEMMA WriteWalHdrReads ==
    ASSUME ContentInv, ReadInv, ContentInv', NEW c \in Conn \ Checkpointer, WriteWalHdr(c)
    PROVE  ReadInv'
<1>1. Heads(c)
    BY WritesHdr
<1>2. UNCHANGED <<shared, exclusive, minFrame, nBackfill, readMark, hdr, history>>
    BY DEF WriteWalHdr, shm, lockVars, ghosts
<1>3. my[c].mxFrame = 0 /\ hdr.mxFrame = 0 /\ my'[c].mxFrame = 0
    BY <1>1 DEF Heads
<1>4. HistoryCounted'
    BY <1>1, <1>2, HistoryStill, Numbers DEF ReadInv, Heads
<1> QED
    BY <1>1, <1>2, <1>3, <1>4, WriterReads DEF Heads, Past, WriteTransaction

LEMMA SyncWalHdrReads ==
    ASSUME ContentInv, ReadInv, ContentInv', NEW c \in Conn \ Checkpointer, SyncWalHdr(c)
    PROVE  ReadInv'
<1>1. /\ UNCHANGED <<shared, exclusive, minFrame, nBackfill, readMark, hdr, history, my, count>>
      /\ pc[c] = "synchdr" /\ pc'[c] = "log" /\ my[c].mxFrame = hdr.mxFrame /\ hdr.mxFrame \in Nat
    BY Numbers DEF SyncWalHdr, shm, lockVars, ghosts, Goto, ContentInv, ConnsTyped, Part, Writes
<1>2. HistoryCounted'
    BY <1>1, HistoryStill, Numbers DEF ReadInv
<1> QED
    BY <1>1, <1>2, WriterReads DEF Past, WriteTransaction

LEMMA WriteFrameReads ==
    ASSUME ContentInv, ReadInv, ContentInv', NEW c \in Conn \ Checkpointer, WriteFrame(c)
    PROVE  ReadInv'
<1>1. /\ UNCHANGED <<shared, exclusive, minFrame, nBackfill, readMark, hdr, history, my, count>>
      /\ InLog(c) /\ pc'[c] \in {"publish", "log"}
    BY DEF WriteFrame, shm, lockVars, ghosts, Goto, ContentInv, ConnsTyped
<1>2. pc[c] \in {"frames", "log"} /\ my[c].mxFrame = hdr.mxFrame /\ hdr.mxFrame \in Nat
    BY <1>1, ReadyToWrite, Numbers
<1>3. HistoryCounted'
    BY <1>1, HistoryStill, Numbers DEF ReadInv
<1> QED
    BY <1>1, <1>2, <1>3, WriterReads DEF Past, WriteTransaction

LEMMA FailWriteReads ==
    ASSUME ContentInv, ReadInv, ContentInv', NEW c \in Conn \ Checkpointer, FailWrite(c)
    PROVE  ReadInv'
<1>1. /\ UNCHANGED <<shared, exclusive, minFrame, nBackfill, readMark, hdr, history>>
      /\ pc[c] \in {"frames", "synchdr", "log"} /\ pc'[c] = "read" /\ work'[c] = NoWork
      /\ my'[c] = hdr /\ Counts("faults") /\ FilesTyped
    BY DEF FailWrite, shm, lockVars, ghosts, Goto, ContentInv, ConnsTyped, Whole
<1>2. my[c].mxFrame = hdr.mxFrame /\ hdr.mxFrame \in Nat
    BY <1>1, WriterAtWork, Numbers
<1>3. HistoryCounted'
    BY <1>1, HistoryStill DEF ReadInv, Counts, FilesTyped
<1> QED
    BY <1>1, <1>2, <1>3, WriterReads DEF Past, WriteTransaction

\* A content that is about to be committed is of the transaction that writes it.
LEMMA WrittenCounted ==
    ASSUME ContentInv, HistoryCounted, NEW c \in Conn, work[c].tx <= count.tx,
           NEW k \in 1..Len(Append(history, Written(c))), NEW p \in Page
    PROVE  Append(history, Written(c))[k][p] <= count.tx
<1>1. history \in Seq([Page -> Int]) /\ history # <<>>
    BY DEF ContentInv, Whole, FilesTyped
<1>2. Len(history) \in Nat \ {0} /\ Len(history) \in 1..Len(history)
    BY <1>1
<1>3. LastOf(history)[p] <= count.tx
    BY <1>2 DEF HistoryCounted, LastOf
<1>4. Written(c)[p] <= count.tx
    BY <1>3 DEF Written
<1>5. CASE k = Len(history) + 1
    BY <1>1, <1>4, <1>5
<1>6. CASE k \in 1..Len(history)
    BY <1>1, <1>6 DEF HistoryCounted
<1> QED
    BY <1>1, <1>2, <1>5, <1>6

LEMMA PublishReads ==
    ASSUME ContentInv, FileInv, ReadInv, ContentInv', NEW c \in Conn \ Checkpointer, Publish(c)
    PROVE  ReadInv'
<1>1. /\ UNCHANGED <<shared, exclusive, minFrame, nBackfill, readMark, count>>
      /\ pc[c] = "publish" /\ pc'[c] = "read" /\ work'[c] = NoWork /\ my'[c] = hdr'
      /\ hdr' = [my[c] EXCEPT !.mxFrame = @ + Cardinality(work[c].pages)]
      /\ history' = Append(history, Written(c)) /\ ConnsTyped
    BY DEF Publish, lockVars, Goto, ContentInv, ConnsTyped
<1>2. /\ my[c].mxFrame = hdr.mxFrame /\ work[c].pages = work[c].done /\ WAL_WRITE_LOCK \in exclusive[c]
    BY <1>1 DEF ContentInv, Part, Writes, Own, Writing
<1>3. /\ my[c].mxFrame \in Nat /\ Cardinality(work[c].pages) \in Nat /\ hdr'.mxFrame \in Nat
      /\ hdr'.mxFrame = my[c].mxFrame + Cardinality(work[c].pages)
    <2>1. my[c] \in AnyHdr
        BY LeftAlone DEF ContentInv
    <2>2. Cardinality(work[c].pages) \in Nat
        BY <1>2, LogTyped
    <2> QED
        BY <1>1, <2>1, <2>2 DEF AnyHdr
<1>4. hdr.mxFrame <= hdr'.mxFrame /\ my[c].mxFrame <= my'[c].mxFrame /\ my'[c].mxFrame <= hdr'.mxFrame
    BY <1>1, <1>2, <1>3
<1>5. HistoryCounted'
    <2>1. work[c].tx = count.tx /\ count.tx \in Nat
        BY <1>1, <1>2, Numbers DEF FileInv, Fresh, Transacts, IsWriter
    <2>2. work[c].tx <= count.tx
        BY <2>1
    <2> QED
        BY <1>1, <2>2, WrittenCounted DEF HistoryCounted, ReadInv
<1> QED
    BY <1>1, <1>4, <1>5, WriterReads DEF Past, WriteTransaction

-----------------------------------------------------------------------------
(***************************************************************************)
(* Checkpoints.                                                            *)
(***************************************************************************)
LEMMA CheckpointStays ==
    ASSUME ContentInv, NEW c \in Checkpointer, Checkpoint(c)
    PROVE  /\ UNCHANGED <<hdr, history>> /\ count'.tx = count.tx
           /\ shared'[c] \subseteq shared[c]
           /\ nBackfill' = nBackfill \/ (pc[c] = "backfill" /\ nBackfill <= nBackfill')
<1>1. c \in Conn /\ ConnsTyped
    BY WalAssumption DEF ContentInv
<1>2. UNCHANGED <<hdr, history>> /\ count'.tx = count.tx
    <2>1. CASE BackfillPage(c) \/ FailBackfill(c)
        BY <2>1, CopiesPage DEF CopiesOne
    <2>2. CASE \/ BeginCheckpoint(c) \/ SomethingToDo(c) \/ LimitByMark(c) \/ SyncLog(c)
               \/ FailSyncLog(c) \/ Backfilled(c) \/ EndCheckpoint(c)
        BY <1>1, <2>2, CheckpointFar DEF Far
    <2> QED
        BY <2>1, <2>2 DEF Checkpoint
<1>3. shared'[c] \subseteq shared[c]
    <2>1. CASE BeginCheckpoint(c) \/ SyncLog(c) \/ FailSyncLog(c)
        BY <2>1 DEF BeginCheckpoint, SyncLog, FailSyncLog, Exclude
    <2>2. CASE SomethingToDo(c) \/ LimitByMark(c) \/ BackfillPage(c) \/ FailBackfill(c) \/ Backfilled(c)
        BY <2>2 DEF SomethingToDo, LimitByMark, BackfillPage, FailBackfill, Backfilled, lockVars
    <2>3. CASE EndCheckpoint(c)
        BY <1>1, <2>3 DEF EndCheckpoint, Release, ConnsTyped
    <2> QED
        BY <2>1, <2>2, <2>3 DEF Checkpoint
<1>4. nBackfill' = nBackfill \/ (pc[c] = "backfill" /\ nBackfill <= nBackfill')
    <2>1. CASE Backfilled(c)
        <3>1. pc[c] = "backfill" /\ nBackfill' = at[c][2]
            BY <2>1 DEF Backfilled
        <3>2. nBackfill < at[c][2] /\ nBackfill \in Nat /\ at[c][2] \in Nat
            BY <3>1, Copier, Numbers
        <3>3. nBackfill <= at[c][2]
            BY <3>2
        <3> QED
            BY <3>1, <3>3
    <2>2. CASE ~Backfilled(c)
        BY <2>2 DEF Checkpoint, BeginCheckpoint, SomethingToDo, LimitByMark, SyncLog, FailSyncLog,
                    BackfillPage, FailBackfill, EndCheckpoint, shm
    <2> QED
        BY <2>1, <2>2
<1> QED
    BY <1>2, <1>3, <1>4

\* A checkpoint shares nothing.
LEMMA CheckpointShares ==
    ASSUME ContentInv, NEW c \in Checkpointer, Shares(c)
    PROVE  shared[c] = {} /\ pc[c] \notin Past
<1>1. pc[c] \in {"idle"} \cup Checkpointing
    BY WalAssumption DEF ContentInv, Part, Own
<1> QED
    BY <1>1 DEF Shares, Past, Checkpointing, Copying

LEMMA CheckpointReads ==
    ASSUME ContentInv, ReadInv, ContentInv', NEW c \in Checkpointer, Checkpoint(c),
           Bounded(c)', \A d \in Conn : Spares(c, d)'
    PROVE  ReadInv'
<1>1. c \in Conn /\ Apart(c) /\ MovesFreeMarks(c)
    BY CheckpointActs
<1>2. /\ UNCHANGED <<hdr, history>> /\ count'.tx = count.tx
      /\ shared'[c] \subseteq shared[c]
      /\ nBackfill' = nBackfill \/ (pc[c] = "backfill" /\ nBackfill <= nBackfill')
    BY CheckpointStays
<1>3. shared'[c] = {}
    BY <1>1, <1>2, CheckpointShares DEF ReadInv, Reads
<1>4. pc'[c] \in {"idle"} \cup Checkpointing
    BY <1>1 DEF ContentInv, Part, Own
<1>5. Shares(c)' /\ Within(c)' /\ Restarted(c)' /\ GoesOn(c)
    BY <1>1, <1>3, <1>4, NothingShared DEF Past, Checkpointing, Copying
<1>6. LeavesFrames(c)
    BY <1>2, Numbers DEF LeavesFrames
<1>7. HistoryCounted'
    BY <1>2, Numbers, HistoryStill DEF ReadInv
<1>8. UNCHANGED <<hdr, nBackfill>> \/ \A d \in Conn \ {c} : pc[d] # "restarted"
    <2> SUFFICES ASSUME pc[c] = "backfill", NEW d \in Conn \ {c}, pc[d] = "restarted"
                 PROVE  FALSE
        BY <1>2
    <2>1. hdr.mxFrame = 0
        BY DEF ReadInv, Reads, Restarted
    <2>2. my[c].mxFrame \in Nat /\ nBackfill < my[c].mxFrame /\ my[c].mxFrame <= hdr.mxFrame
        BY Copier
    <2> QED
        BY <2>1, <2>2, Numbers
<1>9. Idles(c)'
    BY DEF Idles
<1> QED
    BY <1>1, <1>5, <1>6, <1>7, <1>8, <1>9, ReadsKept DEF Keeps, Reads

LEMMA FreshCheckpointReads ==
    ASSUME ContentInv, ReadInv, ContentInv', NEW c \in Checkpointer,
           BeginCheckpoint(c) \/ SomethingToDo(c)
    PROVE  ReadInv'
<1>1. c \in Conn /\ ConnsTyped /\ NMarks \in Nat
    BY WalAssumption DEF ContentInv
<1>2. \/ pc'[c] = "checkpoint"
      \/ pc'[c] = "limit" /\ at'[c][1] = 1
    BY <1>1 DEF BeginCheckpoint, SomethingToDo, Goto, ConnsTyped
<1>3. Bounded(c)'
    BY <1>1, <1>2 DEF Bounded
<1>4. ASSUME NEW d \in Conn PROVE Spares(c, d)'
    BY <1>1, <1>2 DEF Spares, Mark
<1> QED
    BY <1>3, <1>4, CheckpointReads DEF Checkpoint

\* The mark of a reader limits what is safe to copy, once it is looked at.
LEMMA LimitsBy ==
    ASSUME ContentInv, ReadInv, NEW c \in Checkpointer, LimitByMark(c),
           NEW d \in Conn, pc[d] \in Past, NEW j \in Mark, Marked(d, j), j < at[c][1] + 1
    PROVE  at'[c][2] <= my[d].mxFrame
<1>1. /\ c \in Conn /\ pc[c] = "limit" /\ at[c][1] \in Mark
      /\ at[c][1] \in Nat /\ at[c][2] \in Nat /\ my[d].mxFrame \in Nat /\ ConnsTyped
    BY WalAssumption, LeftAlone DEF ContentInv, LimitByMark
<1> DEFINE i == at[c][1]
           safe == at[c][2]
           free == CanExclude({WAL_READ_LOCK(i)})
           low == readMark[i] < safe
           limit == IF low /\ ~free THEN readMark[i] ELSE safe
<1>2. at' = [at EXCEPT ![c] = <<i + 1, limit>>]
    BY DEF LimitByMark
<1>3. at'[c][2] = limit
    BY <1>1, <1>2 DEF ConnsTyped
<1>4. readMark[i] \in Nat
    BY <1>1 DEF ContentInv, Whole, FilesTyped
<1>5. CASE j < i
    <2>1. safe <= my[d].mxFrame
        BY <1>1, <1>5 DEF ReadInv, Spares
    <2>2. limit <= safe
        BY <1>1, <1>4
    <2>3. limit \in Nat
        BY <1>1, <1>4
    <2> HIDE DEF limit, safe
    <2>4. safe \in Nat
        BY <1>1 DEF safe
    <2> QED
        BY <1>1, <1>3, <2>1, <2>2, <2>3, <2>4
<1>6. CASE j = i
    <2>1. ~free
        BY <1>6 DEF CanExclude, Marked
    <2>2. readMark[i] <= my[d].mxFrame
        BY <1>6 DEF ReadInv, Reads, Within
    <2>3. limit <= readMark[i] /\ limit \in Nat
        BY <1>1, <1>4, <2>1
    <2> HIDE DEF limit, i
    <2> QED
        BY <1>1, <1>3, <1>4, <2>2, <2>3
<1>7. j \in Nat /\ i \in Nat
    BY <1>1 DEF Mark
<1>8. j < i \/ j = i
    BY <1>7
<1> QED
    BY <1>5, <1>6, <1>8

LEMMA LimitByMarkReads ==
    ASSUME ContentInv, ReadInv, ContentInv', NEW c \in Checkpointer, LimitByMark(c)
    PROVE  ReadInv'
<1>1. c \in Conn /\ Apart(c) /\ ConnsTyped /\ NMarks \in Nat /\ at[c][1] \in Mark /\ pc[c] = "limit"
    BY WalAssumption, CheckpointActs DEF ContentInv, LimitByMark, Checkpoint
<1>2. UNCHANGED <<pc, my, shared>> /\ at'[c][1] = at[c][1] + 1
    BY <1>1 DEF LimitByMark, lockVars, ConnsTyped
<1>3. Bounded(c)'
    <2>1. at[c][1] + 1 \in 1..(NMarks + 1)
        BY <1>1 DEF Mark
    <2> QED
        BY <1>1, <1>2, <2>1 DEF Bounded
<1>4. ASSUME NEW d \in Conn PROVE Spares(c, d)'
    BY <1>2, LimitsBy DEF Spares, Marked
<1> QED
    BY <1>3, <1>4, CheckpointReads DEF Checkpoint

\* All marks have been looked at when the first page is copied.
LEMMA CopyingReads ==
    ASSUME ContentInv, ReadInv, ContentInv', NEW c \in Checkpointer, SyncLog(c) \/ BackfillPage(c)
    PROVE  ReadInv'
<1>1. c \in Conn /\ ConnsTyped /\ NMarks \in Nat
    BY WalAssumption DEF ContentInv
<1>2. /\ UNCHANGED <<at, my, shared>>
      /\ pc[c] \in {"limit", "backfill"} /\ pc' = [pc EXCEPT ![c] = "backfill"]
      /\ pc[c] = "limit" => at[c][1] \notin Mark
    BY <1>1 DEF SyncLog, BackfillPage, Exclude, lockVars, Goto, ConnsTyped
<1>3. at[c][1] = NMarks + 1
    <2>1. Bounded(c)
        BY <1>1 DEF ReadInv, Reads
    <2> QED
        BY <1>1, <1>2, <2>1 DEF Bounded, Mark
<1>4. Bounded(c)'
    BY <1>1, <1>2, <1>3 DEF Bounded, ConnsTyped
<1>5. ASSUME NEW d \in Conn PROVE Spares(c, d)'
    <2>1. Spares(c, d)
        BY <1>1 DEF ReadInv
    <2>2. pc'[d] \in Past => pc[d] \in Past
        BY <1>1, <1>2 DEF Past, ConnsTyped
    <2> QED
        BY <1>2, <2>1, <2>2 DEF Spares, Marked
<1> QED
    BY <1>4, <1>5, CheckpointReads DEF Checkpoint

LEMMA CheckpointEndReads ==
    ASSUME ContentInv, ReadInv, ContentInv', NEW c \in Checkpointer,
           FailSyncLog(c) \/ FailBackfill(c) \/ Backfilled(c) \/ EndCheckpoint(c)
    PROVE  ReadInv'
<1>1. pc'[c] \in {"checkpointed", "idle"}
    BY WalAssumption
       DEF ContentInv, ConnsTyped, FailSyncLog, FailBackfill, Backfilled, EndCheckpoint, Leave, Goto
<1>2. Bounded(c)' /\ \A d \in Conn : Spares(c, d)'
    BY <1>1 DEF Bounded, Spares
<1> QED
    BY <1>2, CheckpointReads DEF Checkpoint

-----------------------------------------------------------------------------
(***************************************************************************)
(* Crashes; the invariant from the start to every step.                    *)
(***************************************************************************)
LEMMA StoppedReads ==
    ASSUME Stop, HistoryCounted'
    PROVE  ReadInv'
<1>1. /\ pc' = [c \in Conn |-> "idle"] /\ shared' = [c \in Conn |-> {}]
      /\ work' = [c \in Conn |-> NoWork]
    BY DEF Stop, Each
<1>2. ASSUME NEW c \in Conn PROVE Reads(c)'
    BY <1>1 DEF Reads, Shares, Within, Idles, Restarted, Bounded, Marked, Past
<1>3. ASSUME NEW c \in Conn, NEW d \in Conn PROVE Spares(d, c)'
    BY <1>1 DEF Spares
<1> QED
    BY <1>2, <1>3 DEF ReadInv

\* What a process that stops has committed.
LEMMA ReachedIs ==
    ASSUME ContentInv, FileInv
    PROVE  \/ ~Publishing /\ Reached = history
           \/ \E c \in Conn : /\ pc[c] = "publish" /\ Reached = Append(history, Written(c))
                              /\ IsWriter(c) /\ work[c].tx = count.tx /\ work[c] # NoWork
<1>1. CASE Publishing
    <2>1. PICK c \in Conn : pc[c] = "publish"
        BY <1>1 DEF Publishing
    <2>2. Reached = Append(history, Written(c))
        BY <2>1, WrittenShown DEF FileInv
    <2>3. IsWriter(c) /\ work[c].pages # {}
        BY <2>1 DEF ContentInv, Part, Own, Writes, Writing, IsWriter
    <2>4. work[c].tx = count.tx
        BY <2>1, <2>3 DEF FileInv, Fresh, Transacts
    <2> QED
        BY <2>1, <2>2, <2>3, <2>4 DEF NoWork
<1>2. CASE ~Publishing
    BY <1>2, ReachedQuietly
<1> QED
    BY <1>1, <1>2

LEMMA ReachedCounted ==
    ASSUME ContentInv, FileInv, HistoryCounted, NEW k \in 1..Len(Reached), NEW p \in Page
    PROVE  Reached[k][p] <= count.tx
<1>1. CASE Reached = history
    BY <1>1 DEF HistoryCounted
<1>2. ASSUME NEW c \in Conn, Reached = Append(history, Written(c)), work[c].tx = count.tx
      PROVE  Reached[k][p] <= count.tx
    <2>1. work[c].tx <= count.tx
        BY <1>2, Numbers
    <2>2. k \in 1..Len(Append(history, Written(c)))
        BY <1>2
    <2> QED
        BY <1>2, <2>1, <2>2, WrittenCounted
<1> QED
    BY <1>1, <1>2, ReachedIs

LEMMA KillReads ==
    ASSUME ContentInv, FileInv, ReadInv, Kill
    PROVE  ReadInv'
<1>1. Stop /\ history' = Reached /\ Counts("faults")
    BY DEF Kill
<1>2. count'.tx = count.tx
    BY <1>1, Counted DEF Counts, ContentInv, Whole, FilesTyped
<1>3. HistoryCounted'
    BY <1>1, <1>2, ReachedCounted DEF HistoryCounted, ReadInv
<1> QED
    BY <1>1, <1>3, StoppedReads

\* A power loss leaves a beginning of the contents, the synced ones at least.
LEMMA PowerLossLeaves ==
    ASSUME ContentInv, FileInv, DiskInv, PowerLoss
    PROVE  \E n \in durable..Len(Reached) : n \in 1..Len(Reached) /\ history' = SubSeq(Reached, 1, n)
<1> DEFINE left == {n \in durable..Len(Reached) : Reached[n] = RecoveredContent(db', wal')}
           K == Greatest(left)
<1>1. /\ db' \in DbImages /\ wal' \in WalImages
      /\ history' = IF left = {} THEN <<>> ELSE SubSeq(Reached, 1, K)
    BY DEF PowerLoss
<1>2. LeftOver(db', wal')
    BY <1>1, ImagesLeft
<1>3. PICK k \in durable..Len(Reached) : RecoveredContent(db', wal') = Reached[k]
    BY <1>2, LeftShows
<1>4. Len(Reached) \in Nat /\ durable \in Nat /\ 1 <= durable
    BY ReachedLasts, DiskNumbers
<1>5. K \in left
    <2>1. left \in SUBSET (0..Len(Reached))
        BY <1>4
    <2>2. k \in left
        BY <1>3
    <2> HIDE DEF left
    <2> QED
        BY <1>4, <2>1, <2>2, GreatestOf
<1>6. K \in durable..Len(Reached) /\ K \in 1..Len(Reached) /\ left # {}
    BY <1>4, <1>5
<1> HIDE DEF left, K
<1> QED
    BY <1>1, <1>6

LEMMA PowerLossReads ==
    ASSUME ContentInv, FileInv, DiskInv, ReadInv, PowerLoss
    PROVE  ReadInv'
<1>1. Stop /\ Counts("faults")
    BY DEF PowerLoss
<1>2. count'.tx = count.tx
    BY <1>1, Counted DEF Counts, ContentInv, Whole, FilesTyped
<1>3. PICK n \in 1..Len(Reached) : history' = SubSeq(Reached, 1, n)
    BY PowerLossLeaves
<1>4. Reached \in Seq([Page -> Int])
    BY ReachedLasts
<1>5. /\ Len(SubSeq(Reached, 1, n)) = n
      /\ \A k \in 1..n : SubSeq(Reached, 1, n)[k] = Reached[k] /\ k \in 1..Len(Reached)
    BY <1>4
<1>6. \A k \in 1..n : \A p \in Page : Reached[k][p] <= count.tx
    BY <1>5, ReachedCounted DEF ReadInv
<1>7. HistoryCounted'
    BY <1>2, <1>3, <1>5, <1>6 DEF HistoryCounted
<1> QED
    BY <1>1, <1>7, StoppedReads

LEMMA ReadsInitially == Init => ReadInv
<1> SUFFICES ASSUME Init PROVE ReadInv
    OBVIOUS
<1>1. /\ pc = [c \in Conn |-> "idle"] /\ shared = [c \in Conn |-> {}]
      /\ work = [c \in Conn |-> NoWork]
      /\ history = <<[p \in Page |-> 0]>> /\ count.tx = 0
    BY DEF Init, Each, LocksInit, LocksFree
<1>2. ASSUME NEW c \in Conn PROVE Reads(c)
    BY <1>1 DEF Reads, Shares, Within, Idles, Restarted, Bounded, Marked, Past
<1>3. ASSUME NEW c \in Conn, NEW d \in Conn PROVE Spares(d, c)
    BY <1>1 DEF Spares
<1>4. HistoryCounted
    BY <1>1 DEF HistoryCounted
<1> QED
    BY <1>2, <1>3, <1>4 DEF ReadInv

LEMMA ReadStep ==
    ASSUME ContentInv, FileInv, DiskInv, ReadInv, ContentInv', [Next]_vars
    PROVE  ReadInv'
<1>1. CASE UNCHANGED vars
    BY <1>1 DEF vars, files, shm, lockVars, conns, ghosts, ReadInv, HistoryCounted, Reads, Shares,
                Within, Idles, Restarted, Bounded, Spares, Marked, Transacts, IsWriter
<1>2. ASSUME NEW c \in Conn \ Checkpointer,
             BeginRead(c) \/ EndTransaction(c) \/ Recover(c) \/ ResetCkptInfo(c)
      PROVE  ReadInv'
    BY <1>2, ReadHdrReads, IgnoreLogReads, ChooseMarkReads, LockMarkReads, CheckMarkReads,
       EndTransactionReads, RecoverReads, ResetCkptInfoReads DEF BeginRead
<1>3. ASSUME NEW c \in Conn \ Checkpointer, WriteTransaction(c)
      PROVE  ReadInv'
    BY <1>3, BeginWriteReads, RestartHdrReads, RestartMarksReads, LeaveZeroReads, WriteWalHdrReads,
       SyncWalHdrReads, WriteFrameReads, FailWriteReads, PublishReads DEF WriteTransaction
<1>4. ASSUME NEW c \in Checkpointer, Checkpoint(c)
      PROVE  ReadInv'
    BY <1>4, FreshCheckpointReads, LimitByMarkReads, CopyingReads, CheckpointEndReads DEF Checkpoint
<1>5. CASE Kill \/ PowerLoss
    BY <1>5, KillReads, PowerLossReads
<1> QED
    BY <1>1, <1>2, <1>3, <1>4, <1>5 DEF Next

\* The invariant of the log, with what transactions read.
StoreInv == ContentInv /\ FileInv /\ DiskInv /\ ReadInv

LEMMA ReadInvariant ==
    ASSUME ~IdleCheckpoints
    PROVE  Spec => []StoreInv
<1>1. Spec => [](ContentInv /\ FileInv /\ DiskInv)
    BY RecoveryInvariant
<1>2. ContentInv /\ FileInv /\ DiskInv /\ ReadInv /\ ContentInv' /\ [Next]_vars => ReadInv'
    BY ReadStep
<1> QED
    BY <1>1, <1>2, ReadsInitially, PTL DEF Spec, StoreInv

-----------------------------------------------------------------------------
(***************************************************************************)
(* What a transaction reads.                                               *)
(***************************************************************************)
Upto(pages, frames, hi) ==
    /\ hi <= Len(pages) /\ hi <= Len(frames)
    /\ \A g \in 1..hi : pages[g] = frames[g].page

\* The pages that are read are made of the frames they are read from.
LEMMA ContentMakes ==
    ASSUME NEW base \in [Page -> Int], NEW frames \in Seq(AnyFrame), NEW pages \in Seq(Nat),
           NEW lo \in Nat \ {0}, NEW hi \in Nat, Upto(pages, frames, hi)
    PROVE  /\ ContentOf(base, frames, pages, lo, hi) \in [Page -> Int]
           /\ Makes(base, frames, lo, hi, ContentOf(base, frames, pages, lo, hi))
<1> DEFINE X == ContentOf(base, frames, pages, lo, hi)
           Found(p) == FindFrame(pages, p, lo, hi)
<1>1. ASSUME NEW p \in Page PROVE LastIn(frames, Found(p), p, lo, hi)
    <2>1. \A g \in lo..hi : pages[g] = frames[g].page
        BY DEF Upto
    <2>2. Len(pages) \in Nat /\ hi <= Len(pages)
        BY DEF Upto
    <2> QED
        BY <2>1, <2>2, FindsLast
<1>2. X = [p \in Page |-> IF Found(p) = 0 THEN base[p] ELSE FrameContent(frames, Found(p), p)]
    BY DEF ContentOf
<1> HIDE DEF Found
<1>3. ASSUME NEW p \in Page
      PROVE  /\ X[p] = IF Found(p) = 0 THEN base[p] ELSE frames[Found(p)].tx
             /\ Found(p) # 0 => Found(p) \in lo..hi
    <2>1. Found(p) # 0 => Found(p) \in lo..hi /\ frames[Found(p)].page = p
        BY <1>1 DEF LastIn
    <2> QED
        BY <1>2, <2>1 DEF FrameContent
<1>4. ASSUME NEW p \in Page PROVE X[p] \in Int
    <2>1. CASE Found(p) = 0
        BY <1>3, <2>1
    <2>2. CASE Found(p) # 0
        <3>1. Found(p) \in 1..Len(frames)
            BY <1>3, <2>2 DEF Upto
        <3>2. frames[Found(p)] \in AnyFrame
            BY <3>1
        <3>3. frames[Found(p)].tx \in Int
            BY <3>2 DEF AnyFrame
        <3> QED
            BY <1>3, <2>2, <3>3
    <2> QED
        BY <2>1, <2>2
<1>5. X \in [Page -> Int]
    BY <1>2, <1>4
<1> HIDE DEF X
<1>6. ASSUME NEW p \in Page, NEW f \in Nat, LastIn(frames, f, p, lo, hi)
      PROVE  X[p] = IF f = 0 THEN base[p] ELSE frames[f].tx
    <2>1. f = Found(p)
        BY <1>1, <1>6, OneLast
    <2> QED
        BY <1>3, <2>1
<1> QED
    BY <1>5, <1>6 DEF Makes, X

\* A base that differs from another where there is a frame of the page.
Covers(base, more, frames, lo, hi) ==
    \A p \in Page : more[p] = base[p] \/ \E g \in lo..hi : frames[g].page = p

\* The same frames, over a base that differs where there is a frame, show the
\* same content.
LEMMA ContentStays ==
    ASSUME NEW base \in [Page -> Int], NEW frames \in Seq(AnyFrame), NEW pages \in Seq(Nat),
           NEW more, NEW others \in Seq(AnyFrame), NEW index1 \in Seq(Nat),
           NEW lo \in Nat \ {0}, NEW hi \in Nat,
           Upto(pages, frames, hi), Upto(index1, others, hi),
           Agree(frames, others, hi), Covers(base, more, frames, lo, hi)
    PROVE  ContentOf(more, others, index1, lo, hi) = ContentOf(base, frames, pages, lo, hi)
<1> DEFINE X == ContentOf(base, frames, pages, lo, hi)
<1>1. X \in [Page -> Int] /\ Makes(base, frames, lo, hi, X)
    BY ContentMakes
<1> HIDE DEF X
<1>2. ASSUME NEW p \in Page, NEW f \in Nat, LastIn(others, f, p, lo, hi)
      PROVE  X[p] = IF f = 0 THEN more[p] ELSE others[f].tx
    <2>1. LastIn(frames, f, p, lo, hi)
        BY <1>2, LastKept DEF Agree
    <2>2. X[p] = IF f = 0 THEN base[p] ELSE frames[f].tx
        BY <1>1, <2>1 DEF Makes
    <2>3. CASE f = 0
        BY <2>1, <2>2, <2>3 DEF LastIn, Covers
    <2>4. CASE f # 0
        <3>1. f \in 1..hi
            BY <2>1, <2>4 DEF LastIn
        <3> QED
            BY <2>2, <2>4, <3>1 DEF Agree
    <2> QED
        BY <2>3, <2>4
<1>3. Makes(more, others, lo, hi, X)
    BY <1>2 DEF Makes
<1>4. ContentOf(more, others, index1, lo, hi) = X
    <2>1. Len(index1) \in Nat /\ hi <= Len(index1) /\ \A g \in 1..hi : index1[g] = others[g].page
        BY DEF Upto
    <2> QED
        BY <1>1, <1>3, <2>1, ShownContent
<1> QED
    BY <1>4 DEF X

\* A log that is wholly copied is in the database.
LEMMA AllCopied ==
    ASSUME ContentInv, hdr.isInit, nBackfill >= hdr.mxFrame
    PROVE  db = LastOf(history)
<1>1. /\ db \in [Page -> Int] /\ LastOf(history) \in [Page -> Int]
      /\ Makes(db, wal.frames, nBackfill + 1, hdr.mxFrame, LastOf(history))
    BY LastContent DEF ContentInv, Whole, FilesTyped, Seen, Shows
<1>2. ASSUME NEW p \in Page PROVE LastOf(history)[p] = db[p]
    <2>1. LastIn(wal.frames, 0, p, nBackfill + 1, hdr.mxFrame)
        BY Numbers DEF LastIn
    <2> QED
        BY <1>1, <2>1 DEF Makes
<1> QED
    BY <1>1, <1>2

\* The frames from where none is left out show the last content committed.
LEMMA LatestShown ==
    ASSUME ContentInv, Told, hdr.isInit, NEW lo \in 1..(nBackfill + 1)
    PROVE  ContentOf(db, wal.frames, index, lo, hdr.mxFrame) = LastOf(history)
<1>1. /\ LastOf(history) \in [Page -> Int] /\ Len(index) \in Nat /\ hdr.mxFrame \in Nat
      /\ nBackfill \in Nat /\ lo \in Nat \ {0}
    BY LastContent, Numbers
<1>2. ASSUME NEW p \in Page, NEW f \in Nat, LastIn(wal.frames, f, p, lo, hdr.mxFrame)
      PROVE  LastOf(history)[p] = IF f = 0 THEN db[p] ELSE wal.frames[f].tx
    <2>1. CASE f = 0
        <3>1. LastIn(wal.frames, 0, p, nBackfill + 1, hdr.mxFrame)
            BY <1>1, <1>2, <2>1 DEF LastIn
        <3> QED
            BY <2>1, <3>1 DEF ContentInv, Whole, Seen, Shows, Makes
    <2>2. CASE f # 0
        <3>1. LastIn(wal.frames, f, p, 1, hdr.mxFrame)
            BY <1>1, <1>2, <2>2 DEF LastIn
        <3> QED
            BY <2>2, <3>1 DEF Told
    <2> QED
        BY <2>1, <2>2
<1>3. Makes(db, wal.frames, lo, hdr.mxFrame, LastOf(history))
    BY <1>2 DEF Makes
<1>4. hdr.mxFrame <= Len(index) /\ \A g \in 1..hdr.mxFrame : index[g] = wal.frames[g].page
    BY DEF ContentInv, Whole, Mirrors
<1> QED
    BY <1>1, <1>3, <1>4, ShownContent

\* Who reads with the latest header: all of the log is in the database it
\* reads, or it reads all frames that are not.
Latest(c) ==
    /\ hdr.isInit
    /\ \/ ZERO \in shared[c] /\ nBackfill >= hdr.mxFrame
       \/ \E i \in Mark : Marked(c, i) /\ my[c].mxFrame = hdr.mxFrame

ReadsLatest(c) == PagesRead(c) = LastOf(history)

LEMMA LatestRead ==
    ASSUME NEW c \in Conn
    PROVE  ContentInv /\ FileInv /\ ReadInv /\ Latest(c) => ReadsLatest(c)
<1> SUFFICES ASSUME ContentInv, FileInv, ReadInv, Latest(c) PROVE PagesRead(c) = LastOf(history)
    BY DEF ReadsLatest
<1>1. CASE ZERO \in shared[c] /\ nBackfill >= hdr.mxFrame
    BY <1>1, AllCopied DEF Latest, PagesRead, ZERO
<1>2. ASSUME NEW i \in Mark, Marked(c, i), my[c].mxFrame = hdr.mxFrame
      PROVE  PagesRead(c) = LastOf(history)
    <2>1. minFrame[c] \in 1..(nBackfill + 1) /\ ZERO \notin shared[c]
        BY <1>2, WhoIsMarked DEF ReadInv, Reads, Within
    <2> QED
        BY <1>2, <2>1, LatestShown DEF Latest, PagesRead, ZERO, FileInv
<1> QED
    BY <1>1, <1>2 DEF Latest

LEMMA LatestReadThen ==
    ASSUME NEW c \in Conn
    PROVE  ContentInv' /\ FileInv' /\ ReadInv' /\ Latest(c)' => ReadsLatest(c)'
<1>1. ContentInv /\ FileInv /\ ReadInv /\ Latest(c) => ReadsLatest(c)
    BY LatestRead
<1> QED
    BY <1>1, PTL

\* A header that is the latest makes a transaction one.
LEMMA HdrIsLatest ==
    ASSUME ContentInv, ReadInv, NEW c \in Conn, my[c] = hdr,
           pc[c] \in {"check", "read", "frames", "restartlog"}
    PROVE  Latest(c)
<1>1. hdr.isInit
    BY Built
<1>2. Shares(c) /\ ZeroReads(c)
    BY DEF ReadInv, Reads, ContentInv, Part
<1>3. CASE Marked(c, 0)
    <2>1. ZERO \in shared[c]
        BY <1>3 DEF Marked, ZERO
    <2>2. nBackfill = hdr.mxFrame
        BY <1>2, <2>1 DEF ZeroReads, ContentInv, Part, Own
    <2> QED
        BY <1>1, <2>1, <2>2, Numbers DEF Latest
<1>4. CASE \E i \in Mark : Marked(c, i)
    BY <1>1, <1>4 DEF Latest
<1> QED
    BY <1>2, <1>3, <1>4 DEF Shares, Past

-----------------------------------------------------------------------------
(***************************************************************************)
(* A transaction reads the same from one step to the next.                 *)
(***************************************************************************)
Reading == Past \cup {"restartlog", "restart", "restarted"}

\* The frames of the header stay where they were.
LogLeft ==
    /\ hdr.mxFrame <= Len(index') /\ hdr.mxFrame <= Len(wal'.frames)
    /\ \A f \in 1..hdr.mxFrame : wal'.frames[f] = wal.frames[f] /\ index'[f] = wal.frames[f].page

\* No page of the database changes that the connection reads from there.
DbLeft(d) ==
    /\ ZERO \in shared[d] => db' = db
    /\ ZERO \notin shared[d] =>
           \A p \in Page : \/ db'[p] = db[p]
                           \/ \E g \in minFrame[d]..my[d].mxFrame : wal.frames[g].page = p

\* What the connection shares and how far it reads stay.
Holding(d) ==
    /\ shared'[d] = shared[d]
    /\ ZERO \notin shared[d] => minFrame'[d] = minFrame[d] /\ my'[d].mxFrame = my[d].mxFrame

LEMMA ReadStays ==
    ASSUME ContentInv, ReadInv, ContentInv', NEW d \in Conn, pc[d] \in Reading, Holding(d),
           LogLeft, DbLeft(d)
    PROVE  PagesRead(d)' = PagesRead(d)
<1>1. CASE ZERO \in shared[d]
    BY <1>1 DEF PagesRead, ZERO, Holding, DbLeft
<1>2. CASE ZERO \notin shared[d]
    <2>1. PICK i \in Mark : Marked(d, i)
        <3>1. ~Marked(d, 0)
            BY <1>2 DEF Marked, ZERO
        <3> QED
            BY <3>1 DEF ReadInv, Reads, Shares, Reading
    <2>2. pc[d] \in Past
        <3>1. ~Marked(d, 0)
            BY <1>2 DEF Marked, ZERO
        <3> QED
            BY <3>1 DEF ReadInv, Reads, Shares, Reading
    <2>3. minFrame[d] \in 1..(nBackfill + 1) /\ my[d].mxFrame <= hdr.mxFrame
        BY <2>1, <2>2 DEF ReadInv, Reads, Within
    <2> DEFINE lo == minFrame[d]
               hi == my[d].mxFrame
    <2>4. lo \in Nat \ {0} /\ hi \in Nat /\ hi <= hdr.mxFrame /\ hdr.mxFrame \in Nat
        BY <2>3, LeftAlone, Numbers DEF ContentInv
    <2>5. /\ db \in [Page -> Int] /\ wal.frames \in Seq(AnyFrame) /\ index \in Seq(Nat)
          /\ wal'.frames \in Seq(AnyFrame) /\ index' \in Seq(Nat)
        BY Numbers DEF ContentInv, Whole, FilesTyped
    <2>6. /\ hdr.mxFrame <= Len(index) /\ hdr.mxFrame <= Len(wal.frames)
          /\ \A f \in 1..hdr.mxFrame : index[f] = wal.frames[f].page
        BY DEF ContentInv, Whole, Mirrors
    <2>7. Len(index) \in Nat /\ Len(wal.frames) \in Nat /\ Len(index') \in Nat /\ Len(wal'.frames) \in Nat
        BY <2>5
    <2>8. Covers(db, db', wal.frames, lo, hi)
        BY <1>2 DEF DbLeft, Covers
    <2>9. PagesRead(d) = ContentOf(db, wal.frames, index, lo, hi)
        BY <1>2 DEF PagesRead, ZERO
    <2>10. PagesRead(d)' = ContentOf(db', wal'.frames, index', lo, hi)
        BY <1>2 DEF PagesRead, ZERO, Holding
    <2> HIDE DEF lo, hi
    <2>11. Upto(index, wal.frames, hi)
        BY <2>4, <2>6, <2>7 DEF Upto
    <2>12. Upto(index', wal'.frames, hi)
        BY <2>4, <2>7 DEF Upto, LogLeft
    <2>13. Agree(wal.frames, wal'.frames, hi)
        BY <2>4 DEF LogLeft, Agree
    <2>14. ContentOf(db', wal'.frames, index', lo, hi) = ContentOf(db, wal.frames, index, lo, hi)
        BY <2>4, <2>5, <2>8, <2>11, <2>12, <2>13, ContentStays
    <2> QED
        BY <2>9, <2>10, <2>14
<1> QED
    BY <1>1, <1>2

Seeing(c) == IF InTransaction(c) THEN Sees(c) ELSE <<>>
Doing(c) == IF InTransaction(c) /\ work[c] # NoWork THEN Written(c) ELSE <<>>

\* Where a connection in a transaction is.
LEMMA WhereReading ==
    ASSUME ContentInv, NEW c \in Conn, InTransaction(c)
    PROVE  /\ c \in Conn \ Checkpointer
           /\ pc[c] \in Reading \/ (pc[c] \in {"choose", "lock", "check"} /\ IsWriter(c))
           /\ pc[c] # "read" => IsWriter(c)
<1>1. pc[c] \in Transacting /\ (pc[c] = "idle" => exclusive[c] = {})
    BY DEF InTransaction, ContentInv, Part, Own, Free
<1> QED
    BY <1>1 DEF InTransaction, Reading, Past, Transacting, Free, Writing, IsWriter

\* To another connection nothing happens in a step that leaves what it reads,
\* and the last content while it writes.
LEMMA Unaware ==
    ASSUME ContentInv, ReadInv, ContentInv', NEW d \in Conn, Same(d),
           IsWriter(d) => UNCHANGED history,
           InTransaction(d) /\ pc[d] \in Reading => LogLeft /\ DbLeft(d)
    PROVE  Seeing(d)' = Seeing(d) /\ Doing(d)' = Doing(d)
<1>1. InTransaction(d)' <=> InTransaction(d)
    BY DEF InTransaction, IsWriter, Same
<1>2. ASSUME InTransaction(d) PROVE Sees(d)' = Sees(d)
    <2>1. CASE pc[d] \in {"choose", "lock", "check"}
        <3>1. UNCHANGED history
            BY <1>2, <2>1, WhereReading DEF Reading, Past
        <3> QED
            BY <2>1, <3>1 DEF Sees, Same
    <2>2. CASE pc[d] \notin {"choose", "lock", "check"}
        <3>1. pc[d] \in Reading
            BY <1>2, <2>2, WhereReading
        <3>2. PagesRead(d)' = PagesRead(d)
            BY <1>2, <3>1, ReadStays DEF Holding, Same
        <3> QED
            BY <2>2, <3>2 DEF Sees, Same
    <2> QED
        BY <2>1, <2>2
<1>3. ASSUME InTransaction(d), work[d] # NoWork PROVE Written(d)' = Written(d)
    <2>1. IsWriter(d)
        BY <1>3 DEF ReadInv, Reads, Idles, Transacts, InTransaction
    <2> QED
        BY <2>1 DEF Written, Same
<1> QED
    BY <1>1, <1>2, <1>3 DEF Seeing, Doing, Same

Others(c) == \A d \in Conn \ {c} : Seeing(d)' = Seeing(d) /\ Doing(d)' = Doing(d)

\* Steps of a transaction.
LEMMA LogUntouched ==
    ASSUME ContentInv, UNCHANGED <<wal, index>>
    PROVE  LogLeft
BY DEF ContentInv, Whole, Mirrors, LogLeft

LEMMA WritesBeyond ==
    ASSUME ContentInv, ContentInv', NEW c \in Conn \ Checkpointer, WriteFrame(c) \/ FailWrite(c)
    PROVE  LogLeft /\ UNCHANGED <<db, history>>
<1>1. /\ UNCHANGED <<db, hdr, index, history>>
    BY DEF WriteFrame, FailWrite, shm, ghosts
<1>2. my[c].mxFrame = hdr.mxFrame
    BY ReadyToWrite, WriterAtWork DEF WriteFrame, FailWrite
<1>3. /\ my[c].mxFrame \in Nat /\ my[c].mxFrame <= Put1(c) /\ Put1(c) \in Nat /\ Len(wal.frames) \in Nat
    BY LogTyped
<1>4. hdr.mxFrame <= Len(wal.frames) /\ hdr.mxFrame <= Len(wal'.frames) /\ hdr.mxFrame <= Len(index)
    BY <1>1 DEF ContentInv, Whole, Mirrors
<1>5. \/ wal' = wal
      \/ \E x : Extends(wal', Put1(c) + 1, x)
    <2>1. CASE WriteFrame(c)
        BY <2>1, WritesOne DEF Wrote
    <2>2. CASE FailWrite(c)
        BY <2>2, FailTears DEF Tears
    <2> QED
        BY <2>1, <2>2
<1>6. \A f \in 1..hdr.mxFrame : f \in 1..Len(wal.frames) /\ f # Put1(c) + 1
    BY <1>2, <1>3, <1>4
<1>7. \A f \in 1..hdr.mxFrame : wal'.frames[f] = wal.frames[f]
    BY <1>5, <1>6 DEF Extends
<1>8. \A f \in 1..hdr.mxFrame : index[f] = wal.frames[f].page
    BY DEF ContentInv, Whole, Mirrors
<1> QED
    BY <1>1, <1>4, <1>7, <1>8 DEF LogLeft

LEMMA PublishLeaves ==
    ASSUME ContentInv, ContentInv', NEW c \in Conn \ Checkpointer, Publish(c)
    PROVE  LogLeft /\ UNCHANGED <<db, wal>> /\ my[c].mxFrame = hdr.mxFrame
<1>1. /\ UNCHANGED <<db, wal>> /\ pc[c] = "publish"
      /\ hdr' = [my[c] EXCEPT !.mxFrame = @ + Cardinality(work[c].pages)]
    BY DEF Publish, files
<1>2. my[c].mxFrame = hdr.mxFrame /\ work[c].pages = work[c].done
    BY <1>1 DEF ContentInv, Part, Writes
<1>3. my[c] \in AnyHdr /\ Cardinality(work[c].done) \in Nat
    BY LeftAlone, LogTyped DEF ContentInv
<1>4. hdr'.mxFrame = hdr.mxFrame + Cardinality(work[c].done)
    BY <1>1, <1>2, <1>3 DEF AnyHdr
<1>5. hdr.mxFrame <= hdr'.mxFrame /\ hdr'.mxFrame \in Nat
    BY <1>3, <1>4, Numbers
<1>6. /\ hdr'.mxFrame <= Len(index') /\ hdr'.mxFrame <= Len(wal'.frames)
      /\ \A f \in 1..hdr'.mxFrame : index'[f] = wal'.frames[f].page
    BY DEF ContentInv, Whole, Mirrors
<1>7. Len(index') \in Nat /\ Len(wal'.frames) \in Nat
    BY DEF ContentInv, Whole, FilesTyped
<1> QED
    BY <1>1, <1>2, <1>5, <1>6, <1>7, Numbers DEF LogLeft

LEMMA ReaderOthers ==
    ASSUME ContentInv, ReadInv, ContentInv', NEW c \in Conn \ Checkpointer,
           \/ BeginRead(c) \/ EndTransaction(c) \/ ResetCkptInfo(c)
    PROVE  Others(c) /\ LogLeft /\ UNCHANGED <<db, history, durable>>
<1>1. UNCHANGED <<db, wal, index, history, durable>>
    BY DEF BeginRead, ReadHdr, IgnoreLog, ChooseMark, LockMark, CheckMark, EndTransaction,
           ResetCkptInfo, files, shm, ghosts
<1>2. Apart(c)
    BY ReaderActs
<1>3. LogLeft
    BY <1>1, LogUntouched
<1> QED
    BY <1>1, <1>2, <1>3, Unaware DEF Others, Apart, DbLeft

LEMMA WriterOthers ==
    ASSUME ContentInv, ReadInv, ContentInv', NEW c \in Conn \ Checkpointer, WriteTransaction(c)
    PROVE  Others(c) /\ LogLeft /\ UNCHANGED <<db, durable>>
<1>1. Apart(c)
    BY WriterActs
<1>2. LogLeft /\ UNCHANGED db
    <2>1. CASE BeginWrite(c) \/ RestartHdr(c) \/ RestartMarks(c) \/ LeaveZero(c) \/ SyncWalHdr(c)
        <3>1. UNCHANGED <<db, wal, index>>
            BY <2>1 DEF BeginWrite, RestartHdr, RestartMarks, LeaveZero, SyncWalHdr, files, shm
        <3> QED
            BY <3>1, LogUntouched
    <2>2. CASE WriteWalHdr(c)
        <3>1. UNCHANGED <<db, index>> /\ wal' = [wal EXCEPT !.salt = my'[c].salt]
            BY <2>2 DEF WriteWalHdr, shm
        <3>2. wal'.frames = wal.frames
            BY <3>1 DEF ContentInv, Whole, FilesTyped
        <3> QED
            BY <3>1, <3>2 DEF ContentInv, Whole, Mirrors, LogLeft
    <2>3. CASE WriteFrame(c) \/ FailWrite(c)
        BY <2>3, WritesBeyond
    <2>4. CASE Publish(c)
        BY <2>4, PublishLeaves
    <2> QED
        BY <2>1, <2>2, <2>3, <2>4 DEF WriteTransaction
<1>3. UNCHANGED durable
    BY DEF WriteTransaction, BeginWrite, RestartHdr, RestartMarks, LeaveZero, WriteWalHdr,
           SyncWalHdr, WriteFrame, FailWrite, Publish, ghosts
<1>4. ASSUME NEW d \in Conn \ {c}, IsWriter(d) PROVE UNCHANGED history
    <2>1. CASE Publish(c)
        <3>1. IsWriter(c)
            BY <2>1 DEF Publish, ContentInv, Part, Own, Writing, IsWriter
        <3> QED
            BY <1>4, <3>1, OnlyWriter DEF IsWriter
    <2>2. CASE ~Publish(c)
        BY <2>2 DEF WriteTransaction, BeginWrite, RestartHdr, RestartMarks, LeaveZero, WriteWalHdr,
                    SyncWalHdr, WriteFrame, FailWrite, ghosts
    <2> QED
        BY <2>1, <2>2
<1> QED
    BY <1>1, <1>2, <1>3, <1>4, Unaware DEF Others, Apart, DbLeft

\* While the index is rebuilt nobody is in a transaction.
LEMMA RecoverOthers ==
    ASSUME ContentInv, ReadInv, ContentInv', NEW c \in Conn \ Checkpointer, Recover(c)
    PROVE  Others(c) /\ UNCHANGED <<history, durable>>
<1>1. Apart(c) /\ UNCHANGED <<history, durable>>
    BY RecoverActs DEF Recover, ghosts
<1>2. \A d \in Conn : pc[d] = "idle"
    BY DEF Recover, ContentInv, Whole, Pristine
<1>3. ASSUME NEW d \in Conn PROVE ~InTransaction(d)
    BY <1>2, <1>3, WhereReading DEF Reading, Past
<1> QED
    BY <1>1, <1>3, Unaware DEF Others, Apart

\* A checkpoint copies pages of frames that everyone reads from the log, and
\* none while someone reads the database alone.
LEMMA CopyOthers ==
    ASSUME ContentInv, ReadInv, ContentInv', NEW c \in Checkpointer,
           BackfillPage(c) \/ FailBackfill(c)
    PROVE  Others(c)
<1>1. PICK p \in Page : CopiesOne(c, p)
    BY CopiesPage
<1>2. /\ c \in Conn /\ Apart(c) /\ pc[c] = "backfill" /\ UNCHANGED <<wal, history>>
    BY <1>1, Copier DEF CopiesOne
<1>3. UNCHANGED index
    BY DEF BackfillPage, FailBackfill, shm
<1>4. LogLeft
    BY <1>2, <1>3, LogUntouched
<1>5. ASSUME NEW d \in Conn \ {c}, pc[d] \in Reading PROVE DbLeft(d)
    <2>1. ZERO \notin shared[d]
        <3>1. ZERO \in exclusive[c]
            BY <1>2, Copier
        <3> QED
            BY <1>2, <3>1 DEF ContentInv, WalInv, LocksExclude
    <2>2. ~Marked(d, 0)
        BY <2>1 DEF Marked, ZERO
    <2>3. PICK i \in Mark : Marked(d, i)
        BY <1>5, <2>2 DEF ReadInv, Reads, Shares, Reading
    <2>4. pc[d] \in Past
        BY <1>5, <2>2 DEF ReadInv, Reads, Shares, Reading
    <2>5. minFrame[d] \in 1..(nBackfill + 1)
        BY <2>3 DEF ReadInv, Reads, Within
    <2>6. at[c][1] = NMarks + 1
        BY <1>2 DEF ReadInv, Reads, Bounded
    <2>7. i < at[c][1]
        BY <2>6, WalAssumption DEF Mark
    <2>8. at[c][2] <= my[d].mxFrame
        BY <1>2, <2>3, <2>4, <2>7 DEF ReadInv, Spares
    <2>9. /\ LastIn(wal.frames, iterator[p], p, 1, my[c].mxFrame) /\ iterator[p] \in Nat
          /\ InRange(c, iterator[p]) <=> iterator[p] \in (nBackfill + 1)..at[c][2]
        BY <1>2, Copier
    <2>10. my[d].mxFrame \in Nat /\ at[c][2] \in Nat /\ minFrame[d] \in Nat /\ nBackfill \in Nat
        BY <1>2, LeftAlone, Numbers DEF ContentInv
    <2>11. CASE InRange(c, iterator[p])
        <3>1. iterator[p] \in minFrame[d]..my[d].mxFrame /\ iterator[p] # 0
            BY <2>5, <2>8, <2>9, <2>10, <2>11
        <3>2. wal.frames[iterator[p]].page = p
            BY <2>9, <3>1 DEF LastIn
        <3> QED
            BY <1>1, <2>1, <3>1, <3>2 DEF DbLeft, CopiesOne
    <2>12. CASE ~InRange(c, iterator[p])
        BY <1>1, <2>1, <2>12 DEF DbLeft, CopiesOne
    <2> QED
        BY <2>11, <2>12
<1> QED
    BY <1>2, <1>4, <1>5, Unaware DEF Others, Apart

LEMMA CheckpointOthers ==
    ASSUME ContentInv, ReadInv, ContentInv', NEW c \in Checkpointer, Checkpoint(c)
    PROVE  /\ c \in Conn /\ Others(c) /\ UNCHANGED history
           /\ durable' = durable \/ durable' = Len(history)
<1>1. c \in Conn /\ Apart(c) /\ UNCHANGED history
    BY CheckpointActs, CheckpointStays
<1>2. durable' = durable \/ durable' = Len(history)
    BY DEF Checkpoint, BeginCheckpoint, SomethingToDo, LimitByMark, SyncLog, FailSyncLog,
           BackfillPage, FailBackfill, Backfilled, EndCheckpoint, ghosts
<1>3. CASE BackfillPage(c) \/ FailBackfill(c)
    BY <1>1, <1>2, <1>3, CopyOthers
<1>4. CASE \/ BeginCheckpoint(c) \/ SomethingToDo(c) \/ LimitByMark(c) \/ SyncLog(c)
           \/ FailSyncLog(c) \/ Backfilled(c) \/ EndCheckpoint(c)
    <2>1. UNCHANGED <<db, wal, index>>
        BY <1>4 DEF BeginCheckpoint, SomethingToDo, LimitByMark, SyncLog, FailSyncLog,
                    Backfilled, EndCheckpoint, files, shm
    <2>2. LogLeft
        BY <2>1, LogUntouched
    <2> QED
        BY <1>1, <1>2, <2>1, <2>2, Unaware DEF Others, Apart, DbLeft
<1> QED
    BY <1>3, <1>4 DEF Checkpoint

-----------------------------------------------------------------------------
(***************************************************************************)
(* What the step of a transaction is to itself.                            *)
(***************************************************************************)
LEMMA NotNothing ==
    ASSUME NEW f, DOMAIN f = Page
    PROVE  f # <<>>
<1>1. DOMAIN <<>> = {}
    OBVIOUS
<1> QED
    BY <1>1, WalAssumption

\* A transaction sees a content, and so is what it is about to commit.
LEMMA SeesSomething ==
    ASSUME ContentInv, NEW c \in Conn
    PROVE  Sees(c) # <<>> /\ Written(c) # <<>>
<1>1. DOMAIN db = Page /\ DOMAIN LastOf(history) = Page
    BY LastContent DEF ContentInv, Whole, FilesTyped
<1>2. DOMAIN ContentOf(db, wal.frames, index, minFrame[c], my[c].mxFrame) = Page
    BY DEF ContentOf
<1>3. DOMAIN Sees(c) = Page
    BY <1>1, <1>2 DEF Sees, PagesRead
<1>4. DOMAIN Written(c) = Page
    BY DEF Written
<1> QED
    BY <1>3, <1>4, NotNothing

\* Who transacts has pages to write.
HasWork(c) == work[c].pages # {}

LEMMA AtWork ==
    ASSUME ContentInv, NEW c \in Conn, Transacts(c)
    PROVE  HasWork(c) /\ work[c] # NoWork
<1>1. HasWork(c)
    BY DEF ContentInv, Part, Own, Writes, Transacts, IsWriter, HasWork
<1> QED
    BY <1>1 DEF HasWork, NoWork

\* It is about to commit it, and nobody else commits anything.
Does(c) == Doing(c) = IF c \notin Checkpointer /\ Transacts(c) THEN Written(c) ELSE <<>>

LEMMA WhoDoes ==
    ASSUME NEW c \in Conn
    PROVE  ContentInv /\ ReadInv => Does(c)
<1> SUFFICES ASSUME ContentInv, ReadInv PROVE Does(c)
    OBVIOUS
<1>1. CASE c \in Checkpointer
    BY <1>1 DEF Does, Doing, InTransaction
<1>2. CASE c \notin Checkpointer /\ Transacts(c)
    BY <1>2, AtWork DEF Does, Doing, InTransaction, Transacts
<1>3. CASE c \notin Checkpointer /\ ~Transacts(c)
    BY <1>3 DEF Does, Doing, ReadInv, Reads, Idles
<1> QED
    BY <1>1, <1>2, <1>3

LEMMA WhoDoesThen ==
    ASSUME NEW c \in Conn
    PROVE  ContentInv' /\ ReadInv' => Does(c)'
<1>1. ContentInv /\ ReadInv => Does(c)
    BY WhoDoes
<1> QED
    BY <1>1, PTL

\* Nothing changes for a connection outside.
LEMMA OutsideStill ==
    ASSUME NEW c \in Conn, ~InTransaction(c), ~InTransaction(c)'
    PROVE  Seeing(c)' = Seeing(c) /\ Doing(c)' = Doing(c)
BY DEF Seeing, Doing

\* Nor for one that takes a mark.
LEMMA ChoosingStill ==
    ASSUME NEW c \in Conn, pc[c] \in {"choose", "lock", "check"},
           \/ pc'[c] \in {"choose", "lock", "check"}
           \/ pc'[c] = "idle" /\ ~IsWriter(c),
           exclusive'[c] = exclusive[c], UNCHANGED <<work, history>>
    PROVE  Seeing(c)' = Seeing(c) /\ Doing(c)' = Doing(c)
<1>1. CASE IsWriter(c)
    BY <1>1 DEF Seeing, Doing, InTransaction, Sees, IsWriter, Written
<1>2. CASE ~IsWriter(c)
    BY <1>2, OutsideStill DEF InTransaction, IsWriter
<1> QED
    BY <1>1, <1>2

\* Nor for one that writes, while it reads the same and has the same to write.
LEMMA WorkingStill ==
    ASSUME ContentInv, ReadInv, ContentInv', ReadInv', NEW c \in Conn \ Checkpointer,
           Transacts(c), Transacts(c)', UNCHANGED history,
           work'[c].tx = work[c].tx, work'[c].pages = work[c].pages, Sees(c)' = Sees(c)
    PROVE  Seeing(c)' = Seeing(c) /\ Doing(c)' = Doing(c)
<1>1. Written(c)' = Written(c)
    BY DEF Written
<1>2. Doing(c)' = Doing(c)
    BY <1>1, WhoDoes, WhoDoesThen DEF Does
<1> QED
    BY <1>2 DEF Seeing, InTransaction, Transacts

Still(c) == Seeing(c)' = Seeing(c) /\ Doing(c)' = Doing(c)

LEMMA OutsideSteps ==
    ASSUME ContentInv, ContentInv', NEW c \in Conn \ Checkpointer,
           ReadHdr(c) \/ Recover(c) \/ ResetCkptInfo(c)
    PROVE  Still(c)
<1>1. CASE ReadHdr(c)
    <2>1. pc[c] = "idle" /\ pc'[c] = "choose" /\ exclusive'[c] = exclusive[c]
        BY <1>1 DEF ReadHdr, Goto, ContentInv, ConnsTyped, lockVars
    <2>2. exclusive[c] = {}
        BY <2>1 DEF ContentInv, Part, Own, Free
    <2> QED
        BY <2>1, <2>2, OutsideStill DEF Still, InTransaction, IsWriter
<1>2. CASE Recover(c)
    <2>1. pc[c] = "idle" /\ pc'[c] = "recover"
        BY <1>2 DEF Recover, Goto, ContentInv, ConnsTyped
    <2>2. exclusive[c] = {}
        BY <2>1 DEF ContentInv, Part, Own, Free
    <2> QED
        BY <2>1, <2>2, OutsideStill DEF Still, InTransaction, IsWriter
<1>3. CASE ResetCkptInfo(c)
    <2>1. pc[c] = "recover" /\ pc'[c] = "idle"
        BY <1>3 DEF ResetCkptInfo, Goto, ContentInv, ConnsTyped
    <2>2. exclusive'[c] = {}
        BY <2>1 DEF ContentInv, Part, Own, Free
    <2> QED
        BY <2>1, <2>2, OutsideStill DEF Still, InTransaction, IsWriter
<1> QED
    BY <1>1, <1>2, <1>3

\* A reader begins with the last content; a writer that has a mark again goes on.
Begins(c) ==
    /\ Seeing(c) = <<>> /\ Seeing(c)' = LastOf(history)
    /\ Doing(c)' = Doing(c)

\* A retry, which a writer goes on from and others do not.
LEMMA RetryStill ==
    ASSUME ContentInv, NEW c \in Conn \ Checkpointer, pc[c] \in {"choose", "lock", "check"},
           Retry(c), exclusive'[c] = exclusive[c], UNCHANGED <<work, history>>
    PROVE  Still(c)
<1>1. pc'[c] = "choose" \/ (pc'[c] = "idle" /\ ~IsWriter(c))
    BY DEF Retry, Leave, Goto, ContentInv, ConnsTyped
<1> QED
    BY <1>1, ChoosingStill DEF Still

LEMMA ChoosingSteps ==
    ASSUME ContentInv, NEW c \in Conn \ Checkpointer, ChooseMark(c) \/ LockMark(c)
    PROVE  Still(c)
<1>1. /\ pc[c] \in {"choose", "lock"} /\ UNCHANGED <<exclusive, work, history>>
    BY DEF ChooseMark, LockMark, Share, lockVars, ghosts
<1>2. CASE Retry(c)
    BY <1>1, <1>2, RetryStill
<1>3. CASE ~Retry(c)
    <2>1. pc'[c] \in {"lock", "check"}
        <3>1. CASE ChooseMark(c)
            BY <1>3, <3>1, ChoosesBelow
        <3>2. CASE LockMark(c)
            BY <1>3, <3>2 DEF LockMark, Goto, ContentInv, ConnsTyped
        <3> QED
            BY <3>1, <3>2
    <2> QED
        BY <1>1, <2>1, ChoosingStill DEF Still
<1> QED
    BY <1>2, <1>3

LEMMA IgnoreLogSteps ==
    ASSUME ContentInv, ReadInv, ContentInv', ReadInv', NEW c \in Conn \ Checkpointer, IgnoreLog(c)
    PROVE  Still(c) \/ Begins(c)
<1>1. /\ pc[c] = "choose" /\ MayIgnoreLog(c) /\ UNCHANGED <<db, work, history, exclusive>>
    BY DEF IgnoreLog, Share, files, lockVars, ghosts
<1>2. CASE hdr = my[c]
    <2>1. pc'[c] = "read" /\ ZERO \in shared'[c]
        BY <1>2 DEF IgnoreLog, Share, Goto, ContentInv, ConnsTyped, ZERO
    <2>2. Seeing(c) = <<>>
        BY <1>1 DEF Seeing, InTransaction, MayIgnoreLog
    <2>3. db = LastOf(history)
        BY <1>1, <1>2, Built, Numbers, AllCopied DEF MayIgnoreLog
    <2>4. Seeing(c)' = LastOf(history)
        BY <1>1, <2>1, <2>3 DEF Seeing, InTransaction, Sees, PagesRead, ZERO
    <2>5. Doing(c)' = Doing(c)
        BY <1>1, <2>1, WhoDoes, WhoDoesThen DEF Does, Transacts, MayIgnoreLog
    <2> QED
        BY <2>2, <2>4, <2>5 DEF Begins
<1>3. CASE hdr # my[c]
    BY <1>1, <1>3, RetryStill DEF IgnoreLog
<1> QED
    BY <1>2, <1>3

LEMMA CheckMarkSteps ==
    ASSUME ContentInv, FileInv, ReadInv, ContentInv', ReadInv', NEW c \in Conn \ Checkpointer,
           CheckMark(c)
    PROVE  Still(c) \/ Begins(c)
<1>1. /\ pc[c] = "check" /\ UNCHANGED <<db, wal, index, work, history>>
    BY DEF CheckMark, files, shm, ghosts
<1>2. CASE readMark[at[c][1]] = at[c][2] /\ hdr = my[c]
    <2>1. /\ pc'[c] = IF IsWriter(c) THEN "frames" ELSE "read"
          /\ UNCHANGED <<my, minFrame, shared, exclusive>>
        BY <1>2 DEF CheckMark, Goto, ContentInv, ConnsTyped, lockVars
    <2>2. PagesRead(c) = LastOf(history)
        BY <1>1, <1>2, HdrIsLatest, LatestRead DEF ReadsLatest
    <2>3. PagesRead(c)' = LastOf(history)
        BY <1>1, <2>1, <2>2 DEF PagesRead
    <2>4. CASE IsWriter(c)
        <3>1. Sees(c)' = Sees(c)
            BY <1>1, <2>1, <2>3, <2>4 DEF Sees
        <3>2. Transacts(c) /\ Transacts(c)'
            BY <1>1, <2>1, <2>4 DEF Transacts, IsWriter
        <3> QED
            BY <1>1, <3>1, <3>2, WorkingStill DEF Still
    <2>5. CASE ~IsWriter(c)
        <3>1. Seeing(c) = <<>>
            BY <1>1, <2>5 DEF Seeing, InTransaction
        <3>2. Seeing(c)' = LastOf(history)
            BY <2>1, <2>3, <2>5 DEF Seeing, InTransaction, Sees
        <3>3. Doing(c)' = Doing(c)
            BY <2>1, <2>5, WhoDoes, WhoDoesThen DEF Does, Transacts, IsWriter
        <3> QED
            BY <3>1, <3>2, <3>3 DEF Begins
    <2> QED
        BY <2>4, <2>5
<1>3. CASE ~(readMark[at[c][1]] = at[c][2] /\ hdr = my[c])
    <2>1. Retry(c) /\ exclusive' = [exclusive EXCEPT ![c] = @ \ shared[c]]
        BY <1>3 DEF CheckMark, Release
    <2>2. exclusive'[c] = exclusive[c]
        BY <2>1 DEF ContentInv, Part, Own, ConnsTyped
    <2> QED
        BY <1>1, <2>1, <2>2, RetryStill
<1> QED
    BY <1>2, <1>3

Closes(c) ==
    /\ Seeing(c) # <<>> /\ Doing(c) = <<>>
    /\ Seeing(c)' = <<>> /\ Doing(c)' = <<>>

\* Back outside, from a read transaction.
LEMMA LeavesEnds ==
    ASSUME ContentInv, ReadInv, ContentInv', ReadInv', NEW c \in Conn \ Checkpointer,
           pc[c] = "read", Leave(c)
    PROVE  Closes(c)
<1>1. pc'[c] = "idle"
    BY DEF Leave, Goto, ContentInv, ConnsTyped
<1>2. exclusive'[c] = {}
    BY <1>1 DEF ContentInv, Part, Own, Free
<1>3. ~InTransaction(c)'
    BY <1>1, <1>2 DEF InTransaction, IsWriter
<1>4. Doing(c) = <<>>
    BY WhoDoes DEF Does, Transacts
<1>5. Seeing(c) # <<>>
    BY SeesSomething DEF Seeing, InTransaction
<1> QED
    BY <1>3, <1>4, <1>5 DEF Closes, Seeing, Doing

\* A writer begins, with the last content before it, under a new name.
BeginsToWrite(c) ==
    /\ UNCHANGED history
    /\ Seeing(c) = LastOf(history) /\ Seeing(c)' = LastOf(history)
    /\ \A d \in Conn : Doing(d) = <<>>
    /\ \E tx \in 1..MaxTx, pages \in SUBSET Page :
          /\ pages # {}
          /\ \A k \in DOMAIN history, p \in Page : history[k][p] # tx
          /\ Doing(c)' = [p \in Page |-> IF p \in pages THEN tx ELSE LastOf(history)[p]]

LEMMA BeginWriteSteps ==
    ASSUME ContentInv, FileInv, ReadInv, ContentInv', ReadInv', NEW c \in Conn \ Checkpointer,
           BeginWrite(c)
    PROVE  BeginsToWrite(c) \/ Closes(c)
<1>1. CASE hdr = my[c]
    <2>1. /\ pc[c] = "read" /\ CanExclude({WAL_WRITE_LOCK}) /\ count.tx < MaxTx
          /\ UNCHANGED <<db, wal, index, history, my, minFrame, shared>>
          /\ exclusive' = [exclusive EXCEPT ![c] = @ \cup {WAL_WRITE_LOCK}]
          /\ pc'[c] \in {"restartlog", "frames"}
        BY <1>1 DEF BeginWrite, Exclude, Goto, ContentInv, ConnsTyped, files, shm, ghosts
    <2>2. PICK pages \in (SUBSET Page) \ {{}} :
             work' = [work EXCEPT ![c] = [tx |-> count.tx + 1, pages |-> pages, done |-> {}]]
        BY <1>1 DEF BeginWrite
    <2>3. work'[c].tx = count.tx + 1 /\ work'[c].pages = pages
        BY <2>2 DEF ContentInv, ConnsTyped
    <2>4. IsWriter(c)' /\ Transacts(c)'
        BY <2>1 DEF IsWriter, Transacts, ContentInv, ConnsTyped
    <2>5. PagesRead(c) = LastOf(history)
        BY <1>1, <2>1, HdrIsLatest, LatestRead DEF ReadsLatest
    <2>6. PagesRead(c)' = LastOf(history)
        BY <2>1, <2>5 DEF PagesRead
    <2>7. Seeing(c) = LastOf(history) /\ Seeing(c)' = LastOf(history)
        BY <2>1, <2>4, <2>5, <2>6 DEF Seeing, InTransaction, Sees, Transacts
    <2>8. ASSUME NEW d \in Conn PROVE Doing(d) = <<>>
        BY <2>1, WhoDoes DEF Does, Transacts, IsWriter, CanExclude
    <2>9. Doing(c)' = [p \in Page |-> IF p \in pages THEN count.tx + 1 ELSE LastOf(history)[p]]
        BY <2>1, <2>3, <2>4, WhoDoesThen DEF Does, Written
    <2>10. count.tx + 1 \in 1..MaxTx
        BY <2>1, Numbers, BoundsAssumption
    <2>11. \A k \in DOMAIN history, p \in Page : history[k][p] # count.tx + 1
        <3>1. history \in Seq([Page -> Int])
            BY DEF ContentInv, Whole, FilesTyped
        <3>2. ASSUME NEW k \in DOMAIN history, NEW p \in Page PROVE history[k][p] # count.tx + 1
            <4>1. k \in 1..Len(history) /\ history[k] \in [Page -> Int]
                BY <3>1
            <4>2. history[k][p] <= count.tx /\ history[k][p] \in Int
                BY <4>1 DEF ReadInv, HistoryCounted
            <4> QED
                BY <4>2, Numbers
        <3> QED
            BY <3>2
    <2> QED
        BY <2>1, <2>2, <2>7, <2>8, <2>9, <2>10, <2>11 DEF BeginsToWrite
<1>2. CASE hdr # my[c]
    BY <1>2, LeavesEnds DEF BeginWrite
<1> QED
    BY <1>1, <1>2

LEMMA EndTransactionSteps ==
    ASSUME ContentInv, ReadInv, ContentInv', ReadInv', NEW c \in Conn \ Checkpointer,
           EndTransaction(c)
    PROVE  Closes(c)
BY LeavesEnds DEF EndTransaction

-----------------------------------------------------------------------------
\* Writers.
LEMMA WriterWhere ==
    ASSUME ContentInv, ContentInv', NEW c \in Conn \ Checkpointer,
           \/ RestartHdr(c) \/ RestartMarks(c) \/ LeaveZero(c) \/ WriteWalHdr(c) \/ SyncWalHdr(c)
           \/ WriteFrame(c) \/ FailWrite(c) \/ Publish(c)
    PROVE  /\ Transacts(c) /\ pc[c] \in Reading
           /\ pc'[c] \in Writing => Transacts(c)'
           /\ ~Publish(c) => UNCHANGED history
<1>1. pc[c] \in Writing
    BY DEF RestartHdr, RestartMarks, LeaveZero, WriteWalHdr, SyncWalHdr, WriteFrame, FailWrite,
           InLog, Publish, Writing
<1>2. Transacts(c) /\ pc[c] \in Reading
    BY <1>1 DEF ContentInv, Part, Own, Writing, Transacts, IsWriter, Reading, Past
<1>3. pc'[c] \in Writing => Transacts(c)'
    BY DEF ContentInv, Part, Own, Writing, Transacts, IsWriter
<1>4. ~Publish(c) => UNCHANGED history
    BY DEF RestartHdr, RestartMarks, LeaveZero, WriteWalHdr, SyncWalHdr, WriteFrame, FailWrite, ghosts
<1> QED
    BY <1>2, <1>3, <1>4

LEMMA WorkingSteps ==
    ASSUME ContentInv, ReadInv, ContentInv', ReadInv', NEW c \in Conn \ Checkpointer,
           RestartHdr(c) \/ RestartMarks(c) \/ WriteWalHdr(c) \/ SyncWalHdr(c) \/ WriteFrame(c)
    PROVE  Still(c)
<1>1. /\ Transacts(c) /\ pc[c] \in Reading /\ UNCHANGED history
      /\ pc'[c] \in Writing => Transacts(c)'
    BY WriterWhere DEF Publish, RestartHdr, RestartMarks, WriteWalHdr, SyncWalHdr, WriteFrame, InLog
<1>2. /\ pc'[c] \in {"restart", "restarted", "synchdr", "log", "publish"}
      /\ work'[c].tx = work[c].tx /\ work'[c].pages = work[c].pages
    <2>1. CASE RestartHdr(c) \/ RestartMarks(c) \/ WriteWalHdr(c) \/ SyncWalHdr(c)
        BY <2>1 DEF RestartHdr, RestartMarks, WriteWalHdr, SyncWalHdr, Goto, ContentInv, ConnsTyped
    <2>2. CASE WriteFrame(c)
        <3>1. /\ \E l \in {"log", "publish"} : pc' = [pc EXCEPT ![c] = l]
              /\ \E p : work' = [work EXCEPT ![c].done = @ \cup {p}]
            BY <2>2 DEF WriteFrame, Goto
        <3> QED
            BY <3>1 DEF ContentInv, ConnsTyped, AnyWork
    <2> QED
        BY <2>1, <2>2
<1>3. Holding(c)
    <2>1. CASE RestartHdr(c)
        <3>1. Marked(c, 0)
            BY <2>1 DEF RestartHdr, ReadInv, Reads, Shares
        <3>2. shared' = shared
            BY <2>1 DEF RestartHdr, Exclude
        <3> QED
            BY <3>1, <3>2 DEF Holding, Marked, ZERO
    <2>2. CASE RestartMarks(c)
        <3>1. Marked(c, 0)
            BY <2>2 DEF RestartMarks, ReadInv, Reads, Shares
        <3>2. pc'[c] = "restarted"
            BY <2>2 DEF RestartMarks, Goto, ContentInv, ConnsTyped
        <3>3. Marked(c, 0)'
            BY <3>2 DEF ReadInv, Reads, Shares
        <3> QED
            BY <3>1, <3>3 DEF Holding, Marked, ZERO
    <2>3. CASE WriteWalHdr(c)
        <3>1. UNCHANGED <<shared, minFrame>> /\ (my' = my \/ my' = [my EXCEPT ![c].salt = count.salt + 1])
            BY <2>3 DEF WriteWalHdr, lockVars
        <3>2. my'[c].mxFrame = my[c].mxFrame
            BY <3>1 DEF ContentInv, ConnsTyped, AnyHdr
        <3> QED
            BY <3>1, <3>2 DEF Holding
    <2>4. CASE SyncWalHdr(c) \/ WriteFrame(c)
        BY <2>4 DEF SyncWalHdr, WriteFrame, lockVars, Holding
    <2> QED
        BY <2>1, <2>2, <2>3, <2>4
<1>4. LogLeft /\ UNCHANGED db
    BY WriterOthers DEF WriteTransaction
<1>5. PagesRead(c)' = PagesRead(c)
    BY <1>1, <1>3, <1>4, ReadStays DEF DbLeft
<1>6. Sees(c)' = Sees(c)
    BY <1>1, <1>2, <1>5 DEF Sees, Reading, Past
<1>7. Transacts(c)'
    BY <1>1, <1>2 DEF Writing
<1> QED
    BY <1>1, <1>2, <1>6, <1>7, WorkingStill DEF Still

\* Where a writer changes READ_LOCK(0) for a mark all of the log is copied.
LEMMA LeaveZeroSteps ==
    ASSUME ContentInv, FileInv, ReadInv, ContentInv', ReadInv', NEW c \in Conn \ Checkpointer,
           LeaveZero(c)
    PROVE  Still(c)
<1>1. /\ pc[c] \in {"restarted", "restartlog"} /\ pc'[c] = "choose" /\ UNCHANGED <<work, history>>
      /\ exclusive'[c] = exclusive[c] \ {ZERO}
    BY DEF LeaveZero, Release, Goto, ContentInv, ConnsTyped, ghosts, ZERO
<1>2. Transacts(c)
    BY WriterWhere
<1>3. Transacts(c)'
    <2>1. 0 \in Mark \cup {0}
        OBVIOUS
    <2>2. ZERO # WAL_WRITE_LOCK
        BY <2>1, MarkSlot DEF ZERO
    <2> QED
        BY <1>1, <1>2, <2>2 DEF Transacts, IsWriter
<1>4. Marked(c, 0)
    BY <1>1 DEF ReadInv, Reads, Shares
<1>5. nBackfill >= hdr.mxFrame
    <2>1. CASE pc[c] = "restarted"
        BY <2>1 DEF ReadInv, Reads, Restarted
    <2>2. CASE pc[c] = "restartlog"
        <3>1. nBackfill = hdr.mxFrame
            BY <2>2 DEF ContentInv, Part, Restarts, ZeroReads
        <3> QED
            BY <3>1, Numbers
    <2> QED
        BY <1>1, <2>1, <2>2
<1>6. Latest(c)
    BY <1>1, <1>4, <1>5, Built DEF Latest, Marked, ZERO
<1>7. Sees(c) = LastOf(history) /\ Sees(c)' = LastOf(history)
    BY <1>1, <1>6, LatestRead DEF Sees, ReadsLatest
<1> QED
    BY <1>1, <1>2, <1>3, <1>7, WorkingStill DEF Still

\* A transaction is given up, or committed.
RollsBack(c) ==
    /\ UNCHANGED history /\ Seeing(c)' = Seeing(c)
    /\ Doing(c) # <<>> /\ Doing(c)' = <<>>
    /\ \A d \in Conn \ {c} : Doing(d) = <<>>

Commits(c) ==
    /\ history' = Append(history, Doing(c)) /\ Seeing(c)' = Doing(c)
    /\ Doing(c) # <<>> /\ Doing(c)' = <<>>
    /\ \A d \in Conn \ {c} : Doing(d) = <<>>

LEMMA WritesAlone ==
    ASSUME ContentInv, ReadInv, NEW c \in Conn \ Checkpointer, Transacts(c)
    PROVE  /\ Doing(c) = Written(c) /\ Doing(c) # <<>>
           /\ \A d \in Conn \ {c} : Doing(d) = <<>>
<1>1. Doing(c) = Written(c) /\ Doing(c) # <<>>
    BY WhoDoes, SeesSomething DEF Does
<1>2. ASSUME NEW d \in Conn \ {c} PROVE Doing(d) = <<>>
    BY WhoDoes, OnlyWriter DEF Does, Transacts, IsWriter
<1> QED
    BY <1>1, <1>2

LEMMA FailWriteSteps ==
    ASSUME ContentInv, ReadInv, ContentInv', ReadInv', NEW c \in Conn \ Checkpointer, FailWrite(c)
    PROVE  RollsBack(c)
<1>1. /\ UNCHANGED <<history, shared, exclusive, minFrame>> /\ pc'[c] = "read" /\ my'[c] = hdr
      /\ pc[c] \in {"frames", "synchdr", "log"}
    BY DEF FailWrite, Goto, ContentInv, ConnsTyped, ghosts, lockVars
<1>2. my[c].mxFrame = hdr.mxFrame
    BY <1>1, WriterAtWork
<1>3. Transacts(c) /\ pc[c] \in Reading
    BY WriterWhere
<1>4. LogLeft /\ UNCHANGED db
    BY WritesBeyond
<1>5. PagesRead(c)' = PagesRead(c)
    BY <1>1, <1>2, <1>3, <1>4, ReadStays DEF DbLeft, Holding
<1>6. Seeing(c)' = Seeing(c)
    BY <1>1, <1>2, <1>3, <1>5 DEF Seeing, InTransaction, Sees, Transacts, IsWriter
<1>7. Doing(c)' = <<>>
    BY <1>1, WhoDoesThen DEF Does, Transacts
<1> QED
    BY <1>1, <1>3, <1>6, <1>7, WritesAlone DEF RollsBack

LEMMA PublishSteps ==
    ASSUME ContentInv, ReadInv, ContentInv', FileInv', ReadInv', NEW c \in Conn \ Checkpointer,
           Publish(c)
    PROVE  Commits(c)
<1>1. /\ UNCHANGED <<shared, exclusive>> /\ pc[c] = "publish" /\ pc'[c] = "read"
      /\ my'[c] = hdr' /\ history' = Append(history, Written(c))
    BY DEF Publish, Goto, ContentInv, ConnsTyped, lockVars
<1>2. Transacts(c)
    BY WriterWhere
<1>3. hdr'.isInit
    <2>1. pc'[c] # "idle"
        BY <1>1
    <2> QED
        BY <2>1 DEF ContentInv, Whole, Pristine
<1>4. PICK i \in Mark : Marked(c, i)
    BY <1>1 DEF ReadInv, Reads, Shares, Past
<1>5. Latest(c)'
    BY <1>1, <1>3, <1>4 DEF Latest, Marked
<1>6. PagesRead(c)' = LastOf(history')
    BY <1>5, LatestReadThen DEF ReadsLatest
<1>7. LastOf(history') = Written(c)
    BY <1>1, WrittenTyped, LastContent
<1>8. Seeing(c)' = Written(c)
    BY <1>1, <1>6, <1>7 DEF Seeing, InTransaction, Sees
<1>9. Doing(c)' = <<>>
    BY <1>1, WhoDoesThen DEF Does, Transacts
<1> QED
    BY <1>1, <1>2, <1>8, <1>9, WritesAlone DEF Commits

-----------------------------------------------------------------------------
(***************************************************************************)
(* Every step is one of Store, or nothing to it.                           *)
(***************************************************************************)
SeenBy == [c \in Conn |-> Seeing(c)]
DoneBy == [c \in Conn |-> Doing(c)]

LEMMA OneSees ==
    ASSUME NEW c \in Conn, Others(c)
    PROVE  /\ SeenBy' = [SeenBy EXCEPT ![c] = Seeing(c)']
           /\ DoneBy' = [DoneBy EXCEPT ![c] = Doing(c)']
           /\ SeenBy[c] = Seeing(c) /\ DoneBy[c] = Doing(c)
BY DEF SeenBy, DoneBy, Others

LEMMA NobodyDoes ==
    ASSUME \A d \in Conn : Doing(d) = <<>>
    PROVE  DoneBy = [d \in Conn |-> <<>>]
BY DEF DoneBy

LEMMA NobodyDoesThen ==
    ASSUME NEW c \in Conn, Others(c), Doing(c)' = <<>>, \A d \in Conn \ {c} : Doing(d) = <<>>
    PROVE  DoneBy' = [d \in Conn |-> <<>>]
BY DEF DoneBy, Others

LEMMA StutterStep ==
    ASSUME NEW c \in Conn, Others(c), Still(c), UNCHANGED <<history, durable>>
    PROVE  UNCHANGED Promised!storeVars
BY DEF Others, Still, Promised!storeVars, Seeing, Doing

LEMMA BeginStep ==
    ASSUME NEW c \in Conn, Others(c), Begins(c), UNCHANGED <<history, durable>>
    PROVE  Promised!Begin(c)
<1>1. /\ SeenBy[c] = <<>> /\ SeenBy' = [SeenBy EXCEPT ![c] = LastOf(history)]
      /\ DoneBy' = DoneBy
    BY OneSees DEF Begins, DoneBy, Others
<1> QED
    BY <1>1 DEF SeenBy, DoneBy, Seeing, Doing, LastOf, Promised!Begin, Promised!Nothing, Promised!Last

LEMMA EndStep ==
    ASSUME NEW c \in Conn, Others(c), Closes(c), UNCHANGED <<history, durable>>
    PROVE  Promised!End(c)
<1>1. /\ SeenBy[c] # <<>> /\ DoneBy[c] = <<>> /\ SeenBy' = [SeenBy EXCEPT ![c] = <<>>]
      /\ DoneBy' = DoneBy
    BY OneSees DEF Closes, DoneBy, Others
<1> QED
    BY <1>1 DEF SeenBy, DoneBy, Seeing, Doing, Promised!End, Promised!Nothing

LEMMA WriteStep ==
    ASSUME NEW c \in Conn, Others(c), BeginsToWrite(c), UNCHANGED durable
    PROVE  Promised!Write(c)
<1>1. PICK tx \in 1..MaxTx, pages \in SUBSET Page :
          /\ pages # {}
          /\ \A k \in DOMAIN history, p \in Page : history[k][p] # tx
          /\ Doing(c)' = [p \in Page |-> IF p \in pages THEN tx ELSE LastOf(history)[p]]
    BY DEF BeginsToWrite
<1>2. /\ SeenBy[c] = LastOf(history) /\ SeenBy' = SeenBy
      /\ DoneBy = [d \in Conn |-> <<>>]
    BY OneSees, NobodyDoes DEF BeginsToWrite, SeenBy, Others
<1>3. DoneBy' = [DoneBy EXCEPT ![c] = [p \in Page |-> IF p \in pages THEN tx ELSE SeenBy[c][p]]]
    BY <1>1, <1>2, OneSees
<1>4. UNCHANGED <<history, durable>>
    BY DEF BeginsToWrite
<1>5. \E t \in 1..MaxTx, some \in SUBSET Page :
          /\ some # {}
          /\ \A k \in DOMAIN history, p \in Page : history[k][p] # t
          /\ DoneBy' = [DoneBy EXCEPT ![c] = [p \in Page |-> IF p \in some THEN t ELSE SeenBy[c][p]]]
    BY <1>1, <1>3
<1> QED
    BY <1>2, <1>4, <1>5
    DEF SeenBy, DoneBy, Seeing, Doing, LastOf, Promised!Write, Promised!Nobody, Promised!Nothing,
        Promised!Last

LEMMA RollbackStep ==
    ASSUME NEW c \in Conn, Others(c), RollsBack(c), UNCHANGED durable
    PROVE  Promised!Rollback(c)
<1>1. /\ DoneBy[c] # <<>> /\ DoneBy' = [d \in Conn |-> <<>>] /\ SeenBy' = SeenBy
    BY OneSees, NobodyDoesThen DEF RollsBack, SeenBy, Others
<1>2. UNCHANGED <<history, durable>>
    BY DEF RollsBack
<1> QED
    BY <1>1, <1>2
    DEF SeenBy, DoneBy, Seeing, Doing, Promised!Rollback, Promised!Nobody, Promised!Nothing

LEMMA CommitStep ==
    ASSUME NEW c \in Conn, Others(c), Commits(c), UNCHANGED durable
    PROVE  Promised!Commit(c)
<1>1. /\ DoneBy[c] # <<>> /\ DoneBy' = [d \in Conn |-> <<>>]
      /\ SeenBy' = [SeenBy EXCEPT ![c] = DoneBy[c]] /\ history' = Append(history, DoneBy[c])
    BY OneSees, NobodyDoesThen DEF Commits
<1> QED
    BY <1>1 DEF SeenBy, DoneBy, Seeing, Doing, Promised!Commit, Promised!Nobody, Promised!Nothing

\* A process that stops leaves nobody in a transaction.
LEMMA NobodyThen ==
    ASSUME Stop
    PROVE  SeenBy' = [c \in Conn |-> <<>>] /\ DoneBy' = [c \in Conn |-> <<>>]
<1>1. pc' = [c \in Conn |-> "idle"] /\ exclusive' = [c \in Conn |-> {}]
    BY DEF Stop, Each
<1> QED
    BY <1>1 DEF SeenBy, DoneBy, Seeing, Doing, InTransaction, IsWriter

\* What has been committed when it stops.
LEMMA ReachedPromised ==
    ASSUME ContentInv, FileInv, ReadInv
    PROVE  Reached \in Promised!Reached
<1>1. CASE Reached = history
    BY <1>1 DEF Promised!Reached
<1>2. ASSUME NEW c \in Conn, pc[c] = "publish", Reached = Append(history, Written(c)), IsWriter(c)
      PROVE  Reached \in Promised!Reached
    <2>1. c \notin Checkpointer /\ Transacts(c)
        BY <1>2 DEF Transacts, ContentInv, Part, Own, Checkpointing, Copying
    <2>2. DoneBy[c] = Written(c) /\ DoneBy[c] # <<>>
        BY <2>1, WritesAlone DEF DoneBy
    <2>3. Reached \in {Append(history, DoneBy[d]) : d \in {e \in Conn : DoneBy[e] # <<>>}}
        BY <1>2, <2>2
    <2> QED
        BY <2>3 DEF DoneBy, Doing, Promised!Reached, Promised!Nothing
<1> QED
    BY <1>1, <1>2, ReachedIs

LEMMA KillStep ==
    ASSUME ContentInv, FileInv, ReadInv, Kill
    PROVE  Promised!Kill
<1>1. Stop /\ history' = Reached /\ UNCHANGED durable
    BY DEF Kill
<1> QED
    BY <1>1, NobodyThen, ReachedPromised
    DEF SeenBy, DoneBy, Seeing, Doing, Promised!Kill, Promised!Nobody, Promised!Nothing

LEMMA PowerLossStep ==
    ASSUME ContentInv, FileInv, DiskInv, ReadInv, PowerLoss
    PROVE  Promised!PowerLoss
<1>1. Stop /\ durable' = Len(history')
    BY DEF PowerLoss
<1>2. \E n \in durable..Len(Reached) : history' = SubSeq(Reached, 1, n)
    BY PowerLossLeaves
<1>3. \E reached \in Promised!Reached : \E n \in durable..Len(reached) :
          history' = SubSeq(reached, 1, n)
    BY <1>2, ReachedPromised
<1> QED
    BY <1>1, <1>3, NobodyThen
    DEF SeenBy, DoneBy, Seeing, Doing, Promised!PowerLoss, Promised!Nobody, Promised!Nothing

LEMMA HardenStep ==
    ASSUME ContentInv, DiskInv, NEW c \in Conn, Others(c), Still(c), UNCHANGED history,
           durable' = durable \/ durable' = Len(history)
    PROVE  Promised!Harden
<1>1. durable \in Nat /\ Len(history) \in Nat /\ durable <= Len(history)
    BY DiskNumbers, ReachedLasts
<1>2. durable' \in durable..Len(history)
    BY <1>1
<1>3. SeenBy' = SeenBy /\ DoneBy' = DoneBy
    BY DEF SeenBy, DoneBy, Others, Still
<1> QED
    BY <1>2, <1>3 DEF SeenBy, DoneBy, Seeing, Doing, Promised!Harden

LEMMA PromisesKept ==
    ASSUME StoreInv, StoreInv', [Next]_vars
    PROVE  [Promised!StoreNext]_(Promised!storeVars)
<1> USE DEF StoreInv
<1>1. CASE UNCHANGED vars
    BY <1>1 DEF vars, files, shm, lockVars, conns, ghosts, Promised!storeVars, InTransaction, Sees,
                Written, PagesRead, IsWriter
<1>2. ASSUME NEW c \in Conn \ Checkpointer, ReadHdr(c) \/ Recover(c) \/ ResetCkptInfo(c)
      PROVE  UNCHANGED Promised!storeVars
    BY <1>2, OutsideSteps, RecoverOthers, ReaderOthers, StutterStep DEF BeginRead
<1>3. ASSUME NEW c \in Conn \ Checkpointer,
             ChooseMark(c) \/ LockMark(c) \/ IgnoreLog(c) \/ CheckMark(c)
      PROVE  Promised!Begin(c) \/ UNCHANGED Promised!storeVars
    <2>1. Others(c) /\ UNCHANGED <<history, durable>>
        BY <1>3, ReaderOthers DEF BeginRead
    <2>2. Still(c) \/ Begins(c)
        BY <1>3, ChoosingSteps, IgnoreLogSteps, CheckMarkSteps
    <2> QED
        BY <2>1, <2>2, StutterStep, BeginStep
<1>4. ASSUME NEW c \in Conn \ Checkpointer, EndTransaction(c)
      PROVE  Promised!End(c)
    BY <1>4, ReaderOthers, EndTransactionSteps, EndStep
<1>5. ASSUME NEW c \in Conn \ Checkpointer, BeginWrite(c)
      PROVE  Promised!Write(c) \/ Promised!End(c)
    <2>1. Others(c) /\ UNCHANGED durable /\ UNCHANGED history
        BY <1>5, WriterOthers DEF WriteTransaction, BeginWrite, ghosts
    <2> QED
        BY <1>5, <2>1, BeginWriteSteps, WriteStep, EndStep
<1>6. ASSUME NEW c \in Conn \ Checkpointer,
             \/ RestartHdr(c) \/ RestartMarks(c) \/ LeaveZero(c) \/ WriteWalHdr(c)
             \/ SyncWalHdr(c) \/ WriteFrame(c)
      PROVE  UNCHANGED Promised!storeVars
    <2>1. Others(c) /\ UNCHANGED durable
        BY <1>6, WriterOthers DEF WriteTransaction
    <2>2. UNCHANGED history
        BY <1>6 DEF RestartHdr, RestartMarks, LeaveZero, WriteWalHdr, SyncWalHdr, WriteFrame, ghosts
    <2>3. Still(c)
        BY <1>6, WorkingSteps, LeaveZeroSteps
    <2> QED
        BY <2>1, <2>2, <2>3, StutterStep
<1>7. ASSUME NEW c \in Conn \ Checkpointer, FailWrite(c) PROVE Promised!Rollback(c)
    BY <1>7, WriterOthers, FailWriteSteps, RollbackStep DEF WriteTransaction
<1>8. ASSUME NEW c \in Conn \ Checkpointer, Publish(c) PROVE Promised!Commit(c)
    BY <1>8, WriterOthers, PublishSteps, CommitStep DEF WriteTransaction
<1>9. ASSUME NEW c \in Checkpointer, Checkpoint(c) PROVE Promised!Harden
    <2>1. /\ c \in Conn /\ Others(c) /\ UNCHANGED history
          /\ durable' = durable \/ durable' = Len(history)
        BY <1>9, CheckpointOthers
    <2>2. Still(c)
        BY <2>1, OutsideStill DEF Still, InTransaction
    <2> QED
        BY <2>1, <2>2, HardenStep
<1>10. CASE Kill \/ PowerLoss
    BY <1>10, KillStep, PowerLossStep DEF Promised!StoreNext
<1> QED
    BY <1>1, <1>2, <1>3, <1>4, <1>5, <1>6, <1>7, <1>8, <1>9, <1>10
    DEF Next, BeginRead, WriteTransaction, Promised!StoreNext

LEMMA PromisedAtFirst == Init => Promised!StoreInit
<1> SUFFICES ASSUME Init PROVE Promised!StoreInit
    OBVIOUS
<1>1. /\ pc = [c \in Conn |-> "idle"] /\ exclusive = [c \in Conn |-> {}]
      /\ history = <<[p \in Page |-> 0]>> /\ durable = 1
    BY DEF Init, Each, LocksInit, LocksFree
<1>2. SeenBy = [c \in Conn |-> <<>>] /\ DoneBy = [c \in Conn |-> <<>>]
    BY <1>1 DEF SeenBy, DoneBy, Seeing, Doing, InTransaction, IsWriter
<1> QED
    BY <1>1, <1>2
    DEF SeenBy, DoneBy, Seeing, Doing, Promised!StoreInit, Promised!Nobody, Promised!Nothing

\* The write-ahead log keeps the promises of Store, for any number of
\* connections, pages, marks, transactions, failures and crashes: a transaction
\* sees one committed content from its beginning to its end, only one that sees
\* the latest writes, one at a time, a killed process loses no commit, and a
\* power loss none that a checkpoint synced -- provided that no checkpoint
\* begins on a log that is wholly copied (wal.c, as the application uses it).
THEOREM WalKeepsThePromises ==
    ASSUME ~IdleCheckpoints
    PROVE  Spec => KeepsThePromises
<1>1. StoreInv /\ StoreInv' /\ [Next]_vars => [Promised!StoreNext]_(Promised!storeVars)
    BY PromisesKept
<1>2. Spec => []StoreInv
    BY ReadInvariant
<1> QED
    BY <1>1, <1>2, PromisedAtFirst, PTL DEF Spec, KeepsThePromises, Promised!StoreSpec
-----------------------------------------------------------------------------
(***************************************************************************)
(* Every variable keeps to its values: what is in the files and in the     *)
(* index is pages of the database and transactions that have begun.        *)
(***************************************************************************)
PagedFrame(x) ==
    /\ x.page \in Page \cup {0} /\ x.after[1] \in Page \cup {0}
    /\ Torn <= x.tx /\ Torn <= x.after[2]
Paged(frames) == \A f \in 1..Len(frames) : PagedFrame(frames[f])

Begun == Torn..count.tx
Imaged == \A p \in Page : db[p] \in Begun /\ dbDisk[p] \in Begun
Indexed == \A f \in 1..Len(index) : index[f] \in Page \cup {0}
Committed == \A k \in 1..Len(history) : \A p \in Page : 0 <= history[k][p]

\* A checkpoint has written no frames.
Done(c) == work[c].done \subseteq work[c].pages /\ (c \in Checkpointer => work[c].done = {})

Capped == count.tx <= MaxTx /\ count.salt <= MaxSalt
Filed == Imaged /\ Paged(wal.frames) /\ Paged(walDisk.frames)
Kinds == Capped /\ Filed /\ Indexed /\ Committed /\ \A c \in Conn : Done(c)

LEMMA SeqOf ==
    ASSUME NEW S, NEW seq, Len(seq) \in Nat, seq = [f \in 1..Len(seq) |-> seq[f]],
           \A f \in 1..Len(seq) : seq[f] \in S
    PROVE  seq \in Seq(S)
<1>1. seq \in [1..Len(seq) -> S]
    OBVIOUS
<1> QED
    BY <1>1

LEMMA FramesOfKind ==
    ASSUME NEW log \in Log, LogCounted(log), Paged(log.frames), Capped,
           count.tx \in Nat, count.salt \in Nat
    PROVE  log.salt \in 0..MaxSalt /\ log.frames \in Seq(Frame)
<1>1. /\ log.salt \in Nat /\ log.frames \in Seq(AnyFrame) /\ Len(log.frames) \in Nat
      /\ MaxTx \in Nat /\ MaxSalt \in Nat
    BY BoundsAssumption DEF Log
<1>2. \A f \in 1..Len(log.frames) : log.frames[f] \in AnyFrame
    BY <1>1, ElementOfSeq
<1>3. ASSUME NEW f \in 1..Len(log.frames) PROVE log.frames[f] \in Frame
    <2> DEFINE x == log.frames[f]
    <2>1. x \in AnyFrame /\ FrameCounted(x) /\ PagedFrame(x)
        BY <1>2 DEF LogCounted, Paged
    <2> HIDE DEF x
    <2>2. /\ x.salt \in Nat /\ x.tx \in Int /\ x.commit \in BOOLEAN
          /\ x.after \in Nat \X Int /\ x.after[2] \in Int
        BY <2>1 DEF AnyFrame
    <2>3. x.salt <= MaxSalt /\ x.tx <= MaxTx /\ x.after[2] <= MaxTx
        BY <1>1, <2>1, <2>2 DEF FrameCounted, Capped
    <2>4. x.salt \in 0..MaxSalt /\ x.tx \in Torn..MaxTx /\ x.after[2] \in Torn..MaxTx
        BY <1>1, <2>1, <2>2, <2>3 DEF PagedFrame, Torn
    <2>5. x.after \in (Page \cup {0}) \X (Torn..MaxTx)
        BY <2>1, <2>2, <2>4 DEF PagedFrame
    <2>6. x \in Frame
        BY <2>1, <2>2, <2>4, <2>5 DEF PagedFrame, AnyFrame, Frame
    <2> QED
        BY <2>6 DEF x
<1>4. log.frames = [f \in 1..Len(log.frames) |-> log.frames[f]]
    BY <1>1
<1>5. log.frames \in Seq(Frame)
    BY <1>1, <1>3, <1>4, SeqOf
<1>6. log.salt <= count.salt /\ count.salt <= MaxSalt
    BY DEF LogCounted, Capped
<1>7. log.salt \in 0..MaxSalt
    BY <1>1, <1>6
<1> QED
    BY <1>5, <1>7

LEMMA TypesHold == StoreInv /\ Kinds => TypeOK
<1> SUFFICES ASSUME StoreInv, Kinds PROVE TypeOK
    OBVIOUS
<1>1. ContentInv /\ FileInv /\ DiskInv /\ ReadInv
    BY DEF StoreInv
<1>2. FilesTyped /\ ConnsTyped /\ DiskTyped /\ hdr.salt <= count.salt
    BY <1>1 DEF ContentInv, Whole, DiskInv
<1>3. count.tx \in Nat /\ count.salt \in Nat /\ MaxTx \in Nat /\ MaxSalt \in Nat
      /\ count.tx <= MaxTx /\ count.salt <= MaxSalt
    BY <1>2, BoundsAssumption DEF FilesTyped, Kinds, Capped
<1>4. db \in [Page -> Torn..MaxTx] /\ dbDisk \in [Page -> Torn..MaxTx]
    <2>1. Begun \subseteq Torn..MaxTx
        BY <1>3 DEF Begun, Torn
    <2>2. db \in [Page -> Int] /\ dbDisk \in [Page -> Int]
        BY <1>2 DEF FilesTyped, DiskTyped
    <2> QED
        BY <2>1, <2>2 DEF Kinds, Filed, Imaged
<1>5. \A log \in {wal, walDisk} : log.salt \in 0..MaxSalt /\ log.frames \in Seq(Frame)
    <2>1. wal \in Log /\ walDisk \in Log /\ LogCounted(wal) /\ LogCounted(walDisk)
        BY <1>1, <1>2, LogTyped DEF DiskTyped, FileInv, DiskInv
    <2> QED
        BY <1>3, <2>1, FramesOfKind DEF Kinds, Filed
<1>6. hdr \in Hdr /\ my \in [Conn -> Hdr]
    <2>1. hdr \in AnyHdr /\ my \in [Conn -> AnyHdr]
        BY <1>2 DEF FilesTyped, ConnsTyped
    <2>2. ASSUME NEW h \in AnyHdr, h.salt <= count.salt PROVE h \in Hdr
        BY <1>3, <2>2 DEF AnyHdr, Hdr
    <2>3. \A c \in Conn : my[c].salt <= count.salt
        BY <1>1 DEF ContentInv, Part, Salted
    <2>4. \A c \in Conn : my[c] \in Hdr
        BY <2>1, <2>2, <2>3
    <2> QED
        BY <1>2, <2>1, <2>2, <2>4
<1>7. index \in Seq(Page \cup {0})
    <2>1. index \in Seq(Nat) /\ Len(index) \in Nat
        BY <1>2 DEF FilesTyped
    <2>2. index = [f \in 1..Len(index) |-> index[f]]
        BY <2>1
    <2> QED
        BY <2>1, <2>2, SeqOf DEF Kinds, Indexed
<1>8. shared \in [Conn -> SUBSET Slot] /\ exclusive \in [Conn -> SUBSET Slot]
    <2>1. \A c \in Conn : shared[c] \subseteq Slot
        BY <1>1, SharesSlots DEF ReadInv, Reads
    <2>2. shared = [c \in Conn |-> shared[c]]
        BY <1>2 DEF ConnsTyped
    <2> QED
        BY <1>2, <2>1, <2>2 DEF ConnsTyped
<1>9. \A c \in Conn : work[c].pages \subseteq Page /\ work[c].done \subseteq work[c].pages
    BY <1>2, LeftAlone DEF Kinds, Done
<1>10. history \in Seq([Page -> 0..MaxTx])
    <2>1. history \in Seq([Page -> Int]) /\ Len(history) \in Nat
        BY <1>2 DEF FilesTyped
    <2>2. \A k \in 1..Len(history) : history[k] \in [Page -> Int]
        BY <2>1
    <2>3. ASSUME NEW k \in 1..Len(history) PROVE history[k] \in [Page -> 0..MaxTx]
        <3>1. ASSUME NEW p \in Page PROVE history[k][p] \in 0..MaxTx
            <4>1. history[k][p] \in Int /\ history[k][p] <= count.tx /\ 0 <= history[k][p]
                BY <1>1, <2>2 DEF ReadInv, HistoryCounted, Kinds, Committed
            <4> QED
                BY <1>3, <4>1
        <3> QED
            BY <2>2, <3>1
    <2>4. history = [k \in 1..Len(history) |-> history[k]]
        BY <2>1
    <2> QED
        BY <2>1, <2>3, <2>4, SeqOf
<1>11. durable \in 0..Len(history)
    BY <1>2 DEF DiskTyped, FilesTyped
<1>12. /\ nBackfill \in Nat /\ readMark \in [Mark -> Nat] /\ iterator \in [Page -> Nat]
       /\ minFrame \in [Conn -> Nat] /\ at \in [Conn -> Nat \X Nat]
    BY <1>2 DEF FilesTyped, ConnsTyped
<1> QED
    BY <1>4, <1>5, <1>6, <1>7, <1>8, <1>9, <1>10, <1>11, <1>12 DEF TypeOK

\* What a step that leaves them alone does to the files, and to what is shown.
LEMMA FiledStill ==
    ASSUME ContentInv, ContentInv', Filed, UNCHANGED files, count.tx <= count'.tx
    PROVE  Filed'
<1>1. count.tx \in Nat /\ count'.tx \in Nat
    BY DEF ContentInv, Whole, FilesTyped
<1>2. Begun \subseteq Begun'
    BY <1>1 DEF Begun
<1> QED
    BY <1>2 DEF files, Filed, Imaged, Paged, PagedFrame

\* Frames that were there, or are of their kind, are of their kind.
LEMMA PagedAs ==
    ASSUME NEW frames, NEW put, Paged(frames),
           \A f \in 1..Len(put) : PagedFrame(put[f]) \/ (f \in 1..Len(frames) /\ put[f] = frames[f])
    PROVE  Paged(put)
BY DEF Paged

LEMMA TornPaged == PagedFrame(TornFrame)
BY DEF PagedFrame, TornFrame, Torn

LEMMA DoneStill ==
    ASSUME NEW c \in Conn, Apart(c), \A d \in Conn : Done(d), Done(c)'
    PROVE  (\A d \in Conn : Done(d))'
<1>1. ASSUME NEW d \in Conn \ {c} PROVE Done(d)'
    BY DEF Apart, Same, Done
<1> QED
    BY <1>1

\* A step that leaves the files, the index, the contents and the counts.
LEMMA QuietKinds ==
    ASSUME ContentInv, ContentInv', Kinds, UNCHANGED <<files, index, history, work>>,
           count'.tx = count.tx, count'.salt = count.salt
    PROVE  Kinds'
<1>1. Filed'
    BY FiledStill, Numbers DEF Kinds
<1>2. (\A c \in Conn : Done(c))'
    BY DEF Kinds, Done
<1> QED
    BY <1>1, <1>2 DEF Kinds, Capped, Indexed, Committed

LEMMA CountsLittle ==
    ASSUME ContentInv, Counts("faults") \/ Counts("checkpoints") \/ UNCHANGED count
    PROVE  count'.tx = count.tx /\ count'.salt = count.salt
BY DEF ContentInv, Whole, FilesTyped, Counts

LEMMA QuietStepsKinds ==
    ASSUME ContentInv, ContentInv', Kinds, NEW c \in Conn,
           \/ BeginRead(c) \/ EndTransaction(c) \/ ResetCkptInfo(c)
           \/ RestartMarks(c) \/ LeaveZero(c)
           \/ BeginCheckpoint(c) \/ SomethingToDo(c) \/ LimitByMark(c) \/ FailSyncLog(c)
           \/ EndCheckpoint(c)
    PROVE  Kinds'
<1>1. CASE BeginRead(c)
    BY <1>1, QuietKinds
    DEF BeginRead, ReadHdr, IgnoreLog, ChooseMark, LockMark, CheckMark, shm, ghosts
<1>2. CASE EndTransaction(c) \/ ResetCkptInfo(c) \/ RestartMarks(c) \/ LeaveZero(c)
    BY <1>2, QuietKinds DEF EndTransaction, ResetCkptInfo, RestartMarks, LeaveZero, shm, ghosts
<1>3. CASE \/ BeginCheckpoint(c) \/ SomethingToDo(c) \/ LimitByMark(c) \/ FailSyncLog(c)
           \/ EndCheckpoint(c)
    <2>1. Counts("checkpoints") \/ Counts("faults") \/ UNCHANGED count
        BY <1>3 DEF BeginCheckpoint, SomethingToDo, LimitByMark, FailSyncLog, EndCheckpoint
    <2>2. UNCHANGED <<files, index, history, work>>
        BY <1>3 DEF BeginCheckpoint, SomethingToDo, LimitByMark, FailSyncLog, EndCheckpoint, shm, ghosts
    <2> QED
        BY <2>1, <2>2, CountsLittle, QuietKinds
<1> QED
    BY <1>1, <1>2, <1>3

-----------------------------------------------------------------------------
\* The index lists pages of the frames.
LEMMA IndexedThen ==
    ASSUME ContentInv, ContentInv', Paged(wal.frames), UNCHANGED wal,
           index' = PagesOf(SubSeq(wal.frames, 1, hdr'.mxFrame))
    PROVE  Indexed'
<1>1. hdr'.mxFrame \in Nat /\ hdr'.mxFrame <= Len(wal.frames) /\ Len(wal.frames) \in Nat
      /\ wal.frames \in Seq(AnyFrame)
    BY LogTyped DEF ContentInv, Whole, FilesTyped, Mirrors, AnyHdr
<1>2. IsIndex(PagesOf(SubSeq(wal.frames, 1, hdr'.mxFrame)), wal.frames, hdr'.mxFrame)
    BY <1>1, IndexOf
<1>3. Len(index') = hdr'.mxFrame /\ \A f \in 1..hdr'.mxFrame : index'[f] = wal.frames[f].page
    BY <1>2 DEF IsIndex
<1>4. \A f \in 1..hdr'.mxFrame : wal.frames[f].page \in Page \cup {0}
    BY <1>1 DEF Paged, PagedFrame
<1> QED
    BY <1>3, <1>4 DEF Indexed

LEMMA RecoverKinds ==
    ASSUME ContentInv, ContentInv', Kinds, NEW c \in Conn, Recover(c)
    PROVE  Kinds'
<1>1. /\ UNCHANGED <<files, history, work, count>>
      /\ index' = PagesOf(SubSeq(wal.frames, 1, hdr'.mxFrame))
    BY DEF Recover, ghosts
<1>2. Indexed'
    BY <1>1, IndexedThen DEF Kinds, Filed, files
<1>3. Filed'
    BY <1>1, FiledStill, Numbers DEF Kinds
<1> QED
    BY <1>1, <1>2, <1>3 DEF Kinds, Capped, Committed, Done

\* What is committed are transactions.
LEMMA CommittedThen ==
    ASSUME ContentInv, Committed, NEW c \in Conn
    PROVE  \A k \in 1..Len(Append(history, Written(c))) : \A p \in Page :
               0 <= Append(history, Written(c))[k][p]
<1>1. history \in Seq([Page -> Int]) /\ history # <<>> /\ work[c].tx \in Nat
    BY LeftAlone DEF ContentInv, Whole, FilesTyped
<1>2. Len(history) \in Nat \ {0} /\ Len(history) \in 1..Len(history)
    BY <1>1
<1>3. ASSUME NEW k \in 1..Len(Append(history, Written(c))), NEW p \in Page
      PROVE  0 <= Append(history, Written(c))[k][p]
    <2>1. 0 <= LastOf(history)[p]
        BY <1>2 DEF Committed, LastOf
    <2>2. 0 <= Written(c)[p]
        BY <1>1, <2>1 DEF Written
    <2>3. CASE k = Len(history) + 1
        BY <1>1, <2>2, <2>3
    <2>4. CASE k \in 1..Len(history)
        BY <1>1, <2>4 DEF Committed
    <2> QED
        BY <1>1, <1>2, <2>3, <2>4
<1> QED
    BY <1>3

LEMMA PublishKinds ==
    ASSUME ContentInv, ContentInv', Kinds, NEW c \in Conn \ Checkpointer, Publish(c)
    PROVE  Kinds'
<1>1. /\ UNCHANGED <<files, count>> /\ history' = Append(history, Written(c))
      /\ index' = PagesOf(SubSeq(wal.frames, 1, hdr'.mxFrame))
      /\ work' = [work EXCEPT ![c] = NoWork]
    BY DEF Publish
<1>2. Indexed' /\ Filed'
    BY <1>1, IndexedThen, FiledStill, Numbers DEF Kinds, Filed, files
<1>3. Committed'
    BY <1>1, CommittedThen DEF Kinds, Committed
<1>4. (\A d \in Conn : Done(d))'
    <2>1. work \in [Conn -> AnyWork]
        BY DEF ContentInv, ConnsTyped
    <2> QED
        BY <1>1, <2>1 DEF Kinds, Done, NoWork
<1> QED
    BY <1>1, <1>2, <1>3, <1>4 DEF Kinds, Capped

-----------------------------------------------------------------------------
\* Writers.
LEMMA CountsUp ==
    ASSUME ContentInv
    PROVE  /\ Counts("tx") => count'.tx = count.tx + 1 /\ count'.salt = count.salt
           /\ Counts("salt") => count'.salt = count.salt + 1 /\ count'.tx = count.tx
BY DEF ContentInv, Whole, FilesTyped, Counts

LEMMA BeginWriteKinds ==
    ASSUME ContentInv, ContentInv', Kinds, NEW c \in Conn \ Checkpointer, BeginWrite(c)
    PROVE  Kinds'
<1>1. /\ UNCHANGED <<files, index, history>> /\ count.tx < MaxTx
      /\ \/ UNCHANGED <<work, count>>
         \/ /\ Counts("tx")
            /\ \E w : w.done = {} /\ work' = [work EXCEPT ![c] = w]
    BY DEF BeginWrite, shm, ghosts
<1>2. CASE UNCHANGED <<work, count>>
    BY <1>1, <1>2, QuietKinds
<1>3. CASE Counts("tx") /\ \E w : w.done = {} /\ work' = [work EXCEPT ![c] = w]
    <2>1. count'.tx = count.tx + 1 /\ count'.salt = count.salt /\ count.tx \in Nat /\ MaxTx \in Nat
        BY <1>3, CountsUp, BoundsAssumption DEF ContentInv, Whole, FilesTyped
    <2>2. Capped'
        BY <1>1, <2>1 DEF Capped, Kinds
    <2>3. Filed'
        BY <1>1, <2>1, FiledStill DEF Kinds
    <2>4. (\A d \in Conn : Done(d))'
        <3>1. work \in [Conn -> AnyWork]
            BY DEF ContentInv, ConnsTyped
        <3> QED
            BY <1>3, <3>1 DEF Kinds, Done
    <2> QED
        BY <1>1, <2>2, <2>3, <2>4 DEF Kinds, Indexed, Committed
<1> QED
    BY <1>1, <1>2, <1>3

\* A salt is drawn while there is one.
LEMMA DrawnCapped ==
    ASSUME ContentInv, Capped, count.salt < MaxSalt, Counts("salt")
    PROVE  Capped' /\ count'.tx = count.tx
<1>1. count.salt \in Nat /\ MaxSalt \in Nat
    BY BoundsAssumption DEF ContentInv, Whole, FilesTyped
<1> QED
    BY <1>1, CountsUp DEF Capped

LEMMA RestartHdrKinds ==
    ASSUME ContentInv, ContentInv', Kinds, NEW c \in Conn, RestartHdr(c)
    PROVE  Kinds'
<1>1. /\ UNCHANGED <<files, index, history, work>> /\ count.salt < MaxSalt /\ Counts("salt")
    BY DEF RestartHdr, ghosts
<1>2. Capped' /\ count'.tx = count.tx
    BY <1>1, DrawnCapped DEF Kinds
<1>3. Filed'
    BY <1>1, <1>2, FiledStill, Numbers DEF Kinds
<1> QED
    BY <1>1, <1>2, <1>3 DEF Kinds, Indexed, Committed, Done

LEMMA WriteWalHdrKinds ==
    ASSUME ContentInv, ContentInv', Kinds, NEW c \in Conn \ Checkpointer, WriteWalHdr(c)
    PROVE  Kinds'
<1>1. /\ UNCHANGED <<db, dbDisk, walDisk, index, history, work>>
      /\ UNCHANGED count \/ (count.salt < MaxSalt /\ Counts("salt"))
    BY DEF WriteWalHdr, shm, ghosts
<1>2. Capped' /\ count'.tx = count.tx
    BY <1>1, DrawnCapped DEF Kinds, Capped
<1>3. wal'.frames = wal.frames
    BY WritesHdr DEF Heads
<1>4. Filed'
    BY <1>1, <1>2, <1>3 DEF Kinds, Filed, Imaged, Begun, Paged, PagedFrame
<1> QED
    BY <1>1, <1>2, <1>4 DEF Kinds, Indexed, Committed, Done

LEMMA SyncedKinds ==
    ASSUME ContentInv, ContentInv', Kinds, NEW c \in Conn,
           SyncWalHdr(c) \/ (SyncLog(c) /\ Apart(c))
    PROVE  Kinds'
<1>1. /\ UNCHANGED <<db, wal, dbDisk, index, history, count>> /\ walDisk' = wal
    BY DEF SyncWalHdr, SyncLog, shm, ghosts
<1>2. Filed'
    BY <1>1 DEF Kinds, Filed, Imaged, Begun, Paged, PagedFrame
<1>3. (\A d \in Conn : Done(d))'
    <2>1. CASE SyncWalHdr(c)
        BY <2>1 DEF SyncWalHdr, Kinds, Done
    <2>2. CASE SyncLog(c) /\ Apart(c)
        <3>1. work'[c].done = {}
            BY <2>2 DEF SyncLog, NoWork, ContentInv, ConnsTyped
        <3> QED
            BY <2>2, <3>1, DoneStill DEF Kinds, Done
    <2> QED
        BY <2>1, <2>2
<1> QED
    BY <1>1, <1>2, <1>3 DEF Kinds, Capped, Indexed, Committed

\* A frame names a page, and the frame before it.
LEMMA FramePaged ==
    ASSUME ContentInv, Paged(wal.frames), NEW c \in Conn, Put1(c) <= Len(wal.frames),
           NEW p \in Page, NEW last \in BOOLEAN
    PROVE  PagedFrame(FrameOf(c, p, last))
<1>1. work[c].tx \in Nat /\ Put1(c) \in Nat /\ Len(wal.frames) \in Nat
    BY LeftAlone, LogTyped DEF ContentInv
<1>2. CASE Put1(c) = 0
    BY <1>1, <1>2 DEF PagedFrame, FrameOf, Identity, Torn
<1>3. CASE Put1(c) # 0
    <2>1. Put1(c) \in 1..Len(wal.frames)
        BY <1>1, <1>3
    <2>2. PagedFrame(wal.frames[Put1(c)])
        BY <2>1 DEF Paged
    <2> QED
        BY <1>1, <1>3, <2>2 DEF PagedFrame, FrameOf, Identity, Torn
<1> QED
    BY <1>2, <1>3

LEMMA PutPaged ==
    ASSUME ContentInv, Paged(wal.frames), NEW f \in 1..(Len(wal.frames) + 1), NEW frame,
           PagedFrame(frame), Extends(wal', f, frame)
    PROVE  Paged(wal'.frames)
<1>1. /\ Len(wal'.frames) \in Nat /\ Len(wal.frames) \in Nat
      /\ Len(wal'.frames) = f \/ Len(wal'.frames) = Len(wal.frames)
      /\ wal'.frames[f] = frame
      /\ \A g \in 1..Len(wal.frames) : g # f => wal'.frames[g] = wal.frames[g]
    BY LogTyped DEF Extends
<1>2. \A g \in 1..Len(wal'.frames) : g # f => g \in 1..Len(wal.frames)
    BY <1>1
<1> QED
    BY <1>1, <1>2, PagedAs

LEMMA PutKinds ==
    ASSUME ContentInv, ContentInv', Kinds, Paged(wal'.frames), count'.tx = count.tx,
           count'.salt = count.salt, UNCHANGED <<db, dbDisk, walDisk, index, history>>,
           (\A d \in Conn : Done(d))'
    PROVE  Kinds'
<1>1. Filed'
    BY DEF Kinds, Filed, Imaged, Begun, Paged, PagedFrame
<1> QED
    BY <1>1 DEF Kinds, Capped, Indexed, Committed

LEMMA WriteFrameKinds ==
    ASSUME ContentInv, ContentInv', Kinds, NEW c \in Conn \ Checkpointer, WriteFrame(c)
    PROVE  Kinds'
<1>1. PICK p \in Page, last \in BOOLEAN : Wrote(c, p, last)
    BY WritesOne
<1>2. /\ Put1(c) <= Len(wal.frames) /\ Extends(wal', Put1(c) + 1, FrameOf(c, p, last)) /\ Apart(c)
      /\ UNCHANGED <<db, dbDisk, walDisk, history, count>>
    BY <1>1 DEF Wrote
<1>3. Put1(c) + 1 \in 1..(Len(wal.frames) + 1)
    BY <1>2, LogTyped
<1>4. Paged(wal'.frames)
    BY <1>2, <1>3, FramePaged, PutPaged DEF Kinds, Filed
<1>5. UNCHANGED index /\ InLog(c)
    BY DEF WriteFrame, shm
<1>6. Done(c)'
    <2> DEFINE w == work[c]
               q == Least(w.pages \ w.done)
    <2>1. work' = [work EXCEPT ![c].done = @ \cup {q}]
        BY DEF WriteFrame
    <2>2. work \in [Conn -> AnyWork] /\ w.pages \subseteq Page
        BY LeftAlone DEF ContentInv, ConnsTyped
    <2>3. w.done \subseteq w.pages /\ w.pages # w.done
        BY <1>5, ReadyToWrite
    <2>4. q \in w.pages
        <3>1. (w.pages \ w.done) \in SUBSET Nat /\ w.pages \ w.done # {}
            BY <2>2, <2>3, WalAssumption
        <3> QED
            BY <3>1, LeastOf
    <2> HIDE DEF q
    <2>5. work'[c].done = w.done \cup {q} /\ work'[c].pages = w.pages
        BY <2>1, <2>2 DEF AnyWork
    <2> QED
        BY <2>3, <2>4, <2>5 DEF Done
<1>7. (\A d \in Conn : Done(d))'
    BY <1>2, <1>6, DoneStill DEF Kinds
<1> QED
    BY <1>2, <1>4, <1>5, <1>7, PutKinds

LEMMA FailWriteKinds ==
    ASSUME ContentInv, ContentInv', Kinds, NEW c \in Conn \ Checkpointer, FailWrite(c)
    PROVE  Kinds'
<1>1. Tears(c)
    BY FailTears
<1>2. /\ Put1(c) <= Len(wal.frames) /\ Apart(c)
      /\ wal' = wal \/ Extends(wal', Put1(c) + 1, TornFrame)
      /\ UNCHANGED <<db, dbDisk, walDisk, history>>
    BY <1>1 DEF Tears
<1>3. Put1(c) + 1 \in 1..(Len(wal.frames) + 1)
    BY <1>2, LogTyped
<1>4. Paged(wal'.frames)
    BY <1>2, <1>3, TornPaged, PutPaged DEF Kinds, Filed
<1>5. UNCHANGED index /\ Counts("faults") /\ work' = [work EXCEPT ![c] = NoWork]
    BY DEF FailWrite, shm
<1>6. Done(c)'
    BY <1>5 DEF Done, NoWork, ContentInv, ConnsTyped
<1>7. (\A d \in Conn : Done(d))'
    BY <1>2, <1>6, DoneStill DEF Kinds
<1> QED
    BY <1>2, <1>4, <1>5, <1>7, CountsLittle, PutKinds

-----------------------------------------------------------------------------
\* Checkpoints: a page that is copied is of a transaction that has begun.
CopiedOf(p) == db'[p] \in Begun /\ \A q \in Page \ {p} : db'[q] = db[q]

LEMMA CopiesBegun ==
    ASSUME ContentInv, FileInv, Kinds, NEW c \in Checkpointer, BackfillPage(c) \/ FailBackfill(c)
    PROVE  \E p \in Page : CopiedOf(p)
<1>1. c \in Conn /\ pc[c] = "backfill"
    BY WalAssumption DEF BackfillPage, FailBackfill
<1>2. PICK p \in Page :
          \/ db' = db \/ db' = [db EXCEPT ![p] = Torn]
          \/ /\ iterator[p] \in minFrame[c]..at[c][2]
             /\ db' = [db EXCEPT ![p] = FrameContent(wal.frames, iterator[p], p)]
    <2>1. work[c].pages \in SUBSET Nat /\ work[c].pages \subseteq Page /\ Page # {}
        BY <1>1, LeftAlone, WalAssumption DEF ContentInv
    <2>2. CASE BackfillPage(c)
        <3> DEFINE q == Least(work[c].pages)
        <3>1. q \in Page
            BY <2>1, <2>2, LeastOf DEF BackfillPage
        <3>2. \/ db' = db
              \/ /\ iterator[q] \in minFrame[c]..at[c][2]
                 /\ db' = [db EXCEPT ![q] = FrameContent(wal.frames, iterator[q], q)]
            BY <2>2 DEF BackfillPage
        <3> QED
            BY <3>1, <3>2
    <2>3. CASE FailBackfill(c)
        <3>1. db' = db \/ \E q \in work[c].pages : db' = [db EXCEPT ![q] = Torn]
            BY <2>3 DEF FailBackfill
        <3> QED
            BY <2>1, <3>1
    <2> QED
        BY <2>2, <2>3
<1> DEFINE f == iterator[p]
<1>3. count.tx \in Nat /\ db \in [Page -> Int] /\ db[p] \in Begun /\ Torn \in Begun
    <2>1. db[p] \in Begun
        BY <1>2 DEF Kinds, Filed, Imaged
    <2> QED
        BY <2>1 DEF ContentInv, Whole, FilesTyped, Begun, Torn
<1>4. \/ db' = db \/ db' = [db EXCEPT ![p] = Torn]
      \/ f \in minFrame[c]..at[c][2] /\ db' = [db EXCEPT ![p] = FrameContent(wal.frames, f, p)]
    BY <1>2
<1>5. f \in minFrame[c]..at[c][2] => FrameContent(wal.frames, f, p) \in Begun
    <2>1. minFrame[c] \in Nat \ {0} /\ at[c][2] <= Len(wal.frames) /\ at[c][2] \in Nat
          /\ Len(wal.frames) \in Nat
        <3>1. /\ nBackfill \in Nat /\ hdr.mxFrame \in Nat /\ at[c][2] \in Nat
              /\ my[c].mxFrame \in Nat /\ Len(wal.frames) \in Nat
            BY <1>1, LogTyped, LeftAlone DEF ContentInv, Whole, FilesTyped, AnyHdr
        <3>2. /\ minFrame[c] = nBackfill + 1 /\ at[c][2] <= my[c].mxFrame
              /\ my[c].mxFrame <= hdr.mxFrame /\ hdr.mxFrame <= Len(wal.frames)
            BY <1>1 DEF ContentInv, Part, Copies, Copying, Whole, Mirrors
        <3> QED
            BY <3>1, <3>2
    <2>2. ASSUME f \in 1..Len(wal.frames)
          PROVE  FrameContent(wal.frames, f, p) \in Begun
        <3> HIDE DEF f
        <3>1. wal.frames[f] \in AnyFrame /\ FrameCounted(wal.frames[f]) /\ PagedFrame(wal.frames[f])
            BY <2>2, LogTyped DEF FileInv, LogCounted, Kinds, Filed, Paged
        <3>2. wal.frames[f].tx \in Begun
            BY <1>3, <3>1 DEF AnyFrame, FrameCounted, PagedFrame, Begun, Torn
        <3> QED
            BY <1>3, <3>2 DEF FrameContent
    <2> HIDE DEF f
    <2> QED
        BY <2>1, <2>2
<1> HIDE DEF f
<1>6. CopiedOf(p)
    BY <1>2, <1>3, <1>4, <1>5 DEF CopiedOf
<1> QED
    BY <1>2, <1>6

LEMMA CopyKinds ==
    ASSUME ContentInv, FileInv, ContentInv', Kinds, NEW c \in Checkpointer,
           BackfillPage(c) \/ FailBackfill(c)
    PROVE  Kinds'
<1>1. /\ UNCHANGED <<wal, dbDisk, walDisk, index, history>>
      /\ UNCHANGED count \/ Counts("faults")
    BY DEF BackfillPage, FailBackfill, shm, ghosts
<1>2. count'.tx = count.tx /\ count'.salt = count.salt
    BY <1>1, CountsLittle
<1>3. PICK p \in Page : CopiedOf(p)
    BY CopiesBegun
<1>4. Filed'
    <2>1. Imaged'
        BY <1>1, <1>2, <1>3 DEF CopiedOf, Kinds, Filed, Imaged, Begun
    <2> QED
        BY <1>1, <2>1 DEF Kinds, Filed, Paged, PagedFrame
<1>5. (\A d \in Conn : Done(d))'
    <2>1. work \in [Conn -> AnyWork] /\ c \in Conn
        BY WalAssumption DEF ContentInv, ConnsTyped
    <2>2. work[c].done = {}
        BY <2>1 DEF Kinds, Done
    <2>3. Apart(c)
        BY CopiesPage DEF CopiesOne
    <2>4. work'[c].done = {}
        BY <2>1, <2>2 DEF BackfillPage, FailBackfill, NoWork, AnyWork
    <2> QED
        BY <2>1, <2>3, <2>4, DoneStill DEF Kinds, Done
<1> QED
    BY <1>1, <1>2, <1>4, <1>5 DEF Kinds, Capped, Indexed, Committed

LEMMA BackfilledKinds ==
    ASSUME ContentInv, ContentInv', Kinds, NEW c \in Checkpointer, Backfilled(c)
    PROVE  Kinds'
<1>1. /\ UNCHANGED <<db, wal, walDisk, index, history, count>>
      /\ dbDisk' = db \/ dbDisk' = dbDisk
      /\ work' = [work EXCEPT ![c] = NoWork]
    BY DEF Backfilled, ghosts
<1>2. Filed'
    BY <1>1 DEF Kinds, Filed, Imaged, Begun, Paged, PagedFrame
<1>3. (\A d \in Conn : Done(d))'
    <2>1. work \in [Conn -> AnyWork]
        BY DEF ContentInv, ConnsTyped
    <2> QED
        BY <1>1, <2>1 DEF Kinds, Done, NoWork
<1> QED
    BY <1>1, <1>2, <1>3 DEF Kinds, Capped, Indexed, Committed

-----------------------------------------------------------------------------
\* Crashes.
LEMMA ReachedCommitted ==
    ASSUME ContentInv, FileInv, Committed
    PROVE  \A k \in 1..Len(Reached) : \A p \in Page : 0 <= Reached[k][p]
<1>1. \/ Reached = history
      \/ \E c \in Conn : Reached = Append(history, Written(c))
    BY ReachedIs
<1> QED
    BY <1>1, CommittedThen DEF Committed

LEMMA StoppedKinds ==
    ASSUME ContentInv, Capped, Stop, Counts("faults"), Filed', Committed'
    PROVE  Kinds'
<1>1. count'.tx = count.tx /\ count'.salt = count.salt
    BY CountsLittle
<1>2. index' = <<>> /\ work' = [c \in Conn |-> NoWork]
    BY DEF Stop, Each
<1> QED
    BY <1>1, <1>2 DEF Kinds, Capped, Indexed, Done, NoWork

LEMMA KillKinds ==
    ASSUME ContentInv, FileInv, ContentInv', Kinds, Kill
    PROVE  Kinds'
<1>1. Stop /\ Counts("faults") /\ history' = Reached /\ UNCHANGED files
    BY DEF Kill
<1>2. Filed'
    BY <1>1, CountsLittle, Numbers, FiledStill DEF Kinds
<1>3. Committed'
    BY <1>1, ReachedCommitted DEF Kinds, Committed
<1> QED
    BY <1>1, <1>2, <1>3, StoppedKinds DEF Kinds

LEMMA PowerLossKinds ==
    ASSUME ContentInv, FileInv, DiskInv, Kinds, PowerLoss
    PROVE  Kinds'
<1>1. /\ Stop /\ Counts("faults") /\ db' \in DbImages /\ wal' \in WalImages
      /\ dbDisk' = db' /\ walDisk' = wal'
    BY DEF PowerLoss
<1>2. count'.tx = count.tx /\ count.tx \in Nat
    BY <1>1, CountsLittle DEF ContentInv, Whole, FilesTyped
<1>3. \A p \in Page : db'[p] \in {db[p], dbDisk[p], Torn}
    <2>1. PICK fate \in [{p \in Page : db[p] # dbDisk[p]} -> Fate] :
             db' = [p \in Page |-> CASE p \notin DOMAIN fate \/ fate[p] = "new" -> db[p]
                                     [] fate[p] = "old" -> dbDisk[p]
                                     [] OTHER -> Torn]
        BY <1>1 DEF DbImages
    <2> QED
        BY <2>1 DEF Fate
<1>4. Imaged'
    <2>1. Begun' = Begun /\ Torn \in Begun
        BY <1>2 DEF Begun, Torn
    <2> QED
        BY <1>1, <1>3, <2>1 DEF Kinds, Filed, Imaged
<1>5. Paged(wal'.frames)
    <2>1. LeftOver(db', wal')
        BY <1>1, ImagesLeft
    <2>2. /\ Len(wal'.frames) = Len(wal.frames)
          /\ \A f \in 1..Len(wal.frames) :
                \/ wal'.frames[f] = wal.frames[f]
                \/ f <= Len(walDisk.frames) /\ wal'.frames[f] = walDisk.frames[f]
                \/ wal'.frames[f] = TornFrame
        BY <2>1 DEF LeftOver
    <2>3. \A f \in 1..Len(wal.frames) : f <= Len(walDisk.frames) => f \in 1..Len(walDisk.frames)
        BY LogTyped, DiskNumbers
    <2> QED
        BY <2>2, <2>3, TornPaged DEF Kinds, Filed, Paged
<1>6. Filed'
    BY <1>1, <1>4, <1>5 DEF Filed, Paged, PagedFrame
<1>7. Committed'
    <2>1. PICK n \in 1..Len(Reached) : history' = SubSeq(Reached, 1, n)
        BY PowerLossLeaves
    <2>2. Reached \in Seq([Page -> Int])
        BY ReachedLasts
    <2>3. /\ Len(SubSeq(Reached, 1, n)) = n
          /\ \A k \in 1..n : SubSeq(Reached, 1, n)[k] = Reached[k] /\ k \in 1..Len(Reached)
        BY <2>2
    <2> QED
        BY <2>1, <2>3, ReachedCommitted DEF Kinds, Committed
<1> QED
    BY <1>1, <1>6, <1>7, StoppedKinds DEF Kinds

-----------------------------------------------------------------------------
LEMMA KindsAtFirst == Init => Kinds
<1> SUFFICES ASSUME Init PROVE Kinds
    OBVIOUS
<1>1. /\ db = [p \in Page |-> 0] /\ dbDisk = db /\ wal.frames = <<>> /\ walDisk = wal
      /\ index = <<>> /\ history = <<[p \in Page |-> 0]>> /\ work = [c \in Conn |-> NoWork]
      /\ count.tx = 0 /\ count.salt = 0
    BY DEF Init, Each
<1>2. Capped
    BY <1>1, BoundsAssumption DEF Capped
<1>3. Filed
    BY <1>1 DEF Filed, Imaged, Begun, Torn, Paged
<1>4. Indexed /\ Committed
    BY <1>1 DEF Indexed, Committed
<1>5. \A c \in Conn : Done(c)
    BY <1>1 DEF Done, NoWork
<1> QED
    BY <1>2, <1>3, <1>4, <1>5 DEF Kinds

LEMMA KindsStep ==
    ASSUME StoreInv, StoreInv', Kinds, [Next]_vars
    PROVE  Kinds'
<1>1. ContentInv /\ FileInv /\ DiskInv /\ ReadInv /\ ContentInv'
    BY DEF StoreInv
<1>2. CASE UNCHANGED vars
    BY <1>2 DEF vars, files, shm, ghosts, conns, Kinds, Capped, Filed, Imaged, Begun, Paged,
                PagedFrame, Indexed, Committed, Done
<1>3. ASSUME NEW c \in Conn \ Checkpointer,
             BeginRead(c) \/ EndTransaction(c) \/ Recover(c) \/ ResetCkptInfo(c)
      PROVE  Kinds'
    BY <1>1, <1>3, QuietStepsKinds, RecoverKinds
<1>4. ASSUME NEW c \in Conn \ Checkpointer, WriteTransaction(c)
      PROVE  Kinds'
    BY <1>1, <1>4, BeginWriteKinds, RestartHdrKinds, QuietStepsKinds, WriteWalHdrKinds, SyncedKinds,
       WriteFrameKinds, FailWriteKinds, PublishKinds DEF WriteTransaction
<1>5. ASSUME NEW c \in Checkpointer, Checkpoint(c)
      PROVE  Kinds'
    <2>1. c \in Conn /\ Apart(c)
        BY <1>1, <1>5, CheckpointActs
    <2> QED
        BY <1>1, <1>5, <2>1, QuietStepsKinds, SyncedKinds, CopyKinds, BackfilledKinds DEF Checkpoint
<1>6. CASE Kill \/ PowerLoss
    BY <1>1, <1>6, KillKinds, PowerLossKinds
<1> QED
    BY <1>2, <1>3, <1>4, <1>5, <1>6 DEF Next

\* Whatever is interrupted, torn, lost or recovered, no file, index or variable
\* of a connection ever holds what is not a page of the database, a frame, a
\* transaction that has begun or a salt that was drawn (wal.c).
THEOREM LogStaysTyped ==
    ASSUME ~IdleCheckpoints
    PROVE  Spec => []TypeOK
<1>1. StoreInv /\ StoreInv' /\ Kinds /\ [Next]_vars => Kinds'
    BY KindsStep
<1>2. Spec => []StoreInv
    BY ReadInvariant
<1> QED
    BY <1>1, <1>2, KindsAtFirst, TypesHold, PTL DEF Spec
=============================================================================
