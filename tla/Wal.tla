-------------------------------- MODULE Wal --------------------------------
(***************************************************************************)
(* The write-ahead log of wal.c as the application uses it: readers,       *)
(* writers and a passive checkpoint on their own connections, over a       *)
(* database file, a log file and the wal-index in shared memory.  Every    *)
(* action is a stretch of the code between two points where another        *)
(* connection can act; the process may be killed and the power may fail    *)
(* between any two.                                                        *)
(*                                                                         *)
(* The content of a page is the transaction that wrote it.  A frame's      *)
(* checksum runs over the frames before it: `after' names the frame it     *)
(* continues.  A transaction fits the page cache, so that a page is        *)
(* written to the log once, at the commit.                                 *)
(***************************************************************************)
EXTENDS Integers, Sequences, FiniteSets, SlotLocks

CONSTANTS
    Page,           \* pages of the database, numbers
    Checkpointer,   \* connections that checkpoint; the others transact
    NMarks,         \* read marks besides mark 0: WAL_NREADER - 1
    READMARK_NOT_USED,
    IdleCheckpoints,    \* whether a checkpoint may begin on a backfilled log
    MaxTx,          \* bound: transactions that write
    MaxSalt,        \* bound: salts drawn
    MaxCheckpoints, \* bound: checkpoints begun
    MaxFaults       \* bound: writes that fail, processes killed, power losses

WAL_WRITE_LOCK == 0
WAL_CKPT_LOCK == 1
WAL_READ_LOCK(i) == 3 + i
Mark == 1..NMarks
Marks == {WAL_READ_LOCK(i) : i \in Mark}

ASSUME WalAssumption ==
    /\ NMarks \in Nat
    /\ 0..WAL_READ_LOCK(NMarks) \subseteq Slot
    /\ Checkpointer \subseteq Conn
    /\ Page \subseteq Nat /\ IsFiniteSet(Page) /\ Page # {}
    /\ READMARK_NOT_USED \in Nat

ASSUME BoundsAssumption == MaxTx \in Nat /\ MaxSalt \in Nat

VARIABLES
    db,         \* the database file as the operating system has it
    wal,        \* the log file: the salt of its header and its frames
    dbDisk,     \* what of the database file has reached the disk for sure
    walDisk,    \* what of the log file has
    hdr,        \* WalIndexHdr in shared memory
    nBackfill,  \* WalCkptInfo.nBackfill
    readMark,   \* WalCkptInfo.aReadMark[1..]
    index,      \* the page numbers of the frames, in the hash tables' pages
    pc,         \* pc[c] : where connection c is
    my,         \* my[c] : Wal.hdr, its copy of the header
    minFrame,   \* my[c] : Wal.minFrame; nBackfill + 1 of a checkpoint
    at,         \* at[c] : a mark and a frame: mxI and mxReadMark of a reader,
                \*         i and mxSafeFrame of a checkpoint
    work,       \* work[c] : transaction, its pages, and which are written
    iterator,   \* the checkpoint's WalIterator: the frame to copy of each page
    history,    \* the contents committed so far, oldest first
    durable,    \* so many of them survive a power loss
    count       \* counts what the bounds bound

files == <<db, wal, dbDisk, walDisk>>
shm == <<hdr, nBackfill, readMark, index>>
conns == <<pc, my, minFrame, at, work, iterator>>
ghosts == <<history, durable>>
vars == <<files, shm, lockVars, conns, ghosts, count>>

Torn == -1
NoHdr == [isInit |-> FALSE, salt |-> 0, mxFrame |-> 0]
NoWork == [tx |-> 0, pages |-> {}, done |-> {}]
NoFrames == [p \in Page |-> 0]
TornFrame == [salt |-> 0, page |-> 0, tx |-> Torn, commit |-> FALSE, after |-> <<0, 0>>]

Counts(what) == count' = [count EXCEPT ![what] = @ + 1]
Goto(c, l) == pc' = [pc EXCEPT ![c] = l]

Least(S) == CHOOSE x \in S : \A y \in S : x <= y
Greatest(S) == CHOOSE x \in S : \A y \in S : x >= y
LastOf(seq) == seq[Len(seq)]

-----------------------------------------------------------------------------
(***************************************************************************)
(* Frames, pages and what they say.                                        *)
(***************************************************************************)

\* sqlite3WalFindFrame: the last frame of a page from `lo' to `hi', or 0.
FindFrame(pages, p, lo, hi) ==
    Greatest({0} \cup {f \in lo..hi : f <= Len(pages) /\ pages[f] = p})

\* Frame f read as the content of page p.
FrameContent(frames, f, p) == IF frames[f].page = p THEN frames[f].tx ELSE Torn

ContentOf(base, frames, pages, lo, hi) ==
    [p \in Page |-> LET f == FindFrame(pages, p, lo, hi)
                    IN  IF f = 0 THEN base[p] ELSE FrameContent(frames, f, p)]

PagesOf(frames) == [f \in DOMAIN frames |-> frames[f].page]

\* What the pages of connection c read.
PagesRead(c) ==
    IF WAL_READ_LOCK(0) \in shared[c]
    THEN db
    ELSE ContentOf(db, wal.frames, index, minFrame[c], my[c].mxFrame)

Identity(frames, f) == IF f = 0 THEN <<0, 0>> ELSE <<frames[f].page, frames[f].tx>>

\* Mutant: the checksum covers the frame alone.
DecodesAlone(log, f) == log.frames[f].salt = log.salt

\* walDecodeFrame: the salts and the running checksum agree.
Decodes(log, f) ==
    /\ log.frames[f].salt = log.salt
    /\ log.frames[f].after = Identity(log.frames, f - 1)

\* Mutant: frames of a transaction that has no commit frame count too.
RecoverAllFrames(log) ==
    LET good == {n \in 1..Len(log.frames) :
                    log.salt # 0 /\ \A f \in 1..n : Decodes(log, f)}
    IN  [isInit |-> TRUE, salt |-> log.salt, mxFrame |-> Greatest({0} \cup good)]

\* walIndexRecover: the frames up to the last commit of the longest prefix
\* that decodes.
RecoveredHdr(log) ==
    LET good == {n \in 1..Len(log.frames) :
                    log.salt # 0 /\ \A f \in 1..n : Decodes(log, f)}
    IN  [isInit |-> TRUE,
         salt |-> log.salt,
         mxFrame |-> Greatest({0} \cup {n \in good : log.frames[n].commit})]

RecoveredContent(base, log) ==
    ContentOf(base, log.frames, PagesOf(log.frames), 1, RecoveredHdr(log).mxFrame)

-----------------------------------------------------------------------------
(***************************************************************************)
(* Reading the header, and rebuilding it after a crash.                    *)
(***************************************************************************)
ReadHdr(c) ==
    /\ pc[c] = "idle"
    /\ hdr.isInit
    /\ my' = [my EXCEPT ![c] = hdr]
    /\ Goto(c, "choose")
    /\ UNCHANGED <<files, shm, lockVars, minFrame, at, work, iterator, ghosts, count>>

\* walIndexRecover holds every lock; the header is there before the rest.
Recover(c) ==
    /\ pc[c] = "idle"
    /\ ~hdr.isInit
    /\ Exclude(c, Slot)
    /\ hdr' = RecoveredHdr(wal)
    /\ index' = PagesOf(SubSeq(wal.frames, 1, hdr'.mxFrame))
    /\ Goto(c, "recover")
    /\ UNCHANGED <<files, nBackfill, readMark, my, minFrame, at, work, iterator, ghosts, count>>

ResetCkptInfo(c) ==
    /\ pc[c] = "recover"
    /\ nBackfill' = 0
    /\ readMark' = [i \in Mark |-> IF i = 1 /\ hdr.mxFrame > 0 THEN hdr.mxFrame
                                   ELSE READMARK_NOT_USED]
    /\ Release(c, Slot)
    /\ Goto(c, "idle")
    /\ UNCHANGED <<files, hdr, index, my, minFrame, at, work, iterator, ghosts, count>>

-----------------------------------------------------------------------------
(***************************************************************************)
(* walTryBeginRead.  A writer whose log has been restarted comes here too  *)
(* (useWal = 1): it keeps its header and takes a mark.                     *)
(***************************************************************************)
IsWriter(c) == WAL_WRITE_LOCK \in exclusive[c]

\* Back outside: what the connection keeps of its header and its mark is read
\* anew before it is used again.
Leave(c) ==
    /\ Goto(c, "idle")
    /\ my' = [my EXCEPT ![c] = NoHdr]
    /\ minFrame' = [minFrame EXCEPT ![c] = 0]
    /\ at' = [at EXCEPT ![c] = <<0, 0>>]

\* WAL_RETRY
Retry(c) ==
    IF IsWriter(c) THEN Goto(c, "choose") /\ UNCHANGED <<my, minFrame, at>>
    ELSE Leave(c)

MayIgnoreLog(c) ==
    /\ ~IsWriter(c)
    /\ nBackfill = my[c].mxFrame
    /\ CanShare(WAL_READ_LOCK(0))

IgnoreLog(c) ==
    /\ pc[c] = "choose"
    /\ MayIgnoreLog(c)
    /\ IF hdr = my[c]
       THEN /\ Share(c, WAL_READ_LOCK(0))
            /\ Goto(c, "read")
            /\ UNCHANGED <<my, minFrame, at>>
       ELSE Retry(c) /\ UNCHANGED lockVars
    /\ UNCHANGED <<files, shm, work, iterator, ghosts, count>>

\* The mark closest to the header's frame; a mark nobody holds is raised to it.
ChooseMark(c) ==
    /\ pc[c] = "choose"
    /\ ~MayIgnoreLog(c)
    /\ LET mx == my[c].mxFrame
           fit == {i \in Mark : readMark[i] <= mx}
           best == Greatest({i \in fit : \A j \in fit : readMark[j] <= readMark[i]})
           free == {i \in Mark : CanExclude({WAL_READ_LOCK(i)})}
           Take(i, mark) == /\ at' = [at EXCEPT ![c] = <<i, mark>>]
                            /\ Goto(c, "lock")
                            /\ UNCHANGED <<my, minFrame>>
       IN  \/ /\ \E i \in fit : readMark[i] = mx
              /\ Take(best, mx)
              /\ UNCHANGED readMark
           \/ /\ \A i \in fit : readMark[i] # mx
              /\ free # {}
              /\ readMark' = [readMark EXCEPT ![Least(free)] = mx]
              /\ Take(Least(free), mx)
           \/ /\ \A i \in fit : readMark[i] # mx
              /\ free = {}
              /\ IF fit = {} THEN Retry(c) ELSE Take(best, readMark[best])
              /\ UNCHANGED readMark
    /\ UNCHANGED <<files, hdr, nBackfill, index, lockVars, work, iterator, ghosts, count>>

\* Mutant: off by two.
LockMarkBelow(c) ==
    /\ pc[c] = "lock"
    /\ CanShare(WAL_READ_LOCK(at[c][1]))
    /\ Share(c, WAL_READ_LOCK(at[c][1]))
    /\ minFrame' = [minFrame EXCEPT ![c] = nBackfill - 1]
    /\ Goto(c, "check")
    /\ UNCHANGED <<files, shm, my, at, work, iterator, ghosts, count>>

LockMark(c) ==
    /\ pc[c] = "lock"
    /\ IF CanShare(WAL_READ_LOCK(at[c][1]))
       THEN /\ Share(c, WAL_READ_LOCK(at[c][1]))
            /\ minFrame' = [minFrame EXCEPT ![c] = nBackfill + 1]
            /\ Goto(c, "check")
            /\ UNCHANGED <<my, at>>
       ELSE Retry(c) /\ UNCHANGED lockVars
    /\ UNCHANGED <<files, shm, work, iterator, ghosts, count>>

\* Mutant: the header is not compared again.
TrustHdr(c) ==
    /\ pc[c] = "check"
    /\ readMark[at[c][1]] = at[c][2]
    /\ Goto(c, IF IsWriter(c) THEN "frames" ELSE "read")
    /\ at' = [at EXCEPT ![c] = <<0, 0>>]
    /\ UNCHANGED <<files, shm, lockVars, my, minFrame, work, iterator, ghosts, count>>

CheckMark(c) ==
    /\ pc[c] = "check"
    /\ IF readMark[at[c][1]] = at[c][2] /\ hdr = my[c]
       THEN /\ Goto(c, IF IsWriter(c) THEN "frames" ELSE "read")
            /\ at' = [at EXCEPT ![c] = <<0, 0>>]
            /\ UNCHANGED <<my, minFrame, lockVars>>
       ELSE Retry(c) /\ Release(c, shared[c])
    /\ UNCHANGED <<files, shm, work, iterator, ghosts, count>>

\* sqlite3WalEndReadTransaction, which ends a write transaction first.
EndTransaction(c) ==
    /\ pc[c] = "read"
    /\ Release(c, Slot)
    /\ Leave(c)
    /\ UNCHANGED <<files, shm, work, iterator, ghosts, count>>

BeginRead(c) == ReadHdr(c) \/ IgnoreLog(c) \/ ChooseMark(c) \/ LockMark(c) \/ CheckMark(c)

-----------------------------------------------------------------------------
(***************************************************************************)
(* A write transaction: sqlite3WalBeginWriteTransaction, walRestartLog and *)
(* sqlite3WalFrames.                                                       *)
(***************************************************************************)

\* A header that is no longer the reader's (SQLITE_BUSY_SNAPSHOT) ends the
\* transaction: sqlite3BtreeBeginTrans begins it again.
BeginWrite(c) ==
    /\ pc[c] = "read"
    /\ count.tx < MaxTx
    /\ CanExclude({WAL_WRITE_LOCK})
    /\ IF hdr = my[c]
       THEN /\ Exclude(c, {WAL_WRITE_LOCK})
            /\ \E pages \in (SUBSET Page) \ {{}} :
                  work' = [work EXCEPT ![c] =
                              [tx |-> count.tx + 1, pages |-> pages, done |-> {}]]
            /\ Goto(c, IF WAL_READ_LOCK(0) \in shared[c] THEN "restartlog" ELSE "frames")
            /\ Counts("tx")
            /\ UNCHANGED <<my, minFrame, at>>
       ELSE /\ Release(c, shared[c])
            /\ Leave(c)
            /\ UNCHANGED <<work, count>>
    /\ UNCHANGED <<files, shm, iterator, ghosts>>

\* walRestartHdr, the header first.
CanRestart(c) == nBackfill > 0 /\ CanExclude(Marks)

RestartHdr(c) ==
    /\ pc[c] = "restartlog"
    /\ CanRestart(c)
    /\ count.salt < MaxSalt
    /\ Exclude(c, Marks)
    /\ hdr' = [isInit |-> TRUE, salt |-> count.salt + 1, mxFrame |-> 0]
    /\ my' = [my EXCEPT ![c] = hdr']
    /\ Counts("salt")
    /\ Goto(c, "restart")
    /\ UNCHANGED <<files, nBackfill, readMark, index, minFrame, at, work, iterator, ghosts>>

\* Mutant: the backfill count of the old log stays.
KeepBackfill(c) ==
    /\ pc[c] = "restart"
    /\ readMark' = [i \in Mark |-> IF i = 1 THEN 0 ELSE READMARK_NOT_USED]
    /\ Release(c, Marks)
    /\ Goto(c, "restarted")
    /\ UNCHANGED <<files, hdr, nBackfill, index, my, minFrame, at, work, iterator, ghosts, count>>

RestartMarks(c) ==
    /\ pc[c] = "restart"
    /\ nBackfill' = 0
    /\ readMark' = [i \in Mark |-> IF i = 1 THEN 0 ELSE READMARK_NOT_USED]
    /\ Release(c, Marks)
    /\ Goto(c, "restarted")
    /\ UNCHANGED <<files, hdr, index, my, minFrame, at, work, iterator, ghosts, count>>

\* A mark instead of READ_LOCK(0), whether the log was restarted or not.
LeaveZero(c) ==
    /\ \/ pc[c] = "restarted"
       \/ pc[c] = "restartlog" /\ ~CanRestart(c)
    /\ Release(c, {WAL_READ_LOCK(0)})
    /\ Goto(c, "choose")
    /\ UNCHANGED <<files, shm, my, minFrame, at, work, iterator, ghosts, count>>

\* The header of an empty log: its salt, or one drawn by a connection that has
\* seen no restart (nCkpt = 0).
WriteWalHdr(c) ==
    /\ pc[c] = "frames"
    /\ my[c].mxFrame = 0
    /\ \/ /\ my[c].salt # 0
          /\ UNCHANGED <<my, count>>
       \/ /\ count.salt < MaxSalt
          /\ my' = [my EXCEPT ![c].salt = count.salt + 1]
          /\ Counts("salt")
    /\ wal' = [wal EXCEPT !.salt = my'[c].salt]
    /\ Goto(c, "synchdr")
    /\ UNCHANGED <<db, dbDisk, walDisk, shm, lockVars, minFrame, at, work, iterator, ghosts>>

\* Mutant: the header of a new log is not synced.
LeaveWalHdr(c) ==
    /\ pc[c] = "synchdr"
    /\ Goto(c, "log")
    /\ UNCHANGED <<files, shm, lockVars, my, minFrame, at, work, iterator, ghosts, count>>

SyncWalHdr(c) ==
    /\ pc[c] = "synchdr"
    /\ walDisk' = wal
    /\ Goto(c, "log")
    /\ UNCHANGED <<db, wal, dbDisk, shm, lockVars, my, minFrame, at, work, iterator, ghosts, count>>

\* Where the next frame of the transaction goes.
NextFrame(c) == my[c].mxFrame + Cardinality(work[c].done) + 1

PutFrame(f, frame) ==
    [wal EXCEPT !.frames = [g \in 1..(IF f > Len(@) THEN f ELSE Len(@)) |->
                               IF g = f THEN frame ELSE @[g]]]

InLog(c) == pc[c] = "log" \/ (pc[c] = "frames" /\ my[c].mxFrame > 0)

WriteFrame(c) ==
    /\ InLog(c)
    /\ LET w == work[c]
           p == Least(w.pages \ w.done)
           f == NextFrame(c)
           last == w.pages \ w.done = {p}
       IN  /\ wal' = PutFrame(f, [salt |-> my[c].salt, page |-> p, tx |-> w.tx,
                                  commit |-> last, after |-> Identity(wal.frames, f - 1)])
           /\ work' = [work EXCEPT ![c].done = @ \cup {p}]
           /\ Goto(c, IF last THEN "publish" ELSE "log")
    /\ UNCHANGED <<db, dbDisk, walDisk, shm, lockVars, my, minFrame, at, iterator, ghosts, count>>

\* A write or the sync of the header fails and the transaction is rolled back
\* (sqlite3WalUndo).  A frame may be half written, a header is not.
FailWrite(c) ==
    /\ pc[c] \in {"frames", "synchdr", "log"}
    /\ count.faults < MaxFaults
    /\ wal' \in {wal} \cup (IF InLog(c) THEN {PutFrame(NextFrame(c), TornFrame)} ELSE {})
    /\ my' = [my EXCEPT ![c] = hdr]
    /\ work' = [work EXCEPT ![c] = NoWork]
    /\ Counts("faults")
    /\ Goto(c, "read")
    /\ UNCHANGED <<db, dbDisk, walDisk, shm, lockVars, minFrame, at, iterator, ghosts>>

\* The content the transaction of c is about to commit.
Written(c) == [p \in Page |-> IF p \in work[c].pages THEN work[c].tx ELSE LastOf(history)[p]]

Publish(c) ==
    /\ pc[c] = "publish"
    /\ hdr' = [my[c] EXCEPT !.mxFrame = @ + Cardinality(work[c].pages)]
    /\ index' = PagesOf(SubSeq(wal.frames, 1, hdr'.mxFrame))
    /\ my' = [my EXCEPT ![c] = hdr']
    /\ work' = [work EXCEPT ![c] = NoWork]
    /\ history' = Append(history, Written(c))
    /\ Goto(c, "read")
    /\ UNCHANGED <<files, nBackfill, readMark, lockVars, minFrame, at, iterator, durable, count>>

WriteTransaction(c) ==
    \/ BeginWrite(c) \/ RestartHdr(c) \/ RestartMarks(c) \/ LeaveZero(c)
    \/ WriteWalHdr(c) \/ SyncWalHdr(c) \/ WriteFrame(c) \/ FailWrite(c) \/ Publish(c)

-----------------------------------------------------------------------------
(***************************************************************************)
(* sqlite3WalCheckpoint and walCheckpoint, passive.                        *)
(***************************************************************************)
BeginCheckpoint(c) ==
    /\ pc[c] = "idle"
    /\ hdr.isInit
    /\ IdleCheckpoints \/ nBackfill < hdr.mxFrame
    /\ count.checkpoints < MaxCheckpoints
    /\ Exclude(c, {WAL_CKPT_LOCK})
    /\ my' = [my EXCEPT ![c] = hdr]
    /\ Counts("checkpoints")
    /\ Goto(c, "checkpoint")
    /\ UNCHANGED <<files, shm, minFrame, at, work, iterator, ghosts>>

SomethingToDo(c) ==
    /\ pc[c] = "checkpoint"
    /\ nBackfill < my[c].mxFrame
    /\ iterator' = [p \in Page |-> FindFrame(index, p, 1, my[c].mxFrame)]
    /\ at' = [at EXCEPT ![c] = <<1, my[c].mxFrame>>]
    /\ Goto(c, "limit")
    /\ UNCHANGED <<files, shm, lockVars, my, minFrame, work, ghosts, count>>

\* Mutant: a mark is reset without its lock.
ResetAnyMark(c) ==
    /\ pc[c] = "limit"
    /\ at[c][1] \in Mark
    /\ readMark' = [readMark EXCEPT ![at[c][1]] = IF at[c][1] = 1 THEN at[c][2]
                                                 ELSE READMARK_NOT_USED]
    /\ at' = [at EXCEPT ![c][1] = @ + 1]
    /\ UNCHANGED <<files, hdr, nBackfill, index, lockVars, pc, my, minFrame, work,
                   iterator, ghosts, count>>

\* One mark: reset if nobody holds it, else the limit of what is safe.
LimitByMark(c) ==
    /\ pc[c] = "limit"
    /\ at[c][1] \in Mark
    /\ LET i == at[c][1]
           safe == at[c][2]
           free == CanExclude({WAL_READ_LOCK(i)})
           low == readMark[i] < safe
       IN  /\ readMark' = IF low /\ free
                          THEN [readMark EXCEPT ![i] = IF i = 1 THEN safe ELSE READMARK_NOT_USED]
                          ELSE readMark
           /\ at' = [at EXCEPT ![c] = <<i + 1, IF low /\ ~free THEN readMark[i] ELSE safe>>]
    /\ UNCHANGED <<files, hdr, nBackfill, index, lockVars, pc, my, minFrame, work, iterator, ghosts, count>>

\* Mutant: the log is not synced before pages are copied from it.
CopyUnsynced(c) ==
    /\ pc[c] = "limit"
    /\ at[c][1] \notin Mark
    /\ nBackfill < at[c][2]
    /\ Exclude(c, {WAL_READ_LOCK(0)})
    /\ minFrame' = [minFrame EXCEPT ![c] = nBackfill + 1]
    /\ work' = [work EXCEPT ![c] = [NoWork EXCEPT !.pages = Page]]
    /\ Goto(c, "backfill")
    /\ UNCHANGED <<files, shm, my, at, iterator, ghosts, count>>

SyncLog(c) ==
    /\ pc[c] = "limit"
    /\ at[c][1] \notin Mark
    /\ nBackfill < at[c][2]
    /\ Exclude(c, {WAL_READ_LOCK(0)})
    /\ walDisk' = wal
    /\ durable' = Len(history)
    /\ minFrame' = [minFrame EXCEPT ![c] = nBackfill + 1]
    /\ work' = [work EXCEPT ![c] = [NoWork EXCEPT !.pages = Page]]
    /\ Goto(c, "backfill")
    /\ UNCHANGED <<db, wal, dbDisk, shm, my, at, iterator, history, count>>

BackfillPage(c) ==
    /\ pc[c] = "backfill"
    /\ work[c].pages # {}
    /\ LET p == Least(work[c].pages)
           f == iterator[p]
       IN  /\ db' = IF f \in minFrame[c]..at[c][2]
                    THEN [db EXCEPT ![p] = FrameContent(wal.frames, f, p)]
                    ELSE db
           /\ work' = [work EXCEPT ![c].pages = @ \ {p}]
    /\ UNCHANGED <<wal, dbDisk, walDisk, shm, lockVars, pc, my, minFrame, at, iterator, ghosts, count>>

\* The log is not synced, and nothing is copied from it.
FailSyncLog(c) ==
    /\ pc[c] = "limit"
    /\ at[c][1] \notin Mark
    /\ nBackfill < at[c][2]
    /\ count.faults < MaxFaults
    /\ Exclude(c, {WAL_READ_LOCK(0)})
    /\ Counts("faults")
    /\ Goto(c, "checkpointed")
    /\ UNCHANGED <<files, shm, my, minFrame, at, work, iterator, ghosts>>

\* A page is not copied, perhaps half written; or the database is not synced.
FailBackfill(c) ==
    /\ pc[c] = "backfill"
    /\ work[c].pages = {} => at[c][2] = hdr.mxFrame
    /\ count.faults < MaxFaults
    /\ db' \in {db} \cup {[db EXCEPT ![p] = Torn] :
                          p \in {q \in work[c].pages : /\ q = Least(work[c].pages)
                                                       /\ iterator[q] \in minFrame[c]..at[c][2]}}
    /\ work' = [work EXCEPT ![c] = NoWork]
    /\ Counts("faults")
    /\ Goto(c, "checkpointed")
    /\ UNCHANGED <<wal, dbDisk, walDisk, shm, lockVars, my, minFrame, at, iterator, ghosts>>

\* The database is synced only when all of the log is in it.
Backfilled(c) ==
    /\ pc[c] = "backfill"
    /\ work[c].pages = {}
    /\ dbDisk' = IF at[c][2] = hdr.mxFrame THEN db ELSE dbDisk
    /\ nBackfill' = at[c][2]
    /\ work' = [work EXCEPT ![c] = NoWork]
    /\ Goto(c, "checkpointed")
    /\ UNCHANGED <<db, wal, walDisk, hdr, readMark, index, lockVars, my, minFrame, at, iterator, ghosts, count>>

EndCheckpoint(c) ==
    /\ \/ pc[c] = "checkpoint" /\ nBackfill >= my[c].mxFrame
       \/ /\ pc[c] = "limit"
          /\ at[c][1] \notin Mark
          /\ nBackfill >= at[c][2] \/ ~CanExclude({WAL_READ_LOCK(0)})
       \/ pc[c] = "checkpointed"
    /\ iterator' = NoFrames
    /\ Release(c, Slot)
    /\ Leave(c)
    /\ UNCHANGED <<files, shm, work, ghosts, count>>

Checkpoint(c) ==
    \/ BeginCheckpoint(c) \/ SomethingToDo(c) \/ LimitByMark(c) \/ SyncLog(c)
    \/ FailSyncLog(c) \/ BackfillPage(c) \/ FailBackfill(c) \/ Backfilled(c) \/ EndCheckpoint(c)

-----------------------------------------------------------------------------
(***************************************************************************)
(* Crashes.  The process is one; its connections, their locks and the      *)
(* wal-index go with it (the first to open the wal-index empties it).      *)
(***************************************************************************)
Each(value) == [c \in Conn |-> value]

Stop ==
    /\ hdr' = NoHdr
    /\ nBackfill' = 0
    /\ readMark' = [i \in Mark |-> 0]
    /\ index' = <<>>
    /\ shared' = Each({}) /\ exclusive' = Each({})
    /\ pc' = Each("idle")
    /\ my' = Each(NoHdr) /\ minFrame' = Each(0) /\ at' = Each(<<0, 0>>)
    /\ work' = Each(NoWork)
    /\ iterator' = NoFrames

\* What is committed when the process stops: a transaction whose last frame
\* is written is.
Reached ==
    IF \E c \in Conn : pc[c] = "publish"
    THEN Append(history, Written(CHOOSE c \in Conn : pc[c] = "publish"))
    ELSE history

Kill ==
    /\ count.faults < MaxFaults
    /\ Stop
    /\ history' = Reached
    /\ Counts("faults")
    /\ UNCHANGED <<files, durable>>

\* What was not synced is there, is not, or is half there.
Fate == {"new", "old", "torn"}

DbImages ==
    {[p \in Page |-> CASE p \notin DOMAIN fate \/ fate[p] = "new" -> db[p]
                       [] fate[p] = "old" -> dbDisk[p]
                       [] OTHER -> Torn] : fate \in [{p \in Page : db[p] # dbDisk[p]} -> Fate]}

Unsynced == {f \in DOMAIN wal.frames :
                f \notin DOMAIN walDisk.frames \/ walDisk.frames[f] # wal.frames[f]}

WalImages ==
    [salt : {wal.salt, walDisk.salt},
     frames :
        {[f \in DOMAIN wal.frames |->
             CASE f \notin Unsynced \/ fate[f] = "new" -> wal.frames[f]
               [] fate[f] = "old" /\ f \in DOMAIN walDisk.frames -> walDisk.frames[f]
               [] OTHER -> TornFrame] : fate \in [Unsynced -> Fate]}]

PowerLoss ==
    /\ count.faults < MaxFaults
    /\ db' \in DbImages
    /\ wal' \in WalImages
    /\ dbDisk' = db'
    /\ walDisk' = wal'
    /\ Stop
    /\ LET left == {n \in durable..Len(Reached) : Reached[n] = RecoveredContent(db', wal')}
       IN  history' = IF left = {} THEN <<>> ELSE SubSeq(Reached, 1, Greatest(left))
    /\ durable' = Len(history')
    /\ Counts("faults")

-----------------------------------------------------------------------------
Init ==
    /\ db = [p \in Page |-> 0]
    /\ wal = [salt |-> 0, frames |-> <<>>]
    /\ dbDisk = db
    /\ walDisk = wal
    /\ hdr = NoHdr
    /\ nBackfill = 0
    /\ readMark = [i \in Mark |-> 0]
    /\ index = <<>>
    /\ LocksInit
    /\ pc = Each("idle")
    /\ my = Each(NoHdr) /\ minFrame = Each(0) /\ at = Each(<<0, 0>>)
    /\ work = Each(NoWork)
    /\ iterator = NoFrames
    /\ history = <<db>>
    /\ durable = 1
    /\ count = [tx |-> 0, salt |-> 0, checkpoints |-> 0, faults |-> 0]

Next ==
    \/ \E c \in Conn \ Checkpointer :
          \/ Recover(c) \/ ResetCkptInfo(c)
          \/ BeginRead(c) \/ WriteTransaction(c) \/ EndTransaction(c)
    \/ \E c \in Checkpointer : Checkpoint(c)
    \/ Kill
    \/ PowerLoss

Spec == Init /\ [][Next]_vars
-----------------------------------------------------------------------------
(***************************************************************************)
(* Properties.                                                             *)
(***************************************************************************)
Hdr == [isInit : BOOLEAN, salt : 0..MaxSalt, mxFrame : Nat]

Frame == [salt : 0..MaxSalt, page : Page \cup {0}, tx : Torn..MaxTx, commit : BOOLEAN,
          after : (Page \cup {0}) \X (Torn..MaxTx)]

\* Every variable stays in the set of values the code can give it.
TypeOK ==
    /\ db \in [Page -> Torn..MaxTx] /\ dbDisk \in [Page -> Torn..MaxTx]
    /\ \A log \in {wal, walDisk} : log.salt \in 0..MaxSalt /\ log.frames \in Seq(Frame)
    /\ hdr \in Hdr /\ nBackfill \in Nat
    /\ readMark \in [Mark -> Nat] /\ index \in Seq(Page \cup {0})
    /\ shared \in [Conn -> SUBSET Slot] /\ exclusive \in [Conn -> SUBSET Slot]
    /\ my \in [Conn -> Hdr]
    /\ minFrame \in [Conn -> Nat]
    /\ at \in [Conn -> Nat \X Nat]
    /\ \A c \in Conn : work[c].pages \subseteq Page /\ work[c].done \subseteq work[c].pages
    /\ iterator \in [Page -> Nat]
    /\ history \in Seq([Page -> 0..MaxTx]) /\ durable \in 0..Len(history)

\* A reader that began now would read the latest commit: the pages backfilled
\* and the frames that are not make up the last content committed, however
\* checkpoints, restarts of the log and failed writes have interleaved.
\* (Between the two steps of a restart or a recovery no reader gets a lock.)
CommitsAreSeen ==
    /\ history # <<>>
    /\ (hdr.isInit /\ \A c \in Conn : pc[c] \notin {"restart", "recover"}) =>
           ContentOf(db, wal.frames, index, nBackfill + 1, hdr.mxFrame) = LastOf(history)

\* A process killed now loses no commit: what walIndexRecover would rebuild
\* from the two files is the last content committed, a half-done backfill, a
\* half-written transaction and the frames of an earlier log notwithstanding.
KilledNowKeepsCommits == history # <<>> /\ RecoveredContent(db, wal) = LastOf(Reached)

\* A power that fails now costs no commit that was synced: whatever mix of old,
\* new and torn pages and frames it leaves in the two files, what
\* walIndexRecover would rebuild from them is one content that was committed, no
\* older than the last that a checkpoint synced.
SyncedSurvives ==
    \A base \in DbImages, log \in WalImages :
        \E k \in durable..Len(Reached) : RecoveredContent(base, log) = Reached[k]

\* The mark a reader holds stays where it is while the reader holds it; no
\* other reader, checkpoint or restart of the log moves it.
HeldMarksStay ==
    [][\A i \in Mark :
          (\E c \in Conn : /\ WAL_READ_LOCK(i) \in shared[c] \cap shared'[c]
                           /\ pc[c] = "read" /\ pc'[c] = "read")
              => readMark'[i] = readMark[i]]_vars

\* The engine keeps the promises of Store: a transaction sees one content
\* from its beginning to its end, whatever others write, checkpoint or restart
\* meanwhile, only one that sees the latest writes, and crashes cost what Store
\* says.
InTransaction(c) ==
    c \notin Checkpointer /\ pc[c] # "recover" /\ (pc[c] = "read" \/ IsWriter(c))

\* A writer that changes READ_LOCK(0) for a mark reads nothing meanwhile.
Sees(c) == IF pc[c] \in {"choose", "lock", "check"} THEN LastOf(history) ELSE PagesRead(c)

Promised == INSTANCE Store WITH
    Tx <- 1..MaxTx,
    seen <- [c \in Conn |-> IF InTransaction(c) THEN Sees(c) ELSE <<>>],
    writing <- [c \in Conn |-> IF InTransaction(c) /\ work[c] # NoWork THEN Written(c) ELSE <<>>]

KeepsThePromises == Promised!StoreSpec
=============================================================================
