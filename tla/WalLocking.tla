----------------------------- MODULE WalLocking -----------------------------
(***************************************************************************)
(* Who asks for which slot, and in which order: the lock calls of a        *)
(* transaction (sqlite3BtreeBeginTrans in btree.c, walTryBeginRead,        *)
(* walIndexReadHdr, walIndexRecover, sqlite3WalBeginWriteTransaction and   *)
(* walRestartLog in wal.c) and of a checkpoint (sqlite3WalCheckpoint),     *)
(* made through ShmLock by threads that run at the same time.              *)
(*                                                                         *)
(* A thread waits for a busy slot only while it begins a transaction       *)
(* (bWait, btree.c:3193-3225); everywhere else a busy slot is answered at  *)
(* once.  The busy handler of this build always says "again"               *)
(* (main.c:1482), so a transaction that finds a slot busy drops what it    *)
(* holds and begins again.                                                 *)
(***************************************************************************)
EXTENDS ShmLock

CONSTANTS
    Checkpointer,   \* the connections that checkpoint; the others transact
    LastMark,       \* read marks are READ_LOCK(1) .. READ_LOCK(LastMark)
    MaxBegun,       \* bound: transactions and checkpoints begun or begun again
    MaxTimeOuts     \* bound: waits that run into their ten seconds

WRITE_LOCK == 0
CKPT_LOCK == 1
RECOVER_LOCK == 2
READ_LOCK(i) == 3 + i
AllButWrite == CKPT_LOCK..READ_LOCK(LastMark)
Marks == {READ_LOCK(i) : i \in 1..LastMark}

ASSUME WalLockingAssumption ==
    /\ LastMark \in Nat
    /\ 0..READ_LOCK(LastMark) \subseteq Slot
    /\ Checkpointer \subseteq Conn

VARIABLES
    pc,         \* pc[c] : what the thread of connection c is about to do
    mark,       \* mark[c] : the next mark a checkpoint looks at
    index,      \* the wal-index has been rebuilt since the process started
    begun,      \* counts what is begun up to MaxBegun
    timeOuts    \* counts TimeOut up to MaxTimeOuts

vars == <<shmVars, pc, mark, index, begun, timeOuts>>

Client == Conn \ Checkpointer

At(c, l) == pc[c] = l /\ c \notin asleep

Goto(c, l) ==
    /\ pc' = [pc EXCEPT ![c] = l]
    /\ UNCHANGED <<mark, index, begun, timeOuts>>

\* Begin, or begin again; a thread gives up at the bound.
Begin(c, l) ==
    /\ begun < MaxBegun
    /\ begun' = begun + 1
    /\ pc' = [pc EXCEPT ![c] = l]
    /\ UNCHANGED <<mark, index, timeOuts>>

BeginAgain(c, l) ==
    IF begun < MaxBegun THEN Begin(c, l) ELSE Goto(c, "idle")

\* No call, or one that returns SQLITE_BUSY at once.
NoCall == UNCHANGED shmVars

-----------------------------------------------------------------------------
(***************************************************************************)
(* A transaction.                                                          *)
(***************************************************************************)
BeginTrans(c) ==
    /\ At(c, "idle")
    /\ NoCall
    /\ Begin(c, "begin")

\* walIndexReadHdr: the header is bad, the WRITE lock is taken to look again.
ReadHdr(c) ==
    /\ At(c, "begin")
    /\ ~index
    /\ \/ LockExclusive(c, {WRITE_LOCK}) /\ Goto(c, "recover")
       \/ WaitExclusive(c, {WRITE_LOCK}) /\ Goto(c, "probe")

\* walIndexRecover holds every slot while it rebuilds the index.
Recover(c) ==
    /\ At(c, "recover")
    /\ \/ LockExclusive(c, AllButWrite) /\ Goto(c, "rebuild")
       \/ WaitExclusive(c, AllButWrite) /\ Goto(c, "notrecovered")

Rebuild(c) ==
    /\ At(c, "rebuild")
    /\ Unlock(c, AllButWrite)
    /\ pc' = [pc EXCEPT ![c] = "recovered"]
    /\ index' = TRUE
    /\ UNCHANGED <<mark, begun, timeOuts>>

HdrDone(c) ==
    /\ At(c, "recovered") \/ At(c, "notrecovered")
    /\ Unlock(c, {WRITE_LOCK})
    /\ Goto(c, IF pc[c] = "recovered" THEN "begin" ELSE "probe")

\* The header could not be read.  Either somebody recovers it
\* (SQLITE_BUSY_RECOVERY), or it is there by now (WAL_RETRY).
ProbeRecovery(c) ==
    /\ At(c, "probe")
    /\ \/ LockShared(c, RECOVER_LOCK) /\ Goto(c, "probed")
       \/ WaitShared(c, RECOVER_LOCK) /\ Goto(c, "again")

ProbeDone(c) ==
    /\ At(c, "probed")
    /\ Unlock(c, {RECOVER_LOCK})
    /\ BeginAgain(c, "begin")

\* walTryBeginRead takes READ_LOCK(0) when the log is backfilled, and a mark
\* when it is not or when READ_LOCK(0) is busy.
ShareZero(c) ==
    /\ At(c, "begin")
    /\ index
    /\ \/ LockShared(c, READ_LOCK(0)) /\ Goto(c, "read")
       \/ WaitShared(c, READ_LOCK(0)) /\ Goto(c, "marks")

Marking(c) == At(c, "marks") \/ (At(c, "begin") /\ index)

\* A mark below the header's frame is raised under its exclusive lock,
\* without waiting.
RaiseMark(c) ==
    /\ Marking(c)
    /\ \E m \in Marks : LockExclusive(c, {m})
    /\ Goto(c, "raise")

MarkRaised(c) ==
    /\ At(c, "raise")
    /\ Unlock(c, exclusive[c] \cap Marks)
    /\ Goto(c, "share")

\* A reader waits for a busy mark and then tries again (WAL_RETRY).
ShareMark(c) ==
    /\ Marking(c) \/ At(c, "share")
    /\ WRITE_LOCK \notin exclusive[c]
    /\ \E m \in Marks : \/ LockShared(c, m) /\ Goto(c, "read")
                        \/ WaitShared(c, m) /\ Goto(c, "again")

\* The transaction is over, the header or the mark changed before they were
\* locked (WAL_RETRY), or that happened too often (SQLITE_PROTOCOL).
EndRead(c) ==
    /\ At(c, "read")
    /\ Unlock(c, shared[c])
    /\ Goto(c, "idle") \/ BeginAgain(c, "begin")

\* sqlite3WalBeginWriteTransaction.  A busy WRITE lock, or a header that is
\* no longer the reader's (SQLITE_BUSY_SNAPSHOT), ends the read and
\* sqlite3BtreeBeginTrans starts over.
BeginWrite(c) ==
    /\ At(c, "read")
    /\ \/ LockExclusive(c, {WRITE_LOCK}) /\ Goto(c, "write")
       \/ WaitExclusive(c, {WRITE_LOCK}) /\ Goto(c, "giveup")

GiveUp(c) ==
    /\ At(c, "giveup")
    /\ Unlock(c, shared[c])
    /\ BeginAgain(c, "begin")

\* The call that slept for a busy slot has returned SQLITE_BUSY.
Again(c) ==
    /\ At(c, "again")
    /\ NoCall
    /\ BeginAgain(c, "begin")

\* walRestartLog: a writer that reads under READ_LOCK(0) restarts the log if
\* no mark is in use, and takes a mark instead of READ_LOCK(0) either way.
RestartLog(c) ==
    /\ At(c, "write")
    /\ READ_LOCK(0) \in shared[c]
    /\ LockExclusive(c, Marks)
    /\ Goto(c, "restart")

LogRestarted(c) ==
    /\ At(c, "restart")
    /\ Unlock(c, Marks)
    /\ Goto(c, "dropzero")

DropZero(c) ==
    /\ At(c, "write") \/ At(c, "dropzero")
    /\ READ_LOCK(0) \in shared[c]
    /\ Unlock(c, {READ_LOCK(0)})
    /\ Goto(c, "marks")

\* The writer takes its mark without waiting, and gives up with
\* SQLITE_PROTOCOL when the marks stay busy.
TakeMark(c) ==
    /\ At(c, "marks") \/ At(c, "share")
    /\ WRITE_LOCK \in exclusive[c]
    /\ \/ \E m \in Marks : LockShared(c, m) /\ Goto(c, "write")
       \/ /\ \E m \in Marks : ~CanShare(m)
          /\ NoCall
          /\ IF begun < MaxBegun THEN Begin(c, "marks") ELSE Goto(c, "write")

\* Commit, rollback, or SQLITE_BUSY_SNAPSHOT.
EndWrite(c) ==
    /\ At(c, "write")
    /\ Unlock(c, {WRITE_LOCK})
    /\ \E l \in {"read", "giveup"} : Goto(c, l)

Transact(c) ==
    \/ ReadHdr(c) \/ Recover(c) \/ Rebuild(c) \/ HdrDone(c)
    \/ ProbeRecovery(c) \/ ProbeDone(c)
    \/ ShareZero(c) \/ RaiseMark(c) \/ MarkRaised(c) \/ ShareMark(c) \/ EndRead(c)
    \/ BeginWrite(c) \/ GiveUp(c) \/ Again(c)
    \/ RestartLog(c) \/ LogRestarted(c) \/ DropZero(c) \/ TakeMark(c) \/ EndWrite(c)

-----------------------------------------------------------------------------
(***************************************************************************)
(* A checkpoint.  The app asks for one only after a commit, so the index   *)
(* is there.  It never waits: a busy slot ends it, or limits it.           *)
(***************************************************************************)
BeginCheckpoint(c) ==
    /\ At(c, "idle")
    /\ index
    /\ LockExclusive(c, {CKPT_LOCK})
    /\ Begin(c, "mark")

\* walCheckpoint resets the marks nobody holds, one after the other.
ResetMark(c) ==
    /\ At(c, "mark")
    /\ \E i \in mark[c]..LastMark :
          /\ LockExclusive(c, {READ_LOCK(i)})
          /\ mark' = [mark EXCEPT ![c] = i + 1]
    /\ pc' = [pc EXCEPT ![c] = "reset"]
    /\ UNCHANGED <<index, begun, timeOuts>>

MarkReset(c) ==
    /\ At(c, "reset")
    /\ Unlock(c, exclusive[c] \cap Marks)
    /\ Goto(c, "mark")

Backfill(c) ==
    /\ At(c, "mark")
    /\ LockExclusive(c, {READ_LOCK(0)})
    /\ Goto(c, "backfill")

Backfilled(c) ==
    /\ At(c, "backfill")
    /\ Unlock(c, {READ_LOCK(0)})
    /\ Goto(c, "done")

EndCheckpoint(c) ==
    /\ At(c, "mark") \/ At(c, "done")
    /\ Unlock(c, {CKPT_LOCK})
    /\ pc' = [pc EXCEPT ![c] = "idle"]
    /\ mark' = [mark EXCEPT ![c] = 1]
    /\ UNCHANGED <<index, begun, timeOuts>>

Checkpoint(c) ==
    ResetMark(c) \/ MarkReset(c) \/ Backfill(c) \/ Backfilled(c) \/ EndCheckpoint(c)

WaitTimesOut(c) ==
    /\ timeOuts < MaxTimeOuts
    /\ TimeOut(c)
    /\ timeOuts' = timeOuts + 1
    /\ UNCHANGED <<pc, mark, index, begun>>

Init ==
    /\ ShmInit
    /\ pc = [c \in Conn |-> "idle"]
    /\ mark = [c \in Conn |-> 1]
    /\ index = FALSE
    /\ begun = 0
    /\ timeOuts = 0

Next ==
    \/ \E c \in Client : BeginTrans(c) \/ Transact(c)
    \/ \E c \in Checkpointer : BeginCheckpoint(c) \/ Checkpoint(c)
    \/ \E c \in Conn : WaitTimesOut(c)

\* A thread that runs goes on: it is on a processor until its call returns.
\* Nothing is assumed of a new transaction, a new checkpoint or a timeout.
Fairness ==
    /\ \A c \in Client : WF_vars(Transact(c))
    /\ \A c \in Checkpointer : WF_vars(Checkpoint(c))

Spec == Init /\ [][Next]_vars

FairSpec == Spec /\ Fairness
-----------------------------------------------------------------------------
(***************************************************************************)
(* Properties.                                                             *)
(***************************************************************************)

\* Nobody is left asleep: when transactions and checkpoints stop coming, each
\* waiter of WCDBOsShmWait has been signalled by a thread that freed a slot,
\* whatever the order of the queue, and none was left to its ten seconds.
SleepersAreWoken == <>[](asleep = {})
=============================================================================
