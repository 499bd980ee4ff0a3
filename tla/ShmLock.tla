------------------------------ MODULE ShmLock ------------------------------
(***************************************************************************)
(* The locks of the wal-index as WCDB's build of SQLite takes them         *)
(* (SQLITE_WCDB_SIGNAL_RETRY): unixShmLock in os_unix.c, the queue of      *)
(* threads that wait for a busy slot in os_wcdb.c, the condition variable  *)
(* of mutex_wcdb.c.  Every action is one call made under the mutex of the  *)
(* shared-memory node; a thread that waits gives the mutex up and sleeps   *)
(* on the condition variable until its entry is signalled or ten seconds   *)
(* have passed.                                                            *)
(*                                                                         *)
(* A connection is used by one thread at a time, so the thread is named by *)
(* its connection.                                                         *)
(***************************************************************************)
EXTENDS Naturals, Sequences, SlotLocks

CONSTANT
    MainConn    \* connections used on the main thread

ASSUME MainAssumption == MainConn \subseteq Conn

VARIABLES
    file,       \* file[s] : the process's advisory lock on the byte of slot s
    queue,      \* qWaitQueue : requests waiting for a busy slot, front first
    asleep      \* threads inside pthreadCondWait

shmVars == <<shared, exclusive, file, queue, asleep>>

FileLock == {"none", "read", "write"}

\* WCDBShmWaitInfo : who waits for which slots, shared or exclusively.
Request == [conn : Conn, slots : SUBSET Slot, flag : {"shared", "exclusive"}]

\* What WCDBOsShmTrySignal asks about a request, given the locks held.
Grantable(r, sh, ex) ==
    \A c \in Conn :
        /\ ex[c] \cap r.slots = {}
        /\ r.flag = "exclusive" => sh[c] \cap r.slots = {}

\* Pop the first n requests and signal the thread of each.  A signal to a
\* thread that does not sleep (its wait timed out) is lost.
Signal(n) ==
    /\ queue' = SubSeq(queue, n + 1, Len(queue))
    /\ asleep' = asleep \ {queue[i].conn : i \in 1..n}

\* Mutant: only the request at the front is looked at.
SignalFront ==
    \/ /\ queue # <<>>
       /\ Grantable(queue[1], shared', exclusive')
       /\ Signal(1)
    \/ /\ queue # <<>> => ~Grantable(queue[1], shared', exclusive')
       /\ UNCHANGED <<queue, asleep>>

\* WCDBOsShmTrySignal, called when the locks have changed: every request up
\* to the first that is still busy.  The loop itself changes no lock.
TrySignal ==
    \E n \in 0..Len(queue) :
        /\ \A i \in 1..n : Grantable(queue[i], shared', exclusive')
        /\ n < Len(queue) => ~Grantable(queue[n + 1], shared', exclusive')
        /\ Signal(n)

\* Mutant: nobody looks whether two wait for each other.
NeverEntangled(c, slots, flag) == FALSE

(***************************************************************************)
(* WCDBOsShmWait.  The request at the front of the queue is thrown out     *)
(* when it waits for the caller, or the caller for it: one of two that     *)
(* would wait for each other must not sleep.                               *)
(***************************************************************************)
Entangled(c, slots, flag) ==
    /\ queue # <<>>
    /\ \/ /\ Head(queue).flag = "exclusive"
          /\ (exclusive[c] \cup shared[c]) \cap Head(queue).slots # {}
       \/ /\ flag = "exclusive"
          /\ LET d == Head(queue).conn
             IN  (exclusive[d] \cup shared[d]) \cap slots # {}

\* Mutant: the request does not say what is waited for.
EnqueueBare(c, r) ==
    /\ queue' = Append(queue, [conn |-> c])
    /\ asleep' = asleep \cup {c}

Enqueue(c, r) ==
    /\ queue' = IF c \in MainConn THEN <<r>> \o queue ELSE Append(queue, r)
    /\ asleep' = asleep \cup {c}

Wait(c, slots, flag) ==
    /\ IF Entangled(c, slots, flag)
       THEN Signal(1)
       ELSE Enqueue(c, [conn |-> c, slots |-> slots, flag |-> flag])
    /\ UNCHANGED <<shared, exclusive, file>>

-----------------------------------------------------------------------------
(***************************************************************************)
(* unixShmLock, one action per outcome.  The calls of a thread that        *)
(* sleeps have not returned.                                               *)
(***************************************************************************)
LockShared(c, slot) ==
    /\ c \notin asleep
    /\ Share(c, slot)
    /\ file' = IF \E d \in Conn : slot \in shared[d]
               THEN file
               ELSE [file EXCEPT ![slot] = "read"]
    /\ UNCHANGED <<queue, asleep>>

\* Mutant: a slot that is held exclusively counts, one that is shared does not.
LockOverReaders(c, slots) ==
    /\ c \notin asleep
    /\ \A d \in Conn : slots \cap exclusive[d] = {}
    /\ exclusive' = [exclusive EXCEPT ![c] = @ \cup slots]
    /\ file' = [s \in Slot |-> IF s \in slots THEN "write" ELSE file[s]]
    /\ UNCHANGED <<shared, queue, asleep>>

LockExclusive(c, slots) ==
    /\ c \notin asleep
    /\ Exclude(c, slots)
    /\ file' = [s \in Slot |-> IF s \in slots THEN "write" ELSE file[s]]
    /\ UNCHANGED <<queue, asleep>>

\* The slot is busy and the caller asked to wait for it.
WaitShared(c, slot) ==
    /\ c \notin asleep
    /\ ~CanShare(slot)
    /\ Wait(c, {slot}, "shared")

WaitExclusive(c, slots) ==
    /\ c \notin asleep
    /\ ~CanExclude(slots)
    /\ Wait(c, slots, "exclusive")

\* Mutant: the advisory lock goes with the first connection that lets go.
UnlockFile(c, slots) ==
    /\ c \notin asleep
    /\ Release(c, slots)
    /\ file' = [s \in Slot |-> IF s \in slots THEN "none" ELSE file[s]]
    /\ TrySignal

\* SQLITE_SHM_UNLOCK.  The advisory lock belongs to the process: it stays
\* while another connection of the process holds the slot shared.
Unlock(c, slots) ==
    /\ c \notin asleep
    /\ Release(c, slots)
    /\ file' = IF \E d \in Conn \ {c} : shared[d] \cap slots # {}
               THEN file
               ELSE [s \in Slot |-> IF s \in slots THEN "none" ELSE file[s]]
    /\ TrySignal

\* Ten seconds have passed.  The request stays in the queue.
TimeOut(c) ==
    /\ c \in asleep
    /\ asleep' = asleep \ {c}
    /\ UNCHANGED <<shared, exclusive, file, queue>>

ShmInit ==
    /\ LocksInit
    /\ file = [s \in Slot |-> "none"]
    /\ queue = <<>>
    /\ asleep = {}

\* What wal.c unlocks is a slot it holds shared, or the slots it locked
\* exclusively.
ShmNext ==
    \E c \in Conn :
        \/ \E slot \in Slot : \/ LockShared(c, slot)
                              \/ WaitShared(c, slot)
                              \/ slot \in shared[c] /\ Unlock(c, {slot})
        \/ \E slots \in SUBSET Slot : \/ LockExclusive(c, slots)
                                      \/ WaitExclusive(c, slots)
                                      \/ slots \subseteq exclusive[c] /\ Unlock(c, slots)
        \/ TimeOut(c)

ShmSpec == ShmInit /\ [][ShmNext]_shmVars
-----------------------------------------------------------------------------
(***************************************************************************)
(* Properties.                                                             *)
(***************************************************************************)

\* Every variable stays in the set of values the code can give it.
ShmTypeOK ==
    /\ shared \in [Conn -> SUBSET Slot]
    /\ exclusive \in [Conn -> SUBSET Slot]
    /\ file \in [Slot -> FileLock]
    /\ queue \in Seq(Request)
    /\ asleep \subseteq Conn

\* Two connections never hold one slot unless both hold it shared.
MutualExclusion ==
    \A c, d \in Conn :
        c # d => exclusive[c] \cap (exclusive[d] \cup shared[d]) = {}

\* The advisory lock of the process is what its connections hold together:
\* another process is kept out of exactly the slots that are in use, by the
\* counting unixShmLock does over the siblings of a connection.
FileLockMirrors ==
    \A s \in Slot :
        file[s] = IF \E c \in Conn : s \in exclusive[c] THEN "write"
                  ELSE IF \E c \in Conn : s \in shared[c] THEN "read"
                  ELSE "none"

\* No wake-up is lost: a thread sleeps only while its request is queued, and
\* once no connection holds a lock no request is left.  The second half is
\* also what lets unixShmPurge (os_unix.c:4242) end when the last connection
\* is closed: its loop over the queue removes nothing.
NoWakeUpLost ==
    /\ \A c \in asleep : \E i \in DOMAIN queue : queue[i].conn = c
    /\ (\A c \in Conn : shared[c] = {} /\ exclusive[c] = {}) => queue = <<>>

\* The calls provide the table of slots wal.c relies on.
ImplementsSlotLocks == LocksSpec
=============================================================================
