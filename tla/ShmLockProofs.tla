---------------------------- MODULE ShmLockProofs ----------------------------
(***************************************************************************)
(* For any set of connections and slots: the calls of ShmLock keep slots   *)
(* exclusive, keep the advisory locks of the process in step with the      *)
(* connections, lose no wake-up, and implement the table of SlotLocks.     *)
(*                                                                         *)
(* One invariant carries the four.  That the file's lock is right after an *)
(* unlock needs that slots are exclusive, also within one connection; that *)
(* the queue empties needs nothing but that an unlock looks at it.         *)
(*                                                                         *)
(* The second half shows that the transactions and checkpoints of          *)
(* WalLocking call unixShmLock as ShmLock allows, and so have all of this. *)
(***************************************************************************)
EXTENDS WalLocking, SequenceTheorems, TLAPS

\* A connection does not hold a slot both ways either.
OwnLocksApart == \A c \in Conn : exclusive[c] \cap shared[c] = {}

ShmInv ==
    /\ ShmTypeOK
    /\ MutualExclusion
    /\ OwnLocksApart
    /\ FileLockMirrors
    /\ NoWakeUpLost

LocksApart == MutualExclusion /\ OwnLocksApart

-----------------------------------------------------------------------------
(***************************************************************************)
(* The queue.                                                              *)
(***************************************************************************)

\* Signalling the front of the queue leaves a queue of requests.
LEMMA SignalType ==
    ASSUME ShmTypeOK, NEW n \in 0..Len(queue), Signal(n)
    PROVE  /\ queue' \in Seq(Request)
           /\ asleep' \subseteq Conn
<1>1. n + 1 \in 1..(Len(queue) + 1)
    BY DEF ShmTypeOK
<1>2. queue' \in Seq(Request)
    BY <1>1, SubSeqProperties DEF ShmTypeOK, Signal
<1> QED
    BY <1>2 DEF ShmTypeOK, Signal

\* A thread that sleeps after a signal is still queued.
LEMMA SignalKeepsSleepersQueued ==
    ASSUME ShmTypeOK, NEW n \in 0..Len(queue), Signal(n),
           \A c \in asleep : \E i \in DOMAIN queue : queue[i].conn = c
    PROVE  \A c \in asleep' : \E i \in DOMAIN queue' : queue'[i].conn = c
<1> SUFFICES ASSUME NEW c \in asleep'
             PROVE  \E i \in DOMAIN queue' : queue'[i].conn = c
    OBVIOUS
<1>1. c \in asleep /\ \A i \in 1..n : queue[i].conn # c
    BY DEF Signal
<1>2. PICK i \in DOMAIN queue : queue[i].conn = c
    BY <1>1
<1>3. queue \in Seq(Request) /\ Len(queue) \in Nat /\ DOMAIN queue = 1..Len(queue)
    BY DEF ShmTypeOK
<1>4. i \in (n + 1)..Len(queue)
    BY <1>1, <1>2, <1>3
<1>5. /\ queue' \in Seq(Request)
      /\ Len(queue') = Len(queue) - n
      /\ \A j \in 1..(Len(queue) - n) : queue'[j] = queue[j + n]
    <2> DEFINE rest == SubSeq(queue, n + 1, Len(queue))
    <2>1. \A j \in (n + 1)..Len(queue) : queue[j] \in Request
        BY <1>3
    <2>2. /\ rest \in Seq(Request)
          /\ Len(rest) = IF n + 1 <= Len(queue) THEN Len(queue) - (n + 1) + 1 ELSE 0
          /\ \A j \in 1..(Len(queue) - (n + 1) + 1) : rest[j] = queue[(n + 1) + j - 1]
        BY <1>3, <2>1, SubSeqProperties
    <2>3. Len(rest) = Len(queue) - n
        <3>1. Len(rest) = IF n + 1 <= Len(queue) THEN Len(queue) - (n + 1) + 1 ELSE 0
            BY <2>2
        <3> DEFINE l == Len(queue)
                   m == Len(rest)
        <3>2. l \in Nat /\ n \in 0..l
            BY <1>3
        <3>3. m = IF n + 1 <= l THEN l - (n + 1) + 1 ELSE 0
            BY <3>1
        <3> HIDE DEF l, m
        <3>4. m = l - n
            <4>1. CASE n = l
                BY <3>2, <3>3, <4>1
            <4>2. CASE n < l
                BY <3>2, <3>3, <4>2
            <4> QED
                BY <3>2, <4>1, <4>2
        <3> QED
            BY <3>4 DEF l, m
    <2>4. \A j \in 1..(Len(queue) - n) : rest[j] = queue[j + n]
        <3>1. Len(queue) - (n + 1) + 1 = Len(queue) - n
            BY <1>3
        <3>2. \A j \in 1..(Len(queue) - n) : (n + 1) + j - 1 = j + n
            BY <1>3
        <3> QED
            BY <2>2, <3>1, <3>2
    <2>5. queue' = rest
        BY DEF Signal
    <2> QED
        BY <2>2, <2>3, <2>4, <2>5
<1>6. i - n \in DOMAIN queue' /\ queue'[i - n] = queue[i]
    BY <1>3, <1>4, <1>5
<1> QED
    BY <1>2, <1>6

\* An unlock after which nothing is held leaves no request.
LEMMA TrySignalEmpties ==
    ASSUME ShmTypeOK, TrySignal, \A c \in Conn : shared'[c] = {} /\ exclusive'[c] = {}
    PROVE  queue' = <<>>
<1>1. PICK n \in 0..Len(queue) :
         /\ n < Len(queue) => ~Grantable(queue[n + 1], shared', exclusive')
         /\ Signal(n)
    BY DEF TrySignal
<1>2. queue \in Seq(Request) /\ Len(queue) \in Nat
    BY DEF ShmTypeOK
<1>3. \A r \in Request : Grantable(r, shared', exclusive')
    BY DEF Grantable, Request
<1>4. n = Len(queue)
    <2>1. CASE n < Len(queue)
        <3>1. queue[n + 1] \in Request
            BY <1>2, <2>1
        <3> QED
            BY <1>1, <1>3, <2>1, <3>1
    <2> QED
        BY <1>2, <2>1
<1>5. queue' = SubSeq(queue, Len(queue) + 1, Len(queue))
    BY <1>1, <1>4 DEF Signal
<1> QED
    BY <1>2, <1>5, SubSeqEmpty

\* Waiting changes no lock and keeps the queue's promises: somebody holds a
\* lock, or there would be nothing to wait for.
LEMMA WaitKeepsTheQueue ==
    ASSUME ShmTypeOK, NoWakeUpLost,
           NEW c \in Conn, NEW slots \in SUBSET Slot, NEW flag \in {"shared", "exclusive"},
           Wait(c, slots, flag),
           \E d \in Conn : shared[d] # {} \/ exclusive[d] # {}
    PROVE  /\ queue' \in Seq(Request)
           /\ asleep' \subseteq Conn
           /\ NoWakeUpLost'
<1>1. UNCHANGED <<shared, exclusive, file>>
    BY DEF Wait
<1>2. ~(\A d \in Conn : shared'[d] = {} /\ exclusive'[d] = {})
    BY <1>1
<1>3. queue \in Seq(Request) /\ Len(queue) \in Nat
    BY DEF ShmTypeOK
<1>4. CASE Entangled(c, slots, flag)
    <2>1. Signal(1)
        BY <1>4 DEF Wait
    <2>2. 1 \in 0..Len(queue)
        BY <1>3, <1>4, EmptySeq DEF Entangled
    <2> QED
        BY <1>2, <2>1, <2>2, SignalType, SignalKeepsSleepersQueued DEF NoWakeUpLost
<1>5. CASE ~Entangled(c, slots, flag)
    <2> DEFINE r == [conn |-> c, slots |-> slots, flag |-> flag]
    <2>1. Enqueue(c, r)
        BY <1>5 DEF Wait
    <2>2. r \in Request
        BY DEF Request
    <2>3. CASE c \in MainConn
        <3>1. queue' = <<r>> \o queue /\ asleep' = asleep \cup {c}
            BY <2>1, <2>3 DEF Enqueue
        <3>2. /\ queue' \in Seq(Request)
              /\ Len(queue') = Len(queue) + 1
              /\ queue'[1] = r
              /\ \A i \in 1..Len(queue) : queue'[i + 1] = queue[i]
            BY <1>3, <2>2, <3>1
        <3>3. \A d \in asleep : \E i \in DOMAIN queue' : queue'[i].conn = d
            BY <1>3, <3>2 DEF NoWakeUpLost
        <3>4. queue'[1].conn = c /\ 1 \in DOMAIN queue'
            BY <1>3, <3>2
        <3> QED
            BY <1>2, <3>1, <3>2, <3>3, <3>4 DEF NoWakeUpLost, ShmTypeOK
    <2>4. CASE c \notin MainConn
        <3>1. queue' = Append(queue, r) /\ asleep' = asleep \cup {c}
            BY <2>1, <2>4 DEF Enqueue
        <3>2. /\ queue' \in Seq(Request)
              /\ Len(queue') = Len(queue) + 1
              /\ queue'[Len(queue) + 1] = r
              /\ \A i \in 1..Len(queue) : queue'[i] = queue[i]
            BY <1>3, <2>2, <3>1
        <3>3. \A d \in asleep : \E i \in DOMAIN queue' : queue'[i].conn = d
            BY <1>3, <3>2 DEF NoWakeUpLost
        <3>4. queue'[Len(queue) + 1].conn = c /\ Len(queue) + 1 \in DOMAIN queue'
            BY <1>3, <3>2
        <3> QED
            BY <1>2, <3>1, <3>2, <3>3, <3>4 DEF NoWakeUpLost, ShmTypeOK
    <2> QED
        BY <2>3, <2>4
<1> QED
    BY <1>4, <1>5

-----------------------------------------------------------------------------
(***************************************************************************)
(* The calls, one lemma each.                                              *)
(***************************************************************************)
LEMMA LockSharedKeeps ==
    ASSUME ShmInv, NEW c \in Conn, NEW slot \in Slot, LockShared(c, slot)
    PROVE  ShmInv'
<1> USE DEF ShmInv
<1>1. /\ \A d \in Conn : slot \notin exclusive[d]
      /\ shared' = [shared EXCEPT ![c] = @ \cup {slot}]
      /\ UNCHANGED <<exclusive, queue, asleep>>
    BY DEF LockShared, Share, CanShare
<1>2. file' \in [Slot -> FileLock]
    BY DEF LockShared, ShmTypeOK, FileLock
<1>3. ShmTypeOK'
    BY <1>1, <1>2 DEF ShmTypeOK
<1>4. LocksApart'
    BY <1>1 DEF LocksApart, MutualExclusion, OwnLocksApart, ShmTypeOK
<1>5. FileLockMirrors'
    <2>1. CASE \E d \in Conn : slot \in shared[d]
        BY <1>1, <2>1 DEF LockShared, FileLockMirrors, ShmTypeOK
    <2>2. CASE ~\E d \in Conn : slot \in shared[d]
        BY <1>1, <2>2 DEF LockShared, FileLockMirrors, ShmTypeOK
    <2> QED
        BY <2>1, <2>2
<1>6. NoWakeUpLost'
    BY <1>1 DEF NoWakeUpLost, ShmTypeOK
<1> QED
    BY <1>3, <1>4, <1>5, <1>6 DEF LocksApart

LEMMA LockExclusiveKeeps ==
    ASSUME ShmInv, NEW c \in Conn, NEW slots \in SUBSET Slot, LockExclusive(c, slots)
    PROVE  ShmInv'
<1> USE DEF ShmInv
<1>1. /\ \A d \in Conn : slots \cap (exclusive[d] \cup shared[d]) = {}
      /\ exclusive' = [exclusive EXCEPT ![c] = @ \cup slots]
      /\ UNCHANGED <<shared, queue, asleep>>
      /\ file' = [s \in Slot |-> IF s \in slots THEN "write" ELSE file[s]]
    BY DEF LockExclusive, Exclude, CanExclude
<1>2. ShmTypeOK'
    BY <1>1 DEF ShmTypeOK, FileLock
<1>3. LocksApart'
    BY <1>1 DEF LocksApart, MutualExclusion, OwnLocksApart, ShmTypeOK
<1>4. FileLockMirrors'
    BY <1>1 DEF FileLockMirrors, ShmTypeOK
<1>5. NoWakeUpLost'
    BY <1>1 DEF NoWakeUpLost, ShmTypeOK
<1> QED
    BY <1>2, <1>3, <1>4, <1>5 DEF LocksApart

LEMMA WaitKeeps ==
    ASSUME ShmInv, NEW c \in Conn, NEW slots \in SUBSET Slot,
           NEW flag \in {"shared", "exclusive"}, Wait(c, slots, flag),
           \E d \in Conn : shared[d] # {} \/ exclusive[d] # {}
    PROVE  ShmInv'
<1> USE DEF ShmInv
<1>1. UNCHANGED <<shared, exclusive, file>>
    BY DEF Wait
<1>2. queue' \in Seq(Request) /\ asleep' \subseteq Conn /\ NoWakeUpLost'
    BY WaitKeepsTheQueue
<1>3. ShmTypeOK'
    BY <1>1, <1>2 DEF ShmTypeOK
<1>4. MutualExclusion' /\ OwnLocksApart' /\ FileLockMirrors'
    BY <1>1 DEF MutualExclusion, OwnLocksApart, FileLockMirrors
<1> QED
    BY <1>2, <1>3, <1>4

\* What an unlock drops is either one slot held shared or slots held
\* exclusively: the lock on the file follows.
LEMMA UnlockKeepsTheFile ==
    ASSUME ShmInv, NEW c \in Conn, NEW slots \in SUBSET Slot, Unlock(c, slots),
           \/ slots \subseteq exclusive[c]
           \/ \E slot \in shared[c] : slots = {slot}
    PROVE  FileLockMirrors'
<1> USE DEF ShmInv
<1>1. /\ shared' = [shared EXCEPT ![c] = @ \ slots]
      /\ exclusive' = [exclusive EXCEPT ![c] = @ \ slots]
      /\ file' = IF \E d \in Conn \ {c} : shared[d] \cap slots # {}
                 THEN file
                 ELSE [s \in Slot |-> IF s \in slots THEN "none" ELSE file[s]]
    BY DEF Unlock, Release
<1>2. \A d \in Conn : /\ shared'[d] = IF d = c THEN shared[c] \ slots ELSE shared[d]
                      /\ exclusive'[d] = IF d = c THEN exclusive[c] \ slots ELSE exclusive[d]
    BY <1>1 DEF ShmTypeOK
<1> SUFFICES ASSUME NEW s \in Slot
             PROVE  file'[s] = IF \E d \in Conn : s \in exclusive'[d] THEN "write"
                               ELSE IF \E d \in Conn : s \in shared'[d] THEN "read"
                               ELSE "none"
    BY DEF FileLockMirrors
<1>3. file[s] = IF \E d \in Conn : s \in exclusive[d] THEN "write"
                ELSE IF \E d \in Conn : s \in shared[d] THEN "read"
                ELSE "none"
    BY DEF FileLockMirrors
<1>4. CASE s \notin slots
    <2>1. file'[s] = file[s]
        BY <1>1, <1>4
    <2> QED
        BY <1>2, <1>3, <1>4, <2>1
<1>5. CASE s \in slots /\ slots \subseteq exclusive[c]
    <2>1. \A d \in Conn \ {c} : /\ shared[d] \cap slots = {}
                                /\ s \notin exclusive[d]
        BY <1>5 DEF MutualExclusion
    <2>2. s \notin shared[c]
        BY <1>5 DEF OwnLocksApart
    <2>3. file'[s] = "none"
        BY <1>1, <1>5, <2>1
    <2> QED
        BY <1>2, <1>5, <2>1, <2>2, <2>3
<1>6. CASE s \in slots /\ \E slot \in shared[c] : slots = {slot}
    <2>1. slots = {s} /\ s \in shared[c]
        BY <1>6
    <2>2. \A d \in Conn : s \notin exclusive[d]
        BY <2>1 DEF MutualExclusion, OwnLocksApart
    <2>3. CASE \E d \in Conn \ {c} : s \in shared[d]
        <3>1. file'[s] = file[s]
            BY <1>1, <2>1, <2>3
        <3> QED
            BY <1>2, <1>3, <2>2, <2>3, <3>1
    <2>4. CASE ~\E d \in Conn \ {c} : s \in shared[d]
        <3>1. file'[s] = "none"
            BY <1>1, <2>1, <2>4
        <3> QED
            BY <1>2, <2>1, <2>2, <2>4, <3>1
    <2> QED
        BY <2>3, <2>4
<1> QED
    BY <1>4, <1>5, <1>6

LEMMA UnlockKeeps ==
    ASSUME ShmInv, NEW c \in Conn, NEW slots \in SUBSET Slot, Unlock(c, slots),
           \/ slots \subseteq exclusive[c]
           \/ \E slot \in shared[c] : slots = {slot}
    PROVE  ShmInv'
<1>1. FileLockMirrors'
    BY UnlockKeepsTheFile
<1> USE DEF ShmInv
<1>2. /\ shared' = [shared EXCEPT ![c] = @ \ slots]
      /\ exclusive' = [exclusive EXCEPT ![c] = @ \ slots]
      /\ TrySignal
    BY DEF Unlock, Release
<1>3. file' \in [Slot -> FileLock]
    BY DEF Unlock, ShmTypeOK, FileLock
<1>4. PICK n \in 0..Len(queue) : Signal(n)
    BY <1>2 DEF TrySignal
<1>5. queue' \in Seq(Request) /\ asleep' \subseteq Conn
    BY <1>4, SignalType
<1>6. ShmTypeOK'
    BY <1>2, <1>3, <1>5 DEF ShmTypeOK
<1>7. LocksApart'
    BY <1>2 DEF LocksApart, MutualExclusion, OwnLocksApart, ShmTypeOK
<1>8. \A d \in asleep' : \E i \in DOMAIN queue' : queue'[i].conn = d
    BY <1>4, SignalKeepsSleepersQueued DEF NoWakeUpLost
<1>9. (\A d \in Conn : shared'[d] = {} /\ exclusive'[d] = {}) => queue' = <<>>
    BY <1>2, TrySignalEmpties
<1>10. NoWakeUpLost'
    BY <1>8, <1>9 DEF NoWakeUpLost
<1> QED
    BY <1>1, <1>6, <1>7, <1>10 DEF LocksApart

LEMMA TimeOutKeeps ==
    ASSUME ShmInv, NEW c \in Conn, TimeOut(c)
    PROVE  ShmInv'
BY DEF ShmInv, TimeOut, ShmTypeOK, MutualExclusion, OwnLocksApart, FileLockMirrors,
       NoWakeUpLost

-----------------------------------------------------------------------------
LEMMA ShmInitially == ShmInit => ShmInv
<1> SUFFICES ASSUME ShmInit PROVE ShmInv
    OBVIOUS
<1>1. <<>> \in Seq(Request) /\ DOMAIN <<>> = {}
    BY EmptySeq
<1> QED
    BY <1>1 DEF ShmInit, LocksInit, LocksFree, ShmInv, ShmTypeOK, MutualExclusion,
                OwnLocksApart, FileLockMirrors, FileLock, NoWakeUpLost

LEMMA ShmStep == ShmInv /\ [ShmNext]_shmVars => ShmInv'
<1> SUFFICES ASSUME ShmInv, [ShmNext]_shmVars PROVE ShmInv'
    OBVIOUS
<1>1. ASSUME NEW c \in Conn, NEW slot \in Slot, LockShared(c, slot)
      PROVE  ShmInv'
    BY <1>1, LockSharedKeeps
<1>2. ASSUME NEW c \in Conn, NEW slot \in Slot, WaitShared(c, slot)
      PROVE  ShmInv'
    <2>1. \E d \in Conn : exclusive[d] # {}
        BY <1>2 DEF WaitShared, CanShare
    <2> QED
        BY <1>2, <2>1, WaitKeeps DEF WaitShared
<1>3. ASSUME NEW c \in Conn, NEW slot \in Slot, slot \in shared[c], Unlock(c, {slot})
      PROVE  ShmInv'
    BY <1>3, UnlockKeeps
<1>4. ASSUME NEW c \in Conn, NEW slots \in SUBSET Slot, LockExclusive(c, slots)
      PROVE  ShmInv'
    BY <1>4, LockExclusiveKeeps
<1>5. ASSUME NEW c \in Conn, NEW slots \in SUBSET Slot, WaitExclusive(c, slots)
      PROVE  ShmInv'
    <2>1. \E d \in Conn : shared[d] # {} \/ exclusive[d] # {}
        BY <1>5 DEF WaitExclusive, CanExclude
    <2> QED
        BY <1>5, <2>1, WaitKeeps DEF WaitExclusive
<1>6. ASSUME NEW c \in Conn, NEW slots \in SUBSET Slot, slots \subseteq exclusive[c],
             Unlock(c, slots)
      PROVE  ShmInv'
    BY <1>6, UnlockKeeps
<1>7. ASSUME NEW c \in Conn, TimeOut(c)
      PROVE  ShmInv'
    BY <1>7, TimeOutKeeps
<1>8. CASE UNCHANGED shmVars
    BY <1>8 DEF shmVars, ShmInv, ShmTypeOK, MutualExclusion, OwnLocksApart,
                FileLockMirrors, NoWakeUpLost
<1> QED
    BY <1>1, <1>2, <1>3, <1>4, <1>5, <1>6, <1>7, <1>8 DEF ShmNext

LEMMA ShmInvariant == ShmSpec => []ShmInv
BY ShmInitially, ShmStep, PTL DEF ShmSpec

\* Every variable of the lock table stays in its set (unixShmLock).
THEOREM ShmTypeCorrect == ShmSpec => []ShmTypeOK
<1>1. ShmInv => ShmTypeOK
    BY DEF ShmInv
<1> QED
    BY <1>1, ShmInvariant, PTL

\* However many threads call unixShmLock, a slot held exclusively is held by
\* one connection and shared by none.
THEOREM SlotsAreExclusive == ShmSpec => []MutualExclusion
<1>1. ShmInv => MutualExclusion
    BY DEF ShmInv
<1> QED
    BY <1>1, ShmInvariant, PTL

\* The advisory lock on each byte of the wal-index file is the strongest lock
\* a connection of the process holds on it, after any sequence of calls.
THEOREM FileLocksFollow == ShmSpec => []FileLockMirrors
<1>1. ShmInv => FileLockMirrors
    BY DEF ShmInv
<1> QED
    BY <1>1, ShmInvariant, PTL

\* A sleeping thread is queued, and the queue is empty when no lock is held:
\* timeouts, stale entries and the main thread's place in front included.
THEOREM WakeUpsAreKept == ShmSpec => []NoWakeUpLost
<1>1. ShmInv => NoWakeUpLost
    BY DEF ShmInv
<1> QED
    BY <1>1, ShmInvariant, PTL

\* unixShmLock implements the lock table wal.c is written against: each call
\* takes or drops what the table allows, or changes no lock.
THEOREM ShmLockImplementsSlotLocks == ShmSpec => ImplementsSlotLocks
<1>1. ShmInit => LocksInit
    BY DEF ShmInit
<1>2. [ShmNext]_shmVars => [LocksNext]_lockVars
    <2> SUFFICES ASSUME [ShmNext]_shmVars PROVE [LocksNext]_lockVars
        OBVIOUS
    <2>1. ASSUME NEW c \in Conn, NEW slot \in Slot, LockShared(c, slot)
          PROVE  LocksNext
        BY <2>1 DEF LockShared, LocksNext
    <2>2. ASSUME NEW c \in Conn, NEW slots \in SUBSET Slot, LockExclusive(c, slots)
          PROVE  LocksNext
        BY <2>2 DEF LockExclusive, LocksNext
    <2>3. ASSUME NEW c \in Conn, NEW slots \in SUBSET Slot, Unlock(c, slots)
          PROVE  LocksNext
        BY <2>3 DEF Unlock, LocksNext
    <2>4. ASSUME NEW c \in Conn, NEW slot \in Slot, Unlock(c, {slot})
          PROVE  LocksNext
        BY <2>4, <2>3
    <2>5. ASSUME NEW c \in Conn, NEW slot \in Slot, WaitShared(c, slot)
          PROVE  UNCHANGED lockVars
        BY <2>5 DEF WaitShared, Wait, lockVars
    <2>6. ASSUME NEW c \in Conn, NEW slots \in SUBSET Slot, WaitExclusive(c, slots)
          PROVE  UNCHANGED lockVars
        BY <2>6 DEF WaitExclusive, Wait, lockVars
    <2>7. ASSUME NEW c \in Conn, TimeOut(c)
          PROVE  UNCHANGED lockVars
        BY <2>7 DEF TimeOut, lockVars
    <2>8. CASE UNCHANGED shmVars
        BY <2>8 DEF shmVars, lockVars
    <2> QED
        BY <2>1, <2>2, <2>3, <2>4, <2>5, <2>6, <2>7, <2>8 DEF ShmNext
<1> QED
    BY <1>1, <1>2, PTL DEF ShmSpec, ImplementsSlotLocks, LocksSpec

-----------------------------------------------------------------------------
(***************************************************************************)
(* The protocol of wal.c.                                                  *)
(*                                                                         *)
(* What a thread unlocks it holds: that is all that ShmLock asks of its    *)
(* callers, and so every behaviour of WalLocking is one of ShmLock and has *)
(* the properties shown above.  Why a thread holds what it unlocks is told *)
(* by where it is.                                                         *)
(***************************************************************************)
Recovering == {"recover", "rebuild", "recovered", "notrecovered"}
Writing == {"write", "restart", "dropzero"}
Checkpointing == {"mark", "reset", "backfill", "done"}

\* What a thread that is at l holds.
Holds(l, sh, ex) ==
    /\ sh # {} => l \in {"probed", "read", "giveup"} \cup Writing
    /\ \A s, t \in sh : s = t
    /\ l = "probed" => RECOVER_LOCK \in sh
    /\ l \in Recovering \cup Writing => WRITE_LOCK \in ex
    /\ l = "rebuild" => AllButWrite \subseteq ex
    /\ l = "restart" => Marks \subseteq ex
    /\ l = "backfill" => READ_LOCK(0) \in ex
    /\ l \in Checkpointing => CKPT_LOCK \in ex

ProtocolInv ==
    /\ shared \in [Conn -> SUBSET Slot]
    /\ exclusive \in [Conn -> SUBSET Slot]
    /\ DOMAIN pc = Conn
    /\ pc = [c \in Conn |-> pc[c]]
    /\ mark \in [Conn -> Nat \ {0}]
    /\ \A c \in Conn : Holds(pc[c], shared[c], exclusive[c])

\* A step of one thread: a call that ShmLock allows, after which the thread is
\* at l and holds what it should there.
Moves(c, l) ==
    /\ ShmNext \/ UNCHANGED shmVars
    /\ pc' = [pc EXCEPT ![c] = l]
    /\ mark' \in [Conn -> Nat \ {0}]
    /\ \E sh, ex \in SUBSET Slot : /\ shared' = [shared EXCEPT ![c] = sh]
                                   /\ exclusive' = [exclusive EXCEPT ![c] = ex]
                                   /\ Holds(l, sh, ex)

LEMMA MoveKeeps ==
    ASSUME ProtocolInv, NEW c \in Conn, NEW l, Moves(c, l)
    PROVE  [ShmNext]_shmVars /\ ProtocolInv'
<1>1. PICK sh \in SUBSET Slot, ex \in SUBSET Slot :
         /\ shared' = [shared EXCEPT ![c] = sh]
         /\ exclusive' = [exclusive EXCEPT ![c] = ex]
         /\ Holds(l, sh, ex)
    BY DEF Moves
<1>2. /\ shared' \in [Conn -> SUBSET Slot]
      /\ exclusive' \in [Conn -> SUBSET Slot]
    BY <1>1 DEF ProtocolInv
<1>3. \A d \in Conn : Holds(pc'[d], shared'[d], exclusive'[d])
    BY <1>1 DEF ProtocolInv, Moves
<1>4. DOMAIN pc' = Conn /\ pc' = [d \in Conn |-> pc'[d]]
    BY DEF ProtocolInv, Moves
<1> QED
    BY <1>2, <1>3, <1>4 DEF ProtocolInv, Moves

LEMMA SlotNumbers ==
    /\ WRITE_LOCK \in Slot /\ CKPT_LOCK \in Slot /\ RECOVER_LOCK \in Slot
    /\ READ_LOCK(0) \in Slot /\ READ_LOCK(0) \notin Marks
    /\ AllButWrite \subseteq Slot /\ WRITE_LOCK \notin AllButWrite
    /\ Marks \subseteq Slot
    /\ WRITE_LOCK \notin Marks /\ CKPT_LOCK \notin Marks
    /\ \A i \in 1..LastMark : READ_LOCK(i) \in Slot
BY WalLockingAssumption DEF WRITE_LOCK, CKPT_LOCK, RECOVER_LOCK, READ_LOCK, AllButWrite, Marks

\* What each call does to the locks of its caller.
LEMMA Locked ==
    ASSUME ProtocolInv, NEW c \in Conn
    PROVE  /\ \A slot \in Slot :
                  LockShared(c, slot) =>
                      /\ ShmNext
                      /\ shared' = [shared EXCEPT ![c] = shared[c] \cup {slot}]
                      /\ exclusive' = [exclusive EXCEPT ![c] = exclusive[c]]
           /\ \A slots \in SUBSET Slot :
                  LockExclusive(c, slots) =>
                      /\ ShmNext
                      /\ shared' = [shared EXCEPT ![c] = shared[c]]
                      /\ exclusive' = [exclusive EXCEPT ![c] = exclusive[c] \cup slots]
<1>1. /\ shared = [shared EXCEPT ![c] = shared[c]]
      /\ exclusive = [exclusive EXCEPT ![c] = exclusive[c]]
    BY DEF ProtocolInv
<1>2. ASSUME NEW slot \in Slot, LockShared(c, slot)
      PROVE  /\ ShmNext
             /\ shared' = [shared EXCEPT ![c] = shared[c] \cup {slot}]
             /\ exclusive' = exclusive
    BY <1>2, Zenon DEF LockShared, Share, ShmNext
<1>3. ASSUME NEW slots \in SUBSET Slot, LockExclusive(c, slots)
      PROVE  /\ ShmNext
             /\ shared' = shared
             /\ exclusive' = [exclusive EXCEPT ![c] = exclusive[c] \cup slots]
    BY <1>3, Zenon DEF LockExclusive, Exclude, ShmNext
<1> QED
    BY <1>1, <1>2, <1>3

LEMMA Waited ==
    ASSUME ProtocolInv, NEW c \in Conn
    PROVE  /\ \A slot \in Slot :
                  WaitShared(c, slot) =>
                      /\ ShmNext
                      /\ shared' = [shared EXCEPT ![c] = shared[c]]
                      /\ exclusive' = [exclusive EXCEPT ![c] = exclusive[c]]
           /\ \A slots \in SUBSET Slot :
                  WaitExclusive(c, slots) =>
                      /\ ShmNext
                      /\ shared' = [shared EXCEPT ![c] = shared[c]]
                      /\ exclusive' = [exclusive EXCEPT ![c] = exclusive[c]]
<1>1. /\ shared = [shared EXCEPT ![c] = shared[c]]
      /\ exclusive = [exclusive EXCEPT ![c] = exclusive[c]]
    BY DEF ProtocolInv
<1>2. ASSUME NEW slot \in Slot, WaitShared(c, slot)
      PROVE  ShmNext /\ UNCHANGED <<shared, exclusive>>
    BY <1>2, Zenon DEF WaitShared, Wait, ShmNext
<1>3. ASSUME NEW slots \in SUBSET Slot, WaitExclusive(c, slots)
      PROVE  ShmNext /\ UNCHANGED <<shared, exclusive>>
    BY <1>3, Zenon DEF WaitExclusive, Wait, ShmNext
<1> QED
    BY <1>1, <1>2, <1>3

\* A thread unlocks what it holds exclusively, or all it holds shared: a slot
\* at most, or nothing when there is none.
LEMMA Unlocked ==
    ASSUME ProtocolInv, NEW c \in Conn, NEW slots \in SUBSET Slot, Unlock(c, slots),
           slots \subseteq exclusive[c] \/ slots \subseteq shared[c]
    PROVE  /\ ShmNext
           /\ shared' = [shared EXCEPT ![c] = shared[c] \ slots]
           /\ exclusive' = [exclusive EXCEPT ![c] = exclusive[c] \ slots]
<1>1. ShmNext
    <2>1. CASE slots \subseteq exclusive[c]
        BY <2>1, Zenon DEF ShmNext
    <2>2. CASE slots \subseteq shared[c] /\ slots # {}
        <3>1. PICK s \in slots : TRUE
            BY <2>2
        <3>2. slots = {s} /\ s \in Slot /\ s \in shared[c]
            BY <2>2, <3>1 DEF ProtocolInv, Holds
        <3>3. Unlock(c, {s})
            BY <3>2
        <3> QED
            BY <3>2, <3>3, Zenon DEF ShmNext
    <2> QED
        BY <2>1, <2>2
<1> QED
    BY <1>1, Zenon DEF Unlock, Release

-----------------------------------------------------------------------------
\* The thread goes on to l.
Goes(c, l) ==
    /\ pc' = [pc EXCEPT ![c] = l]
    /\ mark' \in [Conn -> Nat \ {0}]

LEMMA Going ==
    ASSUME ProtocolInv, NEW c \in Conn, NEW l
    PROVE  /\ Goto(c, l) => Goes(c, l)
           /\ Begin(c, l) => Goes(c, l)
           /\ BeginAgain(c, l) => Goes(c, l) \/ Goes(c, "idle")
BY DEF ProtocolInv, Goto, BeginAgain, Begin, Goes

\* The moves: a call, and where the thread goes.
LEMMA LockSharedMoves ==
    ASSUME ProtocolInv, NEW c \in Conn, NEW slot \in Slot, LockShared(c, slot),
           NEW l, Goes(c, l), Holds(l, shared[c] \cup {slot}, exclusive[c])
    PROVE  Moves(c, l)
<1>1. shared[c] \cup {slot} \in SUBSET Slot /\ exclusive[c] \in SUBSET Slot
    BY DEF ProtocolInv
<1> QED
    BY <1>1, Locked, Zenon DEF Moves, Goes

LEMMA LockExclusiveMoves ==
    ASSUME ProtocolInv, NEW c \in Conn, NEW slots \in SUBSET Slot, LockExclusive(c, slots),
           NEW l, Goes(c, l), Holds(l, shared[c], exclusive[c] \cup slots)
    PROVE  Moves(c, l)
<1>1. shared[c] \in SUBSET Slot /\ exclusive[c] \cup slots \in SUBSET Slot
    BY DEF ProtocolInv
<1> QED
    BY <1>1, Locked, Zenon DEF Moves, Goes

LEMMA WaitMoves ==
    ASSUME ProtocolInv, NEW c \in Conn,
           \/ \E slot \in Slot : WaitShared(c, slot)
           \/ \E slots \in SUBSET Slot : WaitExclusive(c, slots),
           NEW l, Goes(c, l), Holds(l, shared[c], exclusive[c])
    PROVE  Moves(c, l)
<1>1. shared[c] \in SUBSET Slot /\ exclusive[c] \in SUBSET Slot
    BY DEF ProtocolInv
<1> QED
    BY <1>1, Waited, Zenon DEF Moves, Goes

LEMMA UnlockMoves ==
    ASSUME ProtocolInv, NEW c \in Conn, NEW slots \in SUBSET Slot, Unlock(c, slots),
           slots \subseteq exclusive[c] \/ slots \subseteq shared[c],
           NEW l, Goes(c, l), Holds(l, shared[c] \ slots, exclusive[c] \ slots)
    PROVE  Moves(c, l)
<1>1. shared[c] \ slots \in SUBSET Slot /\ exclusive[c] \ slots \in SUBSET Slot
    BY DEF ProtocolInv
<1> QED
    BY <1>1, Unlocked, Zenon DEF Moves, Goes

LEMMA NoCallMoves ==
    ASSUME ProtocolInv, NEW c \in Conn, NoCall,
           NEW l, Goes(c, l), Holds(l, shared[c], exclusive[c])
    PROVE  Moves(c, l)
<1>1. /\ shared[c] \in SUBSET Slot /\ exclusive[c] \in SUBSET Slot
      /\ shared' = [shared EXCEPT ![c] = shared[c]]
      /\ exclusive' = [exclusive EXCEPT ![c] = exclusive[c]]
    BY DEF ProtocolInv, NoCall, shmVars
<1> QED
    BY <1>1, Zenon DEF Moves, Goes, NoCall

\* What the thread holds where it is.
LEMMA Held ==
    ASSUME ProtocolInv, NEW c \in Conn
    PROVE  /\ Holds(pc[c], shared[c], exclusive[c])
           /\ shared[c] \in SUBSET Slot /\ exclusive[c] \in SUBSET Slot
BY DEF ProtocolInv

LEMMA RecoveryMoves ==
    ASSUME ProtocolInv, NEW c \in Conn,
           \/ BeginTrans(c) \/ ReadHdr(c) \/ Recover(c) \/ Rebuild(c) \/ HdrDone(c)
           \/ ProbeRecovery(c) \/ ProbeDone(c)
    PROVE  \E l : Moves(c, l)
<1> DEFINE sh == shared[c]
           ex == exclusive[c]
<1>0. /\ Holds(pc[c], sh, ex) /\ sh \in SUBSET Slot /\ ex \in SUBSET Slot
      /\ sh \cup {RECOVER_LOCK} \in SUBSET Slot /\ ex \cup {WRITE_LOCK} \in SUBSET Slot
      /\ ex \cup AllButWrite \in SUBSET Slot
      /\ \A S : sh \ S \in SUBSET Slot /\ ex \ S \in SUBSET Slot
    BY Held, SlotNumbers
<1>1. CASE BeginTrans(c)
    <2>1. sh = {}
        BY <1>0, <1>1 DEF BeginTrans, At, Holds, Writing
    <2>2. Holds("begin", sh, ex)
        BY <2>1 DEF Holds, Writing, Recovering, Checkpointing
    <2> QED
        BY <1>0, <1>1, <2>2, NoCallMoves, Going DEF BeginTrans
<1>2. CASE ReadHdr(c)
    <2>1. sh = {}
        BY <1>0, <1>2 DEF ReadHdr, At, Holds, Writing
    <2>2. Holds("recover", sh, ex \cup {WRITE_LOCK}) /\ Holds("probe", sh, ex)
        BY <2>1 DEF Holds, Writing, Recovering, Checkpointing
    <2> QED
        BY <1>0, <1>2, <2>2, SlotNumbers, LockSharedMoves, LockExclusiveMoves, WaitMoves, Going DEF ReadHdr
<1>3. CASE Recover(c)
    <2>1. sh = {} /\ WRITE_LOCK \in ex
        BY <1>0, <1>3 DEF Recover, At, Holds, Writing, Recovering
    <2>2. Holds("rebuild", sh, ex \cup AllButWrite) /\ Holds("notrecovered", sh, ex)
        BY <2>1 DEF Holds, Writing, Recovering, Checkpointing
    <2> QED
        BY <1>0, <1>3, <2>2, SlotNumbers, LockSharedMoves, LockExclusiveMoves, WaitMoves, Going DEF Recover
<1>4. CASE Rebuild(c)
    <2>1. sh = {} /\ WRITE_LOCK \in ex /\ AllButWrite \subseteq ex
        BY <1>0, <1>4 DEF Rebuild, At, Holds, Writing, Recovering
    <2>2. Holds("recovered", sh \ AllButWrite, ex \ AllButWrite)
        BY <2>1, SlotNumbers DEF Holds, Writing, Recovering, Checkpointing
    <2>3. Goes(c, "recovered")
        BY <1>4 DEF Rebuild, ProtocolInv, Goes
    <2> QED
        BY <1>0, <1>4, <2>1, <2>2, <2>3, SlotNumbers, UnlockMoves DEF Rebuild
<1>5. CASE HdrDone(c)
    <2>1. sh = {} /\ WRITE_LOCK \in ex
        BY <1>0, <1>5 DEF HdrDone, At, Holds, Writing, Recovering
    <2>2. /\ Holds("begin", sh \ {WRITE_LOCK}, ex \ {WRITE_LOCK})
          /\ Holds("probe", sh \ {WRITE_LOCK}, ex \ {WRITE_LOCK})
        BY <2>1 DEF Holds, Writing, Recovering, Checkpointing
    <2> QED
        BY <1>0, <1>5, <2>1, <2>2, SlotNumbers, UnlockMoves, Going DEF HdrDone
<1>6. CASE ProbeRecovery(c)
    <2>1. sh = {}
        BY <1>0, <1>6 DEF ProbeRecovery, At, Holds, Writing
    <2>2. Holds("probed", sh \cup {RECOVER_LOCK}, ex) /\ Holds("again", sh, ex)
        BY <2>1 DEF Holds, Writing, Recovering, Checkpointing
    <2> QED
        BY <1>0, <1>6, <2>2, SlotNumbers, LockSharedMoves, LockExclusiveMoves, WaitMoves, Going DEF ProbeRecovery
<1>7. CASE ProbeDone(c)
    <2>1. sh = {RECOVER_LOCK}
        BY <1>0, <1>7 DEF ProbeDone, At, Holds
    <2>2. \A l \in {"begin", "idle"} : Holds(l, sh \ {RECOVER_LOCK}, ex \ {RECOVER_LOCK})
        BY <2>1 DEF Holds, Writing, Recovering, Checkpointing
    <2> QED
        BY <1>0, <1>7, <2>1, <2>2, SlotNumbers, UnlockMoves, Going DEF ProbeDone
<1> QED
    BY <1>1, <1>2, <1>3, <1>4, <1>5, <1>6, <1>7

LEMMA ReadingMoves ==
    ASSUME ProtocolInv, NEW c \in Conn,
           \/ ShareZero(c) \/ RaiseMark(c) \/ MarkRaised(c) \/ ShareMark(c) \/ EndRead(c)
           \/ Again(c) \/ GiveUp(c)
    PROVE  \E l : Moves(c, l)
<1> DEFINE sh == shared[c]
           ex == exclusive[c]
<1>0. /\ Holds(pc[c], sh, ex) /\ sh \in SUBSET Slot /\ ex \in SUBSET Slot
      /\ \A s \in Slot : sh \cup {s} \in SUBSET Slot /\ ex \cup {s} \in SUBSET Slot
      /\ \A S : sh \ S \in SUBSET Slot /\ ex \ S \in SUBSET Slot
    BY Held, SlotNumbers
<1>1. CASE ShareZero(c)
    <2>1. sh = {}
        BY <1>0, <1>1 DEF ShareZero, At, Holds, Writing
    <2>2. Holds("read", sh \cup {READ_LOCK(0)}, ex) /\ Holds("marks", sh, ex)
        BY <2>1 DEF Holds, Writing, Recovering, Checkpointing
    <2> QED
        BY <1>0, <1>1, <2>2, SlotNumbers, LockSharedMoves, LockExclusiveMoves, WaitMoves, Going DEF ShareZero
<1>2. CASE RaiseMark(c)
    <2>1. sh = {}
        BY <1>0, <1>2 DEF RaiseMark, Marking, At, Holds, Writing
    <2>2. PICK m \in Marks : LockExclusive(c, {m})
        BY <1>2 DEF RaiseMark
    <2>3. Holds("raise", sh, ex \cup {m})
        BY <2>1 DEF Holds, Writing, Recovering, Checkpointing
    <2>4. m \in Slot /\ Goto(c, "raise")
        BY <1>2, SlotNumbers DEF RaiseMark
    <2> QED
        BY <1>0, <2>2, <2>3, <2>4, LockSharedMoves, LockExclusiveMoves, Going
<1>3. CASE MarkRaised(c)
    <2>1. sh = {}
        BY <1>0, <1>3 DEF MarkRaised, At, Holds, Writing
    <2>2. Holds("share", sh \ (ex \cap Marks), ex \ (ex \cap Marks))
        BY <2>1 DEF Holds, Writing, Recovering, Checkpointing
    <2> QED
        BY <1>0, <1>3, <2>2, SlotNumbers, UnlockMoves, Going DEF MarkRaised
<1>4. CASE ShareMark(c)
    <2>1. sh = {}
        BY <1>0, <1>4 DEF ShareMark, Marking, At, Holds, Writing
    <2>2. PICK m \in Marks : \/ LockShared(c, m) /\ Goto(c, "read")
                             \/ WaitShared(c, m) /\ Goto(c, "again")
        BY <1>4 DEF ShareMark
    <2>3. m \in Slot /\ Holds("read", sh \cup {m}, ex) /\ Holds("again", sh, ex)
        BY <2>1, SlotNumbers DEF Holds, Writing, Recovering, Checkpointing
    <2>4. CASE LockShared(c, m) /\ Goto(c, "read")
        BY <1>0, <2>3, <2>4, LockSharedMoves, LockExclusiveMoves, Going
    <2>5. CASE WaitShared(c, m) /\ Goto(c, "again")
        BY <1>0, <2>3, <2>5, WaitMoves, Going
    <2> QED
        BY <2>2, <2>4, <2>5
<1>5. CASE EndRead(c)
    <2>1. \A l \in {"begin", "idle"} : Holds(l, sh \ sh, ex \ sh)
        BY DEF Holds, Writing, Recovering, Checkpointing
    <2>2. Unlock(c, sh)
        BY <1>5 DEF EndRead
    <2>3. CASE Goto(c, "idle")
        BY <1>0, <2>1, <2>2, <2>3, UnlockMoves, Going
    <2>4. CASE BeginAgain(c, "begin")
        BY <1>0, <2>1, <2>2, <2>4, UnlockMoves, Going
    <2> QED
        BY <1>5, <2>3, <2>4 DEF EndRead
<1>6. CASE Again(c)
    <2>1. sh = {}
        BY <1>0, <1>6 DEF Again, At, Holds, Writing
    <2>2. \A l \in {"begin", "idle"} : Holds(l, sh, ex)
        BY <2>1 DEF Holds, Writing, Recovering, Checkpointing
    <2> QED
        BY <1>0, <1>6, <2>2, NoCallMoves, Going DEF Again
<1>7. CASE GiveUp(c)
    <2>1. \A l \in {"begin", "idle"} : Holds(l, sh \ sh, ex \ sh)
        BY DEF Holds, Writing, Recovering, Checkpointing
    <2> QED
        BY <1>0, <1>7, <2>1, UnlockMoves, Going DEF GiveUp
<1> QED
    BY <1>1, <1>2, <1>3, <1>4, <1>5, <1>6, <1>7

LEMMA WritingMoves ==
    ASSUME ProtocolInv, NEW c \in Conn,
           \/ BeginWrite(c) \/ RestartLog(c) \/ LogRestarted(c)
           \/ DropZero(c) \/ TakeMark(c) \/ EndWrite(c)
    PROVE  \E l : Moves(c, l)
<1> DEFINE sh == shared[c]
           ex == exclusive[c]
<1>0. /\ Holds(pc[c], sh, ex) /\ sh \in SUBSET Slot /\ ex \in SUBSET Slot
      /\ \A s \in Slot : sh \cup {s} \in SUBSET Slot /\ ex \cup {s} \in SUBSET Slot
      /\ ex \cup Marks \in SUBSET Slot
      /\ \A S : sh \ S \in SUBSET Slot /\ ex \ S \in SUBSET Slot
    BY Held, SlotNumbers
<1>1. CASE BeginWrite(c)
    <2>1. Holds("write", sh, ex \cup {WRITE_LOCK}) /\ Holds("giveup", sh, ex)
        BY <1>0 DEF Holds, Writing, Recovering, Checkpointing
    <2> QED
        BY <1>0, <1>1, <2>1, SlotNumbers, LockSharedMoves, LockExclusiveMoves, WaitMoves, Going DEF BeginWrite
<1>2. CASE RestartLog(c)
    <2>1. Holds("restart", sh, ex \cup Marks)
        BY <1>0, <1>2 DEF RestartLog, At, Holds, Writing, Recovering, Checkpointing
    <2> QED
        BY <1>0, <1>2, <2>1, SlotNumbers, LockSharedMoves, LockExclusiveMoves, Going DEF RestartLog
<1>3. CASE LogRestarted(c)
    <2>1. Marks \subseteq ex
        BY <1>0, <1>3 DEF LogRestarted, At, Holds
    <2>2. Holds("dropzero", sh \ Marks, ex \ Marks)
        BY <1>0, <1>3, SlotNumbers
        DEF LogRestarted, At, Holds, Writing, Recovering, Checkpointing
    <2> QED
        BY <1>0, <1>3, <2>1, <2>2, SlotNumbers, UnlockMoves, Going DEF LogRestarted
<1>4. CASE DropZero(c)
    <2>1. sh = {READ_LOCK(0)}
        BY <1>0, <1>4 DEF DropZero, Holds
    <2>2. Holds("marks", sh \ {READ_LOCK(0)}, ex \ {READ_LOCK(0)})
        BY <2>1 DEF Holds, Writing, Recovering, Checkpointing
    <2> QED
        BY <1>0, <1>4, <2>1, <2>2, SlotNumbers, UnlockMoves, Going DEF DropZero
<1>5. CASE TakeMark(c)
    <2>1. sh = {} /\ WRITE_LOCK \in ex
        BY <1>0, <1>5 DEF TakeMark, At, Holds, Writing
    <2>2. /\ Holds("write", sh, ex) /\ Holds("marks", sh, ex)
          /\ \A m \in Marks : Holds("write", sh \cup {m}, ex)
        BY <2>1 DEF Holds, Writing, Recovering, Checkpointing
    <2>3. CASE \E m \in Marks : LockShared(c, m) /\ Goto(c, "write")
        <3>1. PICK m \in Marks : LockShared(c, m) /\ Goto(c, "write")
            BY <2>3
        <3>2. m \in Slot
            BY SlotNumbers
        <3> QED
            BY <1>0, <2>2, <3>1, <3>2, LockSharedMoves, LockExclusiveMoves, Going
    <2>4. CASE NoCall /\ Begin(c, "marks")
        BY <1>0, <2>2, <2>4, NoCallMoves, Going
    <2>5. CASE NoCall /\ Goto(c, "write")
        BY <1>0, <2>2, <2>5, NoCallMoves, Going
    <2> QED
        BY <1>5, <2>3, <2>4, <2>5 DEF TakeMark
<1>6. CASE EndWrite(c)
    <2>1. WRITE_LOCK \in ex /\ Unlock(c, {WRITE_LOCK})
        BY <1>0, <1>6 DEF EndWrite, At, Holds, Writing
    <2>2. \A l \in {"read", "giveup"} : Holds(l, sh \ {WRITE_LOCK}, ex \ {WRITE_LOCK})
        BY <1>0, <1>6 DEF Holds, Writing, Recovering, Checkpointing
    <2>3. PICK l \in {"read", "giveup"} : Goto(c, l)
        BY <1>6 DEF EndWrite
    <2> QED
        BY <1>0, <2>1, <2>2, <2>3, SlotNumbers, UnlockMoves, Going
<1> QED
    BY <1>1, <1>2, <1>3, <1>4, <1>5, <1>6

LEMMA CheckpointMoves ==
    ASSUME ProtocolInv, NEW c \in Conn, BeginCheckpoint(c) \/ Checkpoint(c)
    PROVE  \E l : Moves(c, l)
<1> DEFINE sh == shared[c]
           ex == exclusive[c]
<1>0. /\ Holds(pc[c], sh, ex) /\ sh \in SUBSET Slot /\ ex \in SUBSET Slot
      /\ \A s \in Slot : ex \cup {s} \in SUBSET Slot
      /\ \A S : sh \ S \in SUBSET Slot /\ ex \ S \in SUBSET Slot
    BY Held, SlotNumbers
<1>1. CASE BeginCheckpoint(c)
    <2>1. Holds("mark", sh, ex \cup {CKPT_LOCK})
        BY <1>0, <1>1 DEF BeginCheckpoint, At, Holds, Writing, Recovering, Checkpointing
    <2> QED
        BY <1>0, <1>1, <2>1, SlotNumbers, LockSharedMoves, LockExclusiveMoves, Going DEF BeginCheckpoint
<1>2. CASE ResetMark(c)
    <2>1. PICK i \in mark[c]..LastMark : /\ LockExclusive(c, {READ_LOCK(i)})
                                         /\ mark' = [mark EXCEPT ![c] = i + 1]
        BY <1>2 DEF ResetMark
    <2>2. mark[c] \in Nat \ {0} /\ i \in 1..LastMark
        BY WalLockingAssumption DEF ProtocolInv
    <2>3. mark' \in [Conn -> Nat \ {0}]
        BY <2>1, <2>2 DEF ProtocolInv
    <2>4. Holds("reset", sh, ex \cup {READ_LOCK(i)})
        BY <1>0, <1>2 DEF ResetMark, At, Holds, Writing, Recovering, Checkpointing
    <2>5. READ_LOCK(i) \in Slot
        BY <2>2, SlotNumbers
    <2>6. Goes(c, "reset")
        BY <1>2, <2>3 DEF ResetMark, Goes
    <2> QED
        BY <2>1, <2>4, <2>5, <2>6, LockSharedMoves, LockExclusiveMoves
<1>3. CASE MarkReset(c)
    <2>1. Holds("mark", sh \ (ex \cap Marks), ex \ (ex \cap Marks))
        BY <1>0, <1>3, SlotNumbers
        DEF MarkReset, At, Holds, Writing, Recovering, Checkpointing
    <2> QED
        BY <1>0, <1>3, <2>1, SlotNumbers, UnlockMoves, Going DEF MarkReset
<1>4. CASE Backfill(c)
    <2>1. Holds("backfill", sh, ex \cup {READ_LOCK(0)})
        BY <1>0, <1>4 DEF Backfill, At, Holds, Writing, Recovering, Checkpointing
    <2> QED
        BY <1>0, <1>4, <2>1, SlotNumbers, LockSharedMoves, LockExclusiveMoves, Going DEF Backfill
<1>5. CASE Backfilled(c)
    <2>1. READ_LOCK(0) \in ex /\ READ_LOCK(0) # CKPT_LOCK
        BY <1>0, <1>5 DEF Backfilled, At, Holds, READ_LOCK, CKPT_LOCK
    <2>2. Holds("done", sh \ {READ_LOCK(0)}, ex \ {READ_LOCK(0)})
        BY <1>0, <1>5, <2>1 DEF Backfilled, At, Holds, Writing, Recovering, Checkpointing
    <2> QED
        BY <1>0, <1>5, <2>1, <2>2, SlotNumbers, UnlockMoves, Going DEF Backfilled
<1>6. CASE EndCheckpoint(c)
    <2>1. sh = {} /\ CKPT_LOCK \in ex
        BY <1>0, <1>6 DEF EndCheckpoint, At, Holds, Writing, Checkpointing
    <2>2. Holds("idle", sh \ {CKPT_LOCK}, ex \ {CKPT_LOCK})
        BY <2>1 DEF Holds, Writing, Recovering, Checkpointing
    <2>3. Goes(c, "idle")
        BY <1>6 DEF EndCheckpoint, ProtocolInv, Goes
    <2> QED
        BY <1>0, <1>6, <2>1, <2>2, <2>3, SlotNumbers, UnlockMoves DEF EndCheckpoint
<1> QED
    BY <1>1, <1>2, <1>3, <1>4, <1>5, <1>6 DEF Checkpoint

-----------------------------------------------------------------------------
LEMMA ProtocolInitially == Init => ShmInit /\ ProtocolInv
<1> SUFFICES ASSUME Init PROVE ShmInit /\ ProtocolInv
    OBVIOUS
<1>1. \A c \in Conn : shared[c] = {} /\ exclusive[c] = {} /\ pc[c] = "idle"
    BY DEF Init, ShmInit, LocksInit, LocksFree
<1>2. Holds("idle", {}, {})
    BY DEF Holds, Writing, Recovering, Checkpointing
<1>3. \A c \in Conn : Holds(pc[c], shared[c], exclusive[c])
    BY <1>1, <1>2
<1> QED
    BY <1>3 DEF Init, ShmInit, LocksInit, LocksFree, ProtocolInv

LEMMA ProtocolStep ==
    ASSUME ProtocolInv, [Next]_vars
    PROVE  [ShmNext]_shmVars /\ ProtocolInv'
<1>1. ASSUME NEW c \in Client, BeginTrans(c) \/ Transact(c)
      PROVE  \E l : Moves(c, l)
    BY <1>1, RecoveryMoves, ReadingMoves, WritingMoves DEF Transact, Client
<1>2. ASSUME NEW c \in Checkpointer, BeginCheckpoint(c) \/ Checkpoint(c)
      PROVE  \E l : Moves(c, l)
    BY <1>2, CheckpointMoves, WalLockingAssumption
<1>3. ASSUME NEW c \in Conn, WaitTimesOut(c)
      PROVE  ShmNext /\ ProtocolInv'
    BY <1>3 DEF WaitTimesOut, TimeOut, ShmNext, ProtocolInv
<1>4. CASE UNCHANGED vars
    BY <1>4 DEF vars, shmVars, ProtocolInv
<1> QED
    BY <1>1, <1>2, <1>3, <1>4, MoveKeeps, WalLockingAssumption DEF Next, Client

\* Threads that keep to the order of wal.c unlock only what they hold: every
\* run of transactions and checkpoints is a run of ShmLock.
THEOREM ProtocolIsLawful == Spec => ShmSpec
<1>1. Init => ShmInit /\ ProtocolInv
    BY ProtocolInitially
<1>2. ProtocolInv /\ [Next]_vars => [ShmNext]_shmVars /\ ProtocolInv'
    BY ProtocolStep
<1> QED
    BY <1>1, <1>2, PTL DEF Spec, ShmSpec

\* Readers, writers, recoveries and checkpoints never hold one slot unless all
\* of them hold it shared.
THEOREM ProtocolIsExclusive == Spec => []MutualExclusion
BY ProtocolIsLawful, SlotsAreExclusive, PTL

\* While they run, the process keeps others out of just the slots it uses.
THEOREM ProtocolKeepsFileLocks == Spec => []FileLockMirrors
BY ProtocolIsLawful, FileLocksFollow, PTL

\* No transaction that sleeps for a slot is forgotten, and when none holds a
\* lock none is queued.
THEOREM ProtocolLosesNoWakeUp == Spec => []NoWakeUpLost
BY ProtocolIsLawful, WakeUpsAreKept, PTL

\* The lock table, its queue and its sleepers keep their types meanwhile.
THEOREM ProtocolTypeCorrect == Spec => []ShmTypeOK
BY ProtocolIsLawful, ShmTypeCorrect, PTL

\* To its transactions and checkpoints the engine's locks are SlotLocks.
THEOREM ProtocolImplementsSlotLocks == Spec => ImplementsSlotLocks
BY ProtocolIsLawful, ShmLockImplementsSlotLocks, PTL
=============================================================================
