-------------------------- MODULE WalRecoveryProofs --------------------------
(***************************************************************************)
(* What survives.  A process killed at any moment loses no commit: what    *)
(* walIndexRecover rebuilds from the two files is the last content         *)
(* committed.  After a power loss it is a content that was committed, no   *)
(* older than the last that a checkpoint synced.                           *)
(*                                                                         *)
(* The log is a chain: a frame names the frame it continues.  FileInv says *)
(* where the chain of each salt ends and what the pages up to there show;  *)
(* and that the frames of the transaction that is being written are the    *)
(* only ones of its name, so that no frame an earlier transaction left     *)
(* behind continues them.  DiskInv says how the files on the disk lag      *)
(* behind: no chain of new and old frames comes to a commit that is not    *)
(* the log's, and a page that was copied is in the log that was synced.    *)
(***************************************************************************)
EXTENDS WalProofs

-----------------------------------------------------------------------------
(***************************************************************************)
(* Chains of frames.                                                       *)
(***************************************************************************)
Log == [salt : Nat, frames : Seq(AnyFrame)]

Chained(frames, s, n) ==
    n <= Len(frames) /\ \A f \in 1..n : frames[f].salt = s /\ frames[f].after = Identity(frames, f - 1)

CommitAt(frames, n) == n = 0 \/ frames[n].commit

\* The last commit of the chain of salt s is at frame n.
EndsAt(frames, s, n) ==
    /\ n \in Nat /\ Chained(frames, s, n) /\ CommitAt(frames, n)
    /\ \A m \in (n + 1)..Len(frames) : frames[m].commit => ~Chained(frames, s, m)

Agree(frames, others, n) == \A f \in 1..n : others[f] = frames[f]

LEMMA ChainedBelow ==
    ASSUME NEW frames, NEW s, NEW n \in Nat, NEW m \in Nat, m <= n, Len(frames) \in Nat,
           Chained(frames, s, n)
    PROVE  Chained(frames, s, m)
BY DEF Chained

LEMMA ChainedAlike ==
    ASSUME NEW frames, NEW others, NEW s, NEW n \in Nat, Agree(frames, others, n),
           n <= Len(others), Chained(frames, s, n)
    PROVE  Chained(others, s, n)
<1> SUFFICES ASSUME NEW f \in 1..n
             PROVE  others[f].salt = s /\ others[f].after = Identity(others, f - 1)
    BY DEF Chained
<1>1. others[f] = frames[f] /\ frames[f].salt = s /\ frames[f].after = Identity(frames, f - 1)
    BY DEF Agree, Chained
<1>2. Identity(others, f - 1) = Identity(frames, f - 1)
    <2>1. CASE f - 1 = 0
        BY <2>1 DEF Identity
    <2>2. CASE f - 1 # 0
        <3>1. others[f - 1] = frames[f - 1]
            BY <2>2 DEF Agree
        <3> QED
            BY <2>2, <3>1 DEF Identity
    <2> QED
        BY <2>1, <2>2
<1> QED
    BY <1>1, <1>2

LEMMA OneEnd ==
    ASSUME NEW frames, NEW s, NEW n, NEW m, Len(frames) \in Nat,
           EndsAt(frames, s, n), EndsAt(frames, s, m)
    PROVE  n = m
<1>1. n \in Nat /\ m \in Nat /\ n <= Len(frames) /\ m <= Len(frames)
    BY DEF EndsAt, Chained
<1>2. \A a, b \in Nat : a < b /\ b <= Len(frames) => b \in (a + 1)..Len(frames) /\ b # 0
    OBVIOUS
<1>3. ~(n < m)
    BY <1>1, <1>2, Zenon DEF EndsAt, CommitAt
<1>4. ~(m < n)
    BY <1>1, <1>2, Zenon DEF EndsAt, CommitAt
<1> QED
    BY <1>1, <1>3, <1>4

\* No commit of the chain lies beyond its end.
LEMMA NoneBeyond ==
    ASSUME NEW frames, NEW s, NEW n, NEW m \in Nat, Len(frames) \in Nat,
           EndsAt(frames, s, n), Chained(frames, s, m), CommitAt(frames, m)
    PROVE  m <= n
<1>1. n \in Nat /\ m <= Len(frames)
    BY DEF EndsAt, Chained
<1>2. m > n => m \in (n + 1)..Len(frames) /\ m # 0
    BY <1>1
<1>3. ~(m > n)
    BY <1>2, Zenon DEF EndsAt, CommitAt
<1> QED
    BY <1>1, <1>3

\* A log of another salt has no chain, and ends before its first frame.
LEMMA NoChain ==
    ASSUME NEW frames, NEW s, Len(frames) \in Nat, \A f \in 1..Len(frames) : frames[f].salt # s
    PROVE  EndsAt(frames, s, 0)
<1>1. \A m \in (0 + 1)..Len(frames) : ~Chained(frames, s, m)
    BY DEF Chained
<1> QED
    BY <1>1 DEF EndsAt, CommitAt, Chained

\* walIndexRecover finds where the log's own chain ends.
LEMMA RecoveredEnd ==
    ASSUME NEW log \in Log, \A f \in 1..Len(log.frames) : log.frames[f].commit => log.frames[f].salt # 0
    PROVE  EndsAt(log.frames, log.salt, RecoveredHdr(log).mxFrame)
<1> DEFINE fr == log.frames
           n == Len(fr)
           good == {m \in 1..n : log.salt # 0 /\ \A f \in 1..m : Decodes(log, f)}
           S == {0} \cup {m \in good : fr[m].commit}
           mx == RecoveredHdr(log).mxFrame
<1>1. n \in Nat
    BY LenProperties DEF Log
<1>2. S \in SUBSET (0..n) /\ S # {}
    BY <1>1
<1>3. mx = Greatest(S)
    BY DEF RecoveredHdr
<1>4. mx \in S /\ \A x \in S : x <= mx
    <2> HIDE DEF S, mx, n
    <2> QED
        BY <1>1, <1>2, <1>3, GreatestOf
<1>5. \A m \in 1..n : m \in good <=> log.salt # 0 /\ Chained(fr, log.salt, m)
    BY <1>1 DEF Decodes, Chained
<1>6. \A m \in 1..n : m \in S <=> fr[m].commit /\ log.salt # 0 /\ Chained(fr, log.salt, m)
    BY <1>5
<1>7. mx \in 0..n
    BY <1>2, <1>4
<1>8. \A m \in 1..n : fr[m].commit /\ Chained(fr, log.salt, m) => m \in S
    <2> SUFFICES ASSUME NEW m \in 1..n, fr[m].commit, Chained(fr, log.salt, m)
                 PROVE  log.salt # 0
        BY <1>6
    <2>1. fr[m].salt = log.salt /\ fr[m].salt # 0
        BY DEF Chained
    <2> QED
        BY <2>1
<1> HIDE DEF S, mx, n, fr
<1>9. mx = 0 \/ (mx \in 1..n /\ fr[mx].commit /\ Chained(fr, log.salt, mx))
    BY <1>1, <1>4, <1>6, <1>7
<1>10. Chained(fr, log.salt, 0)
    BY <1>1 DEF Chained, n
<1>11. \A m \in (mx + 1)..n : ~(fr[m].commit /\ Chained(fr, log.salt, m))
    BY <1>1, <1>4, <1>7, <1>8
<1>12. mx \in Nat
    BY <1>1, <1>7
<1>13. EndsAt(fr, log.salt, mx)
    BY <1>9, <1>10, <1>11, <1>12 DEF EndsAt, CommitAt, n
<1> QED
    BY <1>13 DEF fr, mx

-----------------------------------------------------------------------------
(***************************************************************************)
(* The invariant of the log file.                                          *)
(***************************************************************************)
FrameCounted(x) ==
    /\ x.salt <= count.salt /\ x.tx <= count.tx /\ x.after[2] <= count.tx
    /\ x.commit => x.salt # 0
    /\ x.tx = Torn => x = TornFrame

LogCounted(log) == log.salt <= count.salt /\ \A f \in 1..Len(log.frames) : FrameCounted(log.frames[f])

Publishing == \E c \in Conn : pc[c] = "publish"

\* The header counts the frames up to the end of its chain.
Headed == hdr.isInit =>
    /\ hdr.mxFrame > 0 => wal.salt = hdr.salt
    /\ ~Publishing => EndsAt(wal.frames, hdr.salt, hdr.mxFrame)

\* Every page in the frames of the header has its last content there, copied
\* to the database or not.
Told == hdr.isInit =>
    \A p \in Page : \A f \in Nat \ {0} :
        LastIn(wal.frames, f, p, 1, hdr.mxFrame) => LastOf(history)[p] = wal.frames[f].tx

\* What could be recovered now.
Kept == \A n : EndsAt(wal.frames, wal.salt, n) => Makes(db, wal.frames, 1, n, LastOf(Reached))

Put1(c) == my[c].mxFrame + Cardinality(work[c].done)

\* A writer adds to the chain of the header, frame by frame.
Logged(c) ==
    /\ pc[c] \in {"synchdr", "log", "publish"} => wal.salt = my[c].salt /\ wal.salt # 0
    /\ pc[c] \in {"synchdr", "log"} => EndsAt(wal.frames, wal.salt, my[c].mxFrame)
    /\ pc[c] = "log" => Chained(wal.frames, wal.salt, Put1(c))
    /\ pc[c] = "publish" => EndsAt(wal.frames, wal.salt, Put1(c))

Transacts(c) == IsWriter(c) /\ pc[c] \notin {"read", "recover"}

\* No frame but those a writer has written is of its transaction or continues it.
FreshIn(c, frames) ==
    \A f \in 1..Len(frames) :
        frames[f].tx = count.tx \/ frames[f].after[2] = count.tx => f \in (my[c].mxFrame + 1)..Put1(c)

Fresh(c) == Transacts(c) => work[c].tx = count.tx /\ count.tx > 0 /\ FreshIn(c, wal.frames)

FileInv == LogCounted(wal) /\ Headed /\ Told /\ Kept /\ \A c \in Conn : Logged(c) /\ Fresh(c)

-----------------------------------------------------------------------------
\* The names of what an invariant is made of are numbers.
LEMMA LogTyped ==
    ASSUME ContentInv
    PROVE  /\ wal \in Log /\ wal.salt \in Nat /\ wal.frames \in Seq(AnyFrame)
           /\ Len(wal.frames) \in Nat
           /\ \A f \in 1..Len(wal.frames) : wal.frames[f] \in AnyFrame
           /\ \A c \in Conn : /\ Cardinality(work[c].done) \in Nat /\ my[c].mxFrame \in Nat
                              /\ my[c].salt \in Nat /\ Put1(c) \in Nat /\ my[c].mxFrame <= Put1(c)
<1>1. wal \in Log /\ wal.salt \in Nat /\ wal.frames \in Seq(AnyFrame)
    BY DEF ContentInv, Whole, FilesTyped, Log
<1>2. Len(wal.frames) \in Nat /\ \A f \in 1..Len(wal.frames) : wal.frames[f] \in AnyFrame
    BY <1>1, LenProperties, ElementOfSeq
<1>3. ASSUME NEW c \in Conn
      PROVE  /\ Cardinality(work[c].done) \in Nat /\ my[c].mxFrame \in Nat
             /\ my[c].salt \in Nat /\ Put1(c) \in Nat /\ my[c].mxFrame <= Put1(c)
    <2>1. work[c].done \subseteq Page /\ my[c].mxFrame \in Nat /\ my[c].salt \in Nat
        BY LeftAlone DEF ContentInv
    <2>2. Cardinality(work[c].done) \in Nat
        BY <2>1, WalAssumption, FS_Subset, FS_CardinalityType
    <2> QED
        BY <2>1, <2>2 DEF Put1
<1> QED
    BY <1>1, <1>2, <1>3

\* Nothing is being published unless a connection is about to.
LEMMA ReachedQuietly ==
    ~Publishing => Reached = history
BY DEF Publishing, Reached

LEMMA ReachedQuietlyThen ==
    ~Publishing' => Reached' = history'
BY DEF Publishing, Reached

\* If the chain is known to end somewhere, that is what recovery finds.
LEMMA KeptAt ==
    ASSUME Len(wal'.frames) \in Nat, NEW n, EndsAt(wal'.frames, wal'.salt, n),
           Makes(db', wal'.frames, 1, n, LastOf(Reached'))
    PROVE  Kept'
BY OneEnd DEF Kept

\* What the recovery of the log needs.
LEMMA CanRebuild ==
    ASSUME ContentInv, FileInv
    PROVE  Rebuildable
<1> SUFFICES ASSUME ~hdr.isInit
             PROVE  wal.salt <= count.salt /\ Shows(1, RecoveredHdr(wal).mxFrame)
    BY DEF Rebuildable
<1>1. wal.salt <= count.salt /\ \A f \in 1..Len(wal.frames) : wal.frames[f].commit => wal.frames[f].salt # 0
    BY DEF FileInv, LogCounted, FrameCounted
<1>2. EndsAt(wal.frames, wal.salt, RecoveredHdr(wal).mxFrame)
    BY <1>1, LogTyped, RecoveredEnd
<1>3. Reached = history
    BY ReachedQuietly DEF ContentInv, Whole, Pristine, Publishing
<1> QED
    BY <1>1, <1>2, <1>3 DEF FileInv, Kept, Shows

\* What walIndexRecover would rebuild now.
LEMMA RecoveredNow ==
    ASSUME NEW base \in [Page -> Int], NEW log \in Log, NEW content \in [Page -> Int],
           Makes(base, log.frames, 1, RecoveredHdr(log).mxFrame, content)
    PROVE  RecoveredContent(base, log) = content
<1> DEFINE pages == PagesOf(log.frames)
           mx == RecoveredHdr(log).mxFrame
<1>1. log.frames \in Seq(AnyFrame) /\ Len(log.frames) \in Nat
    BY LenProperties DEF Log
<1>2. mx \in 0..Len(log.frames)
    BY RecoveredTyped DEF Log
<1>3. DOMAIN log.frames = 1..Len(log.frames) /\ \A f \in 1..Len(log.frames) : log.frames[f] \in AnyFrame
    BY <1>1, LenProperties, ElementOfSeq
<1>4. pages = [f \in 1..Len(log.frames) |-> log.frames[f].page]
    BY <1>3 DEF PagesOf
<1>5. \A f \in 1..Len(log.frames) : log.frames[f].page \in Nat
    BY <1>3 DEF AnyFrame
<1> HIDE DEF pages, mx
<1>6. pages \in Seq(Nat)
    BY <1>1, <1>4, <1>5, IsASeq
<1>7. Len(pages) = Len(log.frames)
    BY <1>1, <1>4, <1>6, LenProperties
<1>8. /\ mx \in Nat /\ Len(pages) \in Nat /\ mx <= Len(pages)
      /\ \A g \in 1..mx : pages[g] = log.frames[g].page
    BY <1>1, <1>2, <1>4, <1>7
<1>9. Makes(base, log.frames, 1, mx, content)
    BY DEF mx
<1>10. ContentOf(base, log.frames, pages, 1, mx) = content
    BY <1>8, <1>9, ShownContent
<1> QED
    BY <1>10 DEF RecoveredContent, pages, mx

LEMMA KilledNow ==
    ASSUME ContentInv, FileInv
    PROVE  KilledNowKeepsCommits
<1>1. \A f \in 1..Len(wal.frames) : wal.frames[f].commit => wal.frames[f].salt # 0
    BY DEF FileInv, LogCounted, FrameCounted
<1>2. EndsAt(wal.frames, wal.salt, RecoveredHdr(wal).mxFrame)
    BY <1>1, LogTyped, RecoveredEnd
<1>3. Makes(db, wal.frames, 1, RecoveredHdr(wal).mxFrame, LastOf(Reached))
    BY <1>2 DEF FileInv, Kept
<1>4. LastOf(Reached) \in [Page -> Int]
    <2>1. Reached \in Seq([Page -> Int]) /\ Reached # <<>>
        BY ReachedTyped
    <2>2. Len(Reached) \in 1..Len(Reached)
        BY <2>1, LenProperties, EmptySeq
    <2> QED
        BY <2>1, <2>2, ElementOfSeq DEF LastOf
<1>5. db \in [Page -> Int] /\ history # <<>>
    BY DEF ContentInv, Whole, FilesTyped
<1> QED
    BY <1>3, <1>4, <1>5, LogTyped, RecoveredNow DEF KilledNowKeepsCommits

-----------------------------------------------------------------------------
(***************************************************************************)
(* Steps that leave the log, the header and the contents as they are.      *)
(***************************************************************************)
\* What a step of one connection does to the variables of the others.
LEMMA StepApart ==
    ASSUME ContentInv, NEW c \in Conn, StepOf(c),
           \A d \in Conn \ {c} : /\ my'[d] = my[d] /\ minFrame'[d] = minFrame[d]
                                  /\ at'[d] = at[d] /\ work'[d] = work[d]
    PROVE  Apart(c)
<1>1. \A d \in Conn \ {c} : shared'[d] = shared[d] /\ exclusive'[d] = exclusive[d]
    BY LockCallKeeps DEF ContentInv, StepOf
<1>2. PICK l : pc' = [pc EXCEPT ![c] = l]
    BY DEF StepOf, Arrives
<1>3. \A d \in Conn \ {c} : pc'[d] = pc[d]
    BY <1>2 DEF ContentInv, ConnsTyped
<1> QED
    BY <1>1, <1>3 DEF Apart, Same

\* The part of another connection stays.
LEMMA PartOfLogKept ==
    ASSUME NEW d \in Conn, Same(d), Logged(d), Fresh(d),
           UNCHANGED wal, count'.tx = count.tx
    PROVE  Logged(d)' /\ Fresh(d)'
BY DEF Same, Logged, Fresh, FreshIn, Transacts, IsWriter, Put1

LEMMA CountedStill ==
    ASSUME ContentInv, LogCounted(wal), UNCHANGED wal,
           MoreSalt, count'.tx \in Nat, count'.tx >= count.tx
    PROVE  LogCounted(wal)'
<1>1. wal.salt \in Nat /\ count.salt \in Nat /\ count.tx \in Nat
    BY Numbers, LogTyped
<1>2. ASSUME NEW f \in 1..Len(wal.frames)
      PROVE  /\ wal.frames[f].salt \in Nat /\ wal.frames[f].tx \in Int
             /\ wal.frames[f].after[2] \in Int
    BY LogTyped DEF AnyFrame
<1> QED
    BY <1>1, <1>2 DEF LogCounted, FrameCounted, MoreSalt

\* What a process that stopped now would have committed stays while nobody
\* publishes.
LEMMA ReachedStays ==
    ASSUME ContentInv, NEW c \in Conn, Apart(c), UNCHANGED history,
           pc[c] # "publish", pc'[c] # "publish"
    PROVE  Reached' = Reached
<1>0. Publishing' <=> Publishing
    BY DEF Publishing, Apart, Same
<1>1. CASE ~Publishing
    BY <1>0, <1>1, ReachedQuietly, ReachedQuietlyThen
<1>2. CASE Publishing
    <2>1. PICK d \in Conn : pc[d] = "publish"
        BY <1>2 DEF Publishing
    <2>2. /\ \A e \in Conn : pc[e] = "publish" => e = d
          /\ \A e \in Conn : pc'[e] = "publish" => e = d
          /\ pc'[d] = "publish"
        <3>1. WAL_WRITE_LOCK \in exclusive[d]
            BY <2>1 DEF ContentInv, Part, Own, Writing
        <3>2. \A e \in Conn : pc[e] = "publish" => e = d
            BY <3>1, OnlyWriter DEF Writing
        <3> QED
            BY <2>1, <3>2 DEF Apart, Same
    <2>3. (CHOOSE e \in Conn : pc[e] = "publish") = d
        BY <2>1, <2>2
    <2>4. (CHOOSE e \in Conn : pc'[e] = "publish") = d
        BY <2>1, <2>2
    <2>5. Reached = Append(history, Written(d))
        BY <1>2, <2>3 DEF Reached, Publishing
    <2>6. Reached' = Append(history', Written(d)')
        <3>1. Reached' = Append(history', Written(CHOOSE e \in Conn : pc[e] = "publish")')
            BY <1>0, <1>2 DEF Reached, Publishing
        <3> QED
            BY <2>4, <3>1 DEF Written
    <2>7. Written(d)' = Written(d)
        BY <2>1 DEF Written, Apart, Same
    <2> QED
        BY <2>5, <2>6, <2>7
<1> QED
    BY <1>1, <1>2

LEMMA QuietFiles ==
    ASSUME ContentInv, FileInv, NEW c \in Conn, Apart(c),
           UNCHANGED <<db, wal, hdr, history>>, count'.tx = count.tx, MoreSalt,
           pc[c] # "publish", pc'[c] # "publish", Logged(c)', Fresh(c)'
    PROVE  FileInv'
<1>1. Publishing' <=> Publishing
    BY DEF Publishing, Apart, Same
<1>2. LogCounted(wal)'
    BY CountedStill, Numbers DEF FileInv
<1>3. Headed' /\ Told'
    BY <1>1 DEF FileInv, Headed, Told
<1>4. Reached' = Reached
    BY ReachedStays
<1>5. Kept'
    BY <1>4 DEF FileInv, Kept
<1>6. ASSUME NEW d \in Conn \ {c} PROVE Logged(d)' /\ Fresh(d)'
    BY PartOfLogKept DEF FileInv, Apart
<1> QED
    BY <1>2, <1>3, <1>5, <1>6 DEF FileInv

\* A writer is where it was with the header and the transaction it had.
Holds(c) ==
    Transacts(c)' => /\ Transacts(c)
                     /\ my'[c].mxFrame = my[c].mxFrame /\ work'[c] = work[c]

LEMMA HeldFresh ==
    ASSUME NEW c \in Conn, Fresh(c), Holds(c), UNCHANGED wal, count'.tx = count.tx
    PROVE  Fresh(c)'
<1> SUFFICES ASSUME Transacts(c)'
             PROVE  work'[c].tx = count.tx /\ count.tx > 0 /\ FreshIn(c, wal.frames)'
    BY DEF Fresh
<1>1. /\ Transacts(c) /\ my'[c].mxFrame = my[c].mxFrame /\ work'[c] = work[c]
    BY DEF Holds
<1> QED
    BY <1>1 DEF Fresh, FreshIn, Put1

\* Where nothing is owed to the log.
Afar == {"idle", "choose", "lock", "check", "read", "recover", "restartlog", "restart",
         "restarted", "frames"} \cup Checkpointing

LEMMA FarFiles ==
    ASSUME ContentInv, FileInv, NEW c \in Conn, Apart(c),
           UNCHANGED <<db, wal, hdr, history>>, count'.tx = count.tx, MoreSalt,
           pc[c] # "publish", pc'[c] \in Afar, Holds(c)
    PROVE  FileInv'
<1>1. Logged(c)' /\ pc'[c] # "publish"
    BY DEF Logged, Afar, Checkpointing, Copying
<1>2. Fresh(c)'
    BY HeldFresh DEF FileInv
<1> QED
    BY <1>1, <1>2, QuietFiles

\* Who leaves or tries again.
LEMMA BackFar ==
    ASSUME ConnsTyped, NEW c \in Conn, UNCHANGED work,
           \/ Leave(c) /\ ~IsWriter(c)'
           \/ Retry(c) /\ exclusive'[c] \subseteq exclusive[c] /\ pc[c] \notin {"read", "recover"}
    PROVE  /\ pc'[c] \in Afar /\ Holds(c)
           /\ \A d \in Conn \ {c} : /\ my'[d] = my[d] /\ minFrame'[d] = minFrame[d]
                                    /\ at'[d] = at[d]
<1>1. CASE Leave(c) /\ ~IsWriter(c)'
    BY <1>1 DEF Leave, Goto, Holds, Transacts, Afar, ConnsTyped
<1>2. CASE /\ pc' = [pc EXCEPT ![c] = "choose"] /\ UNCHANGED <<my, minFrame, at>> /\ IsWriter(c)
           /\ pc[c] \notin {"read", "recover"}
    <2>1. pc'[c] = "choose"
        BY <1>2 DEF ConnsTyped
    <2> QED
        BY <1>2, <2>1 DEF Holds, Transacts, Afar
<1>3. CASE Leave(c) /\ ~IsWriter(c) /\ exclusive'[c] \subseteq exclusive[c]
    BY <1>1, <1>3 DEF IsWriter
<1> QED
    BY <1>1, <1>2, <1>3 DEF Retry, Goto

\* A step of one connection on its own variables.
Acts(c) ==
    /\ StepOf(c)
    /\ \A d \in Conn \ {c} : /\ my'[d] = my[d] /\ minFrame'[d] = minFrame[d]
                             /\ at'[d] = at[d] /\ work'[d] = work[d]

\* A step that leaves the log, the header, the contents and the counts.
Far(c) ==
    /\ UNCHANGED <<db, wal, hdr, history>> /\ count'.tx = count.tx /\ MoreSalt
    /\ pc[c] # "publish" /\ pc'[c] \in Afar /\ Holds(c)

\* Two steps of a reader that concern a writer too.
LEMMA ChooseFar ==
    ASSUME ContentInv, NEW c \in Conn \ Checkpointer, ChooseMark(c) \/ LockMark(c) \/ IgnoreLog(c)
    PROVE  Acts(c) /\ Far(c)
<1>1. /\ ConnsTyped /\ Own(c) /\ UNCHANGED <<db, wal, hdr, history, count, work, exclusive>>
      /\ pc[c] \in {"choose", "lock"}
    BY DEF ChooseMark, LockMark, IgnoreLog, ContentInv, Part, files, shm, ghosts, lockVars, Share
<1>2. CASE Retry(c)
    BY <1>1, <1>2, BackFar, Numbers, ReaderSteps DEF Acts, Far, MoreSalt, ContentInv, BeginRead
<1>3. CASE ~Retry(c)
    <2>1. /\ pc' = [pc EXCEPT ![c] = "lock"] \/ pc' = [pc EXCEPT ![c] = "check"]
              \/ pc' = [pc EXCEPT ![c] = "read"]
          /\ UNCHANGED my
          /\ minFrame' = [minFrame EXCEPT ![c] = nBackfill + 1] \/ UNCHANGED minFrame
          /\ UNCHANGED at \/ \E a : at' = [at EXCEPT ![c] = a]
        <3>1. CASE ChooseMark(c)
            BY <1>3, <3>1 DEF ChooseMark, Goto
        <3>2. CASE LockMark(c)
            BY <1>3, <3>2 DEF LockMark, Goto
        <3>3. CASE IgnoreLog(c)
            BY <1>3, <3>3 DEF IgnoreLog, Goto
        <3> QED
            BY <3>1, <3>2, <3>3
    <2>2. /\ pc'[c] \in {"lock", "check", "read"}
          /\ \A d \in Conn \ {c} : /\ my'[d] = my[d] /\ minFrame'[d] = minFrame[d]
                                   /\ at'[d] = at[d] /\ work'[d] = work[d]
        BY <1>1, <2>1 DEF ConnsTyped
    <2>3. pc'[c] \in Afar /\ Holds(c)
        BY <1>1, <2>1, <2>2 DEF Afar, Holds, Transacts, IsWriter
    <2> QED
        BY <1>1, <2>2, <2>3, Numbers, ReaderSteps DEF Acts, Far, MoreSalt, ContentInv, BeginRead
<1> QED
    BY <1>2, <1>3

LEMMA ReadFar ==
    ASSUME ContentInv, NEW c \in Conn \ Checkpointer,
           ReadHdr(c) \/ CheckMark(c) \/ EndTransaction(c)
    PROVE  Acts(c) /\ Far(c)
<1>1. ConnsTyped /\ Own(c) /\ UNCHANGED <<db, wal, hdr, history, count, work>>
    BY DEF ReadHdr, CheckMark, EndTransaction, ContentInv, Part, files, shm, ghosts
<1>2. CASE ReadHdr(c)
    <2>1. /\ pc[c] = "idle" /\ pc' = [pc EXCEPT ![c] = "choose"] /\ my' = [my EXCEPT ![c] = hdr]
          /\ UNCHANGED <<minFrame, at, exclusive>>
        BY <1>2 DEF ReadHdr, Goto, lockVars
    <2>2. ~IsWriter(c)'
        BY <1>1, <2>1 DEF Own, Free, IsWriter
    <2>3. /\ pc'[c] = "choose" /\ Holds(c)
          /\ \A d \in Conn \ {c} : my'[d] = my[d]
        BY <1>1, <2>1, <2>2 DEF ConnsTyped, Holds, Transacts
    <2> QED
        BY <1>1, <1>2, <2>1, <2>3, Numbers, ReaderSteps
           DEF Acts, Far, MoreSalt, ContentInv, BeginRead, Afar
<1>3. CASE CheckMark(c)
    <2>1. /\ pc[c] = "check"
          /\ \/ /\ pc' = [pc EXCEPT ![c] = "read"] \/ pc' = [pc EXCEPT ![c] = "frames"]
                /\ at' = [at EXCEPT ![c] = <<0, 0>>]
                /\ UNCHANGED <<my, minFrame, exclusive>>
             \/ Retry(c) /\ exclusive' = [exclusive EXCEPT ![c] = @ \ shared[c]]
        BY <1>3 DEF CheckMark, Goto, lockVars, Release
    <2>2. CASE Retry(c) /\ exclusive' = [exclusive EXCEPT ![c] = @ \ shared[c]]
        <3>1. exclusive'[c] \subseteq exclusive[c]
            BY <1>1, <2>2 DEF ConnsTyped
        <3> QED
            BY <1>1, <1>3, <2>1, <2>2, <3>1, BackFar, Numbers, ReaderSteps
               DEF Acts, Far, MoreSalt, ContentInv, BeginRead
    <2>3. CASE /\ pc' = [pc EXCEPT ![c] = "read"] \/ pc' = [pc EXCEPT ![c] = "frames"]
               /\ at' = [at EXCEPT ![c] = <<0, 0>>]
               /\ UNCHANGED <<my, minFrame, exclusive>>
        <3>1. /\ pc'[c] \in {"read", "frames"} /\ Holds(c)
              /\ \A d \in Conn \ {c} : at'[d] = at[d]
              /\ UNCHANGED <<my, minFrame>>
            BY <1>1, <2>1, <2>3 DEF ConnsTyped, Holds, Transacts, IsWriter
        <3> QED
            BY <1>1, <1>3, <2>1, <3>1, Numbers, ReaderSteps
               DEF Acts, Far, MoreSalt, ContentInv, BeginRead, Afar
    <2> QED
        BY <2>1, <2>2, <2>3
<1>4. CASE EndTransaction(c)
    <2>1. pc[c] = "read" /\ Leave(c) /\ Release(c, Slot)
        BY <1>4 DEF EndTransaction
    <2>2. ~IsWriter(c)'
        BY <1>1, <2>1 DEF Release, ConnsTyped, IsWriter
    <2> QED
        BY <1>1, <1>4, <2>1, <2>2, BackFar, Numbers, ReaderSteps
           DEF Acts, Far, MoreSalt, ContentInv
<1> QED
    BY <1>2, <1>3, <1>4

LEMMA WriteFar ==
    ASSUME ContentInv, NEW c \in Conn \ Checkpointer,
           ResetCkptInfo(c) \/ RestartMarks(c) \/ LeaveZero(c)
    PROVE  Acts(c) /\ Far(c)
<1>1. /\ ConnsTyped /\ UNCHANGED <<db, wal, hdr, history, count, my, minFrame, at, work>>
      /\ \E slots : Release(c, slots)
    BY DEF ResetCkptInfo, RestartMarks, LeaveZero, ContentInv, files, shm, ghosts
<1>2. exclusive'[c] \subseteq exclusive[c]
    BY <1>1 DEF Release, ConnsTyped
<1>3. CASE RestartMarks(c) \/ LeaveZero(c)
    <2>1. /\ pc[c] \in {"restart", "restarted", "restartlog"}
          /\ pc' = [pc EXCEPT ![c] = "restarted"] \/ pc' = [pc EXCEPT ![c] = "choose"]
        BY <1>3 DEF RestartMarks, LeaveZero, Goto
    <2>2. pc'[c] \in {"restarted", "choose"} /\ Holds(c)
        BY <1>1, <1>2, <2>1 DEF ConnsTyped, Holds, Transacts, IsWriter
    <2> QED
        BY <1>1, <1>3, <2>1, <2>2, Numbers, WriterSteps
           DEF Acts, Far, MoreSalt, ContentInv, WriteTransaction, Afar
<1>4. CASE ResetCkptInfo(c)
    <2>1. /\ pc[c] = "recover" /\ pc' = [pc EXCEPT ![c] = "idle"] /\ Release(c, Slot)
        BY <1>4 DEF ResetCkptInfo, Goto
    <2>2. pc'[c] = "idle" /\ ~IsWriter(c)'
        BY <1>1, <2>1 DEF ConnsTyped, Release, IsWriter
    <2> QED
        BY <1>1, <1>4, <2>1, <2>2, Numbers, RecoverySteps
           DEF Acts, Far, MoreSalt, ContentInv, Afar, Holds, Transacts
<1> QED
    BY <1>3, <1>4

LEMMA CheckpointFar ==
    ASSUME ContentInv, NEW c \in Checkpointer,
           \/ BeginCheckpoint(c) \/ SomethingToDo(c) \/ LimitByMark(c) \/ SyncLog(c)
           \/ FailSyncLog(c) \/ Backfilled(c) \/ EndCheckpoint(c)
    PROVE  Acts(c) /\ Far(c)
<1>0. c \in Conn /\ ConnsTyped /\ Own(c) /\ StepOf(c) /\ FilesTyped
    BY WalAssumption, CheckpointSteps DEF ContentInv, Part, Checkpoint, Whole
<1>1. UNCHANGED <<db, wal, hdr, history>>
    BY DEF BeginCheckpoint, SomethingToDo, LimitByMark, SyncLog, FailSyncLog, Backfilled, EndCheckpoint,
           files, shm, ghosts
<1>2. count'.tx = count.tx /\ MoreSalt
    <2>1. CASE UNCHANGED count
        BY <2>1, Numbers DEF MoreSalt
    <2>2. CASE Counts("checkpoints") \/ Counts("faults")
        BY <1>0, <2>2, Counted DEF Counts, FilesTyped
    <2> QED
        BY <2>1, <2>2
           DEF BeginCheckpoint, SomethingToDo, LimitByMark, SyncLog, FailSyncLog, Backfilled, EndCheckpoint
<1>3. pc[c] \in {"idle"} \cup Checkpointing /\ ~IsWriter(c)
    BY <1>0 DEF Own, Free, Checkpointing, Copying, IsWriter
<1>4. pc'[c] \in {"idle"} \cup Checkpointing
    BY <1>0
       DEF BeginCheckpoint, SomethingToDo, LimitByMark, SyncLog, FailSyncLog, Backfilled, EndCheckpoint, Goto,
           Leave, ConnsTyped, Checkpointing, Copying
<1>5. ~IsWriter(c)'
    <2>1. WAL_WRITE_LOCK # WAL_CKPT_LOCK /\ WAL_WRITE_LOCK # WAL_READ_LOCK(0)
        BY DEF WAL_WRITE_LOCK, WAL_CKPT_LOCK, WAL_READ_LOCK
    <2>2. CASE BeginCheckpoint(c) \/ SyncLog(c) \/ FailSyncLog(c)
        BY <1>0, <1>3, <2>1, <2>2 DEF BeginCheckpoint, SyncLog, FailSyncLog, Exclude, IsWriter, ConnsTyped
    <2>3. CASE SomethingToDo(c) \/ LimitByMark(c) \/ Backfilled(c) \/ EndCheckpoint(c)
        BY <1>0, <1>3, <2>3
           DEF SomethingToDo, LimitByMark, Backfilled, EndCheckpoint, lockVars, Release,
               IsWriter, ConnsTyped
    <2> QED
        BY <2>2, <2>3
<1>6. \A d \in Conn \ {c} : /\ my'[d] = my[d] /\ minFrame'[d] = minFrame[d]
                            /\ at'[d] = at[d] /\ work'[d] = work[d]
    <2>1. CASE BeginCheckpoint(c) \/ SyncLog(c) \/ FailSyncLog(c)
        BY <1>0, <2>1 DEF BeginCheckpoint, SyncLog, FailSyncLog, ConnsTyped
    <2>2. CASE SomethingToDo(c) \/ Backfilled(c)
        BY <1>0, <2>2 DEF SomethingToDo, Backfilled, ConnsTyped
    <2>3. CASE LimitByMark(c)
        BY <1>0, <2>3 DEF LimitByMark, ConnsTyped
    <2>4. CASE EndCheckpoint(c)
        BY <1>0, <2>4 DEF EndCheckpoint, Leave, ConnsTyped
    <2> QED
        BY <2>1, <2>2, <2>3, <2>4
<1> QED
    BY <1>0, <1>1, <1>2, <1>3, <1>4, <1>5, <1>6
       DEF Acts, Far, Afar, Holds, Transacts, Checkpointing, Copying

LEMMA FarSteps ==
    ASSUME ContentInv, FileInv, NEW c \in Conn, Acts(c), Far(c)
    PROVE  FileInv'
<1>1. Apart(c)
    BY StepApart DEF Acts
<1> QED
    BY <1>1, FarFiles DEF Far

-----------------------------------------------------------------------------
(***************************************************************************)
(* What the end of a chain shows.                                          *)
(***************************************************************************)

\* The pages of the header's frames and of the database show the last content.
LEMMA AllShown ==
    ASSUME ContentInv, Told, hdr.isInit
    PROVE  Makes(db, wal.frames, 1, hdr.mxFrame, LastOf(history))
<1> SUFFICES ASSUME NEW p \in Page, NEW f \in Nat, LastIn(wal.frames, f, p, 1, hdr.mxFrame)
             PROVE  LastOf(history)[p] = IF f = 0 THEN db[p] ELSE wal.frames[f].tx
    BY DEF Makes
<1>1. CASE f # 0
    BY <1>1 DEF Told
<1>2. CASE f = 0
    <2>1. LastIn(wal.frames, 0, p, nBackfill + 1, hdr.mxFrame)
        BY <1>2, Numbers DEF LastIn
    <2> QED
        BY <1>2, <2>1 DEF ContentInv, Whole, Seen, Shows, Makes
<1> QED
    BY <1>1, <1>2

\* With the frames of a transaction that is about to be published the log
\* shows what it has written.
LEMMA WrittenShown ==
    ASSUME ContentInv, Told, NEW c \in Conn, pc[c] = "publish"
    PROVE  /\ Makes(db, wal.frames, 1, Put1(c), Written(c))
           /\ Reached = Append(history, Written(c)) /\ LastOf(Reached) = Written(c)
<1> DEFINE mx == my[c].mxFrame
           last == Put1(c)
           w == work[c]
<1>1. /\ hdr.isInit /\ mx = hdr.mxFrame /\ WAL_WRITE_LOCK \in exclusive[c]
      /\ LogHolds(c) /\ w.pages = w.done
    BY Built DEF ContentInv, Part, Writes, Own, Writing
<1>2. mx \in Nat /\ last \in Nat /\ mx <= last
    BY LogTyped
<1>3. /\ \A f \in (mx + 1)..last : wal.frames[f].page \in w.pages /\ wal.frames[f].tx = w.tx
      /\ \A p \in w.pages : \E f \in (mx + 1)..last : wal.frames[f].page = p
    BY <1>1 DEF LogHolds, Put1
<1>4. Makes(db, wal.frames, 1, mx, LastOf(history))
    BY <1>1, AllShown
<1> HIDE DEF mx, last, w
<1>5. Makes(db, wal.frames, 1, last, Written(c))
    <2> SUFFICES ASSUME NEW p \in Page, NEW f \in Nat, LastIn(wal.frames, f, p, 1, last)
                 PROVE  Written(c)[p] = IF f = 0 THEN db[p] ELSE wal.frames[f].tx
        BY DEF Makes
    <2>1. CASE p \in w.pages
        <3>1. PICK g \in (mx + 1)..last : wal.frames[g].page = p
            BY <1>3, <2>1
        <3>2. f \in (mx + 1)..last
            <4>1. g \in 1..last
                BY <1>2, <3>1
            <4>2. f # 0 /\ f <= last /\ \A e \in (f + 1)..last : wal.frames[e].page # p
                BY <1>2, <3>1, <4>1 DEF LastIn
            <4>3. ~(f < g)
                BY <1>2, <3>1, <4>2
            <4> QED
                BY <1>2, <3>1, <4>2, <4>3
        <3>3. f # 0 /\ wal.frames[f].tx = w.tx
            BY <1>2, <1>3, <3>2
        <3> QED
            BY <2>1, <3>3 DEF Written, w
    <2>2. CASE p \notin w.pages
        <3>1. \A g \in (mx + 1)..last : wal.frames[g].page # p
            BY <1>3, <2>2
        <3>2. LastIn(wal.frames, f, p, 1, mx)
            BY <1>2, <3>1, LastBelow
        <3>3. LastOf(history)[p] = IF f = 0 THEN db[p] ELSE wal.frames[f].tx
            BY <1>4, <3>2 DEF Makes
        <3> QED
            BY <2>2, <3>3 DEF Written, w
    <2> QED
        BY <2>1, <2>2
<1>6. (CHOOSE e \in Conn : pc[e] = "publish") = c
    <2>1. \A e \in Conn : pc[e] = "publish" => e = c
        BY <1>1, OnlyWriter DEF Writing
    <2> QED
        BY <2>1
<1>7. Reached = Append(history, Written(c))
    BY <1>6 DEF Reached
<1> QED
    BY <1>5, <1>7, LastContent, WrittenTyped DEF last

LEMMA EndsStill ==
    ASSUME NEW frames, NEW put, NEW s, NEW n, NEW f \in Nat, n < f,
           EndsAt(frames, s, n), Len(frames) \in Nat, Len(put) \in Nat,
           f <= Len(frames) + 1, f <= Len(put), Agree(frames, put, f - 1),
           \A m \in f..Len(put) : put[m].commit => ~Chained(put, s, m)
    PROVE  EndsAt(put, s, n)
<1>1. n \in Nat /\ n <= Len(frames) /\ n <= Len(put) /\ n <= f - 1
    BY DEF EndsAt, Chained
<1>2. Agree(frames, put, n)
    BY <1>1 DEF Agree
<1>3. Chained(put, s, n)
    BY <1>1, <1>2, ChainedAlike DEF EndsAt
<1>4. CommitAt(put, n)
    <2>1. n # 0 => n \in 1..n
        BY <1>1
    <2> QED
        BY <1>2, <2>1 DEF CommitAt, EndsAt, Agree
<1>5. ASSUME NEW m \in (n + 1)..Len(put), put[m].commit
      PROVE  ~Chained(put, s, m)
    <2>1. CASE m \in f..Len(put)
        BY <1>5, <2>1
    <2>2. CASE m \in (n + 1)..(f - 1)
        <3>1. m \in Nat /\ m \in 1..(f - 1) /\ m <= Len(frames) /\ m \in (n + 1)..Len(frames)
            BY <1>1, <2>2
        <3>2. put[m] = frames[m] /\ Agree(put, frames, m)
            BY <3>1 DEF Agree
        <3>3. ~Chained(frames, s, m)
            BY <1>5, <3>1, <3>2 DEF EndsAt
        <3> QED
            BY <3>1, <3>2, <3>3, ChainedAlike
    <2> QED
        BY <1>1, <2>1, <2>2
<1> QED
    BY <1>1, <1>3, <1>4, <1>5 DEF EndsAt

\* A frame that continues the chain.
LEMMA ChainGrows ==
    ASSUME NEW frames, NEW put, NEW s, NEW f \in Nat \ {0}, Chained(frames, s, f - 1),
           Agree(frames, put, f - 1), f <= Len(put), Len(put) \in Nat,
           put[f].salt = s, put[f].after = Identity(frames, f - 1)
    PROVE  Chained(put, s, f)
<1>1. Chained(put, s, f - 1)
    BY ChainedAlike
<1>2. Identity(put, f - 1) = Identity(frames, f - 1)
    <2>1. f - 1 # 0 => put[f - 1] = frames[f - 1]
        BY DEF Agree
    <2> QED
        BY <2>1 DEF Identity
<1>3. \A g \in 1..f : g = f \/ g \in 1..(f - 1)
    OBVIOUS
<1> QED
    BY <1>1, <1>2, <1>3 DEF Chained

\* The chain of another salt does not begin.
LEMMA OtherSalt ==
    ASSUME NEW frames, NEW s, NEW t, s # t, Len(frames) \in Nat, NEW f \in Nat \ {0},
           Chained(frames, t, f)
    PROVE  EndsAt(frames, s, 0)
<1>1. frames[1].salt = t
    BY DEF Chained
<1>2. \A m \in (0 + 1)..Len(frames) : ~Chained(frames, s, m)
    BY <1>1 DEF Chained
<1> QED
    BY <1>2 DEF EndsAt, CommitAt, Chained

\* Nor does a chain go over a torn frame to a commit.
LEMMA TornEnds ==
    ASSUME NEW frames, NEW s, Len(frames) \in Nat, NEW f \in Nat \ {0}, frames[f] = TornFrame,
           \A m \in 1..Len(frames) : frames[m].commit => frames[m].salt # 0
    PROVE  \A m \in f..Len(frames) : frames[m].commit => ~Chained(frames, s, m)
<1> SUFFICES ASSUME NEW m \in f..Len(frames), frames[m].commit, Chained(frames, s, m)
             PROVE  FALSE
    OBVIOUS
<1>1. f \in 1..m /\ m \in 1..m /\ m \in 1..Len(frames)
    OBVIOUS
<1>2. frames[f].salt = s /\ frames[m].salt = s
    BY <1>1 DEF Chained
<1>3. frames[f].salt = 0
    BY DEF TornFrame
<1> QED
    BY <1>1, <1>2, <1>3

-----------------------------------------------------------------------------
(***************************************************************************)
(* What recovery would find, from where the chain ends.                    *)
(***************************************************************************)
Ends ==
    /\ ContentInv /\ Told /\ hdr.isInit
    /\ \/ ~Publishing /\ EndsAt(wal.frames, wal.salt, hdr.mxFrame)
       \/ \E c \in Conn : pc[c] = "publish" /\ EndsAt(wal.frames, wal.salt, Put1(c))

LEMMA KeptAtEnds == Ends => Kept
<1> SUFFICES ASSUME Ends, NEW n, EndsAt(wal.frames, wal.salt, n)
             PROVE  Makes(db, wal.frames, 1, n, LastOf(Reached))
    BY DEF Kept
<1>1. ContentInv /\ Told /\ hdr.isInit /\ Len(wal.frames) \in Nat
    BY Numbers DEF Ends
<1>2. CASE ~Publishing /\ EndsAt(wal.frames, wal.salt, hdr.mxFrame)
    BY <1>1, <1>2, OneEnd, AllShown, ReachedQuietly
<1>3. CASE \E c \in Conn : pc[c] = "publish" /\ EndsAt(wal.frames, wal.salt, Put1(c))
    <2>1. PICK c \in Conn : pc[c] = "publish" /\ EndsAt(wal.frames, wal.salt, Put1(c))
        BY <1>3
    <2>2. n = Put1(c)
        BY <1>1, <2>1, OneEnd
    <2> QED
        BY <1>1, <2>1, <2>2, WrittenShown
<1> QED
    BY <1>2, <1>3 DEF Ends

LEMMA KeptThen == Ends' => Kept'
BY KeptAtEnds, PTL

\* A log whose header has frames ends where they do, or with those that are
\* about to be published.
HasFrames ==
    /\ ContentInv /\ Headed /\ Told /\ hdr.isInit /\ hdr.mxFrame > 0
    /\ \A c \in Conn : Logged(c)

LEMMA HeadedEnds == HasFrames => Ends
<1> SUFFICES ASSUME HasFrames PROVE Ends
    OBVIOUS
<1> USE DEF HasFrames
<1>1. wal.salt = hdr.salt
    BY DEF Headed
<1>2. CASE ~Publishing
    BY <1>1, <1>2 DEF Ends, Headed
<1>3. CASE Publishing
    <2>1. PICK c \in Conn : pc[c] = "publish"
        BY <1>3 DEF Publishing
    <2>2. EndsAt(wal.frames, wal.salt, Put1(c))
        BY <2>1 DEF Logged
    <2> QED
        BY <2>1, <2>2 DEF Ends
<1> QED
    BY <1>2, <1>3

LEMMA HeadedThen == HasFrames' => Ends'
BY HeadedEnds, PTL

\* A connection that does not hold WRITE_LOCK owes nothing to the log.
OwesNone(c) == Logged(c) /\ Fresh(c) /\ pc[c] \notin Writing

LEMMA OwesNothing ==
    ASSUME NEW c \in Conn
    PROVE  ContentInv /\ ~IsWriter(c) => OwesNone(c)
<1> SUFFICES ASSUME ContentInv, ~IsWriter(c) PROVE OwesNone(c)
    OBVIOUS
<1>1. pc[c] \notin Writing
    BY DEF ContentInv, Part, Own, IsWriter
<1> QED
    BY <1>1 DEF OwesNone, Logged, Fresh, Transacts, Writing

LEMMA OwesThen ==
    ASSUME NEW c \in Conn
    PROVE  ContentInv' /\ ~IsWriter(c)' => OwesNone(c)'
<1>1. ContentInv /\ ~IsWriter(c) => OwesNone(c)
    BY OwesNothing
<1> QED
    BY <1>1, PTL

\* The other connections when one holds WRITE_LOCK before and after its step.
LEMMA OthersOwe ==
    ASSUME ContentInv, ContentInv', NEW c \in Conn, WAL_WRITE_LOCK \in exclusive[c],
           Apart(c), NEW d \in Conn \ {c}
    PROVE  /\ Logged(d)' /\ Fresh(d)'
           /\ pc[d] \notin Writing \cup {"recover"} /\ pc'[d] \notin Writing \cup {"recover"}
<1>1. WAL_WRITE_LOCK \notin exclusive[d] /\ pc[d] \notin Writing \cup {"recover"}
    BY OnlyWriter
<1>2. ~IsWriter(d)' /\ pc'[d] = pc[d]
    BY <1>1 DEF Apart, Same, IsWriter
<1> QED
    BY <1>1, <1>2, OwesThen DEF OwesNone, Apart, Same

-----------------------------------------------------------------------------
(***************************************************************************)
(* Writing frames.                                                         *)
(***************************************************************************)

\* What a writer that may write a frame finds.
Chaining(c) ==
    /\ wal.salt = my[c].salt /\ wal.salt # 0 /\ my[c].mxFrame = hdr.mxFrame
    /\ EndsAt(wal.frames, wal.salt, my[c].mxFrame)
    /\ Chained(wal.frames, wal.salt, Put1(c))
    /\ EndsAt(wal.frames, hdr.salt, hdr.mxFrame)
    /\ work[c].tx = count.tx /\ count.tx > 0 /\ FreshIn(c, wal.frames)
    /\ ~Publishing

LEMMA WriterChain ==
    ASSUME ContentInv, FileInv, NEW c \in Conn \ Checkpointer, InLog(c)
    PROVE  Chaining(c)
<1>1. /\ WAL_WRITE_LOCK \in exclusive[c] /\ hdr.isInit /\ pc[c] \in {"frames", "log"}
      /\ my[c].mxFrame = hdr.mxFrame
    BY ReadyToWrite
<1>2. ~Publishing
    BY <1>1, OnlyWriter DEF Publishing, Writing
<1>3. EndsAt(wal.frames, hdr.salt, hdr.mxFrame)
    BY <1>1, <1>2 DEF FileInv, Headed
<1>4. work[c].tx = count.tx /\ count.tx > 0 /\ FreshIn(c, wal.frames)
    BY <1>1 DEF FileInv, Fresh, Transacts, IsWriter
<1>5. CASE pc[c] = "log"
    BY <1>1, <1>2, <1>3, <1>4, <1>5 DEF FileInv, Logged, Chaining
<1>6. CASE pc[c] = "frames" /\ my[c].mxFrame > 0
    <2>1. my[c] = hdr /\ work[c].done = {}
        BY <1>1, <1>6 DEF ContentInv, Part, Writes, Own
    <2>2. wal.salt = hdr.salt
        BY <1>1, <1>6, <2>1 DEF FileInv, Headed
    <2>3. Put1(c) = my[c].mxFrame
        <3>1. Cardinality(work[c].done) = 0
            BY <2>1, FS_EmptySet
        <3> QED
            BY <3>1, LogTyped DEF Put1
    <2>4. EndsAt(wal.frames, wal.salt, my[c].mxFrame) /\ Chained(wal.frames, wal.salt, Put1(c))
        BY <1>3, <2>1, <2>2, <2>3 DEF EndsAt
    <2>5. wal.salt # 0
        <3>1. my[c].mxFrame \in 1..my[c].mxFrame /\ my[c].mxFrame \in 1..Len(wal.frames)
            BY <1>6, <2>4, LogTyped DEF EndsAt, Chained
        <3>2. wal.frames[my[c].mxFrame].commit /\ wal.frames[my[c].mxFrame].salt = wal.salt
            BY <1>6, <2>4, <3>1, LogTyped DEF EndsAt, Chained, CommitAt
        <3> QED
            BY <3>1, <3>2 DEF FileInv, LogCounted, FrameCounted
    <2> QED
        BY <1>1, <1>2, <1>3, <1>4, <2>1, <2>2, <2>4, <2>5 DEF Chaining
<1> QED
    BY <1>1, <1>5, <1>6 DEF InLog

\* What writing the frame of a page does.
FrameOf(c, p, last) ==
    [salt |-> my[c].salt, page |-> p, tx |-> work[c].tx, commit |-> last,
     after |-> Identity(wal.frames, Put1(c))]

Wrote(c, p, last) ==
    /\ p \in work[c].pages \ work[c].done
    /\ Extends(wal', Put1(c) + 1, FrameOf(c, p, last)) /\ wal'.salt = wal.salt
    /\ Put1(c) <= Len(wal.frames)
    /\ Apart(c) /\ my'[c] = my[c] /\ work'[c].tx = work[c].tx /\ Put1(c)' = Put1(c) + 1
    /\ pc'[c] = IF last THEN "publish" ELSE "log"
    /\ UNCHANGED <<db, dbDisk, walDisk, hdr, nBackfill, history, durable, count>>

LEMMA WritesOne ==
    ASSUME ContentInv, NEW c \in Conn \ Checkpointer, WriteFrame(c)
    PROVE  \E p \in Page : \E last \in BOOLEAN : Wrote(c, p, last)
<1> DEFINE w == work[c]
           p == Least(w.pages \ w.done)
           f == NextFrame(c)
           last == w.pages \ w.done = {p}
           v == [w EXCEPT !.done = @ \cup {p}]
           put == [salt |-> my[c].salt, page |-> p, tx |-> w.tx,
                   commit |-> last, after |-> Identity(wal.frames, f - 1)]
<1>1. /\ InLog(c)
      /\ wal' = PutFrame(f, put)
      /\ work' = [work EXCEPT ![c] = v]
      /\ pc' = [pc EXCEPT ![c] = IF last THEN "publish" ELSE "log"]
      /\ UNCHANGED <<db, dbDisk, walDisk, hdr, nBackfill, history, durable, count>>
      /\ UNCHANGED <<my, minFrame, at>>
    BY DEF WriteFrame, Goto, shm, lockVars, ghosts
<1>2. ConnsTyped /\ wal \in [salt : Nat, frames : Seq(AnyFrame)]
    BY DEF ContentInv, Whole, FilesTyped
<1>3. w.done \subseteq w.pages /\ w.pages # w.done /\ LogHolds(c)
    BY <1>1, ReadyToWrite
<1>4. p \in w.pages \ w.done /\ p \in Page /\ p \in Nat /\ w.done \subseteq Page
    <2>1. w.pages \subseteq Page
        BY <1>2, LeftAlone
    <2>2. (w.pages \ w.done) \in SUBSET Nat /\ w.pages \ w.done # {}
        BY <1>3, <2>1, WalAssumption
    <2> QED
        BY <1>3, <2>1, <2>2, LeastOf
<1>5. /\ Cardinality(w.done) \in Nat
      /\ Cardinality(w.done \cup {p}) = Cardinality(w.done) + 1
    <2>1. IsFiniteSet(w.done)
        BY <1>4, WalAssumption, FS_Subset
    <2> QED
        BY <1>4, <2>1, FS_AddElement, FS_CardinalityType
<1>6. f = Put1(c) + 1 /\ f - 1 = Put1(c) /\ Put1(c) <= Len(wal.frames)
      /\ f \in 1..(Len(wal.frames) + 1)
    <2>1. Put1(c) <= Len(wal.frames)
        BY <1>3 DEF LogHolds, Put1
    <2>2. f = Put1(c) + 1
        BY DEF NextFrame, Put1
    <2> HIDE DEF f
    <2> QED
        BY <2>1, <2>2, LogTyped
<1>7. put = FrameOf(c, p, last)
    <2> HIDE DEF p, f, last
    <2> QED
        BY <1>6 DEF FrameOf
<1>8. put \in AnyFrame
    <2>1. Identity(wal.frames, Put1(c)) \in Nat \X Int
        <3>1. CASE Put1(c) = 0
            BY <3>1 DEF Identity
        <3>2. CASE Put1(c) # 0
            <4>1. Put1(c) \in 1..Len(wal.frames)
                BY <1>6, <3>2, LogTyped
            <4>2. wal.frames[Put1(c)] \in AnyFrame
                BY <4>1, LogTyped
            <4> QED
                BY <3>2, <4>2 DEF Identity, AnyFrame
        <3> QED
            BY <3>1, <3>2
    <2>2. my[c].salt \in Nat /\ w.tx \in Nat
        BY <1>2, LeftAlone
    <2> HIDE DEF p, f, w, last, put
    <2>3. last \in BOOLEAN
        BY DEF last
    <2> QED
        BY <1>4, <1>7, <2>1, <2>2, <2>3 DEF AnyFrame, FrameOf, w
<1> HIDE DEF put
<1>9. Extends(wal', Put1(c) + 1, FrameOf(c, p, last)) /\ wal'.salt = wal.salt
    <2>1. Extends(PutFrame(f, put), f, put)
        BY <1>2, <1>6, <1>8, Put
    <2>2. Extends(wal', f, put)
        BY <1>1, <2>1
    <2>3. wal'.salt = wal.salt
        <3> HIDE DEF f
        <3> QED
            BY <1>1, <1>2 DEF PutFrame
    <2> HIDE DEF f, p, last
    <2> QED
        BY <1>6, <1>7, <2>2, <2>3
<1>10. v.tx = w.tx /\ v.done = w.done \cup {p}
    <2>1. w \in AnyWork
        BY <1>2, LeftAlone
    <2> HIDE DEF w, p
    <2> QED
        BY <2>1 DEF AnyWork
<1> HIDE DEF v, p, last
<1>11. Apart(c)
    <2>1. StepOf(c)
        BY WriterSteps DEF WriteTransaction, ContentInv
    <2> QED
        BY <1>1, <1>2, <2>1, StepApart DEF ConnsTyped
<1>12. my'[c] = my[c] /\ work'[c] = v /\ pc'[c] = IF last THEN "publish" ELSE "log"
    BY <1>1, <1>2 DEF ConnsTyped
<1>13. Put1(c)' = Put1(c) + 1
    <2>1. Cardinality(work'[c].done) = Cardinality(w.done) + 1
        BY <1>5, <1>10, <1>12
    <2>2. my'[c].mxFrame = my[c].mxFrame /\ my[c].mxFrame \in Nat
        BY <1>12, LogTyped
    <2>3. Cardinality(w.done) \in Nat
        BY <1>5
    <2> QED
        BY <2>1, <2>2, <2>3 DEF Put1
<1>14. last \in BOOLEAN
    BY DEF last
<1>15. Wrote(c, p, last)
    BY <1>1, <1>4, <1>6, <1>9, <1>10, <1>11, <1>12, <1>13 DEF Wrote
<1> QED
    BY <1>4, <1>14, <1>15

\* What follows for the log: the chain goes on to the frame and no further,
\* since a frame behind it does not continue a transaction of this name.
WroteChain(c, p, last) ==
    LET f == Put1(c) + 1
        put == wal'.frames
    IN  /\ Len(put) \in Nat /\ f <= Len(put) /\ f <= Len(wal.frames) + 1
        /\ put[f] = FrameOf(c, p, last)
        /\ \A g \in 1..Len(put) : g # f => g <= Len(wal.frames) /\ put[g] = wal.frames[g]
        /\ Chained(put, wal.salt, f)
        /\ \A m \in (f + 1)..Len(put) : ~Chained(put, wal.salt, m)
        /\ last => EndsAt(put, wal.salt, f)
        /\ ~last => EndsAt(put, wal.salt, my[c].mxFrame)

LEMMA OneMore ==
    ASSUME ContentInv, FileInv, NEW c \in Conn, Chaining(c),
           NEW p \in Page, NEW last \in BOOLEAN, Wrote(c, p, last)
    PROVE  WroteChain(c, p, last)
<1> DEFINE f == Put1(c) + 1
           put == wal'.frames
           fr == wal.frames
           mx == my[c].mxFrame
<1>1. /\ Len(put) \in Nat /\ Len(put) >= f /\ (Len(put) = f \/ Len(put) = Len(fr))
      /\ put[f] = FrameOf(c, p, last)
      /\ \A g \in 1..Len(fr) : g # f => put[g] = fr[g]
      /\ Put1(c) <= Len(fr)
    BY DEF Wrote, Extends
<1>2. /\ f \in Nat \ {0} /\ f - 1 = Put1(c) /\ Len(fr) \in Nat /\ mx \in Nat /\ mx < f
    BY LogTyped
<1> HIDE DEF f, put, fr, mx
<1>3. f <= Len(fr) + 1 /\ \A g \in 1..Len(put) : g # f => g <= Len(fr) /\ put[g] = fr[g]
    BY <1>1, <1>2
<1>4. Agree(fr, put, f - 1)
    BY <1>1, <1>2 DEF Agree
<1>5. put[f].salt = wal.salt /\ put[f].after = Identity(fr, f - 1) /\ put[f].commit = last
    BY <1>1, <1>2 DEF FrameOf, Chaining, fr
<1>6. Chained(fr, wal.salt, f - 1) /\ EndsAt(fr, wal.salt, mx)
    BY <1>2 DEF Chaining, fr, mx
<1>7. Chained(put, wal.salt, f)
    BY <1>1, <1>2, <1>4, <1>5, <1>6, ChainGrows
<1>8. ASSUME NEW m \in (f + 1)..Len(put), Chained(put, wal.salt, m)
      PROVE  FALSE
    <2>1. f + 1 \in 1..m /\ f + 1 \in 1..Len(fr) /\ f + 1 # f /\ f # 0 /\ (f + 1) - 1 = f
        BY <1>1, <1>2
    <2>2. put[f + 1].after = Identity(put, f)
        BY <1>8, <2>1 DEF Chained
    <2>3. fr[f + 1].after = Identity(put, f)
        BY <1>1, <2>1, <2>2
    <2>4. Identity(put, f) = <<p, work[c].tx>>
        BY <1>1, <2>1 DEF Identity, FrameOf
    <2>5. fr[f + 1].after[2] = count.tx
        BY <2>3, <2>4 DEF Chaining
    <2>6. f + 1 \in (mx + 1)..Put1(c)
        BY <2>1, <2>5 DEF Chaining, FreshIn, fr, mx
    <2> QED
        BY <1>2, <2>6
<1>9. last => EndsAt(put, wal.salt, f)
    BY <1>2, <1>5, <1>7, <1>8 DEF EndsAt, CommitAt
<1>10. ASSUME ~last PROVE EndsAt(put, wal.salt, mx)
    <2>1. \A m \in f..Len(put) : m = f \/ m \in (f + 1)..Len(put)
        BY <1>2
    <2>2. \A m \in f..Len(put) : put[m].commit => ~Chained(put, wal.salt, m)
        BY <1>5, <1>8, <1>10, <2>1
    <2> QED
        BY <1>1, <1>2, <1>3, <1>4, <1>6, <2>2, EndsStill
<1> QED
    BY <1>1, <1>3, <1>7, <1>8, <1>9, <1>10 DEF WroteChain, f, put, fr, mx

\* Frames of the header are where they were.
LEMMA ToldStill ==
    ASSUME ContentInv, Told, UNCHANGED <<hdr, history>>,
           \A g \in 1..hdr.mxFrame : wal'.frames[g] = wal.frames[g]
    PROVE  Told'
<1> SUFFICES ASSUME hdr.isInit, NEW p \in Page, NEW f \in Nat \ {0},
                    LastIn(wal'.frames, f, p, 1, hdr.mxFrame)
             PROVE  LastOf(history)[p] = wal'.frames[f].tx
    BY DEF Told
<1>1. hdr.mxFrame \in Nat
    BY Numbers
<1>2. LastIn(wal.frames, f, p, 1, hdr.mxFrame)
    BY <1>1, LastKept
<1>3. f \in 1..hdr.mxFrame
    BY <1>2 DEF LastIn
<1> QED
    BY <1>2, <1>3 DEF Told

LEMMA WriteFrameFiles ==
    ASSUME ContentInv, FileInv, ContentInv', NEW c \in Conn \ Checkpointer, WriteFrame(c)
    PROVE  FileInv'
<1>1. InLog(c) /\ Chaining(c) /\ Salted(c)
    BY WriterChain DEF WriteFrame, ContentInv, Part
<1>2. PICK p \in Page, last \in BOOLEAN : Wrote(c, p, last)
    BY WritesOne
<1> DEFINE f == Put1(c) + 1
           put == wal'.frames
           mx == my[c].mxFrame
<1>3. /\ Len(put) \in Nat /\ f <= Len(put) /\ f <= Len(wal.frames) + 1
      /\ put[f] = FrameOf(c, p, last)
      /\ \A g \in 1..Len(put) : g # f => g <= Len(wal.frames) /\ put[g] = wal.frames[g]
      /\ Chained(put, wal.salt, f)
      /\ last => EndsAt(put, wal.salt, f)
      /\ ~last => EndsAt(put, wal.salt, mx)
    BY <1>1, <1>2, OneMore DEF WroteChain
<1>4. /\ Apart(c) /\ my'[c] = my[c] /\ work'[c].tx = work[c].tx /\ Put1(c)' = f
      /\ pc'[c] = IF last THEN "publish" ELSE "log"
      /\ UNCHANGED <<db, hdr, history, count>> /\ wal'.salt = wal.salt
    BY <1>2 DEF Wrote
<1>5. /\ f \in Nat \ {0} /\ Len(wal.frames) \in Nat /\ mx \in Nat /\ mx < f /\ f - 1 = Put1(c)
      /\ mx = hdr.mxFrame /\ Put1(c) \in Nat /\ Put1(c) <= Len(wal.frames)
    BY <1>1, <1>2, LogTyped DEF Chaining, Wrote
<1> HIDE DEF f, put, mx
<1>6. LogCounted(wal)'
    <2>1. wal.salt <= count.salt /\ \A g \in 1..Len(wal.frames) : FrameCounted(wal.frames[g])
        BY DEF FileInv, LogCounted
    <2>2. FrameCounted(put[f])
        <3> DEFINE x == put[f]
        <3>1. x.salt = wal.salt /\ x.tx = count.tx /\ x.after = Identity(wal.frames, Put1(c))
            BY <1>1, <1>3 DEF FrameOf, Chaining
        <3>2. x.after[2] <= count.tx
            <4>1. CASE Put1(c) = 0
                <5>1. x.after = <<0, 0>>
                    BY <3>1, <4>1 DEF Identity
                <5>2. x.after[2] = 0 /\ count.tx \in Nat
                    BY <5>1, Numbers
                <5> QED
                    BY <5>2
            <4>2. CASE Put1(c) # 0
                <5>1. Put1(c) \in 1..Len(wal.frames)
                    BY <1>5, <4>2
                <5>2. x.after = <<wal.frames[Put1(c)].page, wal.frames[Put1(c)].tx>>
                    BY <3>1, <4>2 DEF Identity
                <5>3. x.after[2] = wal.frames[Put1(c)].tx
                    BY <5>2
                <5> QED
                    BY <2>1, <5>1, <5>3 DEF FrameCounted
            <4> QED
                BY <4>1, <4>2
        <3>3. x.tx # Torn /\ x.tx <= count.tx
            BY <1>1, <3>1, Numbers DEF Torn, Chaining
        <3>4. x.salt # 0 /\ x.salt <= count.salt
            BY <1>1, <2>1, <3>1 DEF Chaining
        <3> HIDE DEF x
        <3> QED
            BY <3>2, <3>3, <3>4 DEF FrameCounted, x
    <2>3. \A g \in 1..Len(put) : FrameCounted(put[g])
        BY <1>3, <1>5, <2>1, <2>2
    <2> QED
        BY <1>4, <2>1, <2>3 DEF LogCounted, FrameCounted, put
<1>7. Told'
    <2>1. \A g \in 1..hdr.mxFrame : wal'.frames[g] = wal.frames[g]
        <3>1. \A g \in 1..mx : g \in 1..Len(put) /\ g # f
            BY <1>3, <1>5
        <3> QED
            BY <1>3, <1>5, <3>1 DEF put
    <2> QED
        BY <1>4, <2>1, ToldStill DEF FileInv
<1>8. WAL_WRITE_LOCK \in exclusive[c] /\ hdr.isInit
    BY <1>1, ReadyToWrite
<1>9. ASSUME NEW d \in Conn \ {c}
      PROVE  Logged(d)' /\ Fresh(d)' /\ pc'[d] # "publish"
    BY <1>4, <1>8, OthersOwe DEF Writing
<1>10. Headed'
    <2>1. hdr.mxFrame > 0 => wal.salt = hdr.salt
        BY <1>8 DEF FileInv, Headed
    <2>2. ASSUME ~last PROVE EndsAt(put, hdr.salt, hdr.mxFrame)
        <3>1. CASE hdr.salt = wal.salt
            BY <1>3, <1>5, <2>2, <3>1
        <3>2. CASE hdr.salt # wal.salt
            <4>1. hdr.mxFrame = 0
                BY <2>1, <3>2, Numbers
            <4> QED
                BY <1>3, <1>5, <3>2, <4>1, OtherSalt
        <3> QED
            BY <3>1, <3>2
    <2>3. Publishing' <=> last
        BY <1>4, <1>9 DEF Publishing
    <2> QED
        BY <1>4, <2>1, <2>2, <2>3 DEF Headed, put
<1>11. Kept'
    <2>1. CASE last
        <3>1. pc'[c] = "publish" /\ EndsAt(put, wal.salt, f)
            BY <1>3, <1>4, <2>1
        <3> QED
            BY <1>4, <1>7, <1>8, <3>1, KeptThen DEF Ends, put
    <2>2. CASE ~last
        <3>1. ~Publishing' /\ EndsAt(put, wal.salt, hdr.mxFrame)
            BY <1>3, <1>4, <1>5, <1>9, <2>2 DEF Publishing
        <3> QED
            BY <1>4, <1>7, <1>8, <3>1, KeptThen DEF Ends, put
    <2> QED
        BY <2>1, <2>2
<1>12. Logged(c)'
    BY <1>1, <1>3, <1>4 DEF Logged, Chaining, put, mx
<1>13. Fresh(c)'
    <2>1. work'[c].tx = count.tx /\ count.tx > 0
        BY <1>1, <1>4 DEF Chaining
    <2>2. ASSUME NEW g \in 1..Len(put), put[g].tx = count.tx \/ put[g].after[2] = count.tx
          PROVE  g \in (mx + 1)..f
        <3>1. CASE g = f
            BY <1>5, <3>1
        <3>2. CASE g # f
            <4>1. g \in 1..Len(wal.frames) /\ put[g] = wal.frames[g]
                BY <1>3, <1>5, <3>2
            <4>2. g \in (mx + 1)..Put1(c)
                BY <1>1, <2>2, <4>1 DEF Chaining, FreshIn, mx
            <4> QED
                BY <1>5, <4>2
        <3> QED
            BY <3>1, <3>2
    <2>3. FreshIn(c, wal.frames)'
        BY <1>4, <2>2 DEF FreshIn, put, mx
    <2> QED
        BY <1>4, <2>1, <2>3 DEF Fresh
<1> QED
    BY <1>6, <1>7, <1>9, <1>10, <1>11, <1>12, <1>13 DEF FileInv

\* What a failed write does.
Tears(c) ==
    /\ wal' = wal \/ (Extends(wal', Put1(c) + 1, TornFrame) /\ wal'.salt = wal.salt)
    /\ Put1(c) <= Len(wal.frames)
    /\ Apart(c) /\ my'[c] = hdr /\ pc'[c] = "read"
    /\ count'.tx = count.tx /\ MoreSalt
    /\ UNCHANGED <<db, dbDisk, walDisk, hdr, nBackfill, history, durable>>

LEMMA FailTears ==
    ASSUME ContentInv, NEW c \in Conn \ Checkpointer, FailWrite(c)
    PROVE  Tears(c)
<1> DEFINE f == NextFrame(c)
<1>1. /\ pc[c] \in {"frames", "synchdr", "log"}
      /\ wal' = wal \/ wal' = PutFrame(f, TornFrame)
      /\ my' = [my EXCEPT ![c] = hdr] /\ work' = [work EXCEPT ![c] = NoWork]
      /\ Counts("faults") /\ pc' = [pc EXCEPT ![c] = "read"]
      /\ UNCHANGED <<db, dbDisk, walDisk, hdr, nBackfill, history, durable>>
      /\ UNCHANGED <<minFrame, at>>
    BY DEF FailWrite, Goto, shm, lockVars, ghosts
<1>2. ConnsTyped /\ FilesTyped /\ wal \in [salt : Nat, frames : Seq(AnyFrame)]
    BY DEF ContentInv, Whole, FilesTyped
<1>3. /\ f = Put1(c) + 1 /\ Put1(c) <= Len(wal.frames) /\ f \in 1..(Len(wal.frames) + 1)
    <2>1. Put1(c) <= Len(wal.frames)
        <3>1. CASE InLog(c)
            BY <3>1, ReadyToWrite DEF LogHolds, Put1
        <3>2. CASE ~InLog(c)
            <4>1. work[c].done = {} /\ my[c].mxFrame = hdr.mxFrame
                BY <1>1, <3>2, WriterAtWork DEF ContentInv, Part, Own, InLog
            <4>2. hdr.mxFrame <= Len(wal.frames)
                BY DEF ContentInv, Whole, Mirrors
            <4> QED
                BY <4>1, <4>2, FS_EmptySet, Numbers DEF Put1
        <3> QED
            BY <3>1, <3>2
    <2>2. f = Put1(c) + 1
        BY DEF NextFrame, Put1
    <2> HIDE DEF f
    <2> QED
        BY <2>1, <2>2, LogTyped
<1> HIDE DEF f
<1>4. ASSUME wal' = PutFrame(f, TornFrame)
      PROVE  Extends(wal', f, TornFrame) /\ wal'.salt = wal.salt
    <2>1. TornFrame \in AnyFrame
        BY DEF TornFrame, AnyFrame, Torn
    <2>2. Extends(PutFrame(f, TornFrame), f, TornFrame)
        BY <1>2, <1>3, <2>1, Put
    <2>3. wal'.salt = wal.salt
        BY <1>2, <1>4 DEF PutFrame
    <2>4. Extends(wal', f, TornFrame)
        BY <1>4, <2>2
    <2> QED
        BY <2>3, <2>4
<1>5. Apart(c)
    <2>1. StepOf(c)
        BY WriterSteps DEF WriteTransaction, ContentInv
    <2> QED
        BY <1>1, <1>2, <2>1, StepApart DEF ConnsTyped
<1>6. my'[c] = hdr /\ pc'[c] = "read"
    BY <1>1, <1>2 DEF ConnsTyped
<1>7. count'.tx = count.tx /\ MoreSalt
    BY <1>1, <1>2, Counted DEF Counts, FilesTyped
<1> QED
    BY <1>1, <1>3, <1>4, <1>5, <1>6, <1>7 DEF Tears

\* Where a chain ended it ends still: it does not go over what is torn.
TornLog(c) ==
    LET put == wal'.frames
    IN  /\ wal'.salt = wal.salt /\ Len(put) \in Nat
        /\ \A g \in 1..hdr.mxFrame : put[g] = wal.frames[g]
        /\ \A g \in 1..Len(put) : put[g] = TornFrame \/ (g <= Len(wal.frames) /\ put[g] = wal.frames[g])
        /\ EndsAt(put, wal.salt, hdr.mxFrame) /\ EndsAt(put, hdr.salt, hdr.mxFrame)

LEMMA TornKept ==
    ASSUME ContentInv, FileInv, NEW c \in Conn, Chaining(c), Tears(c)
    PROVE  TornLog(c)
<1> DEFINE f == Put1(c) + 1
           put == wal'.frames
           fr == wal.frames
           mx == hdr.mxFrame
<1>1. /\ f \in Nat \ {0} /\ Len(fr) \in Nat /\ mx \in Nat /\ mx < f /\ f <= Len(fr) + 1
    BY LogTyped DEF Chaining, Tears
<1>2. EndsAt(fr, wal.salt, mx) /\ EndsAt(fr, hdr.salt, mx)
    BY DEF Chaining
<1>3. CASE wal' = wal
    BY <1>1, <1>2, <1>3 DEF TornLog
<1>4. CASE Extends(wal', f, TornFrame) /\ wal'.salt = wal.salt
    <2>1. /\ Len(put) \in Nat /\ Len(put) >= f /\ (Len(put) = f \/ Len(put) = Len(fr))
          /\ put[f] = TornFrame
          /\ \A g \in 1..Len(fr) : g # f => put[g] = fr[g]
        BY <1>4 DEF Extends
    <2>2. \A g \in 1..Len(fr) : fr[g].commit => fr[g].salt # 0
        BY DEF FileInv, LogCounted, FrameCounted
    <2>3. ~TornFrame.commit
        BY DEF TornFrame
    <2> HIDE DEF f, put, fr, mx
    <2>4. \A g \in 1..Len(put) : g # f => g \in 1..Len(fr) /\ put[g] = fr[g]
        BY <1>1, <2>1
    <2>5. \A g \in 1..Len(put) : put[g].commit => put[g].salt # 0
        BY <2>1, <2>2, <2>3, <2>4
    <2>6. Agree(fr, put, f - 1)
        <3>1. \A g \in 1..(f - 1) : g \in 1..Len(fr) /\ g # f
            BY <1>1
        <3> QED
            BY <2>1, <3>1 DEF Agree
    <2>7. ASSUME NEW s, EndsAt(fr, s, mx) PROVE EndsAt(put, s, mx)
        <3>1. \A m \in f..Len(put) : put[m].commit => ~Chained(put, s, m)
            BY <1>1, <2>1, <2>5, TornEnds
        <3> QED
            BY <1>1, <2>1, <2>6, <2>7, <3>1, EndsStill
    <2>8. \A g \in 1..mx : put[g] = fr[g]
        BY <1>1, <2>1
    <2>9. EndsAt(put, wal.salt, mx) /\ EndsAt(put, hdr.salt, mx)
        BY <1>2, <2>7
    <2>10. \A g \in 1..Len(put) : put[g] = TornFrame \/ (g <= Len(fr) /\ put[g] = fr[g])
        BY <1>1, <2>1, <2>4
    <2> QED
        BY <1>4, <2>1, <2>8, <2>9, <2>10 DEF TornLog, put, fr, mx
<1> QED
    BY <1>3, <1>4 DEF Tears

LEMMA TornCounted ==
    ASSUME ContentInv, LogCounted(wal), count'.tx = count.tx, MoreSalt, wal'.salt = wal.salt,
           \A g \in 1..Len(wal'.frames) :
               wal'.frames[g] = TornFrame \/ (g <= Len(wal.frames) /\ wal'.frames[g] = wal.frames[g]),
           Len(wal'.frames) \in Nat
    PROVE  LogCounted(wal)'
<1>1. count.tx \in Nat /\ count.salt \in Nat /\ wal.salt \in Nat /\ Len(wal.frames) \in Nat
    BY Numbers, LogTyped
<1>2. ASSUME NEW x, x = TornFrame \/ (FrameCounted(x) /\ x.salt \in Nat)
      PROVE  FrameCounted(x)'
    <2>1. CASE x = TornFrame
        <3>1. /\ TornFrame.salt = 0 /\ TornFrame.tx = -1 /\ TornFrame.after[2] = 0
              /\ ~TornFrame.commit
            BY DEF TornFrame, Torn
        <3> QED
            BY <1>1, <2>1, <3>1 DEF FrameCounted, MoreSalt
    <2>2. CASE FrameCounted(x) /\ x.salt \in Nat
        BY <1>1, <2>2 DEF FrameCounted, MoreSalt
    <2> QED
        BY <1>2, <2>1, <2>2
<1>3. ASSUME NEW g \in 1..Len(wal'.frames)
      PROVE  \/ wal'.frames[g] = TornFrame
             \/ FrameCounted(wal'.frames[g]) /\ wal'.frames[g].salt \in Nat
    <2>1. CASE g <= Len(wal.frames) /\ wal'.frames[g] = wal.frames[g]
        <3>1. g \in 1..Len(wal.frames)
            BY <1>1, <2>1
        <3>2. wal.frames[g].salt \in Nat
            BY <3>1, LogTyped DEF AnyFrame
        <3> QED
            BY <2>1, <3>1, <3>2 DEF LogCounted
    <2> QED
        BY <2>1
<1>4. wal'.salt <= count'.salt
    BY <1>1 DEF LogCounted, MoreSalt
<1> QED
    BY <1>2, <1>3, <1>4 DEF LogCounted, FrameCounted

\* Without the header of the log nothing was written.
LEMMA FailHdrFar ==
    ASSUME ContentInv, NEW c \in Conn \ Checkpointer, FailWrite(c), ~InLog(c)
    PROVE  Acts(c) /\ Far(c)
<1>1. /\ pc[c] \in {"frames", "synchdr", "log"} /\ wal' = wal
      /\ my' = [my EXCEPT ![c] = hdr] /\ work' = [work EXCEPT ![c] = NoWork]
      /\ UNCHANGED <<minFrame, at>>
    BY DEF FailWrite
<1>2. Tears(c)
    BY FailTears
<1>3. StepOf(c) /\ ConnsTyped
    BY WriterSteps DEF WriteTransaction, ContentInv
<1>4. Holds(c)
    BY <1>2 DEF Holds, Transacts, Tears
<1>5. Acts(c)
    BY <1>1, <1>3 DEF Acts, ConnsTyped
<1> QED
    BY <1>1, <1>2, <1>4, <1>5 DEF Far, Tears, Afar

LEMMA FailFrameFiles ==
    ASSUME ContentInv, FileInv, ContentInv', NEW c \in Conn \ Checkpointer, FailWrite(c), InLog(c)
    PROVE  FileInv'
<1>1. InLog(c) /\ Chaining(c)
    BY WriterChain
<1>2. Tears(c) /\ TornLog(c)
    BY <1>1, FailTears, TornKept
<1>3. WAL_WRITE_LOCK \in exclusive[c] /\ hdr.isInit
    BY <1>1, ReadyToWrite
<1>4. ASSUME NEW d \in Conn \ {c}
      PROVE  Logged(d)' /\ Fresh(d)' /\ pc'[d] # "publish"
    BY <1>2, <1>3, OthersOwe DEF Writing, Tears
<1>5. pc'[c] = "read" /\ ~Publishing'
    BY <1>2, <1>4 DEF Tears, Publishing
<1>6. LogCounted(wal)'
    BY <1>2, TornCounted DEF TornLog, Tears, FileInv
<1>7. Told'
    BY <1>2, ToldStill DEF TornLog, Tears, FileInv
<1>8. Headed'
    BY <1>2, <1>3 DEF TornLog, Tears, FileInv, Headed
<1>9. Kept'
    BY <1>2, <1>3, <1>5, <1>7, KeptThen DEF TornLog, Tears, Ends
<1>10. Logged(c)' /\ Fresh(c)'
    BY <1>5 DEF Logged, Fresh, Transacts
<1> QED
    BY <1>4, <1>6, <1>7, <1>8, <1>9, <1>10 DEF FileInv

LEMMA FailWriteFiles ==
    ASSUME ContentInv, FileInv, ContentInv', NEW c \in Conn \ Checkpointer, FailWrite(c)
    PROVE  FileInv'
BY FailHdrFar, FarSteps, FailFrameFiles

-----------------------------------------------------------------------------
(***************************************************************************)
(* Publishing, copying, stopping.                                          *)
(***************************************************************************)
LEMMA CountedBy ==
    ASSUME ContentInv, LogCounted(wal), UNCHANGED wal, MoreSalt, count'.tx = count.tx
    PROVE  LogCounted(wal)'
BY CountedStill, Numbers

LEMMA PublishFiles ==
    ASSUME ContentInv, FileInv, ContentInv', NEW c \in Conn \ Checkpointer, Publish(c)
    PROVE  FileInv'
<1>1. /\ pc[c] = "publish" /\ pc' = [pc EXCEPT ![c] = "read"]
      /\ hdr' = [my[c] EXCEPT !.mxFrame = @ + Cardinality(work[c].pages)]
      /\ my' = [my EXCEPT ![c] = hdr'] /\ work' = [work EXCEPT ![c] = NoWork]
      /\ history' = Append(history, Written(c))
      /\ UNCHANGED <<db, wal, count>> /\ UNCHANGED <<minFrame, at>>
    BY DEF Publish, Goto, files
<1>2. ConnsTyped /\ WAL_WRITE_LOCK \in exclusive[c] /\ work[c].pages = work[c].done
    BY <1>1 DEF ContentInv, Part, Own, Writes, Writing
<1>3. Apart(c) /\ pc'[c] = "read"
    <2>1. StepOf(c)
        BY WriterSteps DEF WriteTransaction, ContentInv
    <2>2. pc'[c] = "read"
        BY <1>1, <1>2 DEF ConnsTyped
    <2> QED
        BY <1>1, <1>2, <2>1, <2>2, StepApart DEF ConnsTyped
<1>4. hdr'.salt = my[c].salt /\ hdr'.mxFrame = Put1(c) /\ hdr'.isInit = my[c].isInit
    <2>1. my[c] \in AnyHdr
        BY <1>2, LeftAlone
    <2> QED
        BY <1>1, <1>2, <2>1 DEF AnyHdr, Put1
<1>5. wal.salt = my[c].salt /\ EndsAt(wal.frames, wal.salt, Put1(c))
    BY <1>1 DEF FileInv, Logged
<1>6. /\ Makes(db, wal.frames, 1, Put1(c), Written(c))
      /\ Reached = Append(history, Written(c)) /\ LastOf(Reached) = Written(c)
    BY <1>1, WrittenShown DEF FileInv
<1>7. ASSUME NEW d \in Conn \ {c}
      PROVE  Logged(d)' /\ Fresh(d)' /\ pc'[d] # "publish"
    BY <1>2, <1>3, OthersOwe DEF Writing
<1>8. ~Publishing'
    BY <1>3, <1>7 DEF Publishing
<1>9. LogCounted(wal)'
    BY <1>1, CountedBy, Numbers DEF FileInv, MoreSalt
<1>10. Told'
    <2>1. \A p \in Page : \A f \in Nat \ {0} :
              LastIn(wal.frames, f, p, 1, Put1(c)) => Written(c)[p] = wal.frames[f].tx
        BY <1>6 DEF Makes
    <2>2. LastOf(history') = Written(c)
        BY <1>1, <1>6
    <2> QED
        BY <1>1, <1>4, <2>1, <2>2 DEF Told
<1>11. Headed'
    BY <1>1, <1>4, <1>5 DEF Headed
<1>12. Kept'
    <2>1. Reached' = Reached
        BY <1>1, <1>6, <1>8, ReachedQuietlyThen
    <2> QED
        BY <1>1, <2>1 DEF FileInv, Kept
<1>13. Logged(c)' /\ Fresh(c)'
    BY <1>3 DEF Logged, Fresh, Transacts
<1> QED
    BY <1>7, <1>9, <1>10, <1>11, <1>12, <1>13 DEF FileInv

\* Copying a page to the database changes nothing of what the log shows.
LEMMA CopyFiles ==
    ASSUME ContentInv, FileInv, ContentInv', NEW c \in Checkpointer,
           BackfillPage(c) \/ FailBackfill(c)
    PROVE  FileInv'
<1>1. /\ pc[c] = "backfill" /\ UNCHANGED <<wal, hdr, history>>
      /\ UNCHANGED count \/ Counts("faults")
      /\ UNCHANGED pc \/ pc' = [pc EXCEPT ![c] = "checkpointed"]
      /\ UNCHANGED <<my, minFrame, at, exclusive>>
      /\ \E w : work' = [work EXCEPT ![c] = w]
    BY DEF BackfillPage, FailBackfill, Goto, shm, ghosts, lockVars
<1>2. c \in Conn /\ ConnsTyped /\ FilesTyped /\ Own(c) /\ Copies(c)
    BY WalAssumption DEF ContentInv, Part, Whole
<1>3. Apart(c)
    <2>1. StepOf(c)
        BY WalAssumption, CheckpointSteps DEF Checkpoint, ContentInv, Part
    <2> QED
        BY <1>1, <1>2, <2>1, StepApart DEF ConnsTyped
<1>4. count'.tx = count.tx /\ MoreSalt
    <2>1. CASE UNCHANGED count
        BY <2>1, Numbers DEF MoreSalt
    <2>2. CASE Counts("faults")
        BY <1>2, <2>2, Counted DEF Counts, FilesTyped
    <2> QED
        BY <1>1, <2>1, <2>2
<1>5. ~IsWriter(c)' /\ pc'[c] # "publish"
    BY <1>1, <1>2 DEF Own, IsWriter, Checkpointing, Copying, ConnsTyped
<1>6. hdr.isInit /\ hdr.mxFrame > 0
    <2>1. nBackfill < my[c].mxFrame /\ my[c].mxFrame <= hdr.mxFrame
        BY <1>1, <1>2 DEF Copies, Copying
    <2>2. hdr.isInit
        BY <1>1, <1>2, Built
    <2>3. my[c].mxFrame \in Nat /\ nBackfill \in Nat /\ hdr.mxFrame \in Nat
        BY <1>2, Numbers, LeftAlone
    <2> QED
        BY <2>1, <2>2, <2>3
<1>7. \A d \in Conn : Logged(d)' /\ Fresh(d)'
    <2>1. \A d \in Conn \ {c} : Logged(d)' /\ Fresh(d)'
        BY <1>1, <1>3, <1>4, PartOfLogKept DEF FileInv, Apart
    <2>2. Logged(c)' /\ Fresh(c)'
        BY <1>2, <1>5, OwesThen DEF OwesNone
    <2> QED
        BY <2>1, <2>2
<1>8. LogCounted(wal)'
    BY <1>1, <1>4, CountedBy DEF FileInv
<1>9. Told'
    BY <1>1 DEF FileInv, Told
<1>10. Publishing' <=> Publishing
    BY <1>1, <1>3, <1>5 DEF Publishing, Apart, Same
<1>11. Headed'
    BY <1>1, <1>10 DEF FileInv, Headed
<1>12. Kept'
    <2>1. Ends'
        BY <1>1, <1>6, <1>7, <1>9, <1>11, HeadedThen DEF HasFrames
    <2> QED
        BY <2>1, KeptThen
<1> QED
    BY <1>7, <1>8, <1>9, <1>11, <1>12 DEF FileInv

LEMMA KillFiles ==
    ASSUME ContentInv, FileInv, ContentInv', Kill
    PROVE  FileInv'
<1>1. /\ hdr' = NoHdr /\ pc' = [c \in Conn |-> "idle"] /\ exclusive' = [c \in Conn |-> {}]
      /\ UNCHANGED <<db, wal>> /\ history' = Reached /\ Counts("faults")
    BY DEF Kill, Stop, Each, files
<1>2. count'.tx = count.tx /\ MoreSalt
    BY <1>1, Counted DEF Counts, ContentInv, Whole, FilesTyped
<1>3. ~hdr'.isInit /\ ~Publishing'
    BY <1>1 DEF NoHdr, Publishing
<1>4. \A c \in Conn : Logged(c)' /\ Fresh(c)'
    BY <1>1 DEF Logged, Fresh, Transacts, IsWriter
<1>5. Kept'
    <2>1. Reached' = Reached
        BY <1>1, <1>3, ReachedQuietlyThen
    <2> QED
        BY <1>1, <2>1 DEF FileInv, Kept
<1>6. LogCounted(wal)'
    BY <1>1, <1>2, CountedBy DEF FileInv
<1> QED
    BY <1>3, <1>4, <1>5, <1>6 DEF FileInv, Headed, Told

-----------------------------------------------------------------------------
(***************************************************************************)
(* Recovering, beginning to write, a new header of the log.                *)
(***************************************************************************)
LEMMA RecoverFiles ==
    ASSUME ContentInv, FileInv, ContentInv', NEW c \in Conn \ Checkpointer, Recover(c)
    PROVE  FileInv'
<1>1. /\ ~hdr.isInit /\ hdr' = RecoveredHdr(wal) /\ pc' = [pc EXCEPT ![c] = "recover"]
      /\ UNCHANGED <<db, wal, history, count>>
    BY DEF Recover, Goto, files, ghosts
<1>2. ConnsTyped /\ \A d \in Conn : pc[d] = "idle"
    BY <1>1 DEF ContentInv, Whole, Pristine
<1>3. \A d \in Conn : pc'[d] \in {"idle", "recover"}
    BY <1>1, <1>2 DEF ConnsTyped
<1>4. ~Publishing /\ ~Publishing'
    BY <1>2, <1>3 DEF Publishing
<1>5. hdr'.salt = wal.salt /\ EndsAt(wal.frames, wal.salt, hdr'.mxFrame)
    <2>1. \A f \in 1..Len(wal.frames) : wal.frames[f].commit => wal.frames[f].salt # 0
        BY DEF FileInv, LogCounted, FrameCounted
    <2> QED
        BY <1>1, <2>1, LogTyped, RecoveredTyped, RecoveredEnd DEF Log
<1>6. Makes(db, wal.frames, 1, hdr'.mxFrame, LastOf(history))
    BY <1>4, <1>5, ReachedQuietly DEF FileInv, Kept
<1>7. Told' /\ Headed'
    BY <1>1, <1>5, <1>6 DEF Told, Headed, Makes
<1>8. Kept'
    BY <1>1, <1>4, ReachedQuietly, ReachedQuietlyThen DEF FileInv, Kept
<1>9. LogCounted(wal)'
    BY <1>1, CountedBy, Numbers DEF FileInv, MoreSalt
<1>10. ASSUME NEW d \in Conn PROVE Logged(d)' /\ Fresh(d)'
    <2>1. CASE pc'[d] = "recover"
        BY <2>1 DEF Logged, Fresh, Transacts
    <2>2. CASE pc'[d] = "idle"
        <3>1. Own(d)'
            BY DEF ContentInv, Part
        <3>2. exclusive'[d] = {}
            BY <2>2, <3>1 DEF Own, Free
        <3> QED
            BY <2>2, <3>2 DEF Logged, Fresh, Transacts, IsWriter
    <2> QED
        BY <1>3, <2>1, <2>2
<1> QED
    BY <1>7, <1>8, <1>9, <1>10 DEF FileInv

\* A new transaction: its name is in no frame yet.
LEMMA BeginWriteFiles ==
    ASSUME ContentInv, FileInv, ContentInv', NEW c \in Conn \ Checkpointer, BeginWrite(c)
    PROVE  FileInv'
<1>1. /\ pc[c] = "read" /\ CanExclude({WAL_WRITE_LOCK}) /\ UNCHANGED <<db, wal, hdr, history>>
    BY DEF BeginWrite, files, shm, ghosts
<1>2. ConnsTyped /\ FilesTyped
    BY DEF ContentInv, Whole
<1>3. StepOf(c)
    BY WriterSteps DEF WriteTransaction, ContentInv
<1>4. CASE hdr = my[c]
    <2>1. /\ \E pages \in (SUBSET Page) \ {{}} :
                work' = [work EXCEPT ![c] = [tx |-> count.tx + 1, pages |-> pages, done |-> {}]]
          /\ \E l \in {"restartlog", "frames"} : pc' = [pc EXCEPT ![c] = l]
          /\ Counts("tx")
          /\ UNCHANGED <<my, minFrame, at>>
        BY <1>4 DEF BeginWrite, Goto
    <2>2. Apart(c) /\ pc'[c] \in {"restartlog", "frames"} /\ work'[c].tx = count.tx + 1
        BY <1>2, <1>3, <2>1, StepApart DEF ConnsTyped
    <2>3. count'.tx = count.tx + 1 /\ MoreSalt
        BY <1>2, <2>1, Counted DEF Counts, FilesTyped
    <2>4. ASSUME NEW d \in Conn \ {c}
          PROVE  Logged(d)' /\ Fresh(d)' /\ pc[d] # "publish" /\ pc'[d] # "publish"
        <3>1. ~IsWriter(d) /\ ~IsWriter(d)'
            BY <1>1, <2>2 DEF CanExclude, IsWriter, Apart, Same
        <3> QED
            BY <3>1, OwesNothing, OwesThen DEF OwesNone, Writing
    <2>5. ~Publishing /\ ~Publishing'
        BY <1>1, <2>2, <2>4 DEF Publishing
    <2>6. Logged(c)'
        BY <2>2 DEF Logged
    <2>7. Fresh(c)'
        <3>1. ASSUME NEW f \in 1..Len(wal.frames)
              PROVE  wal.frames[f].tx # count.tx + 1 /\ wal.frames[f].after[2] # count.tx + 1
            <4>1. wal.frames[f].tx <= count.tx /\ wal.frames[f].after[2] <= count.tx
                BY DEF FileInv, LogCounted, FrameCounted
            <4>2. wal.frames[f].tx \in Int /\ wal.frames[f].after[2] \in Int
                BY LogTyped DEF AnyFrame
            <4> QED
                BY <4>1, <4>2, Numbers
        <3>2. count.tx + 1 > 0
            BY Numbers
        <3> QED
            BY <1>1, <2>2, <2>3, <3>1, <3>2 DEF Fresh, FreshIn
    <2>8. LogCounted(wal)'
        BY <1>1, <2>3, CountedStill, Numbers DEF FileInv
    <2>9. Told' /\ Headed' /\ Kept'
        BY <1>1, <2>5, ReachedQuietly, ReachedQuietlyThen DEF FileInv, Told, Headed, Kept
    <2> QED
        BY <2>4, <2>6, <2>7, <2>8, <2>9 DEF FileInv
<1>5. CASE hdr # my[c]
    <2>1. Release(c, shared[c]) /\ Leave(c) /\ UNCHANGED <<work, count>>
        BY <1>5 DEF BeginWrite
    <2>2. ~IsWriter(c)'
        BY <1>1, <1>2, <2>1 DEF Release, ConnsTyped, CanExclude, IsWriter
    <2>3. Acts(c) /\ Far(c)
        BY <1>1, <1>2, <1>3, <2>1, <2>2, BackFar, Numbers DEF Acts, Far, MoreSalt
    <2> QED
        BY <2>3, FarSteps
<1> QED
    BY <1>4, <1>5

\* A salt drawn now is in no log yet.
LEMMA NewSalt ==
    ASSUME ContentInv, LogCounted(wal)
    PROVE  EndsAt(wal.frames, count.salt + 1, 0)
<1>1. Len(wal.frames) \in Nat /\ count.salt \in Nat
    BY Numbers
<1>2. \A f \in 1..Len(wal.frames) : wal.frames[f].salt # count.salt + 1
    <2> SUFFICES ASSUME NEW f \in 1..Len(wal.frames) PROVE wal.frames[f].salt # count.salt + 1
        OBVIOUS
    <2>1. wal.frames[f].salt \in Nat /\ wal.frames[f].salt <= count.salt
        BY LogTyped DEF AnyFrame, LogCounted, FrameCounted
    <2> QED
        BY <1>1, <2>1
<1> QED
    BY <1>1, <1>2, NoChain

LEMMA RestartHdrFiles ==
    ASSUME ContentInv, FileInv, ContentInv', NEW c \in Conn \ Checkpointer, RestartHdr(c)
    PROVE  FileInv'
<1> DEFINE h == [isInit |-> TRUE, salt |-> count.salt + 1, mxFrame |-> 0]
<1>1. /\ pc[c] = "restartlog" /\ hdr' = h /\ my' = [my EXCEPT ![c] = h] /\ Counts("salt")
      /\ pc' = [pc EXCEPT ![c] = "restart"] /\ Exclude(c, Marks)
      /\ UNCHANGED <<db, wal, history>> /\ UNCHANGED <<minFrame, at, work>>
    BY DEF RestartHdr, Goto, files, ghosts
<1>2. h.isInit /\ h.salt = count.salt + 1 /\ h.mxFrame = 0
    OBVIOUS
<1> HIDE DEF h
<1>3. ConnsTyped /\ FilesTyped /\ Own(c)
    BY DEF ContentInv, Whole, Part
<1>4. WAL_WRITE_LOCK \in exclusive[c] /\ work[c].done = {}
    BY <1>1, <1>3 DEF Own, Writing
<1>5. Apart(c) /\ pc'[c] = "restart" /\ my'[c] = h /\ work'[c] = work[c]
    <2>1. StepOf(c)
        BY WriterSteps DEF WriteTransaction, ContentInv
    <2> QED
        BY <1>1, <1>3, <2>1, StepApart DEF ConnsTyped
<1>6. count'.tx = count.tx /\ MoreSalt
    BY <1>1, <1>3, Counted DEF Counts, FilesTyped
<1>7. ASSUME NEW d \in Conn \ {c}
      PROVE  Logged(d)' /\ Fresh(d)' /\ pc[d] # "publish" /\ pc'[d] # "publish"
    BY <1>4, <1>5, OthersOwe DEF Writing
<1>8. ~Publishing /\ ~Publishing'
    BY <1>1, <1>5, <1>7 DEF Publishing
<1>9. LogCounted(wal)'
    BY <1>1, <1>6, CountedBy DEF FileInv
<1>10. EndsAt(wal.frames, count.salt + 1, 0)
    BY NewSalt DEF FileInv
<1>11. Headed'
    BY <1>1, <1>2, <1>10 DEF Headed
<1>12. Told'
    BY <1>1, <1>2 DEF Told, LastIn
<1>13. Kept'
    BY <1>1, <1>8, ReachedQuietly, ReachedQuietlyThen DEF FileInv, Kept
<1>14. Logged(c)'
    BY <1>5 DEF Logged
<1>15. Fresh(c)'
    <2>1. work[c].tx = count.tx /\ count.tx > 0 /\ FreshIn(c, wal.frames)
        BY <1>1, <1>4 DEF FileInv, Fresh, Transacts, IsWriter
    <2>2. Cardinality(work[c].done) = 0 /\ my[c].mxFrame \in Nat
        BY <1>4, FS_EmptySet, LogTyped
    <2>3. \A f \in (my[c].mxFrame + 1)..Put1(c) : FALSE
        BY <2>2 DEF Put1
    <2>4. FreshIn(c, wal.frames)'
        BY <1>1, <1>5, <1>6, <2>1, <2>3 DEF FreshIn
    <2> QED
        BY <1>5, <1>6, <2>1, <2>4 DEF Fresh
<1> QED
    BY <1>7, <1>9, <1>11, <1>12, <1>13, <1>14, <1>15 DEF FileInv

\* What writing the header of an empty log does.
Heads(c) ==
    /\ pc[c] = "frames" /\ my[c] = hdr /\ hdr.mxFrame = 0 /\ pc'[c] = "synchdr" /\ Apart(c)
    /\ wal'.frames = wal.frames /\ wal'.salt = my'[c].salt /\ my'[c].mxFrame = 0
    /\ \/ wal'.salt = hdr.salt /\ wal'.salt # 0
       \/ wal'.salt = count.salt + 1 /\ count'.salt = count.salt + 1
    /\ work'[c] = work[c] /\ work[c].done = {} /\ count'.tx = count.tx /\ MoreSalt
    /\ UNCHANGED <<db, dbDisk, walDisk, hdr, nBackfill, history, durable>>

LEMMA WritesHdr ==
    ASSUME ContentInv, NEW c \in Conn \ Checkpointer, WriteWalHdr(c)
    PROVE  Heads(c)
<1>1. /\ pc[c] = "frames" /\ my[c].mxFrame = 0 /\ pc' = [pc EXCEPT ![c] = "synchdr"]
      /\ \/ my[c].salt # 0 /\ UNCHANGED <<my, count>>
         \/ my' = [my EXCEPT ![c].salt = count.salt + 1] /\ Counts("salt")
      /\ wal' = [wal EXCEPT !.salt = my'[c].salt]
      /\ UNCHANGED <<db, dbDisk, walDisk, hdr, nBackfill, history, durable>>
      /\ UNCHANGED <<minFrame, at, work>>
    BY DEF WriteWalHdr, Goto, shm, ghosts
<1>2. /\ ConnsTyped /\ FilesTyped /\ Own(c) /\ my[c] = hdr
      /\ wal \in [salt : Nat, frames : Seq(AnyFrame)]
    BY <1>1 DEF ContentInv, Whole, Part, Writes, FilesTyped
<1>3. work[c].done = {} /\ pc'[c] = "synchdr"
    BY <1>1, <1>2 DEF Own, Writing, ConnsTyped
<1>4. wal'.frames = wal.frames /\ wal'.salt = my'[c].salt
    BY <1>1, <1>2
<1>5. /\ \A d \in Conn \ {c} : my'[d] = my[d]
      /\ my'[c].mxFrame = 0 /\ count'.tx = count.tx /\ MoreSalt
      /\ \/ my'[c].salt = hdr.salt /\ my'[c].salt # 0
         \/ my'[c].salt = count.salt + 1 /\ count'.salt = count.salt + 1
    <2>1. CASE my[c].salt # 0 /\ UNCHANGED <<my, count>>
        BY <1>1, <1>2, <2>1, Numbers DEF MoreSalt
    <2>2. CASE my' = [my EXCEPT ![c].salt = count.salt + 1] /\ Counts("salt")
        <3>1. count'.salt = count.salt + 1 /\ count'.tx = count.tx /\ MoreSalt
            BY <1>2, <2>2, Counted DEF Counts, FilesTyped
        <3>2. my' = [my EXCEPT ![c] = [my[c] EXCEPT !.salt = count.salt + 1]]
            BY <2>2
        <3>3. \A d \in Conn \ {c} : my'[d] = my[d]
            BY <1>2, <3>2 DEF ConnsTyped
        <3>4. my'[c] = [my[c] EXCEPT !.salt = count.salt + 1] /\ my[c] \in AnyHdr
            BY <1>2, <3>2 DEF ConnsTyped
        <3>5. my'[c].mxFrame = my[c].mxFrame /\ my'[c].salt = count.salt + 1
            BY <3>4 DEF AnyHdr
        <3> QED
            BY <1>1, <3>1, <3>3, <3>5
    <2> QED
        BY <1>1, <2>1, <2>2
<1>6. Apart(c) /\ work'[c] = work[c]
    <2>1. StepOf(c)
        BY WriterSteps DEF WriteTransaction, ContentInv
    <2> QED
        BY <1>1, <1>2, <1>5, <2>1, StepApart DEF ConnsTyped
<1>7. hdr.mxFrame = 0
    BY <1>1, <1>2
<1> QED
    BY <1>1, <1>2, <1>3, <1>4, <1>5, <1>6, <1>7 DEF Heads

LEMMA WriteWalHdrFiles ==
    ASSUME ContentInv, FileInv, ContentInv', NEW c \in Conn \ Checkpointer, WriteWalHdr(c)
    PROVE  FileInv'
<1>1. Heads(c)
    BY WritesHdr
<1> USE DEF Heads
<1>2. hdr.isInit /\ WAL_WRITE_LOCK \in exclusive[c]
    BY <1>1, Built DEF ContentInv, Part, Own, Writing
<1>3. ASSUME NEW d \in Conn \ {c}
      PROVE  Logged(d)' /\ Fresh(d)' /\ pc[d] # "publish" /\ pc'[d] # "publish"
    BY <1>1, <1>2, OthersOwe DEF Writing
<1>4. ~Publishing /\ ~Publishing'
    BY <1>1, <1>3 DEF Publishing
<1>5. EndsAt(wal.frames, hdr.salt, 0)
    BY <1>1, <1>2, <1>4 DEF FileInv, Headed
<1>6. EndsAt(wal'.frames, wal'.salt, 0) /\ wal'.salt # 0
    BY <1>1, <1>5, NewSalt, Numbers DEF FileInv
<1>7. Headed'
    BY <1>1, <1>5 DEF Headed
<1>8. Told'
    BY <1>1 DEF FileInv, Told
<1>9. Kept'
    BY <1>1, <1>2, <1>4, <1>6, <1>8, KeptThen DEF Ends
<1>10. LogCounted(wal)'
    <2>1. wal'.salt <= count'.salt
        BY <1>1, Numbers DEF MoreSalt
    <2>2. ASSUME NEW x, FrameCounted(x), x.salt \in Nat PROVE FrameCounted(x)'
        BY <1>1, <2>2, Numbers DEF FrameCounted, MoreSalt
    <2>3. \A f \in 1..Len(wal.frames) : FrameCounted(wal.frames[f]) /\ wal.frames[f].salt \in Nat
        BY LogTyped DEF FileInv, LogCounted, AnyFrame
    <2> QED
        BY <1>1, <2>1, <2>2, <2>3 DEF LogCounted, FrameCounted
<1>11. Logged(c)'
    BY <1>1, <1>6 DEF Logged
<1>12. Fresh(c)'
    <2>1. work[c].tx = count.tx /\ count.tx > 0 /\ FreshIn(c, wal.frames)
        BY <1>1, <1>2 DEF FileInv, Fresh, Transacts, IsWriter
    <2> QED
        BY <1>1, <2>1 DEF Fresh, FreshIn, Put1
<1> QED
    BY <1>3, <1>7, <1>8, <1>9, <1>10, <1>11, <1>12 DEF FileInv

LEMMA SyncWalHdrFiles ==
    ASSUME ContentInv, FileInv, NEW c \in Conn \ Checkpointer, SyncWalHdr(c)
    PROVE  FileInv'
<1>1. /\ pc[c] = "synchdr" /\ pc' = [pc EXCEPT ![c] = "log"]
      /\ UNCHANGED <<db, wal, hdr, history, count>>
      /\ UNCHANGED <<exclusive, my, minFrame, at, work>>
    BY DEF SyncWalHdr, Goto, shm, lockVars, ghosts
<1>2. ConnsTyped /\ Own(c)
    BY DEF ContentInv, Part
<1>3. Apart(c) /\ pc'[c] = "log"
    <2>1. StepOf(c)
        BY WriterSteps DEF WriteTransaction, ContentInv
    <2> QED
        BY <1>1, <1>2, <2>1, StepApart DEF ConnsTyped
<1>4. work[c].done = {} /\ IsWriter(c)
    BY <1>1, <1>2 DEF Own, Writing, IsWriter
<1>5. Put1(c) = my[c].mxFrame
    <2>1. Cardinality(work[c].done) = 0
        BY <1>4, FS_EmptySet
    <2> QED
        BY <2>1, LogTyped DEF Put1
<1>6. /\ wal.salt = my[c].salt /\ wal.salt # 0
      /\ EndsAt(wal.frames, wal.salt, my[c].mxFrame)
      /\ Chained(wal.frames, wal.salt, Put1(c))
    BY <1>1, <1>5 DEF FileInv, Logged, EndsAt
<1>7. Logged(c)'
    BY <1>1, <1>3, <1>6 DEF Logged, Put1
<1>8. Fresh(c)'
    <2>1. Holds(c)
        BY <1>1, <1>4 DEF Holds, Transacts
    <2> QED
        BY <1>1, <2>1, HeldFresh DEF FileInv
<1> QED
    BY <1>1, <1>3, <1>7, <1>8, QuietFiles, Numbers DEF MoreSalt

-----------------------------------------------------------------------------
LEMMA FilesInitially == Init => FileInv
<1> SUFFICES ASSUME Init PROVE FileInv
    OBVIOUS
<1>0. ContentInv
    BY ContentInitially
<1>1. /\ wal = [salt |-> 0, frames |-> <<>>] /\ db = [p \in Page |-> 0]
      /\ hdr = NoHdr /\ history = <<db>>
      /\ count = [tx |-> 0, salt |-> 0, checkpoints |-> 0, faults |-> 0]
      /\ exclusive = [c \in Conn |-> {}] /\ pc = [c \in Conn |-> "idle"]
    BY DEF Init, LocksInit, LocksFree, Each
<1>2. Len(wal.frames) = 0 /\ wal.salt = 0 /\ ~hdr.isInit
    BY <1>1 DEF NoHdr
<1>3. ~Publishing /\ LastOf(Reached) = db
    <2>1. ~Publishing
        BY <1>1 DEF Publishing
    <2>2. LastOf(history) = db
        BY <1>1 DEF LastOf
    <2> QED
        BY <2>1, <2>2, ReachedQuietly
<1>4. LogCounted(wal) /\ Headed /\ Told
    BY <1>1, <1>2 DEF LogCounted, Headed, Told
<1>5. Kept
    <2> SUFFICES ASSUME NEW n, EndsAt(wal.frames, wal.salt, n), NEW p \in Page, NEW f \in Nat,
                        LastIn(wal.frames, f, p, 1, n)
                 PROVE  db[p] = IF f = 0 THEN db[p] ELSE wal.frames[f].tx
        BY <1>3 DEF Kept, Makes
    <2>1. n \in Nat /\ n <= 0
        BY <1>2 DEF EndsAt, Chained
    <2>2. f = 0
        BY <2>1 DEF LastIn
    <2> QED
        BY <2>2
<1>6. \A c \in Conn : Logged(c) /\ Fresh(c)
    BY <1>1 DEF Logged, Fresh, Transacts, IsWriter
<1> QED
    BY <1>4, <1>5, <1>6 DEF FileInv

LEMMA ReaderFiles ==
    ASSUME ContentInv, FileInv, ContentInv', NEW c \in Conn \ Checkpointer,
           BeginRead(c) \/ EndTransaction(c) \/ Recover(c) \/ ResetCkptInfo(c)
    PROVE  FileInv'
<1>1. CASE Recover(c)
    BY <1>1, RecoverFiles
<1>2. CASE BeginRead(c) \/ EndTransaction(c) \/ ResetCkptInfo(c)
    <2>1. Acts(c) /\ Far(c)
        BY <1>2, ReadFar, ChooseFar, WriteFar DEF BeginRead
    <2> QED
        BY <2>1, FarSteps
<1> QED
    BY <1>1, <1>2

LEMMA WriterFiles ==
    ASSUME ContentInv, FileInv, ContentInv', NEW c \in Conn \ Checkpointer, WriteTransaction(c)
    PROVE  FileInv'
<1>1. CASE RestartMarks(c) \/ LeaveZero(c)
    BY <1>1, WriteFar, FarSteps
<1> QED
    BY <1>1, BeginWriteFiles, RestartHdrFiles, WriteWalHdrFiles, SyncWalHdrFiles,
       WriteFrameFiles, FailWriteFiles, PublishFiles DEF WriteTransaction

LEMMA CheckpointFiles ==
    ASSUME ContentInv, FileInv, ContentInv', NEW c \in Checkpointer, Checkpoint(c)
    PROVE  FileInv'
<1>1. CASE BackfillPage(c) \/ FailBackfill(c)
    BY <1>1, CopyFiles
<1>2. CASE \/ BeginCheckpoint(c) \/ SomethingToDo(c) \/ LimitByMark(c) \/ SyncLog(c)
           \/ FailSyncLog(c) \/ Backfilled(c) \/ EndCheckpoint(c)
    BY <1>2, CheckpointFar, FarSteps, WalAssumption
<1> QED
    BY <1>1, <1>2 DEF Checkpoint

LEMMA FilesStep ==
    ASSUME ContentInv, FileInv, ContentInv', [Next]_vars, [~PowerLoss]_vars
    PROVE  FileInv'
<1>1. CASE UNCHANGED vars
    <2>1. /\ UNCHANGED <<db, wal, hdr, history, count>>
          /\ UNCHANGED <<shared, exclusive, pc, my, minFrame, at, work>>
        BY <1>1 DEF vars, files, shm, lockVars, conns, ghosts
    <2>2. Reached' = Reached
        BY <2>1 DEF Reached, Written
    <2> QED
        BY <2>1, <2>2
           DEF FileInv, LogCounted, FrameCounted, Headed, Publishing, Told, Kept, Logged, Fresh,
               FreshIn, Transacts, IsWriter, Put1
<1>2. CASE Next /\ ~PowerLoss
    <2>1. CASE \E c \in Conn \ Checkpointer :
                  \/ Recover(c) \/ ResetCkptInfo(c)
                  \/ BeginRead(c) \/ WriteTransaction(c) \/ EndTransaction(c)
        BY <2>1, ReaderFiles, WriterFiles
    <2>2. CASE \E c \in Checkpointer : Checkpoint(c)
        BY <2>2, CheckpointFiles
    <2>3. CASE Kill
        BY <2>3, KillFiles
    <2> QED
        BY <1>2, <2>1, <2>2, <2>3 DEF Next
<1> QED
    BY <1>1, <1>2


-----------------------------------------------------------------------------
(***************************************************************************)
(* The power may fail.  What then is left of the log is a mix of the       *)
(* frames that were written and of those that had reached the disk, with   *)
(* torn ones; and of the database, a mix of the pages.                     *)
(***************************************************************************)
Live(s) == s # 0 /\ (s = wal.salt \/ s = walDisk.salt \/ (hdr.isInit /\ s = hdr.salt))

Mixes(frames, n) ==
    \A f \in 1..n : \/ frames[f] = wal.frames[f]
                    \/ f <= Len(walDisk.frames) /\ frames[f] = walDisk.frames[f]

\* A commit at the end of a chain of frames of both kinds ends a chain of the log.
Unmixed ==
    \A s, frames : \A n \in 1..Len(wal.frames) :
        Live(s) /\ Mixes(frames, n) /\ Chained(frames, s, n) /\ frames[n].commit
            => Agree(wal.frames, frames, n)

\* A frame on the disk is the log's if it is of the same transaction.
Named ==
    \A f \in 1..Len(walDisk.frames) :
        walDisk.frames[f].tx = wal.frames[f].tx => walDisk.frames[f] = wal.frames[f]

\* A page that was copied and is not synced is in the log that was synced.
Backed ==
    \A s \in {wal.salt, walDisk.salt} : \A n : EndsAt(walDisk.frames, s, n) =>
        \A p \in Page : db[p] # dbDisk[p] => \E f \in 1..n : walDisk.frames[f].page = p

\* The database is synced when all of the log is in it.
Copied == hdr.isInit /\ nBackfill >= hdr.mxFrame => db = dbDisk

\* Wherever a chain of the log may end that goes on what is on the disk, it
\* shows a content that is as young as what was durable.
Recoverable ==
    \A s \in {wal.salt, walDisk.salt} : \A n, m \in Nat :
        /\ EndsAt(walDisk.frames, s, n) /\ n <= m
        /\ Chained(wal.frames, s, m) /\ CommitAt(wal.frames, m)
        => \E k \in durable..Len(Reached) : Makes(db, wal.frames, 1, m, Reached[k])

\* The header of the log is synced before frames follow it.
HdrSynced == walDisk.salt = wal.salt \/ EndsAt(wal.frames, wal.salt, 0)

Saves(c) ==
    /\ pc[c] \in {"log", "publish"} => walDisk.salt = wal.salt
    /\ pc[c] = "backfill" => \A n : EndsAt(walDisk.frames, wal.salt, n) => at[c][2] <= n
    /\ Transacts(c) => FreshIn(c, walDisk.frames)

DiskTyped ==
    /\ walDisk \in Log /\ dbDisk \in [Page -> Int] /\ durable \in 1..Len(history)
    /\ Len(walDisk.frames) <= Len(wal.frames)

DiskInv ==
    /\ DiskTyped /\ LogCounted(walDisk) /\ Unmixed /\ Named /\ Backed /\ Copied /\ Recoverable
    /\ HdrSynced
    /\ \A c \in Conn : Saves(c)

-----------------------------------------------------------------------------
LEMMA DiskNumbers ==
    ASSUME DiskInv
    PROVE  /\ walDisk.salt \in Nat /\ walDisk.frames \in Seq(AnyFrame) /\ Len(walDisk.frames) \in Nat
           /\ \A f \in 1..Len(walDisk.frames) : walDisk.frames[f] \in AnyFrame
           /\ durable \in Nat /\ 1 <= durable /\ durable <= Len(history)
<1>1. walDisk \in Log
    BY DEF DiskInv, DiskTyped
<1>2. walDisk.salt \in Nat /\ walDisk.frames \in Seq(AnyFrame)
    BY <1>1 DEF Log
<1>3. Len(walDisk.frames) \in Nat /\ \A f \in 1..Len(walDisk.frames) : walDisk.frames[f] \in AnyFrame
    BY <1>2
<1> QED
    BY <1>2, <1>3 DEF DiskInv, DiskTyped

\* The chain of a salt ends somewhere.
LEMMA SomeEnd ==
    ASSUME NEW log \in Log, NEW s \in Nat,
           \A f \in 1..Len(log.frames) : log.frames[f].commit => log.frames[f].salt # 0
    PROVE  \E n \in Nat : EndsAt(log.frames, s, n)
<1> DEFINE other == [salt |-> s, frames |-> log.frames]
<1>1. other \in Log /\ other.frames = log.frames /\ other.salt = s
    BY DEF Log
<1>2. EndsAt(other.frames, other.salt, RecoveredHdr(other).mxFrame)
    BY <1>1, RecoveredEnd
<1> QED
    BY <1>1, <1>2 DEF EndsAt

\* The chain that ends on the disk is in the log.
LEMMA DiskChain ==
    ASSUME ContentInv, FileInv, DiskInv, NEW s, s = wal.salt \/ s = walDisk.salt,
           NEW n, EndsAt(walDisk.frames, s, n)
    PROVE  /\ n \in Nat /\ n <= Len(walDisk.frames) /\ n <= Len(wal.frames)
           /\ \A f \in 1..n : wal.frames[f] = walDisk.frames[f]
           /\ Chained(wal.frames, s, n) /\ CommitAt(wal.frames, n)
<1>1. /\ n \in Nat /\ n <= Len(walDisk.frames) /\ Len(walDisk.frames) \in Nat
      /\ Len(walDisk.frames) <= Len(wal.frames) /\ Len(wal.frames) \in Nat
      /\ Chained(walDisk.frames, s, n) /\ CommitAt(walDisk.frames, n)
    BY DiskNumbers, LogTyped DEF EndsAt, Chained, DiskInv, DiskTyped
<1>2. CASE n = 0
    BY <1>1, <1>2 DEF Chained, CommitAt
<1>3. CASE n # 0
    <2>1. n \in 1..Len(walDisk.frames) /\ n \in 1..n /\ n \in 1..Len(wal.frames)
        BY <1>1, <1>3
    <2>2. walDisk.frames[n].commit /\ walDisk.frames[n].salt = s
        BY <1>1, <1>3, <2>1 DEF CommitAt, Chained
    <2>3. Live(s)
        BY <2>1, <2>2 DEF DiskInv, LogCounted, FrameCounted, Live
    <2>4. Mixes(walDisk.frames, n)
        BY <1>1 DEF Mixes
    <2>5. Agree(wal.frames, walDisk.frames, n)
        BY <1>1, <2>1, <2>2, <2>3, <2>4 DEF DiskInv, Unmixed
    <2>6. \A f \in 1..n : wal.frames[f] = walDisk.frames[f]
        BY <2>5 DEF Agree
    <2>7. Agree(walDisk.frames, wal.frames, n)
        BY <2>6 DEF Agree
    <2>8. Chained(wal.frames, s, n)
        BY <1>1, <2>7, ChainedAlike
    <2>9. CommitAt(wal.frames, n)
        BY <2>1, <2>2, <2>6 DEF CommitAt
    <2> QED
        BY <1>1, <2>6, <2>8, <2>9
<1> QED
    BY <1>2, <1>3

\* Of the frames on the disk those of the salt of either log end somewhere.
LEMMA DiskEnds ==
    ASSUME ContentInv, DiskInv, NEW s \in Nat
    PROVE  \E n \in Nat : EndsAt(walDisk.frames, s, n)
<1>1. walDisk \in Log
    BY DEF DiskInv, DiskTyped
<1>2. \A f \in 1..Len(walDisk.frames) : walDisk.frames[f].commit => walDisk.frames[f].salt # 0
    BY DEF DiskInv, LogCounted, FrameCounted
<1> QED
    BY <1>1, <1>2, SomeEnd

\* When the header has frames the log on the disk has its salt.
LEMMA SaltSynced ==
    ASSUME ContentInv, FileInv, DiskInv, hdr.isInit, hdr.mxFrame > 0
    PROVE  walDisk.salt = wal.salt
<1>1. CASE Publishing
    BY <1>1 DEF Publishing, DiskInv, Saves
<1>2. CASE ~Publishing
    <2>1. wal.salt = hdr.salt /\ EndsAt(wal.frames, hdr.salt, hdr.mxFrame)
        BY <1>2 DEF FileInv, Headed
    <2>2. CASE EndsAt(wal.frames, wal.salt, 0)
        <3>1. hdr.mxFrame = 0
            BY <2>1, <2>2, LogTyped, OneEnd
        <3> QED
            BY <3>1
    <2> QED
        BY <2>2 DEF DiskInv, HdrSynced
<1> QED
    BY <1>1, <1>2

Linked(frames, n) == \A f \in 1..n : frames[f].after = Identity(frames, f - 1)

\* Two chains that come to the same frame are one: a frame is known by its
\* transaction and names the one it continues.
LEMMA MixedBack ==
    ASSUME ContentInv, DiskInv, NEW s, NEW frames, NEW n \in Nat, Mixes(frames, n),
           Chained(wal.frames, s, n), Linked(frames, n),
           Identity(frames, n) = Identity(wal.frames, n)
    PROVE  Agree(wal.frames, frames, n)
<1> DEFINE apart == {f \in 1..n : frames[f] # wal.frames[f]}
<1>1. SUFFICES ASSUME apart # {} PROVE FALSE
    BY DEF Agree
<1> DEFINE g == Greatest(apart)
<1>2. apart \in SUBSET (0..n)
    BY <1>1
<1>3. g \in apart /\ \A x \in apart : x <= g
    <2> HIDE DEF apart
    <2> QED
        BY <1>1, <1>2, GreatestOf
<1>4. g \in 1..n /\ frames[g] # wal.frames[g] /\ \A f \in (g + 1)..n : frames[f] = wal.frames[f]
    BY <1>3
<1> HIDE DEF g
<1>5. g \in 1..Len(walDisk.frames) /\ frames[g] = walDisk.frames[g]
    BY <1>4 DEF Mixes
<1>6. Identity(frames, g) = Identity(wal.frames, g)
    <2>1. CASE g = n
        BY <2>1
    <2>2. CASE g # n
        <3>1. g + 1 \in 1..n /\ g + 1 \in (g + 1)..n /\ (g + 1) - 1 = g
            BY <1>4, <2>2
        <3>2. frames[g + 1].after = Identity(frames, g) /\ wal.frames[g + 1].after = Identity(wal.frames, g)
            BY <3>1 DEF Chained, Linked
        <3> QED
            BY <1>4, <3>1, <3>2
    <2> QED
        BY <2>1, <2>2
<1>7. frames[g].tx = wal.frames[g].tx
    <2>1. <<frames[g].page, frames[g].tx>> = <<wal.frames[g].page, wal.frames[g].tx>>
        BY <1>4, <1>6 DEF Identity
    <2> QED
        BY <2>1
<1> QED
    BY <1>4, <1>5, <1>7 DEF DiskInv, Named

-----------------------------------------------------------------------------
(***************************************************************************)
(* Steps that change neither the files nor what has reached the disk.      *)
(***************************************************************************)
SameDisk == UNCHANGED <<db, wal, dbDisk, walDisk, durable>>

\* No salt that was forgotten is used again.
OldOrNew == \A s : Live(s)' => Live(s) \/ s > count.salt

LEMMA UnmixedStays ==
    ASSUME ContentInv, FileInv, DiskInv, wal'.frames = wal.frames, UNCHANGED walDisk, OldOrNew
    PROVE  Unmixed'
<1> SUFFICES ASSUME NEW s, NEW frames, NEW n \in 1..Len(wal.frames), Live(s)', Mixes(frames, n),
                    Chained(frames, s, n), frames[n].commit
             PROVE  Agree(wal.frames, frames, n)
    BY DEF Unmixed, Mixes
<1>1. CASE Live(s)
    BY <1>1 DEF DiskInv, Unmixed
<1>2. CASE s > count.salt
    <2>1. 1 \in 1..n /\ n \in Nat /\ Len(wal.frames) \in Nat /\ 1 \in 1..Len(wal.frames)
        BY LogTyped
    <2>2. frames[1].salt = s
        BY <2>1 DEF Chained
    <2>3. frames[1].salt \in Nat /\ frames[1].salt <= count.salt
        <3>1. CASE frames[1] = wal.frames[1]
            BY <2>1, <3>1, LogTyped DEF FileInv, LogCounted, FrameCounted, AnyFrame
        <3>2. CASE 1 <= Len(walDisk.frames) /\ frames[1] = walDisk.frames[1]
            <4>1. 1 \in 1..Len(walDisk.frames)
                BY <3>2, DiskNumbers
            <4>2. walDisk.frames[1] \in AnyFrame /\ FrameCounted(walDisk.frames[1])
                BY <4>1, DiskNumbers DEF DiskInv, LogCounted
            <4> QED
                BY <3>2, <4>2 DEF AnyFrame, FrameCounted
        <3> QED
            BY <2>1, <3>1, <3>2 DEF Mixes
    <2> QED
        BY <1>2, <2>2, <2>3, Numbers
<1> QED
    BY <1>1, <1>2 DEF OldOrNew

LEMMA DiskCounted ==
    ASSUME ContentInv, DiskInv, UNCHANGED walDisk,
           MoreSalt, count'.tx \in Nat, count'.tx >= count.tx
    PROVE  LogCounted(walDisk)'
<1>1. walDisk.salt \in Nat /\ count.salt \in Nat /\ count.tx \in Nat
    BY Numbers, DiskNumbers
<1>2. ASSUME NEW f \in 1..Len(walDisk.frames)
      PROVE  /\ walDisk.frames[f].salt \in Nat /\ walDisk.frames[f].tx \in Int
             /\ walDisk.frames[f].after[2] \in Int
    BY DiskNumbers DEF AnyFrame
<1>3. LogCounted(walDisk)
    BY DEF DiskInv
<1> QED
    BY <1>1, <1>2, <1>3 DEF LogCounted, FrameCounted, MoreSalt

LEMMA DiskStays ==
    ASSUME ContentInv, FileInv, DiskInv, ContentInv',
           SameDisk, Reached' = Reached, Len(history) <= Len(history'),
           MoreSalt, count'.tx >= count.tx, OldOrNew,
           Copied', \A c \in Conn : Saves(c)'
    PROVE  DiskInv'
<1> USE DEF SameDisk
<1>1. DiskTyped'
    <2>1. Len(history) \in Nat /\ Len(history') \in Nat
        BY DEF ContentInv, Whole, FilesTyped
    <2> QED
        BY <2>1, DiskNumbers DEF DiskInv, DiskTyped
<1>2. LogCounted(walDisk)'
    <2>1. count'.tx \in Nat
        BY DEF ContentInv, Whole, FilesTyped
    <2> QED
        BY <2>1, DiskCounted
<1>3. Unmixed'
    BY UnmixedStays
<1>4. Named' /\ Backed' /\ HdrSynced'
    BY DEF DiskInv, Named, Backed, HdrSynced
<1>5. Recoverable'
    BY DEF DiskInv, Recoverable
<1> QED
    BY <1>1, <1>2, <1>3, <1>4, <1>5 DEF DiskInv

\* Where a connection owes nothing to the disk, or what it owed before.
SavesStill(c) ==
    /\ pc'[c] \in {"log", "publish"} => pc[c] \in {"log", "publish"}
    /\ pc'[c] = "backfill" => pc[c] = "backfill" /\ at'[c] = at[c]
    /\ Holds(c)

LEMMA SavesAs ==
    ASSUME NEW c \in Conn, Saves(c), SavesStill(c), UNCHANGED <<wal, walDisk>>, count'.tx = count.tx
    PROVE  Saves(c)'
<1>1. pc'[c] \in {"log", "publish"} => walDisk'.salt = wal'.salt
    BY DEF Saves, SavesStill
<1>2. pc'[c] = "backfill" => \A n : EndsAt(walDisk'.frames, wal'.salt, n) => at'[c][2] <= n
    BY DEF Saves, SavesStill
<1>3. ASSUME Transacts(c)' PROVE FreshIn(c, walDisk.frames)'
    <2>1. Transacts(c) /\ my'[c].mxFrame = my[c].mxFrame /\ work'[c] = work[c]
        BY <1>3 DEF SavesStill, Holds
    <2>2. FreshIn(c, walDisk.frames)
        BY <2>1 DEF Saves
    <2> QED
        BY <2>1, <2>2 DEF FreshIn, Put1
<1> QED
    BY <1>1, <1>2, <1>3 DEF Saves

LEMMA SavesApart ==
    ASSUME NEW d \in Conn, Saves(d), Same(d), UNCHANGED <<wal, walDisk>>, count'.tx = count.tx
    PROVE  Saves(d)'
<1>1. SavesStill(d)
    BY DEF SavesStill, Same, Holds, Transacts, IsWriter
<1> QED
    BY <1>1, SavesAs

\* A step of one connection that leaves the header too.
LEMMA FarDisk ==
    ASSUME ContentInv, FileInv, DiskInv, ContentInv', NEW c \in Conn, Acts(c), Far(c),
           UNCHANGED <<dbDisk, walDisk, durable>>, Copied', pc'[c] # "backfill" \/ Saves(c)'
    PROVE  DiskInv'
<1>1. Apart(c)
    BY StepApart DEF Acts
<1>2. SameDisk /\ UNCHANGED <<hdr, history, wal, walDisk>> /\ count'.tx = count.tx /\ MoreSalt
    BY DEF Far, SameDisk
<1>3. pc[c] # "publish" /\ pc'[c] \notin {"log", "publish"} /\ Holds(c)
    BY DEF Far, Afar, Checkpointing, Copying
<1>4. Reached' = Reached
    BY <1>1, <1>2, <1>3, ReachedStays
<1>5. OldOrNew
    BY <1>2 DEF OldOrNew, Live
<1>6. ASSUME NEW d \in Conn PROVE Saves(d)'
    <2>1. Saves(d)
        BY DEF DiskInv
    <2>2. CASE d # c
        BY <1>1, <1>2, <2>1, <2>2, SavesApart DEF Apart
    <2>3. CASE d = c /\ pc'[c] # "backfill"
        BY <1>2, <1>3, <2>1, <2>3, SavesAs DEF SavesStill
    <2> QED
        BY <2>2, <2>3
<1>7. Len(history) <= Len(history') /\ count'.tx >= count.tx
    BY <1>2, Numbers DEF ContentInv, Whole, FilesTyped
<1> QED
    BY <1>2, <1>4, <1>5, <1>6, <1>7, DiskStays

LEMMA CopiedStays ==
    ASSUME DiskInv, UNCHANGED <<db, dbDisk, hdr, nBackfill>>
    PROVE  Copied'
BY DEF DiskInv, Copied

LEMMA ReaderDisk ==
    ASSUME ContentInv, FileInv, DiskInv, ContentInv', NEW c \in Conn \ Checkpointer,
           BeginRead(c) \/ EndTransaction(c) \/ LeaveZero(c)
    PROVE  DiskInv'
<1>1. Acts(c) /\ Far(c)
    BY ReadFar, ChooseFar, WriteFar DEF BeginRead
<1>2. UNCHANGED <<db, dbDisk, walDisk, durable, hdr, nBackfill>>
    BY DEF BeginRead, ReadHdr, IgnoreLog, ChooseMark, LockMark, CheckMark, EndTransaction,
           LeaveZero, files, shm, ghosts
<1>3. pc'[c] # "backfill"
    <2>1. Own(c)'
        BY DEF ContentInv, Part
    <2> QED
        BY <2>1 DEF Own, Transacting, Free, Writing
<1> QED
    BY <1>1, <1>2, <1>3, CopiedStays, FarDisk

LEMMA MarksDisk ==
    ASSUME ContentInv, FileInv, DiskInv, ContentInv', NEW c \in Conn \ Checkpointer,
           ResetCkptInfo(c) \/ RestartMarks(c)
    PROVE  DiskInv'
<1>1. Acts(c) /\ Far(c)
    BY WriteFar
<1>2. /\ UNCHANGED <<db, dbDisk, walDisk, durable, hdr>> /\ nBackfill' = 0
      /\ pc[c] \in {"recover", "restart"}
    BY DEF ResetCkptInfo, RestartMarks, files, ghosts
<1>3. pc'[c] # "backfill"
    <2>1. Own(c)'
        BY DEF ContentInv, Part
    <2> QED
        BY <2>1 DEF Own, Transacting, Free, Writing
<1>4. Copied'
    <2>1. Restarts(c)
        BY DEF ContentInv, Part
    <2>2. CASE pc[c] = "recover"
        <3>1. nBackfill = 0
            BY <2>1, <2>2 DEF Restarts
        <3> QED
            BY <1>2, <3>1, CopiedStays
    <2>3. CASE pc[c] = "restart"
        <3>1. hdr.mxFrame = 0 /\ nBackfill >= hdr.mxFrame
            BY <2>1, <2>3, Numbers DEF Restarts
        <3> QED
            BY <1>2, <3>1 DEF DiskInv, Copied
    <2> QED
        BY <1>2, <2>2, <2>3
<1> QED
    BY <1>1, <1>2, <1>3, <1>4, FarDisk

LEMMA LookingDisk ==
    ASSUME ContentInv, FileInv, DiskInv, ContentInv', NEW c \in Checkpointer,
           \/ BeginCheckpoint(c) \/ SomethingToDo(c) \/ LimitByMark(c) \/ FailSyncLog(c)
           \/ EndCheckpoint(c)
    PROVE  DiskInv'
<1>1. Acts(c) /\ Far(c) /\ c \in Conn
    BY CheckpointFar, WalAssumption
<1>2. UNCHANGED <<db, dbDisk, walDisk, durable, hdr, nBackfill>>
    BY DEF BeginCheckpoint, SomethingToDo, LimitByMark, FailSyncLog, EndCheckpoint, files, shm, ghosts
<1>3. pc'[c] # "backfill"
    <2>1. ConnsTyped
        BY DEF ContentInv
    <2> QED
        BY <1>1, <2>1
           DEF BeginCheckpoint, SomethingToDo, LimitByMark, FailSyncLog, EndCheckpoint, Leave, Goto, ConnsTyped
<1> QED
    BY <1>1, <1>2, <1>3, CopiedStays, FarDisk

\* The database is synced when all of the log has been copied.
LEMMA BackfilledDisk ==
    ASSUME ContentInv, FileInv, DiskInv, ContentInv', NEW c \in Checkpointer, Backfilled(c)
    PROVE  DiskInv'
<1>1. Acts(c) /\ Far(c) /\ c \in Conn
    BY CheckpointFar, WalAssumption
<1>2. /\ pc[c] = "backfill" /\ UNCHANGED <<db, wal, walDisk, hdr, history, durable, count>>
      /\ dbDisk' = IF at[c][2] = hdr.mxFrame THEN db ELSE dbDisk
      /\ nBackfill' = at[c][2]
      /\ pc' = [pc EXCEPT ![c] = "checkpointed"]
    BY DEF Backfilled, Goto, ghosts
<1>3. /\ at[c][2] <= hdr.mxFrame /\ at[c][2] \in Nat /\ hdr.mxFrame \in Nat
    <2>1. at[c][2] \in Nat /\ at[c][2] <= my[c].mxFrame /\ my[c].mxFrame <= hdr.mxFrame
          /\ my[c].mxFrame \in Nat
        BY <1>2, Copier
    <2> QED
        BY <2>1, Numbers
<1>4. dbDisk' = db \/ (dbDisk' = dbDisk /\ nBackfill' < hdr'.mxFrame)
    BY <1>2, <1>3
<1>5. Copied'
    BY <1>2, <1>3, <1>4 DEF Copied
<1>6. Apart(c) /\ pc'[c] = "checkpointed"
    BY <1>1, <1>2, StepApart DEF Acts, ContentInv, ConnsTyped
<1>7. Reached' = Reached
    BY <1>1, <1>2, <1>6, ReachedStays DEF Far
<1>8. ASSUME NEW d \in Conn PROVE Saves(d)'
    <2>1. Saves(d)
        BY DEF DiskInv
    <2>2. CASE d # c
        BY <1>2, <1>6, <2>1, <2>2, SavesApart DEF Apart
    <2>3. CASE d = c
        BY <1>1, <1>2, <1>6, <2>1, <2>3, SavesAs DEF SavesStill, Far
    <2> QED
        BY <2>2, <2>3
<1>9. DiskTyped' /\ LogCounted(walDisk)'
    <2>1. db \in [Page -> Int]
        BY DEF ContentInv, Whole, FilesTyped
    <2>2. LogCounted(walDisk)'
        BY <1>2, DiskCounted, Numbers DEF MoreSalt
    <2> QED
        BY <1>2, <1>4, <2>1, <2>2 DEF DiskInv, DiskTyped
<1>10. Unmixed'
    BY <1>2, UnmixedStays DEF OldOrNew, Live
<1>11. Backed'
    BY <1>2, <1>4 DEF DiskInv, Backed
<1>12. Named' /\ HdrSynced' /\ Recoverable'
    BY <1>2, <1>7 DEF DiskInv, Named, HdrSynced, Recoverable
<1> QED
    BY <1>5, <1>8, <1>9, <1>10, <1>11, <1>12 DEF DiskInv

-----------------------------------------------------------------------------
(***************************************************************************)
(* Steps that change the header, and a kill.                               *)
(***************************************************************************)

\* Where the header counts no frame nothing was copied that is not synced.
LEMMA NothingToSync ==
    ASSUME ContentInv, FileInv, DiskInv, EndsAt(wal.frames, wal.salt, 0)
    PROVE  db = dbDisk
<1>1. PICK n \in Nat : EndsAt(walDisk.frames, wal.salt, n)
    BY DiskEnds, LogTyped
<1>2. n \in Nat /\ Chained(wal.frames, wal.salt, n) /\ CommitAt(wal.frames, n)
    BY <1>1, DiskChain
<1>3. n = 0
    <2>1. n <= 0
        BY <1>2, LogTyped, NoneBeyond
    <2> QED
        BY <1>2, <2>1
<1>4. \A p \in Page : db[p] # dbDisk[p] => \E f \in 1..n : walDisk.frames[f].page = p
    BY <1>1 DEF DiskInv, Backed
<1>5. \A p \in Page : db[p] = dbDisk[p]
    BY <1>3, <1>4
<1>6. db \in [Page -> Int] /\ dbDisk \in [Page -> Int]
    BY DEF DiskInv, DiskTyped, ContentInv, Whole, FilesTyped
<1> QED
    BY <1>5, <1>6

LEMMA RecoverDisk ==
    ASSUME ContentInv, FileInv, DiskInv, ContentInv', NEW c \in Conn \ Checkpointer, Recover(c)
    PROVE  DiskInv'
<1>1. /\ ~hdr.isInit /\ hdr' = RecoveredHdr(wal) /\ pc' = [pc EXCEPT ![c] = "recover"]
      /\ UNCHANGED <<db, wal, dbDisk, walDisk, nBackfill, history, durable, count>>
    BY DEF Recover, Goto, files, ghosts
<1>2. ConnsTyped /\ (\A d \in Conn : pc[d] = "idle") /\ nBackfill = 0
    BY <1>1 DEF ContentInv, Whole, Pristine
<1>3. \A d \in Conn : pc'[d] \in {"idle", "recover"}
    BY <1>1, <1>2 DEF ConnsTyped
<1>4. ~Publishing /\ ~Publishing'
    BY <1>2, <1>3 DEF Publishing
<1>5. Reached' = Reached
    BY <1>1, <1>4, ReachedQuietly, ReachedQuietlyThen
<1>6. hdr'.salt = wal.salt /\ EndsAt(wal.frames, wal.salt, hdr'.mxFrame)
    <2>1. \A f \in 1..Len(wal.frames) : wal.frames[f].commit => wal.frames[f].salt # 0
        BY DEF FileInv, LogCounted, FrameCounted
    <2> QED
        BY <1>1, <2>1, LogTyped, RecoveredTyped, RecoveredEnd DEF Log
<1>7. Copied'
    <2>1. hdr'.mxFrame \in Nat
        BY <1>6 DEF EndsAt
    <2>2. CASE hdr'.mxFrame = 0
        BY <1>1, <1>6, <2>2, NothingToSync DEF Copied
    <2>3. CASE hdr'.mxFrame > 0
        BY <1>1, <1>2, <2>1, <2>3 DEF Copied
    <2> QED
        BY <2>1, <2>2, <2>3
<1>8. OldOrNew
    BY <1>1, <1>6 DEF OldOrNew, Live
<1>9. ASSUME NEW d \in Conn PROVE Saves(d)'
    <2>1. CASE pc'[d] = "recover"
        BY <2>1 DEF Saves, Transacts
    <2>2. CASE pc'[d] = "idle"
        <3>1. Own(d)'
            BY DEF ContentInv, Part
        <3>2. exclusive'[d] = {}
            BY <2>2, <3>1 DEF Own, Free
        <3> QED
            BY <2>2, <3>2 DEF Saves, Transacts, IsWriter
    <2> QED
        BY <1>3, <2>1, <2>2
<1>10. Len(history) <= Len(history') /\ count'.tx >= count.tx /\ MoreSalt
    BY <1>1, Numbers DEF ContentInv, Whole, FilesTyped, MoreSalt
<1> QED
    BY <1>1, <1>5, <1>7, <1>8, <1>9, <1>10, DiskStays DEF SameDisk

LEMMA KillDisk ==
    ASSUME ContentInv, FileInv, DiskInv, ContentInv', Kill
    PROVE  DiskInv'
<1>1. /\ hdr' = NoHdr /\ pc' = [c \in Conn |-> "idle"] /\ exclusive' = [c \in Conn |-> {}]
      /\ UNCHANGED <<db, wal, dbDisk, walDisk, durable>> /\ history' = Reached /\ Counts("faults")
    BY DEF Kill, Stop, Each, files
<1>2. count'.tx = count.tx /\ MoreSalt
    BY <1>1, Counted DEF Counts, ContentInv, Whole, FilesTyped
<1>3. ~hdr'.isInit /\ ~Publishing'
    BY <1>1 DEF NoHdr, Publishing
<1>4. Reached' = Reached
    BY <1>1, <1>3, ReachedQuietlyThen
<1>5. \A c \in Conn : Saves(c)'
    BY <1>1 DEF Saves, Transacts, IsWriter
<1>6. Copied' /\ OldOrNew
    BY <1>1, <1>3 DEF Copied, OldOrNew, Live
<1>7. Len(history) <= Len(history')
    <2>1. history \in Seq([Page -> Int])
        BY DEF ContentInv, Whole, FilesTyped
    <2>2. CASE Publishing
        <3>1. \E x : Reached = Append(history, x)
            BY <2>2 DEF Reached, Publishing
        <3> QED
            BY <1>1, <2>1, <3>1
    <2>3. CASE ~Publishing
        BY <1>1, <2>1, <2>3, ReachedQuietly
    <2> QED
        BY <2>2, <2>3
<1>8. count'.tx >= count.tx
    BY <1>2, Numbers
<1> QED
    BY <1>1, <1>2, <1>4, <1>5, <1>6, <1>7, <1>8, DiskStays DEF SameDisk

\* The other connections when one holds WRITE_LOCK.
LEMMA OthersSave ==
    ASSUME ContentInv, ContentInv', DiskInv, NEW c \in Conn, WAL_WRITE_LOCK \in exclusive[c],
           Apart(c), NEW d \in Conn \ {c},
           pc[d] # "backfill" \/ (UNCHANGED walDisk /\ wal'.salt = wal.salt)
    PROVE  Saves(d)'
<1>1. pc'[d] \notin Writing /\ pc'[d] = pc[d] /\ at'[d] = at[d]
    BY OthersOwe DEF Apart, Same
<1>2. ~Transacts(d)'
    <2>1. WAL_WRITE_LOCK \notin exclusive[d]
        BY OnlyWriter
    <2> QED
        BY <2>1 DEF Transacts, IsWriter, Apart, Same
<1>3. Saves(d)
    BY DEF DiskInv
<1>4. pc[d] = "backfill" => \A n : EndsAt(walDisk'.frames, wal'.salt, n) => at[d][2] <= n
    BY <1>3 DEF Saves
<1> QED
    BY <1>1, <1>2, <1>4 DEF Saves, Writing

LEMMA PublishDisk ==
    ASSUME ContentInv, FileInv, DiskInv, ContentInv', NEW c \in Conn \ Checkpointer, Publish(c)
    PROVE  DiskInv'
<1>1. /\ pc[c] = "publish" /\ pc' = [pc EXCEPT ![c] = "read"]
      /\ hdr' = [my[c] EXCEPT !.mxFrame = @ + Cardinality(work[c].pages)]
      /\ my' = [my EXCEPT ![c] = hdr'] /\ work' = [work EXCEPT ![c] = NoWork]
      /\ history' = Append(history, Written(c))
      /\ UNCHANGED <<db, wal, dbDisk, walDisk, durable, nBackfill, count>>
      /\ UNCHANGED <<minFrame, at>>
    BY DEF Publish, Goto, files
<1>2. /\ ConnsTyped /\ WAL_WRITE_LOCK \in exclusive[c] /\ work[c].pages = work[c].done
      /\ work[c].pages # {} /\ my[c].mxFrame = hdr.mxFrame
    BY <1>1 DEF ContentInv, Part, Own, Writes, Writing
<1>3. Apart(c) /\ pc'[c] = "read"
    <2>1. StepOf(c)
        BY WriterSteps DEF WriteTransaction, ContentInv
    <2>2. pc'[c] = "read"
        BY <1>1, <1>2 DEF ConnsTyped
    <2> QED
        BY <1>1, <1>2, <2>1, <2>2, StepApart DEF ConnsTyped
<1>4. hdr'.salt = my[c].salt /\ hdr'.mxFrame = Put1(c)
    <2>1. my[c] \in AnyHdr
        BY <1>2, LeftAlone
    <2> QED
        BY <1>1, <1>2, <2>1 DEF AnyHdr, Put1
<1>5. wal.salt = my[c].salt
    BY <1>1 DEF FileInv, Logged
<1>6. Reached = Append(history, Written(c))
    BY <1>1, WrittenShown DEF FileInv
<1>7. ASSUME NEW d \in Conn \ {c}
      PROVE  Saves(d)' /\ pc[d] # "restart" /\ pc'[d] # "publish"
    BY <1>1, <1>2, <1>3, OthersOwe, OthersSave DEF Writing
<1>8. Reached' = Reached
    <2>1. ~Publishing'
        BY <1>3, <1>7 DEF Publishing
    <2> QED
        BY <1>1, <1>6, <2>1, ReachedQuietlyThen
<1>9. Copied'
    <2>1. nBackfill <= hdr.mxFrame
        <3>1. ~(nBackfill > hdr.mxFrame)
            BY <1>1, <1>7 DEF ContentInv, Whole, Ahead
        <3> QED
            BY <3>1, Numbers
    <2>2. Cardinality(work[c].done) # 0 /\ Cardinality(work[c].done) \in Nat
        <3>1. work[c].done \subseteq Page
            BY <1>2, LeftAlone
        <3>2. IsFiniteSet(work[c].done)
            BY <3>1, WalAssumption, FS_Subset
        <3> QED
            BY <1>2, <3>2, FS_EmptySet, FS_CardinalityType
    <2>3. hdr.mxFrame < Put1(c)
        BY <1>2, <2>2, Numbers DEF Put1
    <2>4. ~(nBackfill' >= hdr'.mxFrame)
        BY <1>1, <1>4, <2>1, <2>3, Numbers, LogTyped
    <2> QED
        BY <2>4 DEF Copied
<1>10. OldOrNew
    BY <1>1, <1>4, <1>5 DEF OldOrNew, Live
<1>11. Saves(c)'
    BY <1>3 DEF Saves, Transacts
<1>12. Len(history) <= Len(history') /\ count'.tx >= count.tx /\ MoreSalt
    <2>1. history \in Seq([Page -> Int])
        BY DEF ContentInv, Whole, FilesTyped
    <2>2. Len(history') = Len(history) + 1
        BY <1>1, <2>1
    <2> QED
        BY <1>1, <2>1, <2>2, Numbers DEF MoreSalt
<1> QED
    BY <1>1, <1>7, <1>8, <1>9, <1>10, <1>11, <1>12, DiskStays DEF SameDisk

\* A transaction that begins has a name no frame on the disk has.
LEMMA BeginWriteDisk ==
    ASSUME ContentInv, FileInv, DiskInv, ContentInv', NEW c \in Conn \ Checkpointer, BeginWrite(c)
    PROVE  DiskInv'
<1>1. /\ pc[c] = "read" /\ CanExclude({WAL_WRITE_LOCK})
      /\ UNCHANGED <<db, wal, dbDisk, walDisk, durable, hdr, nBackfill, history>>
    BY DEF BeginWrite, files, shm, ghosts
<1>2. ConnsTyped /\ FilesTyped
    BY DEF ContentInv, Whole
<1>3. StepOf(c)
    BY WriterSteps DEF WriteTransaction, ContentInv
<1>4. Copied' /\ OldOrNew
    BY <1>1, CopiedStays DEF OldOrNew, Live
<1>5. CASE hdr = my[c]
    <2>1. /\ \E pages \in (SUBSET Page) \ {{}} :
                work' = [work EXCEPT ![c] = [tx |-> count.tx + 1, pages |-> pages, done |-> {}]]
          /\ \E l \in {"restartlog", "frames"} : pc' = [pc EXCEPT ![c] = l]
          /\ Counts("tx")
          /\ UNCHANGED <<my, minFrame, at>>
        BY <1>5 DEF BeginWrite, Goto
    <2>2. Apart(c) /\ pc'[c] \in {"restartlog", "frames"}
        BY <1>2, <1>3, <2>1, StepApart DEF ConnsTyped
    <2>3. count'.tx = count.tx + 1 /\ MoreSalt
        BY <1>2, <2>1, Counted DEF Counts, FilesTyped
    <2>4. Reached' = Reached
        BY <1>1, <2>2, ReachedStays
    <2>5. ASSUME NEW d \in Conn \ {c} PROVE Saves(d)'
        <3>1. ~IsWriter(d) /\ ~IsWriter(d)' /\ pc'[d] = pc[d] /\ at'[d] = at[d]
            BY <1>1, <2>2 DEF CanExclude, IsWriter, Apart, Same
        <3>2. pc'[d] \notin {"log", "publish"}
            BY <3>1, OwesNothing DEF OwesNone, Writing
        <3>3. Saves(d)
            BY DEF DiskInv
        <3> QED
            BY <1>1, <3>1, <3>2, <3>3 DEF Saves, Transacts
    <2>6. Saves(c)'
        <3>1. ASSUME NEW f \in 1..Len(walDisk.frames)
              PROVE  walDisk.frames[f].tx # count.tx + 1 /\ walDisk.frames[f].after[2] # count.tx + 1
            <4>1. walDisk.frames[f].tx <= count.tx /\ walDisk.frames[f].after[2] <= count.tx
                BY DEF DiskInv, LogCounted, FrameCounted
            <4>2. walDisk.frames[f].tx \in Int /\ walDisk.frames[f].after[2] \in Int
                BY DiskNumbers DEF AnyFrame
            <4> QED
                BY <4>1, <4>2, Numbers
        <3> QED
            BY <1>1, <2>2, <2>3, <3>1 DEF Saves, FreshIn
    <2>7. Len(history) <= Len(history') /\ count'.tx >= count.tx
        BY <1>1, <1>2, <2>3, Numbers DEF FilesTyped
    <2> QED
        BY <1>1, <1>4, <2>3, <2>4, <2>5, <2>6, <2>7, DiskStays DEF SameDisk
<1>6. CASE hdr # my[c]
    <2>1. Release(c, shared[c]) /\ Leave(c) /\ UNCHANGED <<work, count>>
        BY <1>6 DEF BeginWrite
    <2>2. ~IsWriter(c)' /\ pc'[c] # "backfill"
        BY <1>1, <1>2, <2>1 DEF Release, ConnsTyped, CanExclude, IsWriter, Leave, Goto
    <2>3. Acts(c) /\ Far(c)
        BY <1>1, <1>2, <1>3, <2>1, <2>2, BackFar, Numbers DEF Acts, Far, MoreSalt
    <2> QED
        BY <1>1, <1>4, <2>2, <2>3, FarDisk
<1> QED
    BY <1>5, <1>6

LEMMA RestartHdrDisk ==
    ASSUME ContentInv, FileInv, DiskInv, ContentInv', NEW c \in Conn \ Checkpointer, RestartHdr(c)
    PROVE  DiskInv'
<1> DEFINE h == [isInit |-> TRUE, salt |-> count.salt + 1, mxFrame |-> 0]
<1>1. /\ pc[c] = "restartlog" /\ hdr' = h /\ my' = [my EXCEPT ![c] = h] /\ Counts("salt")
      /\ pc' = [pc EXCEPT ![c] = "restart"]
      /\ UNCHANGED <<db, wal, dbDisk, walDisk, durable, nBackfill, history>>
      /\ UNCHANGED <<minFrame, at, work>>
    BY DEF RestartHdr, Goto, files, ghosts
<1>2. h.salt = count.salt + 1
    OBVIOUS
<1> HIDE DEF h
<1>3. ConnsTyped /\ FilesTyped /\ Own(c) /\ Restarts(c) /\ ZeroReads(c)
    BY DEF ContentInv, Whole, Part
<1>4. WAL_WRITE_LOCK \in exclusive[c] /\ work[c].done = {}
    BY <1>1, <1>3 DEF Own, Writing
<1>5. Apart(c) /\ pc'[c] = "restart" /\ work'[c] = work[c]
    <2>1. StepOf(c)
        BY WriterSteps DEF WriteTransaction, ContentInv
    <2> QED
        BY <1>1, <1>3, <2>1, StepApart DEF ConnsTyped
<1>6. count'.tx = count.tx /\ MoreSalt
    BY <1>1, <1>3, Counted DEF Counts, FilesTyped
<1>7. Reached' = Reached
    BY <1>1, <1>5, ReachedStays
<1>8. Copied'
    <2>1. hdr.isInit
        BY <1>1, Built
    <2>2. nBackfill = hdr.mxFrame
        BY <1>1, <1>3 DEF Restarts, ZeroReads
    <2>3. db = dbDisk
        BY <2>1, <2>2, Numbers DEF DiskInv, Copied
    <2> QED
        BY <1>1, <2>3 DEF Copied
<1>9. OldOrNew
    BY <1>1, <1>2, Numbers DEF OldOrNew, Live
<1>10. ASSUME NEW d \in Conn \ {c} PROVE Saves(d)'
    BY <1>1, <1>4, <1>5, OthersSave
<1>11. Saves(c)'
    <2>1. FreshIn(c, walDisk.frames)
        BY <1>1, <1>4 DEF DiskInv, Saves, Transacts, IsWriter
    <2>2. Cardinality(work[c].done) = 0 /\ my[c].mxFrame \in Nat
        BY <1>4, FS_EmptySet, LogTyped
    <2>3. \A f \in (my[c].mxFrame + 1)..Put1(c) : FALSE
        BY <2>2 DEF Put1
    <2>4. FreshIn(c, walDisk.frames)'
        BY <1>1, <1>5, <1>6, <2>1, <2>3 DEF FreshIn
    <2> QED
        BY <1>5, <2>4 DEF Saves
<1>12. Len(history) <= Len(history') /\ count'.tx >= count.tx
    BY <1>1, <1>3, <1>6, Numbers DEF FilesTyped
<1> QED
    BY <1>1, <1>6, <1>7, <1>8, <1>9, <1>10, <1>11, <1>12, DiskStays DEF SameDisk

-----------------------------------------------------------------------------
(***************************************************************************)
(* Steps that sync the log.                                                *)
(***************************************************************************)
LEMMA ReachedLasts ==
    ASSUME ContentInv
    PROVE  /\ Reached \in Seq([Page -> Int]) /\ Len(Reached) \in Nat /\ Len(history) \in Nat
           /\ 1 <= Len(Reached) /\ Len(history) <= Len(Reached)
           /\ LastOf(Reached) = Reached[Len(Reached)]
<1>1. history \in Seq([Page -> Int]) /\ Reached \in Seq([Page -> Int]) /\ Reached # <<>>
    BY ReachedTyped DEF ContentInv, Whole, FilesTyped
<1>2. Reached = history \/ \E x : Reached = Append(history, x)
    BY DEF Reached
<1>3. Len(history) <= Len(Reached)
    BY <1>1, <1>2
<1>4. Len(Reached) \in Nat /\ Len(history) \in Nat /\ Len(Reached) # 0
    BY <1>1
<1> QED
    BY <1>1, <1>3, <1>4 DEF LastOf

\* The chain on the disk ends no later than the log's.
LEMMA DiskEndsBefore ==
    ASSUME ContentInv, FileInv, DiskInv, NEW n, EndsAt(wal.frames, wal.salt, n)
    PROVE  \E m \in Nat : m <= n /\ EndsAt(walDisk.frames, wal.salt, m)
                          /\ \A f \in 1..m : wal.frames[f] = walDisk.frames[f]
<1>1. PICK m \in Nat : EndsAt(walDisk.frames, wal.salt, m)
    BY LogTyped, DiskEnds
<1>2. /\ \A f \in 1..m : wal.frames[f] = walDisk.frames[f]
      /\ Chained(wal.frames, wal.salt, m) /\ CommitAt(wal.frames, m)
    BY <1>1, DiskChain
<1>3. m <= n
    BY <1>2, LogTyped, NoneBeyond
<1> QED
    BY <1>1, <1>2, <1>3

\* What a synced log holds a checkpoint to.
Limits(d) ==
    pc'[d] = "backfill" => \/ pc[d] = "backfill" /\ at'[d] = at[d]
                           \/ \A n : EndsAt(wal.frames, wal.salt, n) => at'[d][2] <= n

LEMMA SyncedDisk ==
    ASSUME ContentInv, FileInv, DiskInv, ContentInv', FileInv',
           UNCHANGED <<db, wal, dbDisk, hdr, nBackfill, history>>, Reached' = Reached,
           walDisk' = wal, durable' = durable \/ durable' = Len(history),
           \A d \in Conn : Limits(d)
    PROVE  DiskInv'
<1>1. /\ durable' \in Nat /\ 1 <= durable' /\ durable' <= Len(history) /\ Len(history) \in Nat
      /\ durable' <= Len(Reached) /\ Len(Reached) \in Nat
    BY ReachedLasts, DiskNumbers
<1>2. DiskTyped'
    BY <1>1, LogTyped DEF DiskInv, DiskTyped
<1>3. LogCounted(walDisk)'
    <2>1. LogCounted(wal)'
        BY DEF FileInv
    <2> QED
        BY <2>1 DEF LogCounted, FrameCounted
<1>4. Unmixed' /\ Named' /\ HdrSynced'
    BY DEF Unmixed, Mixes, Agree, Named, HdrSynced
<1>5. ASSUME NEW n, EndsAt(wal.frames, wal.salt, n), NEW p \in Page, db[p] # dbDisk[p]
      PROVE  \E f \in 1..n : wal.frames[f].page = p
    <2>1. n \in Nat
        BY <1>5 DEF EndsAt
    <2>2. PICK m \in Nat : /\ m <= n /\ EndsAt(walDisk.frames, wal.salt, m)
                           /\ \A f \in 1..m : wal.frames[f] = walDisk.frames[f]
        BY <1>5, DiskEndsBefore
    <2>3. \E f \in 1..m : walDisk.frames[f].page = p
        BY <1>5, <2>2 DEF DiskInv, Backed
    <2> QED
        BY <2>1, <2>2, <2>3
<1>6. Backed'
    BY <1>5 DEF Backed
<1>7. Copied'
    BY CopiedStays
<1>8. ASSUME NEW n \in Nat, NEW m \in Nat, EndsAt(wal.frames, wal.salt, n), n <= m,
             Chained(wal.frames, wal.salt, m), CommitAt(wal.frames, m)
      PROVE  \E k \in durable'..Len(Reached) : Makes(db, wal.frames, 1, m, Reached[k])
    <2>1. m = n
        <3>1. m <= n
            BY <1>8, LogTyped, NoneBeyond
        <3> QED
            BY <1>8, <3>1
    <2>2. Makes(db, wal.frames, 1, m, LastOf(Reached))
        BY <1>8, <2>1 DEF FileInv, Kept
    <2>3. Len(Reached) \in durable'..Len(Reached)
        BY <1>1
    <2> QED
        BY <2>2, <2>3, ReachedLasts
<1>9. Recoverable'
    BY <1>8 DEF Recoverable, Makes
<1>10. ASSUME NEW d \in Conn PROVE Saves(d)'
    <2>1. Transacts(d)' => FreshIn(d, walDisk.frames)'
        BY DEF FileInv, Fresh, FreshIn
    <2>2. ASSUME pc'[d] = "backfill", NEW n, EndsAt(wal.frames, wal.salt, n)
          PROVE  at'[d][2] <= n
        <3>1. CASE pc[d] = "backfill" /\ at'[d] = at[d]
            <4>1. PICK m \in Nat : m <= n /\ EndsAt(walDisk.frames, wal.salt, m)
                BY <2>2, DiskEndsBefore
            <4>2. at[d][2] <= m
                BY <3>1, <4>1 DEF DiskInv, Saves
            <4>3. at[d][2] \in Nat /\ n \in Nat
                BY <2>2, LeftAlone DEF EndsAt, ContentInv
            <4> QED
                BY <3>1, <4>1, <4>2, <4>3
        <3> QED
            BY <2>2, <3>1 DEF Limits
    <2> QED
        BY <2>1, <2>2 DEF Saves
<1> QED
    BY <1>2, <1>3, <1>4, <1>6, <1>7, <1>9, <1>10 DEF DiskInv

LEMMA SyncWalHdrDisk ==
    ASSUME ContentInv, FileInv, DiskInv, ContentInv', FileInv',
           NEW c \in Conn \ Checkpointer, SyncWalHdr(c)
    PROVE  DiskInv'
<1>1. /\ pc[c] = "synchdr" /\ pc' = [pc EXCEPT ![c] = "log"] /\ walDisk' = wal
      /\ UNCHANGED <<db, wal, dbDisk, hdr, nBackfill, history, durable>>
      /\ UNCHANGED <<my, minFrame, at, work>>
    BY DEF SyncWalHdr, Goto, shm, ghosts
<1>2. Apart(c) /\ pc'[c] = "log"
    <2>1. StepOf(c)
        BY WriterSteps DEF WriteTransaction, ContentInv
    <2> QED
        BY <1>1, <2>1, StepApart DEF ContentInv, ConnsTyped
<1>3. Reached' = Reached
    BY <1>1, <1>2, ReachedStays
<1>4. \A d \in Conn : Limits(d)
    BY <1>2 DEF Limits, Apart, Same
<1> QED
    BY <1>1, <1>3, <1>4, SyncedDisk

\* The log is synced before pages are copied from it.
LEMMA SyncLogDisk ==
    ASSUME ContentInv, FileInv, DiskInv, ContentInv', FileInv', NEW c \in Checkpointer, SyncLog(c)
    PROVE  DiskInv'
<1>1. /\ pc[c] = "limit" /\ pc' = [pc EXCEPT ![c] = "backfill"] /\ walDisk' = wal
      /\ UNCHANGED <<db, wal, dbDisk, hdr, nBackfill, history, at>>
      /\ durable' = Len(history)
    BY DEF SyncLog, Goto, shm
<1>2. c \in Conn /\ Apart(c) /\ pc'[c] = "backfill"
    <2>1. c \in Conn
        BY WalAssumption
    <2>2. Acts(c)
        BY CheckpointFar
    <2> QED
        BY <1>1, <2>1, <2>2, StepApart DEF Acts, ContentInv, ConnsTyped
<1>3. Reached' = Reached
    BY <1>1, <1>2, ReachedStays
<1>4. /\ at[c][2] \in Nat /\ my[c].mxFrame \in Nat /\ nBackfill < my[c].mxFrame
      /\ at[c][2] <= my[c].mxFrame /\ my[c].mxFrame <= hdr.mxFrame /\ hdr.isInit
    <2>1. Copies(c)
        BY <1>2 DEF ContentInv, Part
    <2>2. hdr.isInit
        BY <1>1, <1>2, Built
    <2> QED
        BY <1>1, <1>2, <2>1, <2>2, LeftAlone, Numbers DEF Copies, Copying, ContentInv
<1>5. ASSUME NEW n, EndsAt(wal.frames, wal.salt, n)
      PROVE  at[c][2] <= n
    <2>1. HasFrames
        BY <1>4, Numbers DEF HasFrames, FileInv
    <2>2. \E m \in Nat : hdr.mxFrame <= m /\ EndsAt(wal.frames, wal.salt, m)
        <3>1. CASE EndsAt(wal.frames, wal.salt, hdr.mxFrame)
            BY <3>1, Numbers
        <3>2. ASSUME NEW d \in Conn, pc[d] = "publish", EndsAt(wal.frames, wal.salt, Put1(d))
              PROVE  \E m \in Nat : hdr.mxFrame <= m /\ EndsAt(wal.frames, wal.salt, m)
            <4>1. my[d].mxFrame = hdr.mxFrame
                BY <3>2 DEF ContentInv, Part, Writes
            <4> QED
                BY <3>2, <4>1, LogTyped
        <3> QED
            BY <2>1, <3>1, <3>2, HeadedEnds DEF Ends
    <2>3. n \in Nat /\ hdr.mxFrame \in Nat /\ hdr.mxFrame <= n
        BY <1>5, <2>2, OneEnd, LogTyped, Numbers DEF EndsAt
    <2> QED
        BY <1>4, <2>3
<1>6. \A d \in Conn : Limits(d)
    BY <1>1, <1>2, <1>5 DEF Limits, Apart, Same
<1> QED
    BY <1>1, <1>3, <1>6, SyncedDisk

-----------------------------------------------------------------------------
(***************************************************************************)
(* Steps that write the log.                                               *)
(***************************************************************************)
\* The header of an empty log.  The log it replaces is in the database, which
\* is synced, so that either header may be on the disk.
LEMMA WriteWalHdrDisk ==
    ASSUME ContentInv, FileInv, DiskInv, ContentInv', NEW c \in Conn \ Checkpointer, WriteWalHdr(c)
    PROVE  DiskInv'
<1>1. Heads(c)
    BY WritesHdr
<1> USE DEF Heads
<1>2. hdr.isInit /\ WAL_WRITE_LOCK \in exclusive[c]
    BY <1>1, Built DEF ContentInv, Part, Own, Writing
<1>3. \A d \in Conn : pc[d] \notin Copying
    BY <1>1, NobodyCopies, Numbers
<1>4. ASSUME NEW d \in Conn \ {c} PROVE Saves(d)' /\ pc[d] # "publish" /\ pc'[d] # "publish"
    BY <1>1, <1>2, <1>3, OthersOwe, OthersSave DEF Writing, Copying
<1>5. ~Publishing /\ ~Publishing'
    BY <1>1, <1>4 DEF Publishing
<1>6. Reached = history /\ Reached' = history
    BY <1>1, <1>5, ReachedQuietly, ReachedQuietlyThen
<1>7. EndsAt(wal.frames, hdr.salt, 0)
    BY <1>1, <1>2, <1>5 DEF FileInv, Headed
<1>8. EndsAt(wal.frames, wal'.salt, 0)
    BY <1>1, <1>7, NewSalt DEF FileInv
<1>9. db = dbDisk
    BY <1>1, <1>2, Numbers DEF DiskInv, Copied
<1>10. DiskTyped' /\ Named' /\ Backed' /\ HdrSynced' /\ Copied'
    BY <1>1, <1>8, <1>9 DEF DiskInv, DiskTyped, Named, Backed, HdrSynced, Copied
<1>11. LogCounted(walDisk)'
    BY <1>1, DiskCounted, Numbers
<1>12. Unmixed'
    <2>1. OldOrNew
        BY <1>1, <1>2, Numbers DEF OldOrNew, Live
    <2> QED
        BY <1>1, <2>1, UnmixedStays
<1>13. ASSUME NEW s \in {wal'.salt, walDisk.salt}, NEW n \in Nat, NEW m \in Nat,
              EndsAt(walDisk.frames, s, n), n <= m,
              Chained(wal.frames, s, m), CommitAt(wal.frames, m)
       PROVE  \E k \in durable..Len(history) : Makes(db, wal.frames, 1, m, history[k])
    <2>1. CASE s = walDisk.salt
        BY <1>6, <1>13, <2>1 DEF DiskInv, Recoverable
    <2>2. CASE s = wal'.salt
        <3>1. m = 0
            <4>1. m <= 0
                BY <1>8, <1>13, <2>2, LogTyped, NoneBeyond
            <4> QED
                BY <4>1
        <3>2. Makes(db, wal.frames, 1, m, LastOf(history))
            BY <1>1, <1>2, <3>1, AllShown DEF FileInv
        <3>3. Len(history) \in durable..Len(history)
            BY <1>6, ReachedLasts, DiskNumbers
        <3> QED
            BY <3>2, <3>3 DEF LastOf
    <2> QED
        BY <2>1, <2>2
<1>14. Recoverable'
    BY <1>1, <1>6, <1>13 DEF Recoverable, Makes
<1>15. Saves(c)'
    <2>1. FreshIn(c, walDisk.frames)
        BY <1>1, <1>2 DEF DiskInv, Saves, Transacts, IsWriter
    <2>2. FreshIn(c, walDisk.frames)'
        BY <1>1, <2>1 DEF FreshIn, Put1
    <2> QED
        BY <1>1, <2>2 DEF Saves
<1> QED
    BY <1>4, <1>10, <1>11, <1>12, <1>14, <1>15 DEF DiskInv

\* Who may write a frame has synced the header of the log.
LEMMA WriterSynced ==
    ASSUME ContentInv, FileInv, DiskInv, NEW c \in Conn \ Checkpointer, InLog(c)
    PROVE  /\ walDisk.salt = wal.salt /\ FreshIn(c, walDisk.frames)
           /\ WAL_WRITE_LOCK \in exclusive[c] /\ hdr.isInit
<1>1. WAL_WRITE_LOCK \in exclusive[c] /\ pc[c] \in {"frames", "log"} /\ hdr.isInit
      /\ my[c].mxFrame = hdr.mxFrame
    BY ReadyToWrite
<1>2. Saves(c)
    BY DEF DiskInv
<1>3. walDisk.salt = wal.salt
    BY <1>1, <1>2, SaltSynced DEF InLog, Saves
<1> QED
    BY <1>1, <1>2, <1>3 DEF Saves, Transacts, IsWriter

\* What a writer leaves as it is.
LEMMA PutDisk ==
    ASSUME ContentInv, FileInv, DiskInv, ContentInv', NEW c \in Conn, WAL_WRITE_LOCK \in exclusive[c],
           Apart(c), walDisk.salt = wal.salt, wal'.salt = wal.salt,
           Len(wal.frames) <= Len(wal'.frames), count'.tx = count.tx, MoreSalt,
           UNCHANGED <<db, dbDisk, walDisk, hdr, nBackfill, history, durable>>,
           Unmixed', Named', Recoverable', Saves(c)'
    PROVE  DiskInv'
<1>1. DiskTyped'
    <2>1. Len(wal'.frames) \in Nat
        BY DEF ContentInv, Whole, FilesTyped
    <2> QED
        BY <2>1, LogTyped, DiskNumbers DEF DiskInv, DiskTyped
<1>2. LogCounted(walDisk)' /\ Copied'
    BY DiskCounted, CopiedStays, Numbers
<1>3. Backed' /\ HdrSynced'
    BY DEF DiskInv, Backed, HdrSynced
<1>4. \A d \in Conn \ {c} : Saves(d)'
    BY OthersSave
<1> QED
    BY <1>1, <1>2, <1>3, <1>4 DEF DiskInv

\* What a process that stopped now would have committed goes on from what is.
LEMMA ReachedGoesOn ==
    ContentInv => \A k \in 1..Len(history) : k <= Len(Reached) /\ Reached[k] = history[k]
<1> SUFFICES ASSUME ContentInv, NEW k \in 1..Len(history)
             PROVE  k <= Len(Reached) /\ Reached[k] = history[k]
    OBVIOUS
<1>1. history \in Seq([Page -> Int])
    BY DEF ContentInv, Whole, FilesTyped
<1>2. Reached = history \/ \E x : Reached = Append(history, x)
    BY DEF Reached
<1> QED
    BY <1>1, <1>2

LEMMA ReachedGoesOnThen ==
    ContentInv' => (\A k \in 1..Len(history) : k <= Len(Reached) /\ Reached[k] = history[k])'
BY ReachedGoesOn, PTL

\* The frames up to m show what they showed.
LEMMA MakesStill ==
    ASSUME NEW base, NEW frames, NEW put, NEW m \in Nat, NEW content,
           \A g \in 1..m : put[g] = frames[g], Makes(base, frames, 1, m, content)
    PROVE  Makes(base, put, 1, m, content)
<1> SUFFICES ASSUME NEW p \in Page, NEW f \in Nat, LastIn(put, f, p, 1, m)
             PROVE  content[p] = IF f = 0 THEN base[p] ELSE put[f].tx
    BY DEF Makes
<1>1. LastIn(frames, f, p, 1, m)
    BY LastKept
<1>2. f = 0 \/ f \in 1..m
    BY DEF LastIn
<1> QED
    BY <1>1, <1>2 DEF Makes

\* Below what is put the log recovers as before.
LEMMA RecoverableBelow ==
    ASSUME ContentInv, FileInv, DiskInv, ContentInv', ~Publishing,
           UNCHANGED <<db, walDisk, history, durable>>,
           Len(wal.frames) \in Nat, Len(wal'.frames) \in Nat, NEW s \in {wal.salt, walDisk.salt},
           NEW n \in Nat, NEW m \in Nat, EndsAt(walDisk.frames, s, n), n <= m,
           m <= Len(wal.frames), Agree(wal.frames, wal'.frames, m),
           Chained(wal'.frames, s, m), CommitAt(wal'.frames, m)
    PROVE  \E k \in durable..Len(Reached') : Makes(db, wal'.frames, 1, m, Reached'[k])
<1>1. \A g \in 1..m : wal'.frames[g] = wal.frames[g]
    BY DEF Agree
<1>2. Chained(wal.frames, s, m)
    <2>1. Agree(wal'.frames, wal.frames, m)
        BY <1>1 DEF Agree
    <2> QED
        BY <2>1, ChainedAlike
<1>3. CommitAt(wal.frames, m)
    BY <1>1 DEF CommitAt
<1>4. Reached = history
    BY ReachedQuietly
<1>5. PICK k \in durable..Len(history) : Makes(db, wal.frames, 1, m, history[k])
    BY <1>2, <1>3, <1>4 DEF DiskInv, Recoverable
<1>6. Makes(db, wal'.frames, 1, m, history[k])
    BY <1>1, <1>5, MakesStill
<1>7. k \in 1..Len(history) /\ k \in Nat
    BY <1>5, DiskNumbers
<1>8. k <= Len(Reached') /\ Reached'[k] = history[k]
    BY <1>7, ReachedGoesOnThen
<1>9. Len(Reached') \in Nat
    <2>1. ContentInv' => (Len(Reached) \in Nat)'
        BY ReachedLasts, PTL
    <2> QED
        BY <2>1
<1> QED
    BY <1>5, <1>6, <1>7, <1>8, <1>9, DiskNumbers

\* Where the chains of the salts in use end when a frame may be written.
LEMMA LiveEnds ==
    ASSUME NEW c \in Conn, Chaining(c), walDisk.salt = wal.salt, NEW s, Live(s)
    PROVE  EndsAt(wal.frames, s, hdr.mxFrame)
BY DEF Chaining, Live

\* A torn frame is in no chain.
LEMMA FailFrameDisk ==
    ASSUME ContentInv, FileInv, DiskInv, ContentInv', NEW c \in Conn \ Checkpointer, FailWrite(c),
           InLog(c)
    PROVE  DiskInv'
<1>1. InLog(c) /\ Chaining(c) /\ Tears(c)
    BY WriterChain, FailTears
<1>2. /\ walDisk.salt = wal.salt /\ WAL_WRITE_LOCK \in exclusive[c] /\ hdr.isInit
    BY <1>1, WriterSynced
<1> DEFINE put == wal'.frames
           mx == hdr.mxFrame
<1>3. /\ wal'.salt = wal.salt /\ Len(put) \in Nat /\ Len(wal.frames) \in Nat /\ mx \in Nat
      /\ \A g \in 1..mx : put[g] = wal.frames[g]
      /\ \A g \in 1..Len(put) : put[g] = TornFrame \/ (g <= Len(wal.frames) /\ put[g] = wal.frames[g])
      /\ EndsAt(put, wal.salt, mx)
    BY <1>1, TornKept, LogTyped, Numbers DEF TornLog
<1>4. /\ Apart(c) /\ pc'[c] = "read" /\ count'.tx = count.tx /\ MoreSalt
      /\ UNCHANGED <<db, dbDisk, walDisk, hdr, nBackfill, history, durable>>
      /\ Len(wal.frames) <= Len(put) /\ ~Publishing
    <2>1. Len(wal.frames) <= Len(put)
        BY <1>1, <1>3 DEF Tears, Extends
    <2> QED
        BY <1>1, <2>1 DEF Tears, Chaining
<1>5. \A s : Live(s)' => Live(s)
    BY <1>3, <1>4 DEF Live
<1>6. mx <= Len(wal.frames)
    BY DEF ContentInv, Whole, Mirrors
<1> HIDE DEF put, mx
<1>7. ASSUME NEW s, NEW frames, NEW m \in 1..Len(put), Live(s), Chained(frames, s, m),
             frames[m].commit,
             \A f \in 1..m : \/ frames[f] = put[f]
                             \/ f <= Len(walDisk.frames) /\ frames[f] = walDisk.frames[f]
      PROVE  Agree(put, frames, m)
    <2>1. \A f \in 1..m : f \in 1..Len(put) /\ frames[f].salt = s /\ s # 0 /\ TornFrame.salt = 0
        BY <1>3, <1>7 DEF Chained, Live, TornFrame
    <2>2. \A f \in 1..m : \/ frames[f] = wal.frames[f] /\ f <= Len(wal.frames)
                          \/ f <= Len(walDisk.frames) /\ frames[f] = walDisk.frames[f]
        BY <1>3, <1>7, <2>1
    <2>3. m \in 1..Len(wal.frames)
        BY <1>3, <1>7, <2>2, DiskNumbers DEF DiskInv, DiskTyped
    <2>4. Mixes(frames, m)
        BY <2>2 DEF Mixes
    <2>5. Agree(wal.frames, frames, m)
        BY <1>7, <2>3, <2>4 DEF DiskInv, Unmixed
    <2>6. Chained(wal.frames, s, m) /\ wal.frames[m].commit
        <3>1. Agree(frames, wal.frames, m) /\ m \in 1..m
            BY <2>3, <2>5 DEF Agree
        <3> QED
            BY <1>3, <1>7, <2>3, <3>1, ChainedAlike DEF Agree
    <2>7. m <= mx
        BY <1>1, <1>2, <1>3, <1>7, <2>3, <2>6, LiveEnds, NoneBeyond DEF CommitAt, mx
    <2> QED
        BY <1>3, <2>3, <2>5, <2>7 DEF Agree
<1>8. Unmixed'
    BY <1>4, <1>5, <1>7 DEF Unmixed, Mixes, put
<1>9. Named'
    <2>1. ASSUME NEW f \in 1..Len(walDisk.frames), walDisk.frames[f].tx = put[f].tx
          PROVE  walDisk.frames[f] = put[f]
        <3>1. f \in 1..Len(put)
            BY <1>3, <1>4, DiskNumbers DEF DiskInv, DiskTyped
        <3>2. CASE put[f] = TornFrame
            <4>1. walDisk.frames[f].tx = Torn
                BY <2>1, <3>2 DEF TornFrame
            <4> QED
                BY <3>2, <4>1 DEF DiskInv, LogCounted, FrameCounted
        <3>3. CASE put[f] = wal.frames[f]
            BY <2>1, <3>3 DEF DiskInv, Named
        <3> QED
            BY <1>3, <3>1, <3>2, <3>3
    <2> QED
        BY <1>4, <2>1 DEF Named, put
<1>10. ASSUME NEW s \in {wal.salt, walDisk.salt}, NEW n \in Nat, NEW m \in Nat,
              EndsAt(walDisk.frames, s, n), n <= m, Chained(put, s, m), CommitAt(put, m)
       PROVE  \E k \in durable..Len(Reached') : Makes(db, put, 1, m, Reached'[k])
    <2>1. m <= mx
        BY <1>2, <1>3, <1>10, NoneBeyond
    <2>2. m <= Len(wal.frames) /\ Agree(wal.frames, put, m)
        BY <1>3, <1>6, <2>1 DEF Agree
    <2> QED
        BY <1>3, <1>4, <1>10, <2>2, RecoverableBelow DEF put
<1>11. Recoverable'
    BY <1>3, <1>4, <1>10 DEF Recoverable, Makes, put
<1>12. Saves(c)'
    BY <1>4 DEF Saves, Transacts
<1> QED
    BY <1>2, <1>3, <1>4, <1>8, <1>9, <1>11, <1>12, PutDisk DEF put

LEMMA FailWriteDisk ==
    ASSUME ContentInv, FileInv, DiskInv, ContentInv', NEW c \in Conn \ Checkpointer, FailWrite(c)
    PROVE  DiskInv'
<1>1. CASE InLog(c)
    BY <1>1, FailFrameDisk
<1>2. CASE ~InLog(c)
    <2>1. Acts(c) /\ Far(c)
        BY <1>2, FailHdrFar
    <2>2. UNCHANGED <<db, dbDisk, walDisk, durable, hdr, nBackfill>> /\ pc'[c] = "read"
        BY FailTears DEF Tears
    <2> QED
        BY <2>1, <2>2, CopiedStays, FarDisk
<1> QED
    BY <1>1, <1>2

\* The frame of a transaction continues the log's chain and no other: a frame
\* is known by its transaction.
WroteAt(c, p, last) ==
    /\ ContentInv /\ FileInv /\ DiskInv /\ Chaining(c)
    /\ walDisk.salt = wal.salt /\ FreshIn(c, walDisk.frames)
    /\ Wrote(c, p, last) /\ WroteChain(c, p, last)

LEMMA WroteUnmixed ==
    ASSUME NEW c \in Conn, NEW p \in Page, NEW last \in BOOLEAN, WroteAt(c, p, last),
           NEW s, NEW frames, NEW m \in 1..Len(wal'.frames), Live(s), Chained(frames, s, m),
           frames[m].commit,
           \A f \in 1..m : \/ frames[f] = wal'.frames[f]
                           \/ f <= Len(walDisk.frames) /\ frames[f] = walDisk.frames[f]
    PROVE  Agree(wal'.frames, frames, m)
<1> DEFINE f == Put1(c) + 1
           put == wal'.frames
           fr == wal.frames
           mx == hdr.mxFrame
<1>1. /\ Len(put) \in Nat /\ f <= Len(put) /\ f <= Len(fr) + 1 /\ put[f] = FrameOf(c, p, last)
      /\ \A g \in 1..Len(put) : g # f => g <= Len(fr) /\ put[g] = fr[g]
      /\ Chained(put, wal.salt, f)
    BY DEF WroteAt, WroteChain
<1>2. /\ f \in Nat \ {0} /\ f - 1 = Put1(c) /\ f - 1 \in Nat /\ Len(fr) \in Nat /\ mx \in Nat /\ mx < f
      /\ f - 1 <= Len(fr)
    <2>1. my[c].mxFrame = hdr.mxFrame /\ Put1(c) <= Len(fr)
        BY DEF WroteAt, Chaining, Wrote
    <2> QED
        BY <2>1, LogTyped DEF WroteAt
<1>3. /\ Len(walDisk.frames) \in Nat /\ Len(walDisk.frames) <= Len(fr) /\ wal.salt = my[c].salt
      /\ ContentInv /\ DiskInv /\ work[c].tx = count.tx /\ my[c].mxFrame = mx
    BY DiskNumbers DEF WroteAt, DiskInv, DiskTyped, Chaining
<1>4. /\ EndsAt(fr, s, mx)
      /\ \A x, n : Mixes(x, n) /\ n \in 1..Len(fr) /\ Chained(x, s, n) /\ x[n].commit => Agree(fr, x, n)
    BY LiveEnds DEF WroteAt, DiskInv, Unmixed
<1> HIDE DEF f, put, fr, mx
<1>5. CASE m < f
    <2>1. m \in 1..Len(fr) /\ m \in Nat
        BY <1>1, <1>2, <1>5
    <2>2. \A g \in 1..m : g \in 1..Len(put) /\ g # f
        BY <1>1, <1>2, <1>5
    <2>3. \A g \in 1..m : put[g] = fr[g]
        BY <1>1, <2>2
    <2>4. Mixes(frames, m)
        BY <2>3 DEF Mixes, fr, put
    <2> QED
        BY <1>4, <2>1, <2>3, <2>4 DEF Agree, put
<1>6. CASE m >= f /\ f <= Len(walDisk.frames) /\ frames[f] = walDisk.frames[f]
    <2>1. m \in 1..Len(fr) /\ m \in Nat
        BY <1>1, <1>2, <1>3, <1>6 DEF put
    <2>2. \A g \in 1..m : g \in 1..Len(put)
        BY <2>1 DEF put
    <2>3. Mixes(frames, m)
        BY <1>1, <1>6, <2>2 DEF Mixes, fr, put
    <2>4. Agree(fr, frames, m)
        BY <1>4, <2>1, <2>3
    <2>5. Chained(fr, s, m) /\ fr[m].commit
        <3>1. Agree(frames, fr, m) /\ m \in 1..m
            BY <2>1, <2>4 DEF Agree
        <3> QED
            BY <2>1, <3>1, ChainedAlike DEF Agree
    <2>6. m <= mx
        BY <1>2, <1>4, <2>1, <2>5, NoneBeyond DEF CommitAt
    <2> QED
        BY <1>2, <1>6, <2>1, <2>6
<1>7. CASE m >= f /\ frames[f] = put[f]
    <2>1. f \in 1..m /\ m \in Nat
        BY <1>1, <1>2, <1>7 DEF put
    <2>2. /\ frames[f].salt = s /\ frames[f].after = Identity(frames, f - 1)
          /\ Identity(frames, f) = <<p, count.tx>> /\ s = wal.salt
          /\ frames[f].after = Identity(fr, f - 1)
        <3>1. frames[f].salt = s /\ frames[f].after = Identity(frames, f - 1)
            BY <2>1 DEF Chained
        <3>2. frames[f] = FrameOf(c, p, last)
            BY <1>1, <1>7
        <3>3. /\ frames[f].salt = wal.salt /\ frames[f].page = p /\ frames[f].tx = count.tx
              /\ frames[f].after = Identity(fr, f - 1)
            BY <1>2, <1>3, <3>2 DEF FrameOf, fr
        <3> QED
            BY <1>2, <3>1, <3>3 DEF Identity
    <2>3. m = f
        <3>1. SUFFICES ASSUME m # f PROVE FALSE
            OBVIOUS
        <3>2. f + 1 \in 1..m /\ (f + 1) - 1 = f /\ f + 1 # f /\ f + 1 \in 1..Len(put)
            BY <1>1, <1>2, <1>7, <2>1, <3>1 DEF put
        <3>3. frames[f + 1].after[2] = count.tx
            <4>1. frames[f + 1].after = <<p, count.tx>>
                BY <2>2, <3>2 DEF Chained
            <4> QED
                BY <4>1
        <3>4. f + 1 \in (mx + 1)..Put1(c)
            <4>1. CASE f + 1 <= Len(walDisk.frames) /\ frames[f + 1] = walDisk.frames[f + 1]
                <5>1. f + 1 \in 1..Len(walDisk.frames)
                    BY <1>3, <3>2, <4>1
                <5> QED
                    BY <1>3, <3>3, <4>1, <5>1 DEF WroteAt, FreshIn
            <4>2. CASE frames[f + 1] = put[f + 1]
                <5>1. f + 1 \in 1..Len(fr) /\ put[f + 1] = fr[f + 1]
                    BY <1>1, <1>2, <3>2
                <5> QED
                    BY <1>3, <3>3, <4>2, <5>1 DEF WroteAt, Chaining, FreshIn, fr
            <4> QED
                BY <3>2, <4>1, <4>2 DEF put
        <3> QED
            BY <1>2, <3>4
    <2>4. Agree(fr, frames, f - 1)
        <3>1. \A g \in 1..(f - 1) : g \in 1..m /\ g \in 1..Len(put) /\ g # f
            BY <1>1, <1>2, <2>1, <2>3
        <3>2. Mixes(frames, f - 1)
            BY <1>1, <3>1 DEF Mixes, fr, put
        <3>3. Chained(fr, s, f - 1)
            BY <1>2, <2>2 DEF WroteAt, Chaining, fr
        <3>4. Linked(frames, f - 1)
            BY <3>1 DEF Chained, Linked
        <3>5. Identity(frames, f - 1) = Identity(fr, f - 1)
            BY <2>2
        <3> QED
            BY <1>2, <1>3, <3>2, <3>3, <3>4, <3>5, MixedBack DEF fr
    <2> QED
        <3>1. \A g \in 1..f : g = f \/ (g \in 1..(f - 1) /\ g \in 1..Len(put) /\ g # f)
            BY <1>1, <1>2
        <3> QED
            BY <1>1, <1>7, <2>3, <2>4, <3>1 DEF Agree, put
<1> QED
    <2>1. f \in 1..m \/ m < f
        BY <1>1, <1>2 DEF put
    <2>2. f \in 1..m => m >= f
        BY <1>2
    <2> QED
        BY <1>5, <1>6, <1>7, <2>1, <2>2 DEF put

LEMMA WriteFrameDisk ==
    ASSUME ContentInv, FileInv, DiskInv, ContentInv', FileInv',
           NEW c \in Conn \ Checkpointer, WriteFrame(c)
    PROVE  DiskInv'
<1>1. InLog(c) /\ Chaining(c)
    BY WriterChain DEF WriteFrame
<1>2. PICK p \in Page, last \in BOOLEAN : Wrote(c, p, last)
    BY WritesOne
<1>3. /\ walDisk.salt = wal.salt /\ FreshIn(c, walDisk.frames)
      /\ WAL_WRITE_LOCK \in exclusive[c]
    BY <1>1, WriterSynced
<1>4. WroteChain(c, p, last)
    BY <1>1, <1>2, OneMore
<1>5. WroteAt(c, p, last)
    BY <1>1, <1>2, <1>3, <1>4 DEF WroteAt
<1> DEFINE f == Put1(c) + 1
           put == wal'.frames
           fr == wal.frames
           mx == hdr.mxFrame
<1>6. /\ Len(put) \in Nat /\ f <= Len(put) /\ f <= Len(fr) + 1 /\ put[f] = FrameOf(c, p, last)
      /\ \A g \in 1..Len(put) : g # f => g <= Len(fr) /\ put[g] = fr[g]
      /\ last => EndsAt(put, wal.salt, f)
      /\ ~last => EndsAt(put, wal.salt, mx)
    BY <1>1, <1>4 DEF WroteChain, Chaining
<1>7. /\ f \in Nat \ {0} /\ f - 1 = Put1(c) /\ Len(fr) \in Nat /\ mx \in Nat /\ mx < f
      /\ f - 1 <= Len(fr) /\ my[c].mxFrame = mx /\ work[c].tx = count.tx
    BY <1>1, <1>2, LogTyped DEF Chaining, Wrote
<1>8. /\ Apart(c) /\ my'[c] = my[c] /\ Put1(c)' = f /\ pc'[c] = (IF last THEN "publish" ELSE "log")
      /\ wal'.salt = wal.salt /\ UNCHANGED <<db, dbDisk, walDisk, hdr, nBackfill, history, durable, count>>
      /\ Len(fr) <= Len(put) /\ ~Publishing
    BY <1>1, <1>2 DEF Wrote, Extends, Chaining
<1>9. count'.tx = count.tx /\ MoreSalt
    BY <1>8, Numbers DEF MoreSalt
<1>10. \A s : Live(s)' => Live(s)
    BY <1>8 DEF Live
<1> HIDE DEF f, put, fr, mx
<1>11. Unmixed'
    <2>1. ASSUME NEW s, NEW frames, NEW m \in 1..Len(put), Live(s), Chained(frames, s, m),
                 frames[m].commit,
                 \A g \in 1..m : \/ frames[g] = put[g]
                                 \/ g <= Len(walDisk.frames) /\ frames[g] = walDisk.frames[g]
          PROVE  Agree(put, frames, m)
        BY <1>5, <2>1, WroteUnmixed DEF put
    <2> QED
        BY <1>8, <1>10, <2>1 DEF Unmixed, Mixes, put
<1>12. Named'
    <2>1. ASSUME NEW g \in 1..Len(walDisk.frames), walDisk.frames[g].tx = put[g].tx
          PROVE  walDisk.frames[g] = put[g]
        <3>1. g \in 1..Len(put)
            BY <1>6, <1>7, <1>8, DiskNumbers DEF DiskInv, DiskTyped, fr
        <3>2. CASE g = f
            <4>1. walDisk.frames[g].tx = count.tx
                BY <1>6, <1>7, <2>1, <3>2 DEF FrameOf
            <4>2. g \in (mx + 1)..Put1(c)
                BY <1>3, <1>7, <4>1 DEF FreshIn
            <4> QED
                BY <1>7, <3>2, <4>2
        <3>3. CASE g # f
            BY <1>6, <2>1, <3>1, <3>3 DEF DiskInv, Named, fr
        <3> QED
            BY <3>2, <3>3
    <2> QED
        BY <1>8, <2>1 DEF Named, put
<1>13. ASSUME NEW s \in {wal.salt, walDisk.salt}, NEW n \in Nat, NEW m \in Nat,
              EndsAt(walDisk.frames, s, n), n <= m, Chained(put, s, m), CommitAt(put, m)
       PROVE  \E k \in durable..Len(Reached') : Makes(db, put, 1, m, Reached'[k])
    <2>1. s = wal.salt
        BY <1>3
    <2>2. CASE m < f
        <3>1. m <= Len(fr)
            BY <1>7, <2>2
        <3>2. \A g \in 1..m : g \in 1..Len(put) /\ g # f
            BY <1>6, <1>7, <2>2
        <3>3. Agree(fr, put, m)
            BY <1>6, <3>2 DEF Agree
        <3> QED
            BY <1>6, <1>7, <1>8, <1>13, <3>1, <3>3, RecoverableBelow DEF put, fr
    <2>3. CASE m >= f
        <3>1. last
            <4>1. ~last => m <= mx
                BY <1>6, <1>13, <2>1, NoneBeyond
            <4> QED
                BY <1>7, <2>3, <4>1
        <3>2. m = f
            <4>1. m <= f
                BY <1>6, <1>13, <2>1, <3>1, NoneBeyond
            <4> QED
                BY <1>7, <2>3, <4>1
        <3>3. Makes(db, put, 1, m, LastOf(Reached'))
            <4>1. EndsAt(put, wal.salt, m)
                BY <1>6, <3>1, <3>2
            <4>2. Kept'
                BY DEF FileInv
            <4> QED
                BY <1>8, <4>1, <4>2 DEF Kept, Makes, put
        <3>4. /\ Len(Reached') \in Nat /\ Len(history) <= Len(Reached')
              /\ LastOf(Reached') = Reached'[Len(Reached')]
            <4>1. ContentInv' => (/\ Len(Reached) \in Nat /\ Len(history) <= Len(Reached)
                                  /\ LastOf(Reached) = Reached[Len(Reached)])'
                BY ReachedLasts, PTL
            <4> QED
                BY <1>8, <4>1 DEF LastOf
        <3>5. Len(Reached') \in durable..Len(Reached')
            BY <3>4, DiskNumbers, ReachedLasts
        <3> QED
            BY <3>3, <3>4, <3>5
    <2> QED
        BY <1>7, <2>2, <2>3
<1>14. Recoverable'
    BY <1>8, <1>13 DEF Recoverable, Makes, put
<1>15. Saves(c)'
    <2>1. FreshIn(c, walDisk.frames)'
        <3>1. \A g : g \in (mx + 1)..Put1(c) => g \in (mx + 1)..f
            BY <1>7
        <3> QED
            BY <1>3, <1>7, <1>8, <3>1 DEF FreshIn
    <2> QED
        BY <1>3, <1>8, <2>1 DEF Saves
<1> QED
    BY <1>3, <1>6, <1>7, <1>8, <1>9, <1>11, <1>12, <1>14, <1>15, PutDisk DEF put, fr

-----------------------------------------------------------------------------
(***************************************************************************)
(* Copying pages to the database.                                          *)
(***************************************************************************)
\* A page that is written, or half written, is one of the frames that are
\* being copied; it is the last of that page.
CopiesOne(c, p) ==
    /\ \A q \in Page \ {p} : db'[q] = db[q]
    /\ InRange(c, iterator[p]) \/ db'[p] = db[p]
    /\ UNCHANGED <<wal, dbDisk, walDisk, hdr, nBackfill, history, durable>>
    /\ Apart(c) /\ count'.tx = count.tx /\ MoreSalt
    /\ pc[c] = "backfill" /\ pc'[c] \in {"backfill", "checkpointed"} /\ at'[c] = at[c]
    /\ ~IsWriter(c)'

LEMMA CopiesPage ==
    ASSUME ContentInv, NEW c \in Checkpointer, BackfillPage(c) \/ FailBackfill(c)
    PROVE  \E p \in Page : CopiesOne(c, p)
<1>1. /\ pc[c] = "backfill"
      /\ UNCHANGED <<wal, dbDisk, walDisk, hdr, nBackfill, history, durable>>
      /\ UNCHANGED count \/ Counts("faults")
      /\ UNCHANGED pc \/ pc' = [pc EXCEPT ![c] = "checkpointed"]
      /\ UNCHANGED <<my, minFrame, at, exclusive>>
      /\ \E w : work' = [work EXCEPT ![c] = w]
    BY DEF BackfillPage, FailBackfill, Goto, shm, ghosts, lockVars
<1>2. c \in Conn /\ ConnsTyped /\ FilesTyped /\ Own(c)
    BY WalAssumption DEF ContentInv, Part, Whole
<1>3. PICK p \in Page : db' = db \/ (InRange(c, iterator[p]) /\ \E x : db' = [db EXCEPT ![p] = x])
    <2>1. work[c].pages \in SUBSET Nat /\ work[c].pages \subseteq Page /\ Page # {}
        BY <1>2, LeftAlone, WalAssumption
    <2>2. CASE BackfillPage(c)
        <3> DEFINE p == Least(work[c].pages)
        <3>1. p \in Page
            BY <2>1, <2>2, LeastOf DEF BackfillPage
        <3>2. db' = db \/ (InRange(c, iterator[p]) /\ \E x : db' = [db EXCEPT ![p] = x])
            BY <2>2 DEF BackfillPage, InRange
        <3> QED
            BY <3>1, <3>2
    <2>3. CASE FailBackfill(c)
        <3>1. \/ db' = db
              \/ \E p \in work[c].pages : InRange(c, iterator[p]) /\ db' = [db EXCEPT ![p] = Torn]
            BY <2>3 DEF FailBackfill, InRange
        <3> QED
            BY <2>1, <3>1
    <2> QED
        BY <2>2, <2>3
<1>4. \A q \in Page \ {p} : db'[q] = db[q]
    <2>1. db \in [Page -> Int]
        BY <1>2 DEF FilesTyped
    <2> QED
        BY <1>3, <2>1
<1>5. InRange(c, iterator[p]) \/ db'[p] = db[p]
    BY <1>3
<1>6. Apart(c)
    <2>1. StepOf(c)
        BY WalAssumption, CheckpointSteps DEF Checkpoint, ContentInv, Part
    <2> QED
        BY <1>1, <1>2, <2>1, StepApart DEF ConnsTyped
<1>7. count'.tx = count.tx /\ MoreSalt
    <2>1. CASE UNCHANGED count
        BY <2>1, Numbers DEF MoreSalt
    <2>2. CASE Counts("faults")
        BY <1>2, <2>2, Counted DEF Counts, FilesTyped
    <2> QED
        BY <1>1, <2>1, <2>2
<1>8. ~IsWriter(c)' /\ pc'[c] \in {"backfill", "checkpointed"}
    BY <1>1, <1>2 DEF Own, IsWriter, Checkpointing, Copying, ConnsTyped
<1>9. CopiesOne(c, p)
    BY <1>1, <1>4, <1>5, <1>6, <1>7, <1>8 DEF CopiesOne
<1> QED
    BY <1>3, <1>9

\* What is copied is in the log that was synced.
LEMMA CopyDisk ==
    ASSUME ContentInv, FileInv, DiskInv, ContentInv', NEW c \in Checkpointer,
           BackfillPage(c) \/ FailBackfill(c)
    PROVE  DiskInv'
<1>1. PICK p \in Page : CopiesOne(c, p)
    BY CopiesPage
<1> USE DEF CopiesOne
<1>2. /\ c \in Conn /\ hdr.isInit /\ nBackfill < hdr.mxFrame /\ hdr.mxFrame > 0
      /\ LastIn(wal.frames, iterator[p], p, 1, my[c].mxFrame)
      /\ InRange(c, iterator[p]) => iterator[p] \in 1..at[c][2]
      /\ at[c][2] \in Nat
    <2>1. /\ c \in Conn /\ hdr.isInit
          /\ my[c].mxFrame \in Nat /\ nBackfill < my[c].mxFrame /\ my[c].mxFrame <= hdr.mxFrame
          /\ at[c][2] \in Nat
          /\ LastIn(wal.frames, iterator[p], p, 1, my[c].mxFrame)
          /\ InRange(c, iterator[p]) <=> iterator[p] \in (nBackfill + 1)..at[c][2]
        BY <1>1, Copier
    <2> QED
        BY <2>1, Numbers
<1>3. walDisk.salt = wal.salt
    BY <1>2, SaltSynced
<1>4. ASSUME NEW n, EndsAt(walDisk.frames, wal.salt, n), InRange(c, iterator[p])
      PROVE  /\ n \in Nat /\ iterator[p] \in 1..n /\ wal.frames[iterator[p]].page = p
             /\ walDisk.frames[iterator[p]].page = p
    <2>1. n \in Nat /\ \A f \in 1..n : wal.frames[f] = walDisk.frames[f]
        BY <1>4, DiskChain
    <2>2. at[c][2] <= n
        BY <1>1, <1>2, <1>4 DEF DiskInv, Saves
    <2>3. iterator[p] \in 1..n /\ iterator[p] # 0
        BY <1>2, <1>4, <2>1, <2>2
    <2>4. wal.frames[iterator[p]].page = p
        BY <1>2, <2>3 DEF LastIn
    <2> QED
        BY <2>1, <2>3, <2>4
<1>5. Reached' = Reached
    BY <1>1, <1>2, ReachedStays
<1>6. DiskTyped' /\ Unmixed' /\ Named' /\ HdrSynced'
    BY <1>1 DEF DiskInv, DiskTyped, Unmixed, Mixes, Live, Named, HdrSynced
<1>7. LogCounted(walDisk)'
    BY <1>1, DiskCounted, Numbers
<1>8. Backed'
    <2>1. ASSUME NEW n, EndsAt(walDisk.frames, wal.salt, n), NEW q \in Page, db'[q] # dbDisk[q]
          PROVE  \E f \in 1..n : walDisk.frames[f].page = q
        <3>1. CASE db'[q] = db[q]
            BY <1>3, <2>1, <3>1 DEF DiskInv, Backed
        <3>2. CASE q = p /\ InRange(c, iterator[p])
            BY <1>4, <2>1, <3>2
        <3> QED
            BY <1>1, <3>1, <3>2
    <2> QED
        BY <1>1, <1>3, <2>1 DEF Backed
<1>9. Copied'
    <2>1. ~(nBackfill >= hdr.mxFrame)
        BY <1>2, Numbers
    <2> QED
        BY <1>1, <2>1 DEF Copied
<1>10. Recoverable'
    <2>1. ASSUME NEW n \in Nat, NEW m \in Nat, EndsAt(walDisk.frames, wal.salt, n), n <= m,
                 Chained(wal.frames, wal.salt, m), CommitAt(wal.frames, m)
          PROVE  \E k \in durable..Len(Reached) : Makes(db', wal.frames, 1, m, Reached[k])
        <3>1. PICK k \in durable..Len(Reached) : Makes(db, wal.frames, 1, m, Reached[k])
            BY <2>1 DEF DiskInv, Recoverable
        <3>2. ASSUME NEW q \in Page, NEW g \in Nat, LastIn(wal.frames, g, q, 1, m)
              PROVE  Reached[k][q] = IF g = 0 THEN db'[q] ELSE wal.frames[g].tx
            <4>1. Reached[k][q] = IF g = 0 THEN db[q] ELSE wal.frames[g].tx
                BY <3>1, <3>2 DEF Makes
            <4>2. CASE g # 0 \/ db'[q] = db[q]
                BY <4>1, <4>2
            <4>3. CASE g = 0 /\ q = p /\ InRange(c, iterator[p])
                <5>1. iterator[p] \in 1..m /\ wal.frames[iterator[p]].page = p
                    BY <1>4, <2>1, <4>3
                <5> QED
                    BY <3>2, <4>3, <5>1 DEF LastIn
            <4> QED
                BY <1>1, <4>2, <4>3
        <3>3. Makes(db', wal.frames, 1, m, Reached[k])
            BY <3>2 DEF Makes
        <3> QED
            BY <3>3
    <2> QED
        BY <1>1, <1>3, <1>5, <2>1 DEF Recoverable, Makes
<1>11. ASSUME NEW d \in Conn PROVE Saves(d)'
    <2>1. Saves(d) /\ UNCHANGED <<wal, walDisk>> /\ count'.tx = count.tx
        BY <1>1 DEF DiskInv
    <2>2. CASE d # c
        BY <1>1, <2>1, <2>2, SavesApart DEF Apart
    <2>3. CASE d = c
        <3>1. SavesStill(c)
            BY <1>1 DEF SavesStill, Holds, Transacts
        <3> QED
            BY <2>1, <2>3, <3>1, SavesAs
    <2> QED
        BY <2>2, <2>3
<1> QED
    BY <1>6, <1>7, <1>8, <1>9, <1>10, <1>11 DEF DiskInv

-----------------------------------------------------------------------------
LEMMA DiskInitially == Init => DiskInv
<1> SUFFICES ASSUME Init PROVE DiskInv
    OBVIOUS
<1>1. /\ wal = [salt |-> 0, frames |-> <<>>] /\ db = [p \in Page |-> 0]
      /\ walDisk = wal /\ dbDisk = db /\ hdr = NoHdr /\ history = <<db>> /\ durable = 1
      /\ count = [tx |-> 0, salt |-> 0, checkpoints |-> 0, faults |-> 0]
      /\ exclusive = [c \in Conn |-> {}] /\ pc = [c \in Conn |-> "idle"]
    BY DEF Init, LocksInit, LocksFree, Each
<1>2. /\ walDisk = wal /\ Len(wal.frames) = 0 /\ wal.salt = 0 /\ ~hdr.isInit /\ Len(history) = 1
      /\ wal.frames \in Seq(AnyFrame)
    BY <1>1 DEF NoHdr
<1>3. DiskTyped
    BY <1>1, <1>2 DEF DiskTyped, Log
<1>4. LogCounted(walDisk) /\ Unmixed /\ Named /\ Backed /\ Copied /\ HdrSynced
    BY <1>1, <1>2 DEF LogCounted, Unmixed, Named, Backed, Copied, HdrSynced
<1>5. \A c \in Conn : Saves(c)
    BY <1>1 DEF Saves, Transacts, IsWriter
<1>6. Recoverable
    <2> SUFFICES ASSUME NEW m \in Nat, Chained(wal.frames, wal.salt, m)
                 PROVE  \E k \in durable..Len(Reached) : Makes(db, wal.frames, 1, m, Reached[k])
        BY <1>2 DEF Recoverable
    <2>1. m = 0
        BY <1>2 DEF Chained
    <2>2. Reached = history
        <3>1. ~Publishing
            BY <1>1 DEF Publishing
        <3> QED
            BY <3>1, ReachedQuietly
    <2>3. Reached[1] = db /\ 1 \in durable..Len(Reached)
        BY <1>1, <1>2, <2>2
    <2>4. Makes(db, wal.frames, 1, m, db)
        BY <2>1 DEF Makes, LastIn
    <2> QED
        BY <2>3, <2>4
<1> QED
    BY <1>3, <1>4, <1>5, <1>6 DEF DiskInv

LEMMA WriterDisk ==
    ASSUME ContentInv, FileInv, DiskInv, ContentInv', FileInv', NEW c \in Conn \ Checkpointer,
           WriteTransaction(c)
    PROVE  DiskInv'
BY BeginWriteDisk, RestartHdrDisk, MarksDisk, ReaderDisk, WriteWalHdrDisk, SyncWalHdrDisk,
   WriteFrameDisk, FailWriteDisk, PublishDisk DEF WriteTransaction

LEMMA CheckpointDisk ==
    ASSUME ContentInv, FileInv, DiskInv, ContentInv', FileInv', NEW c \in Checkpointer,
           Checkpoint(c)
    PROVE  DiskInv'
BY LookingDisk, SyncLogDisk, CopyDisk, BackfilledDisk DEF Checkpoint

LEMMA DiskStep ==
    ASSUME ContentInv, FileInv, DiskInv, ContentInv', FileInv', [Next]_vars, [~PowerLoss]_vars
    PROVE  DiskInv'
<1>1. CASE UNCHANGED vars
    <2>1. /\ SameDisk /\ UNCHANGED <<hdr, nBackfill, history, count>>
          /\ UNCHANGED <<exclusive, pc, my, at, work>>
        BY <1>1 DEF vars, files, shm, lockVars, conns, ghosts, SameDisk
    <2>2. Reached' = Reached
        BY <2>1 DEF Reached, Written
    <2>3. Copied' /\ OldOrNew
        BY <2>1, CopiedStays DEF OldOrNew, Live, SameDisk
    <2>4. \A d \in Conn : Saves(d)'
        BY <2>1 DEF SameDisk, DiskInv, Saves, Transacts, IsWriter, FreshIn, Put1
    <2>5. Len(history) <= Len(history') /\ count'.tx >= count.tx /\ MoreSalt
        BY <2>1, Numbers, ReachedLasts DEF MoreSalt
    <2> QED
        BY <2>1, <2>2, <2>3, <2>4, <2>5, DiskStays
<1>2. CASE Next /\ ~PowerLoss
    <2>1. CASE \E c \in Conn \ Checkpointer :
                  \/ Recover(c) \/ ResetCkptInfo(c)
                  \/ BeginRead(c) \/ WriteTransaction(c) \/ EndTransaction(c)
        BY <2>1, RecoverDisk, MarksDisk, ReaderDisk, WriterDisk
    <2>2. CASE \E c \in Checkpointer : Checkpoint(c)
        BY <2>2, CheckpointDisk
    <2>3. CASE Kill
        BY <2>3, KillDisk
    <2> QED
        BY <1>2, <2>1, <2>2, <2>3 DEF Next
<1> QED
    BY <1>1, <1>2

-----------------------------------------------------------------------------
(***************************************************************************)
(* A power loss.                                                           *)
(***************************************************************************)
\* What may be left of the files.
LeftOver(base, log) ==
    /\ base \in [Page -> Int] /\ \A p \in Page : db[p] = dbDisk[p] => base[p] = db[p]
    /\ log \in Log /\ log.salt \in {wal.salt, walDisk.salt} /\ Len(log.frames) = Len(wal.frames)
    /\ \A f \in 1..Len(wal.frames) :
          /\ \/ log.frames[f] = wal.frames[f]
             \/ f <= Len(walDisk.frames) /\ log.frames[f] = walDisk.frames[f]
             \/ log.frames[f] = TornFrame
          /\ f <= Len(walDisk.frames) /\ walDisk.frames[f] = wal.frames[f]
                => log.frames[f] = wal.frames[f]

LEMMA ImagesLeft ==
    ASSUME ContentInv, DiskInv, NEW base \in DbImages, NEW log \in WalImages
    PROVE  LeftOver(base, log)
<1>1. base \in [Page -> Int] /\ \A p \in Page : db[p] = dbDisk[p] => base[p] = db[p]
    <2>1. db \in [Page -> Int] /\ dbDisk \in [Page -> Int]
        BY DEF ContentInv, Whole, FilesTyped, DiskInv, DiskTyped
    <2>2. PICK fate \in [{p \in Page : db[p] # dbDisk[p]} -> Fate] :
             base = [p \in Page |-> CASE p \notin DOMAIN fate \/ fate[p] = "new" -> db[p]
                                      [] fate[p] = "old" -> dbDisk[p]
                                      [] OTHER -> Torn]
        BY DEF DbImages
    <2>3. \A p \in Page : base[p] \in {db[p], dbDisk[p], Torn}
        BY <2>2 DEF Fate
    <2>4. \A p \in Page : base[p] \in Int
        BY <2>1, <2>3 DEF Torn
    <2> QED
        BY <2>2, <2>4
<1>2. PICK fate \in [Unsynced -> Fate] :
         log.frames = [f \in DOMAIN wal.frames |->
             CASE f \notin Unsynced \/ fate[f] = "new" -> wal.frames[f]
               [] fate[f] = "old" /\ f \in DOMAIN walDisk.frames -> walDisk.frames[f]
               [] OTHER -> TornFrame]
    BY DEF WalImages
<1>3. log = [salt |-> log.salt, frames |-> log.frames] /\ log.salt \in {wal.salt, walDisk.salt}
    BY DEF WalImages
<1>4. /\ DOMAIN wal.frames = 1..Len(wal.frames) /\ DOMAIN walDisk.frames = 1..Len(walDisk.frames)
      /\ Len(wal.frames) \in Nat /\ Len(walDisk.frames) \in Nat
      /\ wal.frames \in Seq(AnyFrame) /\ walDisk.frames \in Seq(AnyFrame)
      /\ Len(walDisk.frames) <= Len(wal.frames)
    BY LogTyped, DiskNumbers DEF DiskInv, DiskTyped
<1>5. ASSUME NEW f \in 1..Len(wal.frames)
      PROVE  /\ \/ log.frames[f] = wal.frames[f]
                \/ f <= Len(walDisk.frames) /\ log.frames[f] = walDisk.frames[f]
                \/ log.frames[f] = TornFrame
             /\ f <= Len(walDisk.frames) /\ walDisk.frames[f] = wal.frames[f]
                   => log.frames[f] = wal.frames[f]
    <2>1. f \in DOMAIN walDisk.frames <=> f <= Len(walDisk.frames)
        BY <1>4
    <2>2. f \notin Unsynced => f \in DOMAIN walDisk.frames /\ walDisk.frames[f] = wal.frames[f]
        BY <1>4 DEF Unsynced
    <2>3. f \in Unsynced => f \notin DOMAIN walDisk.frames \/ walDisk.frames[f] # wal.frames[f]
        BY DEF Unsynced
    <2>4. log.frames[f] = CASE f \notin Unsynced \/ fate[f] = "new" -> wal.frames[f]
                            [] fate[f] = "old" /\ f \in DOMAIN walDisk.frames -> walDisk.frames[f]
                            [] OTHER -> TornFrame
        BY <1>2, <1>4
    <2>5. f \notin Unsynced => log.frames[f] = wal.frames[f]
        BY <2>2, <2>4
    <2>6. \/ log.frames[f] = wal.frames[f]
          \/ f \in DOMAIN walDisk.frames /\ log.frames[f] = walDisk.frames[f]
          \/ log.frames[f] = TornFrame
        BY <2>4
    <2> QED
        BY <2>1, <2>3, <2>5, <2>6
<1>6. log \in Log /\ Len(log.frames) = Len(wal.frames)
    <2>1. TornFrame \in AnyFrame
        BY DEF TornFrame, AnyFrame, Torn
    <2>2. \A f \in 1..Len(wal.frames) : log.frames[f] \in AnyFrame
        <3>1. ASSUME NEW f \in 1..Len(wal.frames)
              PROVE  /\ wal.frames[f] \in AnyFrame
                     /\ f <= Len(walDisk.frames) => walDisk.frames[f] \in AnyFrame
            BY <1>4, LogTyped, DiskNumbers
        <3> QED
            BY <1>5, <2>1, <3>1
    <2>3. DOMAIN log.frames = 1..Len(wal.frames)
          /\ log.frames = [f \in 1..Len(wal.frames) |-> log.frames[f]]
        BY <1>2, <1>4
    <2>4. log.frames \in [1..Len(wal.frames) -> AnyFrame]
        BY <2>2, <2>3
    <2>5. log.frames \in Seq(AnyFrame) /\ Len(log.frames) = Len(wal.frames)
        BY <1>4, <2>4
    <2>6. log.salt \in Nat
        BY <1>3, LogTyped, DiskNumbers
    <2> QED
        BY <1>3, <2>5, <2>6 DEF Log
<1> QED
    BY <1>1, <1>3, <1>5, <1>6 DEF LeftOver

LEMMA LeftCounted ==
    ASSUME ContentInv, FileInv, DiskInv, NEW base, NEW log, LeftOver(base, log)
    PROVE  LogCounted(log)
<1>1. LogCounted(wal) /\ LogCounted(walDisk)
    BY DEF FileInv, DiskInv
<1>2. FrameCounted(TornFrame)
    BY Numbers DEF FrameCounted, TornFrame, Torn
<1>3. ASSUME NEW f \in 1..Len(log.frames) PROVE FrameCounted(log.frames[f])
    <2>1. f \in 1..Len(wal.frames)
        BY DEF LeftOver
    <2>2. f <= Len(walDisk.frames) => f \in 1..Len(walDisk.frames)
        BY DiskNumbers, LogTyped
    <2> QED
        BY <1>1, <1>2, <2>1, <2>2 DEF LeftOver, LogCounted
<1>4. log.salt <= count.salt
    BY <1>1 DEF LogCounted, LeftOver
<1> QED
    BY <1>3, <1>4 DEF LogCounted

\* Recovery finds a chain of the log that goes on what was on the disk.
LEMMA Survives ==
    ASSUME ContentInv, FileInv, DiskInv, NEW base, NEW log, LeftOver(base, log)
    PROVE  /\ EndsAt(log.frames, log.salt, RecoveredHdr(log).mxFrame)
           /\ \E k \in durable..Len(Reached) :
                 Makes(base, log.frames, 1, RecoveredHdr(log).mxFrame, Reached[k])
<1> DEFINE n == RecoveredHdr(log).mxFrame
           s == log.salt
           left == log.frames
<1>1. /\ Len(left) = Len(wal.frames) /\ Len(left) \in Nat /\ s \in {wal.salt, walDisk.salt}
      /\ s \in Nat /\ Len(walDisk.frames) \in Nat /\ Len(walDisk.frames) <= Len(wal.frames)
    BY LogTyped, DiskNumbers DEF LeftOver, DiskInv, DiskTyped
<1>2. EndsAt(left, s, n)
    BY LeftCounted, RecoveredEnd DEF LeftOver, LogCounted, FrameCounted
<1> HIDE DEF n, s, left
<1>3. n \in Nat /\ n <= Len(left) /\ Chained(left, s, n) /\ CommitAt(left, n)
    BY <1>2 DEF EndsAt, Chained
<1>4. PICK m \in Nat : EndsAt(walDisk.frames, s, m)
    BY <1>1, DiskEnds
<1>5. /\ m <= Len(walDisk.frames) /\ m <= Len(wal.frames)
      /\ \A f \in 1..m : wal.frames[f] = walDisk.frames[f]
      /\ Chained(wal.frames, s, m) /\ CommitAt(wal.frames, m)
    BY <1>1, <1>4, DiskChain
<1>6. \A f \in 1..m : f \in 1..Len(wal.frames) /\ left[f] = wal.frames[f]
    <2>1. \A f \in 1..m : f \in 1..Len(wal.frames) /\ f <= Len(walDisk.frames)
        BY <1>1, <1>5
    <2> QED
        BY <1>5, <2>1 DEF LeftOver, left
<1>7. m <= n
    <2>1. Chained(left, s, m)
        <3>1. Agree(wal.frames, left, m)
            BY <1>6 DEF Agree
        <3> QED
            BY <1>1, <1>5, <3>1, ChainedAlike
    <2>2. CommitAt(left, m)
        BY <1>5, <1>6 DEF CommitAt
    <2> QED
        BY <1>1, <1>2, <2>1, <2>2, NoneBeyond
<1>8. Agree(wal.frames, left, n)
    <2>1. CASE n = 0
        BY <2>1 DEF Agree
    <2>2. CASE n # 0
        <3>1. n \in 1..Len(wal.frames) /\ n \in 1..Len(left) /\ n \in 1..n
            BY <1>1, <1>3, <2>2
        <3>2. left[n].commit /\ left[n].salt = s
            BY <1>3, <2>2, <3>1 DEF CommitAt, Chained
        <3>3. s # 0
            BY <3>1, <3>2, LeftCounted DEF LogCounted, FrameCounted, left
        <3>4. Live(s)
            BY <1>1, <3>3 DEF Live
        <3>5. Mixes(left, n)
            <4>1. ASSUME NEW f \in 1..n
                  PROVE  \/ left[f] = wal.frames[f]
                         \/ f <= Len(walDisk.frames) /\ left[f] = walDisk.frames[f]
                <5>1. f \in 1..Len(wal.frames)
                    BY <1>1, <1>3
                <5>2. left[f].salt # TornFrame.salt
                    BY <1>3, <3>3 DEF Chained, TornFrame
                <5> QED
                    BY <5>1, <5>2 DEF LeftOver, left
            <4> QED
                BY <4>1 DEF Mixes
        <3> QED
            BY <1>3, <3>1, <3>2, <3>4, <3>5 DEF DiskInv, Unmixed
    <2> QED
        BY <2>1, <2>2
<1>9. Chained(wal.frames, s, n) /\ CommitAt(wal.frames, n)
    <2>1. Agree(left, wal.frames, n)
        BY <1>8 DEF Agree
    <2>2. Chained(wal.frames, s, n)
        BY <1>1, <1>3, <2>1, ChainedAlike
    <2>3. CommitAt(wal.frames, n)
        BY <1>3, <2>1 DEF CommitAt, Agree
    <2> QED
        BY <2>2, <2>3
<1>10. PICK k \in durable..Len(Reached) : Makes(db, wal.frames, 1, n, Reached[k])
    BY <1>1, <1>3, <1>4, <1>7, <1>9 DEF DiskInv, Recoverable
<1>11. Makes(base, left, 1, n, Reached[k])
    <2> SUFFICES ASSUME NEW p \in Page, NEW f \in Nat, LastIn(left, f, p, 1, n)
                 PROVE  Reached[k][p] = IF f = 0 THEN base[p] ELSE left[f].tx
        BY DEF Makes
    <2>1. \A g \in 1..n : left[g] = wal.frames[g]
        BY <1>8 DEF Agree
    <2>2. LastIn(wal.frames, f, p, 1, n)
        BY <1>3, <2>1, LastKept
    <2>3. Reached[k][p] = IF f = 0 THEN db[p] ELSE wal.frames[f].tx
        BY <1>10, <2>2 DEF Makes
    <2>4. CASE f # 0
        BY <2>1, <2>2, <2>3, <2>4 DEF LastIn
    <2>5. CASE f = 0
        <3>1. db[p] = dbDisk[p]
            <4>1. SUFFICES ASSUME db[p] # dbDisk[p] PROVE FALSE
                OBVIOUS
            <4>2. PICK g \in 1..m : walDisk.frames[g].page = p
                BY <1>1, <1>4, <4>1 DEF DiskInv, Backed
            <4>3. g \in 1..n /\ wal.frames[g].page = p
                BY <1>3, <1>5, <1>7, <4>2
            <4> QED
                BY <2>2, <2>5, <4>3 DEF LastIn
        <3> QED
            BY <2>3, <2>5, <3>1 DEF LeftOver
    <2> QED
        BY <2>4, <2>5
<1> QED
    BY <1>2, <1>10, <1>11 DEF n, s, left

LEMMA LeftShows ==
    ASSUME ContentInv, FileInv, DiskInv, NEW base, NEW log, LeftOver(base, log)
    PROVE  \E k \in durable..Len(Reached) :
              /\ Reached[k] \in [Page -> Int] /\ RecoveredContent(base, log) = Reached[k]
              /\ Makes(base, log.frames, 1, RecoveredHdr(log).mxFrame, Reached[k])
<1>1. PICK k \in durable..Len(Reached) :
         Makes(base, log.frames, 1, RecoveredHdr(log).mxFrame, Reached[k])
    BY Survives
<1>2. Reached[k] \in [Page -> Int]
    <2>1. k \in 1..Len(Reached)
        BY <1>1, DiskNumbers, ReachedLasts
    <2> QED
        BY <2>1, ReachedLasts
<1>3. RecoveredContent(base, log) = Reached[k]
    BY <1>1, <1>2, RecoveredNow DEF LeftOver
<1> QED
    BY <1>1, <1>2, <1>3

LEMMA LeftSurvives == ContentInv /\ FileInv /\ DiskInv => SyncedSurvives
BY ImagesLeft, LeftShows DEF SyncedSurvives

\* After a power loss the latest content is the one that is recovered.
LEMMA PowerLossKeeps ==
    ASSUME ContentInv, FileInv, DiskInv, PowerLoss
    PROVE  ContentInv' /\ FileInv' /\ DiskInv'
<1> DEFINE left == {n \in durable..Len(Reached) : Reached[n] = RecoveredContent(db', wal')}
           K == Greatest(left)
           end == RecoveredHdr(wal').mxFrame
<1>1. /\ db' \in DbImages /\ wal' \in WalImages /\ dbDisk' = db' /\ walDisk' = wal' /\ Stop
      /\ history' = IF left = {} THEN <<>> ELSE SubSeq(Reached, 1, K)
      /\ durable' = Len(history') /\ Counts("faults")
    BY DEF PowerLoss
<1>2. LeftOver(db', wal')
    BY <1>1, ImagesLeft
<1>3. PICK k \in durable..Len(Reached) :
         /\ RecoveredContent(db', wal') = Reached[k]
         /\ Makes(db', wal'.frames, 1, RecoveredHdr(wal').mxFrame, Reached[k])
    BY <1>2, LeftShows
<1>4. /\ Len(Reached) \in Nat /\ Reached \in Seq([Page -> Int]) /\ durable \in Nat /\ 1 <= durable
    BY ReachedLasts, DiskNumbers
<1>5. K \in left
    <2>1. left \in SUBSET (0..Len(Reached))
        BY <1>4
    <2>2. k \in left
        BY <1>3
    <2> HIDE DEF left
    <2> QED
        BY <1>4, <2>1, <2>2, GreatestOf
<1>6. K \in 1..Len(Reached) /\ Reached[K] = Reached[k] /\ left # {}
    BY <1>3, <1>4, <1>5
<1> HIDE DEF left, K
<1>7. /\ history' \in Seq([Page -> Int]) /\ Len(history') = K /\ history' # <<>>
      /\ LastOf(history') = Reached[k]
    <2>1. history' = SubSeq(Reached, 1, K)
        BY <1>1, <1>6
    <2>2. SubSeq(Reached, 1, K) \in Seq([Page -> Int]) /\ Len(SubSeq(Reached, 1, K)) = K
          /\ SubSeq(Reached, 1, K)[K] = Reached[K]
        BY <1>4, <1>6
    <2>3. Len(history') # 0
        BY <1>6, <2>1, <2>2
    <2>4. Len(<<>>) = 0
        OBVIOUS
    <2> QED
        BY <1>6, <2>1, <2>2, <2>3, <2>4 DEF LastOf
<1>8. ContentInv'
    <2>1. WalInv'
        BY <1>1, CrashSteps
    <2>2. db' \in [Page -> Int] /\ wal' \in [salt : Nat, frames : Seq(AnyFrame)]
        BY <1>2 DEF LeftOver, Log
    <2> QED
        BY <1>1, <1>7, <2>1, <2>2, StoppedContent
<1>9. /\ hdr' = NoHdr /\ ~hdr'.isInit /\ pc' = [c \in Conn |-> "idle"]
      /\ exclusive' = [c \in Conn |-> {}] /\ ~Publishing'
    BY <1>1 DEF Stop, Each, NoHdr, Publishing
<1>10. Reached' = history'
    BY <1>9, ReachedQuietlyThen
<1>11. count'.tx = count.tx /\ MoreSalt
    BY <1>1, Counted DEF Counts, ContentInv, Whole, FilesTyped
<1>12. LogCounted(wal)'
    <2>1. LogCounted(wal')
        BY <1>2, LeftCounted
    <2>2. count'.salt \in Nat /\ count.salt <= count'.salt /\ count'.tx = count.tx
          /\ count.salt \in Nat
        BY <1>11, Numbers DEF MoreSalt
    <2>3. wal'.salt \in Nat /\ \A f \in 1..Len(wal'.frames) : wal'.frames[f].salt \in Nat
        <3>1. wal' \in Log
            BY <1>2 DEF LeftOver
        <3>2. wal'.salt \in Nat /\ wal'.frames \in Seq(AnyFrame)
            BY <3>1 DEF Log
        <3>3. \A f \in 1..Len(wal'.frames) : wal'.frames[f] \in AnyFrame
            BY <3>2
        <3> QED
            BY <3>2, <3>3 DEF AnyFrame
    <2> QED
        BY <2>1, <2>2, <2>3 DEF LogCounted, FrameCounted
<1>13. EndsAt(wal'.frames, wal'.salt, end)
    BY <1>2, Survives
<1> HIDE DEF end
<1>14. FileInv'
    <2>1. Headed' /\ Told'
        BY <1>9 DEF Headed, Told
    <2>2. Kept'
        <3>1. Len(wal'.frames) \in Nat
            BY <1>8 DEF ContentInv, Whole, FilesTyped
        <3>2. Makes(db', wal'.frames, 1, end, LastOf(Reached'))
            BY <1>3, <1>7, <1>10 DEF end
        <3> QED
            BY <1>13, <3>1, <3>2, KeptAt
    <2>3. \A c \in Conn : Logged(c)' /\ Fresh(c)'
        BY <1>9 DEF Logged, Fresh, Transacts, IsWriter
    <2> QED
        BY <1>12, <2>1, <2>2, <2>3 DEF FileInv
<1>15. DiskInv'
    <2>1. DiskTyped'
        <3>1. wal' \in Log /\ db' \in [Page -> Int]
            BY <1>2 DEF LeftOver
        <3>2. Len(wal'.frames) \in Nat
            BY <1>8 DEF ContentInv, Whole, FilesTyped
        <3> QED
            BY <1>1, <1>6, <1>7, <3>1, <3>2 DEF DiskTyped
    <2>2. LogCounted(walDisk)'
        BY <1>1, <1>12 DEF LogCounted, FrameCounted
    <2>3. Unmixed' /\ Named' /\ Backed' /\ Copied' /\ HdrSynced'
        BY <1>1, <1>9 DEF Unmixed, Mixes, Agree, Named, Backed, Copied, HdrSynced
    <2>4. Recoverable'
        <3>1. ASSUME NEW a \in Nat, NEW m \in Nat, EndsAt(wal'.frames, wal'.salt, a), a <= m,
                     Chained(wal'.frames, wal'.salt, m), CommitAt(wal'.frames, m)
              PROVE  \E j \in durable'..Len(Reached') : Makes(db', wal'.frames, 1, m, Reached'[j])
            <4>1. Len(wal'.frames) \in Nat
                BY <1>8 DEF ContentInv, Whole, FilesTyped
            <4>2. m = end
                <5>1. m <= a /\ a = end
                    BY <1>13, <3>1, <4>1, NoneBeyond, OneEnd
                <5> QED
                    BY <3>1, <5>1
            <4>3. Makes(db', wal'.frames, 1, m, Reached'[Len(Reached')])
                BY <1>3, <1>7, <1>10, <4>2 DEF end, LastOf
            <4>4. Len(Reached') \in durable'..Len(Reached')
                BY <1>1, <1>6, <1>7, <1>10
            <4> QED
                BY <4>3, <4>4
        <3>2. walDisk' = wal'
            BY <1>1
        <3> QED
            BY <3>1, <3>2 DEF Recoverable, Makes
    <2>5. \A c \in Conn : Saves(c)'
        BY <1>9 DEF Saves, Transacts, IsWriter
    <2> QED
        BY <2>1, <2>2, <2>3, <2>4, <2>5 DEF DiskInv
<1> QED
    BY <1>8, <1>14, <1>15

-----------------------------------------------------------------------------
(***************************************************************************)
(* What holds whatever happens.                                            *)
(***************************************************************************)
LEMMA RecoveryInvariant ==
    ASSUME ~IdleCheckpoints
    PROVE  Spec => [](ContentInv /\ FileInv /\ DiskInv)
<1>1. Init => ContentInv /\ FileInv /\ DiskInv
    BY ContentInitially, FilesInitially, DiskInitially
<1>2. ContentInv /\ FileInv /\ DiskInv /\ [Next]_vars => (ContentInv /\ FileInv /\ DiskInv)'
    <2> SUFFICES ASSUME ContentInv, FileInv, DiskInv, [Next]_vars
                 PROVE  ContentInv' /\ FileInv' /\ DiskInv'
        OBVIOUS
    <2>1. CASE PowerLoss
        BY <2>1, PowerLossKeeps
    <2>2. CASE ~PowerLoss
        BY <2>2, ContentStep, CanRebuild, FilesStep, DiskStep
    <2> QED
        BY <2>1, <2>2
<1> QED
    BY <1>1, <1>2, PTL DEF Spec

\* Whatever readers, writers, restarts of the log, failed writes, checkpoints,
\* killed processes and power losses do, for any number of connections, pages,
\* marks and transactions, a reader that begins sees the last content
\* committed -- provided that no checkpoint begins on a log that is wholly
\* copied (walTryBeginRead, walRestartLog, walCheckpoint).
THEOREM EveryCommitIsSeen ==
    ASSUME ~IdleCheckpoints
    PROVE  Spec => []CommitsAreSeen
BY RecoveryInvariant, ContentSeen, PTL

\* A process killed at any moment loses no commit: what walIndexRecover
\* rebuilds from the files is the last content committed, before and after any
\* number of crashes.
THEOREM KilledKeepsCommits ==
    ASSUME ~IdleCheckpoints
    PROVE  Spec => []KilledNowKeepsCommits
BY RecoveryInvariant, KilledNow, PTL

\* A power loss at any moment costs no commit that a checkpoint has synced,
\* and leaves one content, not a mix: the frames that are left of a log are
\* not taken for another's (walDecodeFrame, walChecksumBytes), and the database
\* is written only from a log that is synced (walCheckpoint).
THEOREM PowerLossKeepsSynced ==
    ASSUME ~IdleCheckpoints
    PROVE  Spec => []SyncedSurvives
BY RecoveryInvariant, LeftSurvives, PTL
=============================================================================
