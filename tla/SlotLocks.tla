----------------------------- MODULE SlotLocks -----------------------------
(***************************************************************************)
(* What the storage engine is promised by the locks of the wal-index: a    *)
(* table of slots, each held by any number of connections shared or by one *)
(* connection exclusively.  wal.c (lines 276-288, 814-846) takes and drops *)
(* them; unixShmLock (os_unix.c) provides them.                            *)
(*                                                                         *)
(* The module is the abstract side of ShmLock, which shows that the code   *)
(* implements it, and the lock table Wal is built on.                      *)
(***************************************************************************)

CONSTANTS
    Conn,       \* connections to the database, one Wal and one unixShm each
    Slot        \* lock slots of the wal-index

VARIABLES
    shared,     \* shared[c] : slots connection c holds shared
    exclusive   \* exclusive[c] : slots connection c holds exclusively

lockVars == <<shared, exclusive>>

\* Mutant: a slot another connection holds exclusively is shared.
ShareAnyway(slot) == TRUE

\* No connection holds `slot' exclusively, the caller included.
CanShare(slot) == \A c \in Conn : slot \notin exclusive[c]

\* No connection holds any of `slots', the caller included.
CanExclude(slots) ==
    \A c \in Conn : slots \cap (exclusive[c] \cup shared[c]) = {}

LocksFree ==
    /\ shared = [c \in Conn |-> {}]
    /\ exclusive = [c \in Conn |-> {}]

Share(c, slot) ==
    /\ CanShare(slot)
    /\ shared' = [shared EXCEPT ![c] = @ \cup {slot}]
    /\ UNCHANGED exclusive

Exclude(c, slots) ==
    /\ CanExclude(slots)
    /\ exclusive' = [exclusive EXCEPT ![c] = @ \cup slots]
    /\ UNCHANGED shared

Release(c, slots) ==
    /\ shared' = [shared EXCEPT ![c] = @ \ slots]
    /\ exclusive' = [exclusive EXCEPT ![c] = @ \ slots]

LocksInit == LocksFree

LocksNext ==
    \E c \in Conn :
        \/ \E slot \in Slot : Share(c, slot)
        \/ \E slots \in SUBSET Slot : Exclude(c, slots) \/ Release(c, slots)

LocksSpec == LocksInit /\ [][LocksNext]_lockVars
=============================================================================
