------------------------------- MODULE Store -------------------------------
(***************************************************************************)
(* What the storage engine promises the application.  The database goes    *)
(* through a history of committed contents.  A transaction sees one of     *)
(* them, the same from its beginning to its end; only a transaction that   *)
(* sees the latest may commit, and one at a time writes.  A process that   *)
(* is killed loses no commit.  A power loss may lose the latest ones, but  *)
(* none of those before the last checkpoint synced the log, and it leaves  *)
(* one of the committed contents, never a mixture: this is what            *)
(* synchronous = NORMAL gives.                                             *)
(*                                                                         *)
(* Wal shows that wal.c keeps these promises.                              *)
(***************************************************************************)
EXTENDS Naturals, SequencesExt

CONSTANTS
    Conn,       \* connections
    Page,       \* pages of the database
    Tx          \* names of transactions; 0 names the content at the start

VARIABLES
    history,    \* the committed contents, oldest first
    seen,       \* seen[c] : the content the transaction of c reads, or Nothing
    writing,    \* writing[c] : the content it is about to commit, or Nothing
    durable     \* so many of `history' survive a power loss

storeVars == <<history, seen, writing, durable>>

Content == [Page -> Tx \cup {0}]

Nothing == <<>>

Nobody == [c \in Conn |-> Nothing]

StoreInit ==
    /\ history = <<[p \in Page |-> 0]>>
    /\ seen = Nobody
    /\ writing = Nobody
    /\ durable = 1

Begin(c) ==
    /\ seen[c] = Nothing
    /\ seen' = [seen EXCEPT ![c] = Last(history)]
    /\ UNCHANGED <<history, writing, durable>>

Write(c) ==
    /\ seen[c] = Last(history)
    /\ writing = Nobody
    /\ \E tx \in Tx, pages \in SUBSET Page :
          /\ pages # {}
          /\ \A i \in DOMAIN history, p \in Page : history[i][p] # tx
          /\ writing' = [writing EXCEPT ![c] =
                            [p \in Page |-> IF p \in pages THEN tx ELSE seen[c][p]]]
    /\ UNCHANGED <<history, seen, durable>>

Commit(c) ==
    /\ writing[c] # Nothing
    /\ history' = Append(history, writing[c])
    /\ seen' = [seen EXCEPT ![c] = writing[c]]
    /\ writing' = Nobody
    /\ UNCHANGED durable

Rollback(c) ==
    /\ writing[c] # Nothing
    /\ writing' = Nobody
    /\ UNCHANGED <<history, seen, durable>>

End(c) ==
    /\ seen[c] # Nothing
    /\ writing[c] = Nothing
    /\ seen' = [seen EXCEPT ![c] = Nothing]
    /\ UNCHANGED <<history, writing, durable>>

Harden ==
    /\ durable' \in durable..Len(history)
    /\ UNCHANGED <<history, seen, writing>>

\* The commits there are when the process stops: a commit that was on its way
\* may have got there.
Reached == {history} \cup
           {Append(history, writing[c]) : c \in {d \in Conn : writing[d] # Nothing}}

Kill ==
    /\ history' \in Reached
    /\ seen' = Nobody
    /\ writing' = Nobody
    /\ UNCHANGED durable

PowerLoss ==
    /\ \E reached \in Reached : \E n \in durable..Len(reached) :
          history' = SubSeq(reached, 1, n)
    /\ durable' = Len(history')
    /\ seen' = Nobody
    /\ writing' = Nobody

StoreNext ==
    \/ \E c \in Conn : Begin(c) \/ Write(c) \/ Commit(c) \/ Rollback(c) \/ End(c)
    \/ Harden
    \/ Kill
    \/ PowerLoss

StoreSpec == StoreInit /\ [][StoreNext]_storeVars
=============================================================================
