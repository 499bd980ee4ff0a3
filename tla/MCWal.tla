------------------------------- MODULE MCWal -------------------------------
(***************************************************************************)
(* Wal for TLC: two connections that read and write, and the checkpoint of *)
(* the background queue.                                                   *)
(***************************************************************************)
EXTENDS Wal, TLC

CONSTANTS main, worker, checkpoint

MCConn == {main, worker, checkpoint}
MCOne == {worker, checkpoint}
MCCheckpointer == {checkpoint}
MCSlot == 0..(3 + NMarks)
MCPage == 1..2

Alike == Permutations({main, worker})
=============================================================================
