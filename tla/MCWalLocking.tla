---------------------------- MODULE MCWalLocking ----------------------------
(***************************************************************************)
(* WalLocking for TLC: three transactions, one of them on the main thread, *)
(* and the checkpoint of the background queue.  There is one read mark, so *)
(* that it is contended.                                                   *)
(***************************************************************************)
EXTENDS WalLocking

CONSTANTS main, worker, other, checkpoint

MCConn == {main, worker, other, checkpoint}
MCMainConn == {main}
MCCheckpointer == {checkpoint}
MCSlot == 0..4
=============================================================================
