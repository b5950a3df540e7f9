---------------------------- MODULE MCTaskQueue ----------------------------
(***************************************************************************)
(* An instance of TaskQueue for TLC: a worker polls the queue of a higher  *)
(* priority first, which nothing uses.                                     *)
(***************************************************************************)
EXTENDS TaskQueue

CONSTANTS l1, l2

MCElements == 1..MaxMessages
MCPolled == <<l1, l2>>
=============================================================================
