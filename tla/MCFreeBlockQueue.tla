-------------------------- MODULE MCFreeBlockQueue --------------------------
(* TLC instance of FreeBlockQueue.                                         *)
EXTENDS FreeBlockQueue
=============================================================================
