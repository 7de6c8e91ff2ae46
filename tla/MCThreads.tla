---------------------------- MODULE MCThreads ----------------------------
(***************************************************************************)
(* Threads for TLC: queues of two, a pool of two and a peer that takes one *)
(* message before it has to read.                                          *)
(***************************************************************************)
EXTENDS Threads
=============================================================================
