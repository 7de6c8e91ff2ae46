----------------------------- MODULE MCDispute -----------------------------
(* A dispute with four other nodes and a value of converge_ in each stage. *)
EXTENDS DisputeTransaction

CONSTANTS p1, p2, p3, p4
============================================================================
