----------------------------- MODULE MCOneRound -----------------------------
(* The rounds of one node with two validators on its UNL. *)
EXTENDS OneRound, TLC

CONSTANTS n0, p1, p2, h1

MCTxSet == {S \in SUBSET Tx : \A t, u \in S : Slot[t] = Slot[u] => t = u}

DistinctSlots == [t \in Tx |-> t]

Symmetry == Permutations(Validator \ {Self})
=============================================================================
