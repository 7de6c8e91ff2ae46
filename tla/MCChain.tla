------------------------------ MODULE MCChain ------------------------------
(* ChainVotes with two validators on the UNL: more than 0.8 * 2 is both, and *)
(* a support below zero, modulo 3 here, is above the quorum as modulo 2^32.  *)
EXTENDS ChainVotes, TLC

CONSTANTS n0, p1, p2, t1, t2, h1

Symmetry == Permutations({p1, p2}) \union Permutations({t1, t2})
==============================================================================
