------------------------------ MODULE MCGossip ------------------------------
(* Four nodes in a ring, so that the fourth hears of a transaction of the first *)
(* from two; it does not know account 2.  The block is unknown to the others.   *)
EXTENDS Gossip

CONSTANTS t1, t2, a1, a2, b1

MCConnected == {pair \in Node \X Node : pair[1] # pair[2] /\ pair[1] + pair[2] # 5}
MCUNLsize == [n \in Node |-> IF n = 4 THEN 3 ELSE 2]
MCCreator == [tx \in Tx |-> IF tx = t1 THEN 1 ELSE 2]
MCWallet == [n \in Node |-> IF n = 2 THEN a2 ELSE n]
MCParties == [tx \in Tx |-> IF tx = t1 THEN {a1} ELSE {a1, a2}]
MCAccounts == [n \in Node |-> IF n = 4 THEN {a1} ELSE {a1, a2}]
MCBlocks == [n \in Node |-> IF n = 2 THEN {b1} ELSE {}]
=============================================================================
