---------------------------- MODULE MCConsensus ----------------------------
(* ConsensusVotes of two nodes, whose quorum is the other one. *)
EXTENDS ConsensusVotes, TLC, FiniteSetsExt

CONSTANTS n1, n2, h1

MCTxSet == {S \in SUBSET Tx : \A t, u \in S : Slot[t] = Slot[u] => t = u}

DistinctSlots == [t \in Tx |-> t]

\* Transaction 1 pays once, and 2 spends what 1 brings: execution drops 1 if an
\* earlier block has it, and 2 if no earlier block has 1.
DroppedTx(prev, set) ==
    LET earlier == UNION {prev[i].tx : i \in 1 .. Len(prev)}
    IN  {t \in set : (t = 1) = (1 \in earlier)}

Symmetry == Permutations(Validator)

\* A constraint: five closed blocks in all, and nothing after the point where
\* every node has a valid block.
UntilAllValid ==
    /\ MapThenSumSet(LAMBDA n : rounds[n], Validator) <= 5
    /\ \E n \in Validator : ValidBlock(n) = Genesis

Earlier(k, m) ==
    \/ k.round < m.round
    \/ k.round = m.round /\ k.type = "TXSETPROPOSAL" /\
         (m.type = "TXSETPROPOSAL" => k.seq < m.seq)

\* An action constraint: no message is lost, or overtakes one of its sender.
InOrder ==
    \A m \in network \ network', k \in network :
        k.from = m.from /\ k.to = m.to => ~ Earlier(k, m)
============================================================================
