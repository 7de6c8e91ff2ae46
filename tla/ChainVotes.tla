----------------------------- MODULE ChainVotes -----------------------------
(***************************************************************************)
(* Chain with a record of who proposed what, to compare the quorum the     *)
(* tip supports give with the validators that really proposed a block.     *)
(***************************************************************************)
EXTENDS Chain

CONSTANT Several    \* in proposals: a second proposal for the same sequence

ASSUME SeveralAssumption == Several # NoBlock

VARIABLE proposals  \* peer -> sequence -> the block it proposed, or Several

votesVars == <<vars, proposals>>

VotesInit ==
    /\ Init
    /\ proposals = [p \in Peer |-> [n \in 1 .. MaxSequence |-> NoBlock]]

\* A peer proposes as often as its rounds end with an agreement, and a round
\* that ends with no valid block is followed by another one on the same block.
PeerStep ==
    \E p \in Peer, tx \in TxSet, acc \in AccHash,
       prev \in ValidPath(currBlock.sequence - 1) :
        /\ PeerProposal(p, Proposed(prev, tx), acc)
        /\ proposals' = [proposals EXCEPT ![p][currBlock.sequence] =
                           IF @ = NoBlock THEN Proposed(prev, tx) ELSE Several]

LocalStep ==
    /\ CloseBlock \/ \E tx \in TxSet, acc \in AccHash : OnAccept(tx, acc)
    /\ UNCHANGED proposals

VotesSpec == VotesInit /\ [][LocalStep \/ PeerStep]_votesVars

-----------------------------------------------------------------------------
(***************************************************************************)
(* Properties                                                              *)
(***************************************************************************)
Repeated(n) == \E p \in Peer : proposals[p][n] = Several

\* "Quorum is 80% of all validators" (Chain::checkQuorum): every validated
\* block was proposed by more than 80 % of the DIFFERENT validators.  It holds
\* for the blocks of a sequence for which no validator proposed twice.  One
\* that proposes a block again, after a round that did not end with a valid
\* block, is counted as two: insert takes its support off the old tip, from
\* the parent of the block up, and adds it to the block and all above.
QuorumIsOfDifferentValidators ==
    \A n \in 1 .. Len(chain.validBlock.id) :
        LET b == SubSeq(chain.validBlock.id, 1, n)
            voters == {p \in Peer : proposals[p][n] = Proposed(Prev(b), b[n].tx)}
        IN  Repeated(n) \/ 10 * Cardinality(voters) > 8 * UNLcount
==============================================================================
