------------------------------ MODULE OneRound ------------------------------
(***************************************************************************)
(* The rounds of one node, with peers that propose any transaction sets in *)
(* any order.  Module Consensus composes the rounds of all nodes; here the *)
(* UNL can be larger, as what the other nodes did before they proposed a   *)
(* set is left out.  All rounds build on one block, the genesis block.     *)
(***************************************************************************)
EXTENDS ConsensusRound

CONSTANTS
    Self,           \* this node
    MaxSeq          \* bound: how often a peer changes its position

ASSUME SelfAssumption == Self \in Validator

VARIABLE own        \* the state of the round of this node (module ConsensusRound)

ownVars == <<own>>

OwnInit == own = NewRound(Genesis)

\* beginConsensus: an accepted or a given-up round is followed by a new one.
BeginOwnRound == own' = NewRound(Genesis)

CloseOwnBlock(pool) ==
    /\ own.phase = "OPEN"
    /\ pool # {}
    /\ \E diff \in ClosingDifferences(own, pool) : own' = closeBlock(own, pool, diff)

\* Which transactions of the set are in the pool is left open.
GotTxSet(p, set, seq) ==
    \E kept \in Checked(set, {}) : \E diff \in Differences(own.txns, kept) :
        own' = gotTxSet(own, p,
                          [prevBlockId |-> Genesis, txSet |-> set, seq |-> seq], kept, diff)

UpdateOwnProposals(stale, staleSets, converge) ==
    /\ own.phase = "ESTABLISH"
    /\ own' = updateProposals(own, stale, staleSets, converge)

OwnNext ==
    \/ BeginOwnRound
    \/ \E pool \in SUBSET Tx : CloseOwnBlock(pool)
    \/ \E p \in Validator \ {Self}, set \in TxSet, seq \in 0 .. MaxSeq :
         GotTxSet(p, set, seq)
    \/ \E stale \in SUBSET DOMAIN own.currPeerProposals,
          staleSets \in SUBSET DOMAIN own.acquiredSets, converge \in Stage :
         UpdateOwnProposals(stale, staleSets, converge)

OwnSpec == OwnInit /\ [][OwnNext]_ownVars

-----------------------------------------------------------------------------
(***************************************************************************)
(* Properties                                                              *)
(***************************************************************************)
\* Once a set is proposed it only loses transactions until the round is over:
\* whatever the peers propose, in whatever order, and however old it grows, no
\* dispute is ever decided for a transaction this node did not propose.
PositionsOnlyShrink ==
    [][own.phase = "ESTABLISH" /\ own'.phase = "ESTABLISH" =>
         own'.txns \subseteq own.txns]_ownVars

\* A round ends with a set only when every single validator on the UNL
\* proposes it: the quotient of haveConsensus is an unsigned integer, 0 as long
\* as one is missing.  Thesis, Accepted: "Once there is 80\% consensus among a
\* node's chosen validators on a transaction set, the block with this set is
\* considered valid"; the code does not get that far with 80 %.
ConsensusIsUnanimous ==
    haveConsensus(own) => PeersWith(own, own.txns) = Validator \ {Self}

\* The votes on a dispute are those of nodes that have a position: what
\* updateProposals drops is also withdrawn from every dispute, and a position
\* that is replaced takes its votes along.
VotersHavePositions ==
    \A t \in DOMAIN own.disputes :
        DOMAIN own.disputes[t].votes \subseteq DOMAIN own.currPeerProposals
=============================================================================
