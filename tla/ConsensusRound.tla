--------------------------- MODULE ConsensusRound ---------------------------
(***************************************************************************)
(* One round of the class Consensus (src/src/Consensus/Consensus.cpp): how *)
(* a node closes a transaction set, hears the sets of the other validators *)
(* and moves towards one they all propose.  The state of a round is a      *)
(* record of the members of Consensus that a round changes:                *)
(*                                                                         *)
(*   phase             : OPEN or ESTABLISH; ACCEPTED lasts only while      *)
(*                       timerEntry holds the lock                         *)
(*   prevBlockId       : prevBlockid_, the block this round builds on      *)
(*   txns, seq         : result_.txns and result_.txProposal.seq           *)
(*   compares          : result_.compares, the sets already disputed       *)
(*   disputes          : transaction -> dispute                            *)
(*   currPeerProposals : node -> its position, a set and its number        *)
(*   acquiredSets      : the id of a transaction set -> its content, less  *)
(*                       the transactions this node could not check        *)
(*                                                                         *)
(* Abstractions.                                                           *)
(* - The id of a transaction set is the root of its Merkle tree: the set   *)
(*   as it was proposed stands for it.  result_.txProposal.TxSetId is null *)
(*   while the phase is OPEN, and from closeBlock on the id of txns, so it *)
(*   is not kept.                                                          *)
(* - A transaction is a number, the order of the ids in the pool; Slot     *)
(*   gives what TransactionPtrOrder compares, sender and sequence number.  *)
(* - Clocks are gone: which positions and sets are 20 seconds old, and in  *)
(*   which stage the round is, are arguments of updateProposals.           *)
(***************************************************************************)
EXTENDS ChainTree, Dispute

CONSTANTS
    Tx,         \* transactions, numbered in the order of their ids
    Slot,       \* transaction -> its sender and sequence number
    MayFail     \* transactions whose parties need not be accounts of every node

ASSUME TxAssumption == IsFiniteSet(Tx) /\ Tx \subseteq Nat

-----------------------------------------------------------------------------
(***************************************************************************)
(* TransactionSet, a std::set ordered by TransactionPtrOrder: it holds at  *)
(* most one transaction of a slot, and looks transactions up by slot.      *)
(***************************************************************************)
IsTransactionSet(S) == \A t, u \in S : Slot[t] = Slot[u] => t = u

ASSUME TxSetAssumption == TxSet = {S \in SUBSET Tx : IsTransactionSet(S)}

\* CTxSet::exists.
exists(set, tx) == \E t \in set : Slot[t] = Slot[tx]

insertTx(set, tx) == IF exists(set, tx) THEN set ELSE set \union {tx}

eraseTx(set, tx) == {t \in set : Slot[t] # Slot[tx]}

\* ConsensusWrapper::getCurrentTransactionSet: the pool is walked in the order
\* of the ids, and the first transaction of a slot stays.
getCurrentTransactionSet(pool) ==
    {t \in pool : \A u \in pool : Slot[u] = Slot[t] => t <= u}

\* The outcomes of std::set_symmetric_difference in createDisputes.  It is
\* called without TransactionPtrOrder and so merges two ranges by the addresses
\* of the transactions, which they are not sorted by: a common transaction may
\* be taken for a difference, but no difference is missed.
Differences(mine, other) ==
    {D \in SUBSET (mine \union other) :
        /\ IsTransactionSet(D)
        /\ \A t \in (mine \ other) \union (other \ mine) : exists(D, t)}

\* What procTxSetProposalMessage may keep of a proposed set: the transactions of
\* the pool and those that pass checkTransaction.
Checked(set, pool) ==
    {kept \in SUBSET set : set \intersect pool \subseteq kept /\ set \ kept \subseteq MayFail}

-----------------------------------------------------------------------------
\* Consensus::beginConsensus, with the block the new round builds on.
NewRound(prev) ==
    [phase |-> "OPEN", prevBlockId |-> prev, txns |-> {}, seq |-> 0,
     compares |-> {}, disputes |-> [t \in {} |-> NewDispute(TRUE)],
     currPeerProposals |-> [p \in {} |-> [txSet |-> {}, seq |-> 0]],
     acquiredSets |-> [id \in {} |-> {}]]

\* ConsensusResult::isSet.
isSet(r) == r.phase = "ESTABLISH" /\ r.txns # {}

PeersWith(r, id) ==
    {p \in DOMAIN r.currPeerProposals : r.currPeerProposals[p].txSet = id}

\* acquiredSets_.emplace: the content that is there stays.
emplace(sets, id, set) == IF id \in DOMAIN sets THEN sets ELSE Put(sets, id, set)

\* A new dispute: this node's vote and those of the positions known by content.
DisputeOn(r, tx) ==
    FoldSet(LAMBDA p, d :
              setVote(d, p, exists(r.acquiredSets[r.currPeerProposals[p].txSet], tx)),
            NewDispute(exists(r.txns, tx)),
            {p \in DOMAIN r.currPeerProposals :
               r.currPeerProposals[p].txSet \in DOMAIN r.acquiredSets})

\* Consensus::createDisputes; diff is the outcome of the difference.
createDisputes(r, id, diff) ==
    IF id \in r.compares THEN r
    ELSE [r EXCEPT
            !.compares = @ \union {id},
            !.disputes = IF id = r.txns THEN @
                         ELSE [t \in DOMAIN @ \union diff |->
                                 IF t \in DOMAIN @ THEN @[t] ELSE DisputeOn(r, t)]]

\* Consensus::updateDisputes for each of nodes.  Only the first call can add disputes.
updateDisputes(r, nodes, id, set, diff) ==
    [createDisputes(r, id, diff) EXCEPT
       !.disputes = [t \in DOMAIN @ |->
                       FoldSet(LAMBDA p, d : setVote(d, p, exists(set, t)), @[t], nodes)]]

\* The loops over currPeerProposals_ that update the disputes for a new set.
HearSet(r, id, set, diff) ==
    IF PeersWith(r, id) = {} THEN r ELSE updateDisputes(r, PeersWith(r, id), id, set, diff)

\* The proposed sets that are known by content.
ProposedSets(r) ==
    {r.currPeerProposals[p].txSet : p \in DOMAIN r.currPeerProposals}
        \intersect DOMAIN r.acquiredSets

\* The outcomes of the differences that closeBlock forms.
ClosingDifferences(r, pool) ==
    {diff \in [ProposedSets(r) -> SUBSET Tx] :
        \A id \in ProposedSets(r) :
          diff[id] \in Differences(getCurrentTransactionSet(pool), r.acquiredSets[id])}

\* Consensus::closeBlock.  Its own set may be new among the sets it goes through,
\* and is not disputed.
closeBlock(r, pool, diff) ==
    LET txns == getCurrentTransactionSet(pool)
        closed == [r EXCEPT !.phase = "ESTABLISH", !.txns = txns,
                            !.acquiredSets = emplace(@, txns, txns)]
        sets == ProposedSets(closed)
    IN  [closed EXCEPT !.compares = sets,
                       !.disputes = [t \in UNION {diff[id] : id \in sets \ {txns}} |->
                                       DisputeOn(closed, t)]]

\* Consensus::gotTxSet, with the content that is left of the proposed set.  A set
\* already known changes the position of the peer and nothing else.
gotTxSet(r, peer, prop, set, diff) ==
    LET known == peer \in DOMAIN r.currPeerProposals
        heard == [r EXCEPT !.currPeerProposals =
                    Put(@, peer, [txSet |-> prop.txSet, seq |-> prop.seq])]
        acquired == [heard EXCEPT !.acquiredSets = emplace(@, prop.txSet, set)]
    IN  IF \/ prop.prevBlockId # r.prevBlockId
           \/ known /\ prop.seq <= r.currPeerProposals[peer].seq
        THEN r
        ELSE IF prop.txSet \in DOMAIN r.acquiredSets THEN heard
        ELSE IF ~ isSet(r) THEN acquired
        ELSE HearSet(acquired, prop.txSet, set, diff)

-----------------------------------------------------------------------------
(***************************************************************************)
(* Consensus::updateProposals, in its three parts: stale positions and     *)
(* sets go, the disputes are decided, and the changed set is proposed.     *)
(* The local set is never in dispute with itself: there is no difference.  *)
(***************************************************************************)
\* Mutant of DropStale: the votes of a stale position stay.
DropStaleKeepVotes(r, stale, staleSets) ==
    [r EXCEPT !.currPeerProposals = [p \in DOMAIN @ \ stale |-> @[p]],
              !.acquiredSets = [id \in DOMAIN @ \ staleSets |-> @[id]]]

DropStale(r, stale, staleSets) ==
    [r EXCEPT
       !.currPeerProposals = [p \in DOMAIN @ \ stale |-> @[p]],
       !.acquiredSets = [id \in DOMAIN @ \ staleSets |-> @[id]],
       !.disputes = [t \in DOMAIN @ |->
                       FoldSet(LAMBDA p, d : unVote(d, p), @[t], stale)]]

DecideDisputes(r, converge) ==
    [t \in DOMAIN r.disputes |-> updateVote(r.disputes[t], converge)]

\* result_.txns after the disputes in which the local vote changed.
DecidedSet(r, decided) ==
    FoldSet(LAMBDA t, set : IF decided[t].ourVote THEN insertTx(set, t)
                                                  ELSE eraseTx(set, t),
            r.txns,
            {t \in DOMAIN decided : decided[t].ourVote # r.disputes[t].ourVote})

updateProposals(r, stale, staleSets, converge) ==
    LET fresh == DropStale(r, stale, staleSets)
        decided == DecideDisputes(fresh, converge)
        txns == DecidedSet(fresh, decided)
        voted == [fresh EXCEPT !.disputes = decided]
        proposed == [voted EXCEPT !.txns = txns, !.seq = @ + 1,
                                  !.acquiredSets = emplace(@, txns, txns)]
    IN  IF txns = r.txns THEN voted
        ELSE IF txns \in DOMAIN fresh.acquiredSets THEN proposed
        ELSE HearSet(proposed, txns, txns, {})

\* Mutant of haveConsensus: this node is not counted among the validators.
haveConsensusOfUNL(r) ==
    10 * ((Cardinality(PeersWith(r, r.txns)) + 1) \div UNLcount) > 8

\* Consensus::haveConsensus.  Both counts are unsigned integers, and so is
\* their quotient.
haveConsensus(r) ==
    10 * ((Cardinality(PeersWith(r, r.txns)) + 1) \div (UNLcount + 1)) > 8

-----------------------------------------------------------------------------
IsRound(r) ==
    /\ r.phase \in {"OPEN", "ESTABLISH"}
    /\ r.prevBlockId \in BlockId
    /\ r.txns \in TxSet
    /\ r.seq \in Nat
    /\ r.compares \subseteq TxSet
    /\ DOMAIN r.disputes \subseteq Tx
    /\ DOMAIN r.currPeerProposals \subseteq Validator
    /\ DOMAIN r.acquiredSets \subseteq TxSet
    /\ \A id \in DOMAIN r.acquiredSets : r.acquiredSets[id] \in TxSet
=============================================================================
