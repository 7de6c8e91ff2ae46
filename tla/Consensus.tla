----------------------------- MODULE Consensus -----------------------------
(***************************************************************************)
(* The consensus of all validators: the ConsensusWrapper, Consensus and    *)
(* Chain of every node, and the proposals on their way between them.       *)
(*                                                                         *)
(* A node has two threads that enter its consensus, both with              *)
(* ConsensusWrapper::consensusMutex_ held for a whole call.                *)
(* - consensusThread ticks while the transaction pool is not empty and     *)
(*   calls timerEntry: BeginRound, CloseBlock, UpdateProposals and         *)
(*   AcceptBlock are what a tick can do.                                   *)
(* - The message processor hands over proposals: ReceiveTxSetProposal and  *)
(*   ReceiveBlockProposal.  Its queue is a priority queue, in which        *)
(*   messages of one kind are not ordered, and a connection may go down:   *)
(*   messages are received in any order, or never.                         *)
(* Transactions reach a pool by themselves (a wallet, a TX message), at    *)
(* any time and also late, after the block that holds them was executed.   *)
(*                                                                         *)
(* Clocks are gone: a phase may end, a position grow stale and the thread  *)
(* sleep too long whenever the code allows it.  All nodes are on all UNLs. *)
(***************************************************************************)
EXTENDS ConsensusRound

CONSTANTS
    Dropped(_, _),  \* a block and a set -> what of the set is dropped when it is
                    \* executed after that block (countAccountDifferencesByTxSet)
    MayExpire,      \* bound: whether proposals reach an age of 20 seconds
    MaxRounds,      \* bound: how many blocks a node closes
    MaxSequence     \* bound: no block is closed above this sequence

ASSUME BoundsAssumption == MaxRounds \in Nat /\ MaxSequence \in Nat

\* Every account database has a root.
ASSUME AccHashAssumption == AccHash # {}

VARIABLES
    round,          \* node -> the state of its round (module ConsensusRound)
    chain,          \* node -> its chain (module ChainTree)
    currBlock,      \* node -> currBlock_, as in module Chain
    currBlockId,    \* node -> currBlockId_
    lastExecuted,   \* node -> the block given to executeBlock last, as in module Chain
    lastStored,     \* node -> the block that executeBlock stored last
    txPool,         \* node -> the transactions in txPool_
    rounds,         \* node -> how many blocks it closed
    network         \* the proposals that are on their way

vars == <<round, chain, currBlock, currBlockId, lastExecuted, lastStored, txPool, rounds,
          network>>

executions == <<lastExecuted, lastStored>>

EmptyBlock(seq) == [sequence |-> seq, id |-> NoBlock]

\* Executing a block is deterministic, and all nodes have the same accounts: the
\* account root of a block is a function of its path, and one value stands for it.
AccountHash == CHOOSE acc \in AccHash : TRUE

\* What is left of a block when it is executed: its count, root and size are
\* computed again, so a block that lost a transaction has another id.
Rest(b) == Proposed(Prev(b), b[Len(b)].tx \ Dropped(Prev(b), b[Len(b)].tx))

Init ==
    /\ round = [n \in Validator |-> NewRound(Genesis)]
    /\ chain = [n \in Validator |-> NewChain]
    /\ currBlock = [n \in Validator |-> EmptyBlock(0)]
    /\ currBlockId = [n \in Validator |-> NoBlock]
    /\ lastExecuted = [n \in Validator |-> Genesis]
    /\ lastStored = [n \in Validator |-> Genesis]
    /\ txPool = [n \in Validator |-> {}]
    /\ rounds = [n \in Validator |-> 0]
    /\ network = {}

-----------------------------------------------------------------------------
(***************************************************************************)
(* Messages.  ConsensusWrapper::share broadcasts; the number of the round  *)
(* keeps two proposals with the same content apart, as their timestamps.   *)
(***************************************************************************)
TxSetProposals(n, r) ==
    {[type |-> "TXSETPROPOSAL", from |-> n, to |-> m, round |-> rounds'[n],
      prevBlockId |-> r.prevBlockId, txSet |-> r.txns, seq |-> r.seq] :
        m \in Validator \ {n}}

\* Mutant of BlockProposals: the block is proposed with its account hash.
ExecutedBlockProposals(n, b) ==
    {[type |-> "BLOCKPROPOSAL", from |-> n, to |-> m, round |-> rounds'[n],
      block |-> Executed(b, AccountHash)] : m \in Validator \ {n}}

BlockProposals(n, b) ==
    {[type |-> "BLOCKPROPOSAL", from |-> n, to |-> m, round |-> rounds'[n], block |-> b] :
        m \in Validator \ {n}}

\* What updateProposals shares: the transaction set, if it changed.
Reproposed(n, r) == IF r.txns # round[n].txns THEN TxSetProposals(n, r) ELSE {}

-----------------------------------------------------------------------------
Running(n) == lastExecuted[n] # NoBlock

\* The condition consensusThread waits for.
Awake(n) == Running(n) /\ txPool[n] # {}

\* timerEntry goes on with the round: the preferred block is still the one the
\* round builds on.
OnPreferred(n) == getPreferredBlock(chain[n]) = round[n].prevBlockId

\* ConsensusWrapper::executeBlock(currBlock_) and currBlock_->setNull().  The chain
\* keeps the id that the block was accepted with, whatever is dropped from it.
Execute(n, c, id, block) ==
    /\ chain' = [chain EXCEPT ![n] =
                   assignAccountHashToValidBlock(SetValidBlock(c, id), AccountHash)]
    /\ currBlock' = [currBlock EXCEPT ![n] = EmptyBlock(0)]
    /\ lastExecuted' = [lastExecuted EXCEPT ![n] =
                          IF block = NoBlock THEN NoBlock ELSE Executed(block, AccountHash)]
    /\ lastStored' = [lastStored EXCEPT ![n] =
                        IF block = NoBlock THEN @ ELSE Executed(Rest(block), AccountHash)]
    /\ txPool' = [txPool EXCEPT ![n] =
                    IF block = NoBlock THEN @ ELSE @ \ block[Len(block)].tx]

\* addTransactionToPool, for a new payment of the wallet or a TX message.
AddTransaction(n, tx) ==
    /\ Running(n)
    /\ tx \notin txPool[n]
    /\ txPool' = [txPool EXCEPT ![n] = @ \union {tx}]
    /\ UNCHANGED <<round, chain, currBlock, currBlockId, executions, rounds, network>>

\* beginConsensus, from consensusThread after more than three seconds without
\* a tick or from timerEntry when the preferred block is a different one; in
\* both cases timerEntry takes the preferred block over.
BeginRound(n) ==
    /\ Awake(n)
    /\ round' = [round EXCEPT ![n] = NewRound(getPreferredBlock(chain[n]))]
    /\ UNCHANGED <<chain, currBlock, currBlockId, executions, txPool, rounds, network>>

CloseBlock(n) ==
    /\ Awake(n)
    /\ OnPreferred(n)
    /\ round[n].phase = "OPEN"
    /\ rounds[n] < MaxRounds /\ Sequence(round[n].prevBlockId) < MaxSequence
    /\ \E diff \in ClosingDifferences(round[n], txPool[n]) :
         round' = [round EXCEPT ![n] = closeBlock(@, txPool[n], diff)]
    /\ rounds' = [rounds EXCEPT ![n] = @ + 1]
    /\ currBlock' = [currBlock EXCEPT ![n] =
                       EmptyBlock(Sequence(round[n].prevBlockId) + 1)]
    /\ network' = network \union TxSetProposals(n, round'[n])
    /\ UNCHANGED <<chain, currBlockId, executions, txPool>>

\* A tick of the establish phase that does not end it.
UpdateProposals(n, r) ==
    /\ ~ haveConsensus(r)
    /\ round' = [round EXCEPT ![n] = r]
    /\ UNCHANGED rounds
    /\ network' = network \union Reproposed(n, r)
    /\ UNCHANGED <<chain, currBlock, currBlockId, executions, txPool>>

\* The end of onAccept: the next round builds on the block just accepted.
NextRound(n) == NewRound(currBlockId'[n])

\* A tick of the establish phase that ends it with onAccept: the new block is
\* proposed and inserted, executed if it has the quorum, and a new round begun.
AcceptBlock(n, r) ==
    LET b == Proposed(r.prevBlockId, r.txns)
        inserted == insert(chain[n], n, b, TRUE)
    IN  /\ haveConsensus(r)
        /\ UNCHANGED rounds
        /\ network' = network \union Reproposed(n, r) \union BlockProposals(n, b)
        /\ currBlockId' = [currBlockId EXCEPT ![n] = b]
        /\ round' = [round EXCEPT ![n] = NextRound(n)]
        /\ IF HasQuorum(inserted, b)
           THEN Execute(n, inserted, b, b)
           ELSE /\ chain' = [chain EXCEPT ![n] = inserted]
                /\ currBlock' = [currBlock EXCEPT ![n] =
                                   [sequence |-> Sequence(b), id |-> b]]
                /\ UNCHANGED <<executions, txPool>>

\* What may be older than 20 seconds at a tick.
Expired(S) == IF MayExpire THEN SUBSET S ELSE {{}}

\* timerEntry in the establish phase.
Establish(n, stale, staleSets, converge) ==
    /\ Awake(n)
    /\ OnPreferred(n)
    /\ round[n].phase = "ESTABLISH"
    /\ LET r == updateProposals(round[n], stale, staleSets, converge)
       IN  UpdateProposals(n, r) \/ AcceptBlock(n, r)

-----------------------------------------------------------------------------
\* procTxSetProposalMessage: the transactions of the set that are new and pass
\* checkTransaction enter the pool.  gotTxSet gets the id of the whole set, and as
\* its content only what was in the pool or passed.  Each look-up takes the lock
\* of its own, and so does gotTxSet; they are one step here.
ReceiveTxSetProposal(n, m) ==
    /\ m.type = "TXSETPROPOSAL"
    /\ \E kept \in Checked(m.txSet, txPool[n]) :
         /\ txPool' = [txPool EXCEPT ![n] = @ \union kept]
         /\ \E diff \in Differences(round[n].txns, kept) :
              round' = [round EXCEPT ![n] = gotTxSet(@, m.from, m, kept, diff)]
    /\ network' = network \ {m}
    /\ UNCHANGED <<chain, currBlock, currBlockId, executions, rounds>>

\* Mutant of BlockAskedAbout: the block of the proposal.
BlockProposed(n, m) == m.block

\* addBlockProposalToChain(prop, currBlockId_): the block whose quorum a
\* proposal may complete is the one accepted last, not the one proposed.
BlockAskedAbout(n, m) == currBlockId[n]

\* procBlockProposalMessage: Consensus::peerProposal.
ReceiveBlockProposal(n, m) ==
    LET inserted == insert(chain[n], m.from, m.block, FALSE)
    IN  /\ m.type = "BLOCKPROPOSAL"
        /\ network' = network \ {m}
        /\ IF Sequence(m.block) # currBlock[n].sequence
           THEN UNCHANGED <<chain, currBlock, executions, txPool>>
           ELSE IF HasQuorum(inserted, BlockAskedAbout(n, m))
           THEN Execute(n, inserted, BlockAskedAbout(n, m), currBlock[n].id)
           ELSE /\ chain' = [chain EXCEPT ![n] = inserted]
                /\ UNCHANGED <<currBlock, executions, txPool>>
        /\ UNCHANGED <<round, currBlockId, rounds>>

Receive(n) ==
    /\ Running(n)
    /\ \E m \in {m \in network : m.to = n} :
         ReceiveTxSetProposal(n, m) \/ ReceiveBlockProposal(n, m)

Next ==
    \E n \in Validator :
        \/ \E tx \in Tx : AddTransaction(n, tx)
        \/ BeginRound(n)
        \/ CloseBlock(n)
        \/ \E stale \in Expired(DOMAIN round[n].currPeerProposals),
              staleSets \in Expired(DOMAIN round[n].acquiredSets), converge \in Stage :
                Establish(n, stale, staleSets, converge)
        \/ Receive(n)

Spec == Init /\ [][Next]_vars

-----------------------------------------------------------------------------
(***************************************************************************)
(* Properties                                                              *)
(***************************************************************************)
TypeOK ==
    \A n \in Validator :
        /\ IsRound(round[n])
        /\ IsChain(chain[n])
        /\ currBlock[n] \in [sequence : Nat, id : BlockId \union {NoBlock}]
        /\ currBlockId[n] \in BlockId \union {NoBlock}
        /\ lastExecuted[n] \in BlockId \union {NoBlock}
        /\ lastStored[n] \in BlockId
        /\ txPool[n] \subseteq Tx
        /\ rounds[n] \in 0 .. MaxRounds

ValidBlock(n) == chain[n].validBlock.id

IsPrefixOf(a, b) == Len(a) <= Len(b) /\ a = SubSeq(b, 1, Len(a))

\* The thesis, on the confirmation of transactions: "If there are two valid
\* chains, nodes must agree on a single chain of blocks".  Nodes accept, and
\* propose, one block after the other for a sequence; no two of them hold
\* different ones for valid.
Agreement ==
    \A n, m \in Validator :
        \/ IsPrefixOf(ValidBlock(n), ValidBlock(m))
        \/ IsPrefixOf(ValidBlock(m), ValidBlock(n))

\* The local vote on a dispute says whether the transaction is in the set this
\* node proposes: the two are set in different places (createDisputes,
\* updateVote and the loop over the changed votes in updateProposals).
OurVotesMatchOurSet ==
    \A n \in Validator : \A t \in DOMAIN round[n].disputes :
        round[n].disputes[t].ourVote <=> t \in round[n].txns

\* The block that was handed to executeBlock is the one that became valid, and the
\* block stored is what execution left of it: chain_ takes the id from currBlockId_
\* and executeBlock the block from currBlock_, which closeBlock and setNull change
\* on their own.  If execution dropped transactions, the block is stored under
\* another id than the chain has.  The node has stopped when executeBlock was
\* given the bare skeleton.
ExecutedBlockIsValidBlock ==
    \A n \in Validator : Running(n) =>
        /\ lastExecuted[n] = ValidBlock(n)
        /\ lastStored[n] = IF ValidBlock(n) = Genesis THEN Genesis
                           ELSE Executed(Rest(ValidBlock(n)), AccountHash)

\* Every node is the node of module Chain: what is proved there of the chain
\* of one node, whatever its peers propose, holds of the nodes of a network.
ChainOf(node) == INSTANCE Chain
                  WITH Self <- node, chain <- chain[node], currBlock <- currBlock[node],
                       currBlockId <- currBlockId[node],
                       lastExecuted <- lastExecuted[node]

ImplementsChain ==
    /\ \A n \in Validator : ChainOf(n)!Init
    /\ [][\A n \in Validator : [ChainOf(n)!Next]_(ChainOf(n)!vars)]_vars
============================================================================
