------------------------------- MODULE Chain -------------------------------
(***************************************************************************)
(* The chain of one node and the calls its consensus makes to it.          *)
(*                                                                         *)
(* Every call is made with ConsensusWrapper::consensusMutex_ held, so an   *)
(* action is one whole call of Consensus: closeBlock and onAccept from the *)
(* consensus thread, peerProposal from the message-processing thread, each *)
(* with the insert, updateValidBlock and executeBlock it leads to.  What   *)
(* decides WHEN a block is closed or accepted is left open here; it is the *)
(* subject of module Consensus.                                            *)
(*                                                                         *)
(* The proposals of peers are those of validators that run this program:   *)
(* a proposed block extends a block the issuer holds for valid, which need *)
(* not be one this node knows.                                             *)
(***************************************************************************)
EXTENDS ChainTree

CONSTANTS
    Self,           \* this node
    MaxSequence     \* bound: no block is closed above this sequence

ASSUME SelfAssumption == Self \in Validator

ASSUME MaxSequenceAssumption == MaxSequence \in Nat

VARIABLES
    chain,          \* Chain *chain_
    currBlock,      \* Consensus::currBlock_: its sequence number and, once
                    \* onAccept has filled it, the block (its id) it holds
    currBlockId,    \* Consensus::currBlockId_, set by onAccept only
    lastExecuted    \* the block that was given to executeBlock last, under
                    \* its executed id, Genesis at first; NoBlock once it was
                    \* given the skeleton that closeBlock leaves, whose null
                    \* transaction root makes BlockHeader::serialize throw
                    \* and ends the process

vars == <<chain, currBlock, currBlockId, lastExecuted>>

EmptyBlock(seq) == [sequence |-> seq, id |-> NoBlock]

\* The validators whose proposals Connection::filterMessage lets through.
Peer == Validator \ {Self}

\* Paths of executed blocks of length n: what a peer may hold for valid.
ValidPath(n) == [1 .. n -> [tx : TxSet, acc : AccHash]]

Init ==
    /\ chain = NewChain
    /\ currBlock = EmptyBlock(0)
    /\ currBlockId = NoBlock
    /\ lastExecuted = Genesis

Running == lastExecuted # NoBlock

(***************************************************************************)
(* ConsensusWrapper::executeBlock(currBlock_) followed by                  *)
(* currBlock_->setNull(), called when updateValidBlock(id) returned true.  *)
(* The chain keeps the transactions the block was proposed with: what is   *)
(* dropped from it, and so stored, is in modules Consensus and Ledger.     *)
(***************************************************************************)
Execute(c, id, block, acc) ==
    /\ chain' = assignAccountHashToValidBlock(SetValidBlock(c, id), acc)
    /\ currBlock' = EmptyBlock(0)
    /\ lastExecuted' = IF block = NoBlock THEN NoBlock ELSE Executed(block, acc)

\* Consensus::closeBlock, after timerEntry took over the preferred block.
CloseBlock ==
    /\ Running
    /\ Sequence(getPreferredBlock(chain)) < MaxSequence
    /\ currBlock' = EmptyBlock(Sequence(getPreferredBlock(chain)) + 1)
    /\ UNCHANGED <<chain, currBlockId, lastExecuted>>

\* Consensus::onAccept: the closed block is filled with a transaction set,
\* inserted as a local block and executed at once if it has the quorum.
OnAccept(tx, acc) ==
    LET b == Proposed(getPreferredBlock(chain), tx)
        inserted == insert(chain, Self, b, TRUE)
    IN  /\ Running
        /\ currBlock.sequence # 0 /\ currBlock.id = NoBlock
        /\ currBlockId' = b
        /\ IF HasQuorum(inserted, b)
           THEN Execute(inserted, b, b, acc)
           ELSE /\ chain' = inserted
                /\ currBlock' = [sequence |-> Sequence(b), id |-> b]
                /\ UNCHANGED lastExecuted

\* Consensus::peerProposal: a proposal for the sequence of the current block
\* is inserted, and the block asked about is the one accepted last.
PeerProposal(p, b, acc) ==
    LET inserted == insert(chain, p, b, FALSE)
    IN  /\ Running
        /\ Sequence(b) = currBlock.sequence
        /\ IF HasQuorum(inserted, currBlockId)
           THEN Execute(inserted, currBlockId, currBlock.id, acc)
           ELSE /\ chain' = inserted
                /\ UNCHANGED <<currBlock, lastExecuted>>
        /\ UNCHANGED currBlockId

Next ==
    \/ CloseBlock
    \/ \E tx \in TxSet, acc \in AccHash : OnAccept(tx, acc)
    \/ \E p \in Peer, tx \in TxSet, acc \in AccHash,
          prev \in ValidPath(currBlock.sequence - 1) :
            PeerProposal(p, Proposed(prev, tx), acc)

Spec == Init /\ [][Next]_vars

-----------------------------------------------------------------------------
(***************************************************************************)
(* Properties                                                              *)
(***************************************************************************)
TypeOK ==
    /\ IsChain(chain)
    /\ currBlock \in [sequence : Nat, id : BlockId \union {NoBlock}]
    /\ currBlockId \in BlockId \union {NoBlock}
    /\ lastExecuted \in BlockId \union {NoBlock}

\* The blocks stay one tree rooted in the genesis block, parent pointers and
\* child lists agreeing, also when a block is entered a second time under its
\* executed id.
TreeIsWellFormed == WellFormed(chain)

\* The valid block can be walked to from the genesis block over validChild,
\* the walk putChainDataToStringStream prints: no link of it is lost.
ValidChainIsLinked == Linked(chain)

\* The copy validBlock never shows a child, although the node it was copied
\* from gets some: getPreferredBlock ends where it starts, so the search for
\* the block most validators work on never runs (nor its read of the block
\* behind a dangling pointer in getUncommitted).
PreferredBlockIsValidBlock ==
    /\ chain.validBlock.node.childs = <<>>
    /\ getPreferredBlock(chain) = chain.validBlock.id

\* No vote stays behind on the first entry of a block that has an executed
\* one: assignAccountHashToValidBlock moves all the pointers, and a proposal
\* that comes late is not inserted any more.
VotesFollowExecutedBlock == VotesMoved(chain)

\* The valid block is extended by one block at a time and never replaced: a
\* quorum for a block of an abandoned branch, or for one above a gap, is not
\* acted on, though checkQuorum compares nothing but sequence numbers.
Abstract == INSTANCE ValidatedChain
                WITH validated <- chain.validBlock.id,
                     ValidEntry <- [tx : TxSet, acc : AccHash]

ImplementsValidatedChain == Abstract!Spec

-----------------------------------------------------------------------------
(***************************************************************************)
(* The inductive invariant behind the properties above.  checkQuorum only  *)
(* compares sequence numbers; that no other block than a successor of the  *)
(* valid block is validated rests on which blocks get into the tree        *)
(* (peerProposal's guard) and on what currBlockId can be.                  *)
(***************************************************************************)
CurrBlockIsNextOrOld ==
    /\ currBlock.sequence \in {0, Len(chain.validBlock.id) + 1}
    /\ currBlock.id \in {NoBlock, currBlockId}
    /\ currBlockId # NoBlock =>
         /\ currBlockId # Genesis
         /\ ~ IsExecuted(currBlockId)
         /\ \/ Len(currBlockId) <= Len(chain.validBlock.id)
            \/ Prev(currBlockId) = chain.validBlock.id

IInv == TypeOK /\ ChainInv(chain) /\ CurrBlockIsNextOrOld
==============================================================================
