------------------------------ MODULE ChainTree ------------------------------
(***************************************************************************)
(* The class Chain of src/src/Consensus/Chain.hpp and Chain.cpp: the tree  *)
(* of block headers in which a node counts the block proposals of the      *)
(* validators on its UNL.  This module holds the values and the methods;   *)
(* a chain is a record                                                     *)
(*                                                                         *)
(*   ch          : id -> node, the std::map that owns the nodes            *)
(*   validBlock  : the last valid block, a COPY of a node of ch            *)
(*   validations : issuer -> pointer to the node it proposed last          *)
(*                                                                         *)
(* Abstractions.                                                           *)
(* - A block id is the SHA-512 of a header, and a header commits to its    *)
(*   predecessor, to its transactions and, once they are executed, to the  *)
(*   account database.  Without collisions the id therefore IS the path    *)
(*   from the genesis block, the sequence of those commitments; the        *)
(*   sequence number of an honest block is the length of that path         *)
(*   (Consensus::closeBlock).  The id under which a block is proposed has  *)
(*   a null account hash (Chain.hpp, comment of BlockNode::id).            *)
(* - A pointer to a node is the key of that node in ch.  Dangling is the   *)
(*   address of ch.end()->second, which lies inside of the object itself:  *)
(*   with GCC's library the tipSupport found there is the colour of the    *)
(*   header of validations, that no operation used here reads, and the id  *)
(*   found there is no block's.  A write through it changes no node.       *)
(* - std::uint32_t is counted modulo UintModulus.                          *)
(***************************************************************************)
EXTENDS Integers, Sequences, FiniteSetsExt

CONSTANTS
    TxSet,          \* roots of the Merkle trees of transaction sets
    AccHash,        \* roots of the Merkle trees of account balances
    NullHash,       \* the root a proposed, not yet executed, block carries
    Validator,      \* the nodes: the UNL of each holds all the others, and
                    \* Connection::filterMessage drops other proposals
    UintModulus,    \* 2^32
    NoBlock,        \* nullptr, or an id that is not set
    Dangling        \* &ch.end()->second

Entry == [tx : TxSet, acc : AccHash \union {NullHash}]

BlockId == Seq(Entry)

Genesis == <<>>

UNLcount == Cardinality(Validator) - 1

ASSUME NullHashAssumption == NullHash \notin AccHash

ASSUME ValidatorAssumption == IsFiniteSet(Validator) /\ Validator # {}

ASSUME UintAssumption == UintModulus \in Nat /\ UintModulus > 1

ASSUME PointerAssumption == NoBlock \notin BlockId /\ Dangling \notin BlockId

(***************************************************************************)
(* Ids: the header's previousBlockHash, its sequence, the id a proposal    *)
(* gives it, and the id it has once its account hash is known.             *)
(***************************************************************************)
Prev(b) == SubSeq(b, 1, Len(b) - 1)

Sequence(b) == Len(b)

Proposed(prev, tx) == Append(prev, [tx |-> tx, acc |-> NullHash])

Executed(b, acc) == Append(Prev(b), [tx |-> b[Len(b)].tx, acc |-> acc])

(***************************************************************************)
(* Nodes, and the chain of a new node.                                     *)
(***************************************************************************)
Uint(n) == n % UintModulus

NodeType == [parent : BlockId \union {NoBlock},
             validChild : BlockId \union {NoBlock},
             childs : Seq(BlockId),
             tipSupport : 0 .. UintModulus - 1]

NewNode(parent, support) ==
    [parent |-> parent, validChild |-> NoBlock, childs |-> <<>>,
     tipSupport |-> support]

GenesisNode == NewNode(NoBlock, 0)

NewChain ==
    [ch |-> [b \in {Genesis} |-> GenesisNode],
     validBlock |-> [id |-> Genesis, node |-> GenesisNode],
     validations |-> [p \in {} |-> Dangling]]

IsChain(c) ==
    /\ c = [ch |-> c.ch, validBlock |-> c.validBlock, validations |-> c.validations]
    /\ DOMAIN c.ch \subseteq BlockId
    /\ c.ch \in [DOMAIN c.ch -> NodeType]
    /\ c.validBlock \in [id : BlockId, node : NodeType]
    /\ DOMAIN c.validations \subseteq Validator
    /\ c.validations \in [DOMAIN c.validations -> BlockId \union {Dangling}]

\* std::map: the map f with the value of key k set to v.
Put(f, k, v) == [x \in DOMAIN f \union {k} |-> IF x = k THEN v ELSE f[x]]

(***************************************************************************)
(* Chain::insert.  A new proposal of a peer first takes its support from   *)
(* the node it proposed last, whether or not the new block is then found   *)
(* a place in the tree; the issuer of a block that is new to the tree is   *)
(* remembered with the end iterator of the failed search.                  *)
(***************************************************************************)
AddSupport(ch, b, n) == [ch EXCEPT ![b].tipSupport = Uint(@ + n)]

WithdrawSupport(c, issuer) ==
    IF issuer \in DOMAIN c.validations /\ c.validations[issuer] \in DOMAIN c.ch
    THEN AddSupport(c.ch, c.validations[issuer], -1)
    ELSE c.ch

\* Mutant of Attach: the parent does not list the new block.
AttachUnlisted(ch, b, support) == Put(ch, b, NewNode(Prev(b), support))

Attach(ch, b, support) ==
    Put([ch EXCEPT ![Prev(b)].childs = Append(@, b)], b, NewNode(Prev(b), support))

insert(c, issuer, b, isLocal) ==
    LET ch == IF isLocal THEN c.ch ELSE WithdrawSupport(c, issuer)
        support == IF isLocal THEN 0 ELSE 1
        Result(nodes, votes) ==
            [ch |-> nodes, validBlock |-> c.validBlock, validations |-> votes]
    IN  IF b \in DOMAIN ch
        THEN Result(AddSupport(ch, b, support), Put(c.validations, issuer, b))
        ELSE IF Prev(b) \in DOMAIN ch
        THEN Result(Attach(ch, b, support), Put(c.validations, issuer, Dangling))
        ELSE Result(ch, c.validations)

(***************************************************************************)
(* Chain::checkQuorum, Chain::updateValidBlock (its result is HasQuorum,   *)
(* its effect SetValidBlock) and Chain::assignAccountHashToValidBlock.     *)
(***************************************************************************)
\* Mutant of checkQuorum: this node counts itself as one of its UNL.
quorumWithOwnVote(c, b) ==
    /\ 10 * (c.ch[b].tipSupport + 1) > 8 * UNLcount
    /\ Sequence(b) > Sequence(c.validBlock.id)

checkQuorum(c, b) ==
    /\ 10 * c.ch[b].tipSupport > 8 * UNLcount
    /\ Sequence(b) > Sequence(c.validBlock.id)

HasQuorum(c, b) == b \in DOMAIN c.ch /\ checkQuorum(c, b)

SetValidBlock(c, b) ==
    [c EXCEPT !.validBlock = [id |-> b, node |-> c.ch[b]]]

\* Mutants of assignAccountHashToValidBlock: the valid block keeps the id it was
\* proposed under; the parent's validChild is not set; the votes stay on the
\* first entry.
assignNothing(c, acc) == c

assignWithoutLink(c, acc) ==
    LET old == c.validBlock.id
        new == Executed(old, acc)
    IN  [ch |-> Put(c.ch, new, c.validBlock.node),
         validBlock |-> [c.validBlock EXCEPT !.id = new],
         validations |-> c.validations]

assignWithoutVotes(c, acc) ==
    LET old == c.validBlock.id
        new == Executed(old, acc)
    IN  [ch |-> Put([c.ch EXCEPT ![c.ch[old].parent].validChild = new],
                    new, c.validBlock.node),
         validBlock |-> [c.validBlock EXCEPT !.id = new],
         validations |-> c.validations]

assignAccountHashToValidBlock(c, acc) ==
    LET old == c.validBlock.id
        new == Executed(old, acc)
    IN  IF new \in DOMAIN c.ch
        THEN [c EXCEPT !.validBlock.id = new]
        ELSE [ch |-> Put([c.ch EXCEPT ![c.ch[old].parent].validChild = new],
                         new, c.validBlock.node),
              validBlock |-> [c.validBlock EXCEPT !.id = new],
              validations |-> [p \in DOMAIN c.validations |->
                                 IF c.validations[p] = old
                                 THEN new ELSE c.validations[p]]]

(***************************************************************************)
(* Chain::getPreferredBlock.  getSupport adds the support of the direct    *)
(* children only.  The loop keeps the FIRST child of greatest support, and *)
(* the second best is the greatest support among the children before it.   *)
(***************************************************************************)
getSupport(c, b) ==
    Uint(c.ch[b].tipSupport
         + MapThenSumSet(LAMBDA i : c.ch[c.ch[b].childs[i]].tipSupport,
                         DOMAIN c.ch[b].childs))

getUncommitted(c, b) ==
    Uint(UNLcount
         - Cardinality({p \in DOMAIN c.validations :
                          /\ c.validations[p] # Dangling
                          /\ Sequence(c.validations[p]) >= Sequence(b)}))

BestIndex(c, childs) ==
    Min({i \in DOMAIN childs : \A j \in DOMAIN childs :
           getSupport(c, childs[i]) >= getSupport(c, childs[j])})

SecondBestSupport(c, childs) ==
    Max({0} \union {getSupport(c, childs[i]) : i \in 1 .. BestIndex(c, childs) - 1})

Decided(c, childs) ==
    /\ childs # <<>>
    /\ LET best == childs[BestIndex(c, childs)]
           uncommitted == getUncommitted(c, best)
       IN  /\ uncommitted < getSupport(c, best)
           /\ Uint(SecondBestSupport(c, childs) + uncommitted) < getSupport(c, best)

\* Mutant of getPreferredBlock: it starts at the node in the tree, not its copy.
getPreferredChild(c) ==
    LET childs == c.ch[c.validBlock.id].childs
    IN  IF Decided(c, childs) THEN childs[BestIndex(c, childs)] ELSE c.validBlock.id

getPreferredBlock(c) ==
    LET From[b \in DOMAIN c.ch] ==
            IF Decided(c, c.ch[b].childs)
            THEN From[c.ch[b].childs[BestIndex(c, c.ch[b].childs)]]
            ELSE b
        childs == c.validBlock.node.childs
    IN  IF Decided(c, childs)
        THEN From[childs[BestIndex(c, childs)]]
        ELSE c.validBlock.id

-----------------------------------------------------------------------------
(***************************************************************************)
(* What holds of the chain of a node that uses it as Consensus does.       *)
(***************************************************************************)
IsExecuted(b) == b = Genesis \/ b[Len(b)].acc # NullHash

\* One tree rooted in the genesis block: a node's parent pointer is the node
\* its header names, and the parent lists it as a child unless it is the
\* second, executed, entry of a block (assignAccountHashToValidBlock adds no
\* child to the parent).
WellFormed(c) ==
    /\ Genesis \in DOMAIN c.ch
    /\ \A b \in DOMAIN c.ch \ {Genesis} :
         /\ Prev(b) \in DOMAIN c.ch
         /\ c.ch[b].parent = Prev(b)
         /\ \/ IsExecuted(b)
            \/ \E i \in DOMAIN c.ch[Prev(b)].childs : c.ch[Prev(b)].childs[i] = b
    /\ \A b \in DOMAIN c.ch : \A i \in DOMAIN c.ch[b].childs :
         c.ch[b].childs[i] \in DOMAIN c.ch

\* The valid block is reached from the genesis block over validChild.
Linked(c) ==
    \A n \in 1 .. Len(c.validBlock.id) :
        LET b == SubSeq(c.validBlock.id, 1, n)
        IN  /\ b \in DOMAIN c.ch
            /\ IsExecuted(b)
            /\ c.ch[Prev(b)].validChild = b

\* No vote points at the first entry of a block that has an executed one.
VotesMoved(c) ==
    \A p \in DOMAIN c.validations :
        LET b == c.validations[p]
        IN  b \in DOMAIN c.ch /\ ~ IsExecuted(b) =>
              \A acc \in AccHash : Executed(b, acc) \notin DOMAIN c.ch

\* The tree is at most one block higher than the valid block, its executed
\* blocks are not, and the copy of the valid block has no children.
Bounded(c) ==
    /\ \A b \in DOMAIN c.ch :
         /\ Len(b) <= Len(c.validBlock.id) + 1
         /\ IsExecuted(b) => Len(b) <= Len(c.validBlock.id)
         /\ \A i \in DOMAIN c.ch[b].childs : Len(c.ch[b].childs[i]) = Len(b) + 1
    /\ c.validBlock.node.childs = <<>>

ChainInv(c) == IsChain(c) /\ WellFormed(c) /\ Linked(c) /\ VotesMoved(c) /\ Bounded(c)
==============================================================================
