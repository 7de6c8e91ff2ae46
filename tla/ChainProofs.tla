----------------------------- MODULE ChainProofs -----------------------------
(***************************************************************************)
(* Theorems about modules Chain and ChainVotes, for every set of           *)
(* validators, every set of transaction sets and account states, every     *)
(* bound on the sequence and every width of the counters.                  *)
(***************************************************************************)
EXTENDS ChainVotes, ChainTreeProofs

-----------------------------------------------------------------------------
LEMMA InitIInv == Init => IInv
<1> SUFFICES ASSUME Init PROVE IInv
  OBVIOUS
<1>1. Genesis \in BlockId
  BY DEF BlockId, Genesis
<1>2. ChainInv(chain)
  BY NewChainInv DEF Init
<1>3. CurrBlockIsNextOrOld
  BY DEF Init, CurrBlockIsNextOrOld, EmptyBlock
<1>4. TypeOK
  BY <1>1, <1>2 DEF Init, TypeOK, EmptyBlock, ChainInv
<1> QED
  BY <1>2, <1>3, <1>4 DEF IInv

-----------------------------------------------------------------------------
(***************************************************************************)
(* Executing the block currBlockId after an insertion.                     *)
(***************************************************************************)
LEMMA ExecuteStep ==
    ASSUME NEW c, ChainInv(c), NEW id \in BlockId, id # Genesis, ~ IsExecuted(id),
           \/ Len(id) <= Len(c.validBlock.id)
           \/ Prev(id) = c.validBlock.id,
           NEW block \in {NoBlock, id}, NEW acc \in AccHash,
           HasQuorum(c, id), Execute(c, id, block, acc)
    PROVE  /\ ChainInv(chain')
           /\ \E e \in [tx : TxSet, acc : AccHash] :
                chain'.validBlock.id = Append(c.validBlock.id, e)
           /\ Len(chain'.validBlock.id) = Len(id)
           /\ currBlock' = EmptyBlock(0)
           /\ lastExecuted' \in BlockId \union {NoBlock}
<1>1. chain' = assignAccountHashToValidBlock(SetValidBlock(c, id), acc)
  BY DEF Execute
<1>2. /\ ChainInv(chain') /\ chain'.validBlock.id = Executed(id, acc)
      /\ Prev(id) = c.validBlock.id
  BY <1>1, BecomesValid
<1>3. /\ Len(Executed(id, acc)) = Len(id)
      /\ Executed(id, acc) \in BlockId
      /\ \E e \in [tx : TxSet, acc : AccHash] : Executed(id, acc) = Append(Prev(id), e)
  BY ExecutedLemma
<1>4. lastExecuted' \in BlockId \union {NoBlock}
  BY <1>3 DEF Execute
<1> QED
  BY <1>2, <1>3, <1>4 DEF Execute

\* What one step does to the validated blocks: nothing, or it adds one.
ValidBlockStep ==
    \/ chain'.validBlock.id = chain.validBlock.id
    \/ \E e \in [tx : TxSet, acc : AccHash] :
         chain'.validBlock.id = Append(chain.validBlock.id, e)

LEMMA CloseBlockStep ==
    ASSUME IInv, CloseBlock
    PROVE  IInv' /\ ValidBlockStep
<1>1. chain' = chain /\ currBlockId' = currBlockId /\ lastExecuted' = lastExecuted
  BY DEF CloseBlock
<1>2. getPreferredBlock(chain) = chain.validBlock.id
  BY PreferredLemma DEF IInv, ChainInv, Bounded
<1>3. currBlock' = [sequence |-> Len(chain.validBlock.id) + 1, id |-> NoBlock]
  BY <1>2 DEF CloseBlock, EmptyBlock, Sequence
<1>4. Len(chain.validBlock.id) \in Nat
  BY DEF IInv, TypeOK, IsChain, BlockId
<1>5. TypeOK'
  BY <1>1, <1>3, <1>4 DEF IInv, TypeOK
<1>6. CurrBlockIsNextOrOld'
  BY <1>1, <1>3 DEF IInv, CurrBlockIsNextOrOld
<1> QED
  BY <1>1, <1>5, <1>6 DEF IInv, ValidBlockStep

LEMMA OnAcceptStep ==
    ASSUME IInv, NEW tx \in TxSet, NEW acc \in AccHash, OnAccept(tx, acc)
    PROVE  IInv' /\ ValidBlockStep
<1> DEFINE valid == chain.validBlock.id
           b == Proposed(getPreferredBlock(chain), tx)
           inserted == insert(chain, Self, b, TRUE)
<1>1. /\ getPreferredBlock(chain) = valid
      /\ valid \in BlockId /\ Len(valid) \in Nat
  BY PreferredLemma DEF IInv, ChainInv, Bounded, IsChain, BlockId
<1>2. /\ b \in BlockId /\ b # Genesis /\ ~ IsExecuted(b)
      /\ Len(b) = Len(valid) + 1 /\ Prev(b) = valid
  BY <1>1, ProposedLemma
<1> HIDE DEF b
<1>3. ChainInv(inserted) /\ inserted.validBlock = chain.validBlock
  BY <1>2, SelfAssumption, InsertInv DEF IInv
<1>4. currBlockId' = b
  BY DEF OnAccept, b
<1> HIDE DEF inserted
<1>5. CASE HasQuorum(inserted, b)
  <2>1. Execute(inserted, b, b, acc)
    BY <1>5 DEF OnAccept, b, inserted
  <2>2. /\ ChainInv(chain')
        /\ \E e \in [tx : TxSet, acc : AccHash] : chain'.validBlock.id = Append(valid, e)
        /\ Len(chain'.validBlock.id) = Len(b)
        /\ currBlock' = EmptyBlock(0)
        /\ lastExecuted' \in BlockId \union {NoBlock}
    BY <1>2, <1>3, <1>5, <2>1, ExecuteStep
  <2>3. TypeOK'
    BY <1>2, <1>4, <2>2 DEF TypeOK, ChainInv, EmptyBlock
  <2>4. CurrBlockIsNextOrOld'
    BY <1>1, <1>2, <1>4, <2>2 DEF CurrBlockIsNextOrOld, EmptyBlock
  <2> QED
    BY <2>2, <2>3, <2>4 DEF IInv, ValidBlockStep
<1>6. CASE ~ HasQuorum(inserted, b)
  <2>1. /\ chain' = inserted
        /\ currBlock' = [sequence |-> Len(b), id |-> b]
        /\ lastExecuted' = lastExecuted
    BY <1>6 DEF OnAccept, b, inserted, Sequence
  <2>2. TypeOK'
    BY <1>1, <1>2, <1>3, <1>4, <2>1 DEF IInv, TypeOK, ChainInv
  <2>3. CurrBlockIsNextOrOld'
    BY <1>2, <1>3, <1>4, <2>1 DEF CurrBlockIsNextOrOld
  <2> QED
    BY <1>3, <2>1, <2>2, <2>3 DEF IInv, ValidBlockStep
<1> QED
  BY <1>5, <1>6

\* A path of executed blocks is a block id.
LEMMA PeerPath ==
    ASSUME NEW n \in Nat, NEW prev \in ValidPath(n - 1)
    PROVE  prev \in BlockId
<1>1. \A i \in 1 .. n - 1 : prev[i] \in Entry
  BY DEF ValidPath, Entry
<1>2. CASE n = 0
  BY <1>2 DEF ValidPath, BlockId
<1>3. CASE n > 0
  BY <1>1, <1>3 DEF ValidPath, BlockId
<1> QED
  BY <1>2, <1>3

LEMMA PeerProposalStep ==
    ASSUME IInv, NEW p \in Peer, NEW tx \in TxSet, NEW acc \in AccHash,
           NEW prev \in ValidPath(currBlock.sequence - 1),
           PeerProposal(p, Proposed(prev, tx), acc)
    PROVE  IInv' /\ ValidBlockStep
<1> DEFINE valid == chain.validBlock.id
           b == Proposed(prev, tx)
           inserted == insert(chain, p, b, FALSE)
<1>1. valid \in BlockId /\ Len(valid) \in Nat /\ currBlock.sequence \in Nat
  BY DEF IInv, TypeOK, IsChain, BlockId
<1>2. prev \in BlockId
  BY <1>1, PeerPath
<1>3. b \in BlockId /\ b # Genesis /\ ~ IsExecuted(b)
  BY <1>2, ProposedLemma
<1> HIDE DEF b
<1>4. Len(b) = Len(valid) + 1
  <2>1. Len(b) = currBlock.sequence /\ Len(b) \in Nat /\ Len(b) > 0
    BY <1>3, PrevLemma DEF PeerProposal, Sequence, b
  <2> QED
    BY <2>1 DEF IInv, CurrBlockIsNextOrOld
<1>5. ChainInv(inserted) /\ inserted.validBlock = chain.validBlock
  BY <1>3, <1>4, InsertInv DEF IInv, Peer
<1>6. currBlockId' = currBlockId
  BY DEF PeerProposal
<1> HIDE DEF inserted
<1>7. CASE HasQuorum(inserted, currBlockId)
  <2>1. Execute(inserted, currBlockId, currBlock.id, acc)
    BY <1>7 DEF PeerProposal, b, inserted
  <2>2. currBlockId # NoBlock /\ currBlockId \in BlockId
    BY <1>5, <1>7, PointerAssumption DEF HasQuorum, ChainInv, IsChain
  <2>3. /\ currBlockId # Genesis /\ ~ IsExecuted(currBlockId)
        /\ Len(currBlockId) <= Len(valid) \/ Prev(currBlockId) = valid
        /\ currBlock.id \in {NoBlock, currBlockId}
    BY <2>2 DEF IInv, CurrBlockIsNextOrOld
  <2>4. /\ ChainInv(chain')
        /\ \E e \in [tx : TxSet, acc : AccHash] : chain'.validBlock.id = Append(valid, e)
        /\ Len(chain'.validBlock.id) = Len(currBlockId)
        /\ currBlock' = EmptyBlock(0)
        /\ lastExecuted' \in BlockId \union {NoBlock}
    BY <1>5, <1>7, <2>1, <2>2, <2>3, ExecuteStep
  <2>5. TypeOK'
    BY <1>6, <2>2, <2>4 DEF TypeOK, ChainInv, EmptyBlock
  <2>6. Len(currBlockId) \in Nat
    BY <2>2 DEF BlockId
  <2>7. CurrBlockIsNextOrOld'
    BY <1>6, <2>3, <2>4, <2>6 DEF CurrBlockIsNextOrOld, EmptyBlock
  <2> QED
    BY <2>4, <2>5, <2>7 DEF IInv, ValidBlockStep
<1>8. CASE ~ HasQuorum(inserted, currBlockId)
  <2>1. chain' = inserted /\ currBlock' = currBlock /\ lastExecuted' = lastExecuted
    BY <1>8 DEF PeerProposal, b, inserted
  <2>2. TypeOK'
    BY <1>5, <1>6, <2>1 DEF IInv, TypeOK, ChainInv
  <2>3. CurrBlockIsNextOrOld'
    BY <1>5, <1>6, <2>1 DEF IInv, CurrBlockIsNextOrOld
  <2> QED
    BY <1>5, <2>1, <2>2, <2>3 DEF IInv, ValidBlockStep
<1> QED
  BY <1>7, <1>8

LEMMA NextStep == IInv /\ [Next]_vars => IInv' /\ ValidBlockStep
<1> SUFFICES ASSUME IInv, [Next]_vars PROVE IInv' /\ ValidBlockStep
  OBVIOUS
<1>1. CASE CloseBlock
  BY <1>1, CloseBlockStep
<1>2. CASE \E tx \in TxSet, acc \in AccHash : OnAccept(tx, acc)
  BY <1>2, OnAcceptStep
<1>3. CASE \E p \in Peer, tx \in TxSet, acc \in AccHash,
              prev \in ValidPath(currBlock.sequence - 1) :
                PeerProposal(p, Proposed(prev, tx), acc)
  BY <1>3, PeerProposalStep
<1>4. CASE UNCHANGED vars
  BY <1>4 DEF vars, IInv, TypeOK, CurrBlockIsNextOrOld, ValidBlockStep
<1> QED
  BY <1>1, <1>2, <1>3, <1>4 DEF Next

-----------------------------------------------------------------------------
(***************************************************************************)
(* The theorems.                                                           *)
(***************************************************************************)
\* The state of a node's chain and of its consensus' working block is always
\* well-typed: no call leaves a node, a pointer or a counter out of range.
THEOREM TypeCorrect == Spec => []TypeOK
<1>1. IInv => TypeOK
  BY DEF IInv
<1> QED
  BY InitIInv, NextStep, <1>1, PTL DEF Spec

\* The inductive invariant holds in every reachable state.
THEOREM Invariance == Spec => []IInv
BY InitIInv, NextStep, PTL DEF Spec

\* Entering a block again under its executed id leaves one rooted tree.
THEOREM TreeStaysWellFormed == Spec => []TreeIsWellFormed
<1>1. IInv => TreeIsWellFormed
  BY DEF IInv, ChainInv, TreeIsWellFormed
<1> QED
  BY Invariance, <1>1, PTL

\* The validated chain can be walked from the genesis block, as
\* putChainDataToStringStream does.
THEOREM ValidChainStaysLinked == Spec => []ValidChainIsLinked
<1>1. IInv => ValidChainIsLinked
  BY DEF IInv, ChainInv, ValidChainIsLinked
<1> QED
  BY Invariance, <1>1, PTL

\* getPreferredBlock returns the valid block, whatever the peers propose.
THEOREM PreferredBlockStays == Spec => []PreferredBlockIsValidBlock
<1>1. IInv => PreferredBlockIsValidBlock
  BY PreferredLemma DEF IInv, ChainInv, Bounded, PreferredBlockIsValidBlock
<1> QED
  BY Invariance, <1>1, PTL

\* No validator's vote is left on the superseded entry of a block.
THEOREM VotesStayMoved == Spec => []VotesFollowExecutedBlock
<1>1. IInv => VotesFollowExecutedBlock
  BY DEF IInv, ChainInv, VotesFollowExecutedBlock
<1> QED
  BY Invariance, <1>1, PTL

\* The tree implements a chain that is extended by one validated block at a
\* time and never rewritten, on every order of local and peer proposals.
THEOREM Refinement == Spec => ImplementsValidatedChain
<1>1. Init => Abstract!Init
  BY DEF Init, NewChain, Genesis, Abstract!Init
<1>2. IInv /\ [Next]_vars => [Abstract!Next]_(chain.validBlock.id)
  BY NextStep DEF ValidBlockStep, Abstract!Next, Abstract!Validate
<1> QED
  BY <1>1, <1>2, Invariance, PTL DEF Spec, ImplementsValidatedChain, Abstract!Spec

-----------------------------------------------------------------------------
(***************************************************************************)
(* The quorum and the validators that proposed (module ChainVotes).        *)
(***************************************************************************)
\* The blocks a peer has proposed: after a second proposal for a sequence, any
\* of that sequence may be among them.
Cast == [p \in Peer |->
           {x \in BlockId : /\ Len(x) \in 1 .. MaxSequence
                            /\ proposals[p][Len(x)] \in {x, Several}}]

VotedTwice == LET next == Len(chain.validBlock.id) + 1
              IN  next <= MaxSequence /\ Repeated(next)

\* The block b of sequence n has its quorum of different validators.
BackedBlock(props, n, b) ==
    \/ \E p \in Peer : props[p][n] = Several
    \/ 10 * Cardinality({p \in Peer : props[p][n] = b}) > 8 * UNLcount

\* So have all the blocks of the path v.
Backed(v, props) ==
    \A n \in 1 .. Len(v) :
        BackedBlock(props, n, Proposed(Prev(SubSeq(v, 1, n)), SubSeq(v, 1, n)[n].tx))

ProposalType == [Peer -> [1 .. MaxSequence -> BlockId \union {NoBlock, Several}]]

VotesIInv ==
    /\ IInv
    /\ proposals \in ProposalType
    /\ currBlock.sequence <= MaxSequence
    /\ VotesCounted(chain, Peer, Cast, VotedTwice)
    /\ Backed(chain.validBlock.id, proposals)

LEMMA BackedIsQuorum ==
    ASSUME IInv
    PROVE  Backed(chain.validBlock.id, proposals) <=> QuorumIsOfDifferentValidators
<1> DEFINE v == chain.validBlock.id
<1>1. \A n \in 1 .. Len(v) : SubSeq(v, 1, n)[n] = v[n] /\ Len(SubSeq(v, 1, n)) = n
  BY DEF IInv, TypeOK, IsChain, BlockId
<1> QED
  BY DEF Backed, BackedBlock, QuorumIsOfDifferentValidators, Repeated

\* A block is executed on its quorum; props are the proposals up to then.
LEMMA BackedGrows ==
    ASSUME NEW v, NEW props, NEW new, NEW more, Backed(v, props),
           NEW id \in BlockId, id # Genesis, ~ IsExecuted(id), v = Prev(id),
           NEW acc \in AccHash, new = Executed(id, acc),
           \A p \in Peer : \A n \in 1 .. Len(v) : more[p][n] = props[p][n],
           BackedBlock(more, Len(id), id)
    PROVE  Backed(new, more)
<1>1. /\ Len(v) \in Nat /\ Len(new) = Len(v) + 1 /\ Len(id) = Len(v) + 1
      /\ \A i \in 1 .. Len(v) : SubSeq(new, 1, i) = SubSeq(v, 1, i)
      /\ SubSeq(new, 1, Len(new)) = new
      /\ Proposed(Prev(new), new[Len(new)].tx) = id
  BY PathLemma
<1> DEFINE Block(w, n) == Proposed(Prev(SubSeq(w, 1, n)), SubSeq(w, 1, n)[n].tx)
<1>2. ASSUME NEW n \in 1 .. Len(v) PROVE BackedBlock(more, n, Block(new, n))
  <2>1. Block(new, n) = Block(v, n)
    BY <1>1
  <2>2. BackedBlock(props, n, Block(v, n))
    BY DEF Backed
  <2> HIDE DEF Block
  <2>3. {p \in Peer : more[p][n] = Block(v, n)} = {p \in Peer : props[p][n] = Block(v, n)}
    OBVIOUS
  <2>4. BackedBlock(more, n, Block(v, n))
    BY <2>2, <2>3 DEF BackedBlock
  <2> QED
    BY <2>1, <2>4
<1>3. BackedBlock(more, Len(new), Block(new, Len(new)))
  <2>1. Block(new, Len(new)) = id /\ Len(new) = Len(id)
    BY <1>1
  <2> HIDE DEF Block
  <2> QED
    BY <2>1
<1>4. \A n \in 1 .. Len(new) : n \in 1 .. Len(v) \/ n = Len(new)
  BY <1>1
<1> QED
  BY <1>2, <1>3, <1>4 DEF Backed

LEMMA PeersFacts ==
    /\ Peer \in SUBSET Validator /\ IsFiniteSet(Peer) /\ Self \notin Peer
BY ValidatorAssumption, FS_Subset DEF Peer

\* The block currBlockId, with its quorum among the votes, becomes valid.
LEMMA ExecuteVotes ==
    ASSUME NEW c, ChainInv(c), NEW id \in BlockId, id # Genesis, ~ IsExecuted(id),
           \/ Len(id) <= Len(c.validBlock.id)
           \/ Prev(id) = c.validBlock.id,
           HasQuorum(c, id), NEW block, NEW acc \in AccHash, Execute(c, id, block, acc),
           NEW votes, NEW again \in BOOLEAN, VotesCounted(c, Peer, votes, again),
           NEW props, Backed(c.validBlock.id, props), NEW more,
           \A p \in Peer : \A n \in 1 .. Len(c.validBlock.id) : more[p][n] = props[p][n],
           again => \E p \in Peer : more[p][Len(id)] = Several,
           \A p \in Peer : id \in votes[p] => more[p][Len(id)] \in {id, Several}
    PROVE  /\ Backed(chain'.validBlock.id, more)
           /\ \A u, a : VotesCounted(chain', Peer, u, a)
<1>1. chain' = assignAccountHashToValidBlock(SetValidBlock(c, id), acc)
  BY DEF Execute
<1>2. chain'.validBlock.id = Executed(id, acc) /\ Prev(id) = c.validBlock.id
  BY <1>1, BecomesValid
<1>3. Len(id) = Len(c.validBlock.id) + 1 /\ id \in DOMAIN c.ch
  BY <1>2, PrevLemma DEF HasQuorum
<1>4. again \/ 10 * Cardinality(Voters(Peer, votes, id)) > 8 * UNLcount
  BY <1>3, PeersFacts, QuorumVotes
<1>5. BackedBlock(more, Len(id), id)
  <2> SUFFICES ASSUME ~ \E p \in Peer : more[p][Len(id)] = Several
               PROVE  10 * Cardinality({p \in Peer : more[p][Len(id)] = id}) > 8 * UNLcount
    BY DEF BackedBlock
  <2> DEFINE backers == {p \in Peer : more[p][Len(id)] = id}
  <2>1. Voters(Peer, votes, id) \subseteq backers
    BY DEF Voters
  <2>2. IsFiniteSet(backers)
    <3>1. backers \subseteq Peer
      OBVIOUS
    <3> QED
      BY ONLY <3>1, PeersFacts, FS_Subset
  <2> HIDE DEF backers
  <2>3. /\ Cardinality(Voters(Peer, votes, id)) <= Cardinality(backers)
        /\ Cardinality(Voters(Peer, votes, id)) \in Nat /\ Cardinality(backers) \in Nat
    BY <2>1, <2>2, FS_Subset, FS_CardinalityType
  <2>4. 10 * Cardinality(Voters(Peer, votes, id)) > 8 * UNLcount
    BY <1>4
  <2>5. UNLcount \in Int
    BY ValidatorAssumption, FS_CardinalityType DEF UNLcount
  <2>6. 10 * Cardinality(backers) > 8 * UNLcount
    BY <2>3, <2>4, <2>5
  <2> QED
    BY <2>6 DEF backers
<1>6. Backed(Executed(id, acc), more)
  BY <1>2, <1>5, BackedGrows
<1>7. \A u, a : VotesCounted(assignAccountHashToValidBlock(SetValidBlock(c, id), acc), Peer, u, a)
  BY <1>3, ExecutedVotes
<1> QED
  BY <1>1, <1>2, <1>6, <1>7, Zenon

LEMMA VotesInitInv == VotesInit => VotesIInv
<1> SUFFICES ASSUME VotesInit PROVE VotesIInv
  OBVIOUS
<1>1. IInv
  BY InitIInv DEF VotesInit
<1>2. chain = NewChain /\ currBlock = EmptyBlock(0)
  BY DEF VotesInit, Init
<1>3. VotesCounted(chain, Peer, Cast, VotedTwice)
  BY <1>2, NewVotes
<1>4. Backed(chain.validBlock.id, proposals)
  BY <1>2 DEF Backed, NewChain, Genesis
<1>5. proposals \in ProposalType
  BY DEF VotesInit, ProposalType
<1>6. currBlock.sequence <= MaxSequence
  BY <1>2, MaxSequenceAssumption DEF EmptyBlock
<1> QED
  BY <1>1, <1>3, <1>4, <1>5, <1>6 DEF VotesIInv

\* Every valid block has a length, and a block that is asked about can be one.
LEMMA AskedAbout ==
    ASSUME IInv, NEW c, HasQuorum(c, currBlockId), ChainInv(c), c.validBlock = chain.validBlock
    PROVE  /\ currBlockId \in BlockId /\ currBlockId # Genesis /\ ~ IsExecuted(currBlockId)
           /\ \/ Len(currBlockId) <= Len(c.validBlock.id)
              \/ Prev(currBlockId) = c.validBlock.id
BY PointerAssumption DEF IInv, TypeOK, CurrBlockIsNextOrOld, HasQuorum, ChainInv, IsChain

\* What the votes say of a block of the sequence that is voted on.
LEMMA CastLemma ==
    ASSUME VotesIInv, NEW b \in BlockId, Len(b) = Len(chain.validBlock.id) + 1,
           Len(b) <= MaxSequence
    PROVE  /\ Len(b) \in 1 .. MaxSequence
           /\ VotedTwice => \E p \in Peer : proposals[p][Len(b)] = Several
           /\ \A p \in Peer : b \in Cast[p] <=> proposals[p][Len(b)] \in {b, Several}
<1>1. Len(chain.validBlock.id) \in Nat /\ Len(b) \in Nat
  BY DEF VotesIInv, IInv, TypeOK, IsChain, BlockId
<1> QED
  BY <1>1, MaxSequenceAssumption DEF VotedTwice, Repeated, Cast

LEMMA CloseBlockVotes ==
    ASSUME VotesIInv, CloseBlock, UNCHANGED proposals
    PROVE  VotesIInv'
<1>1. IInv'
  BY CloseBlockStep DEF VotesIInv
<1>2. chain' = chain /\ proposals' = proposals
  BY DEF CloseBlock
<1>3. currBlock'.sequence <= MaxSequence
  <2>1. getPreferredBlock(chain) = chain.validBlock.id
    BY PreferredLemma DEF VotesIInv, IInv, ChainInv, Bounded
  <2>2. Len(chain.validBlock.id) \in Nat
    BY DEF VotesIInv, IInv, TypeOK, IsChain, BlockId
  <2> QED
    BY <2>1, <2>2, MaxSequenceAssumption DEF CloseBlock, EmptyBlock, Sequence
<1>4. Cast' = Cast /\ (VotedTwice' <=> VotedTwice)
  BY <1>2 DEF Cast, VotedTwice, Repeated
<1>5. VotesCounted(chain', Peer, Cast', VotedTwice')
  BY <1>2, <1>4 DEF VotesIInv, VotedTwice, Repeated
<1> QED
  BY <1>1, <1>2, <1>3, <1>5 DEF VotesIInv

LEMMA OnAcceptVotes ==
    ASSUME VotesIInv, NEW tx \in TxSet, NEW acc \in AccHash, OnAccept(tx, acc),
           UNCHANGED proposals
    PROVE  VotesIInv'
<1> DEFINE valid == chain.validBlock.id
           b == Proposed(getPreferredBlock(chain), tx)
           inserted == insert(chain, Self, b, TRUE)
<1>1. IInv /\ IInv' /\ ChainInv(chain)
  BY OnAcceptStep DEF VotesIInv, IInv
<1>2. /\ getPreferredBlock(chain) = valid
      /\ valid \in BlockId /\ Len(valid) \in Nat
  BY <1>1, PreferredLemma DEF ChainInv, Bounded, IsChain, BlockId
<1>3. /\ b \in BlockId /\ b # Genesis /\ ~ IsExecuted(b)
      /\ Len(b) = Len(valid) + 1 /\ Prev(b) = valid
  BY <1>2, ProposedLemma
<1>4. /\ IF HasQuorum(inserted, b)
         THEN Execute(inserted, b, b, acc)
         ELSE /\ chain' = inserted
              /\ currBlock' = [sequence |-> Sequence(b), id |-> b]
              /\ UNCHANGED lastExecuted
      /\ currBlock.sequence # 0
  BY Zenon DEF OnAccept
<1> HIDE DEF b
<1>5. /\ ChainInv(inserted) /\ inserted.validBlock = chain.validBlock
  BY <1>1, <1>3, SelfAssumption, InsertInv
<1>6. Len(b) <= MaxSequence
  BY <1>1, <1>3, <1>4 DEF VotesIInv, IInv, CurrBlockIsNextOrOld
<1>7. VotedTwice \in BOOLEAN /\ VotesCounted(chain, Peer, Cast, VotedTwice)
  BY DEF VotesIInv, VotedTwice, Repeated
<1> DEFINE votes == Cast
           again == VotedTwice
<1>8. VotesCounted(inserted, Peer, votes, again)
  <2> HIDE DEF votes, again
  <2>1. again \in BOOLEAN /\ VotesCounted(chain, Peer, votes, again)
    BY <1>7 DEF votes, again
  <2> QED
    BY <1>1, <1>3, <2>1, PeersFacts, SelfAssumption, LocalVotes
<1> HIDE DEF inserted
<1>9. CASE HasQuorum(inserted, b)
  <2>1. Execute(inserted, b, b, acc)
    BY <1>4, <1>9
  <2>2. /\ again => \E p \in Peer : proposals[p][Len(b)] = Several
        /\ \A p \in Peer : b \in votes[p] => proposals[p][Len(b)] \in {b, Several}
    BY <1>3, <1>6, CastLemma
  <2>3. /\ Prev(b) = inserted.validBlock.id /\ Backed(inserted.validBlock.id, proposals)
        /\ again \in BOOLEAN
    BY <1>3, <1>5, <1>7 DEF VotesIInv
  <2> HIDE DEF votes, again
  <2>4. /\ Backed(chain'.validBlock.id, proposals)
        /\ \A u, a : VotesCounted(chain', Peer, u, a)
    <3>1. \A p \in Peer : \A n \in 1 .. Len(inserted.validBlock.id) :
            proposals[p][n] = proposals[p][n]
      OBVIOUS
    <3>2. acc \in AccHash /\ b \in BlockId /\ b # Genesis /\ ~ IsExecuted(b)
      BY <1>3
    <3>3. ChainInv(inserted)
      BY <1>5
    <3> QED
      BY ONLY <1>8, <1>9, <2>1, <2>2, <2>3, <3>1, <3>2, <3>3, ExecuteVotes, ZenonT(60)
  <2>5. currBlock'.sequence <= MaxSequence
    BY <2>1, MaxSequenceAssumption DEF Execute, EmptyBlock
  <2>6. proposals' = proposals
    OBVIOUS
  <2> QED
    BY <1>1, <2>4, <2>5, <2>6 DEF VotesIInv
<1>10. CASE ~ HasQuorum(inserted, b)
  <2>1. chain' = inserted /\ currBlock' = [sequence |-> Len(b), id |-> b]
    BY <1>4, <1>10 DEF Sequence
  <2>2. chain'.validBlock = chain.validBlock /\ proposals' = proposals
    BY <1>5, <2>1
  <2>3. Cast' = votes /\ VotedTwice' = again
    BY <2>2 DEF Cast, VotedTwice, Repeated
  <2>4. VotesCounted(chain', Peer, Cast', VotedTwice')
    BY <1>8, <2>1, <2>3, Zenon
  <2>5. Backed(chain'.validBlock.id, proposals')
    BY <2>2 DEF VotesIInv
  <2>6. currBlock'.sequence <= MaxSequence
    BY <1>6, <2>1
  <2> QED
    BY <1>1, <2>2, <2>4, <2>5, <2>6 DEF VotesIInv
<1> QED
  BY <1>9, <1>10

\* The record of proposals after the proposal b of p.
Recorded(props, p, b) ==
    [props EXCEPT ![p][Len(b)] = IF props[p][Len(b)] = NoBlock THEN b ELSE Several]

\* The two records differ in the entry of p for the sequence of b.
OneMore(props, more, p, b) ==
    /\ more \in ProposalType
    /\ \A q \in Peer : \A n \in 1 .. MaxSequence :
         q # p \/ n # Len(b) => more[q][n] = props[q][n]
    /\ more[p][Len(b)] = IF props[p][Len(b)] = NoBlock THEN b ELSE Several

LEMMA RecordLemma ==
    ASSUME NEW props \in ProposalType, NEW p \in Peer, NEW b \in BlockId,
           Len(b) \in 1 .. MaxSequence
    PROVE  OneMore(props, Recorded(props, p, b), p, b)
<1> DEFINE more == Recorded(props, p, b)
           row == props[p]
           new == IF row[Len(b)] = NoBlock THEN b ELSE Several
<1>1. /\ row \in [1 .. MaxSequence -> BlockId \union {NoBlock, Several}]
      /\ new \in BlockId \union {NoBlock, Several}
  BY DEF ProposalType
<1>2. more = [props EXCEPT ![p] = [row EXCEPT ![Len(b)] = new]]
  BY DEF Recorded
<1> HIDE DEF new, more
<1>3. /\ [row EXCEPT ![Len(b)] = new] \in [1 .. MaxSequence -> BlockId \union {NoBlock, Several}]
      /\ [row EXCEPT ![Len(b)] = new][Len(b)] = new
      /\ \A n \in 1 .. MaxSequence : n # Len(b) => [row EXCEPT ![Len(b)] = new][n] = row[n]
  BY <1>1
<1>4. more \in ProposalType /\ more[p] = [row EXCEPT ![Len(b)] = new]
      /\ \A q \in Peer : q # p => more[q] = props[q]
  BY <1>2, <1>3 DEF ProposalType
<1>5. OneMore(props, more, p, b)
  BY <1>3, <1>4 DEF new, OneMore
<1> QED
  BY <1>5 DEF more

LEMMA PeerVotesStep ==
    ASSUME VotesIInv, NEW p \in Peer, NEW tx \in TxSet, NEW acc \in AccHash,
           NEW prev \in ValidPath(currBlock.sequence - 1),
           PeerProposal(p, Proposed(prev, tx), acc),
           proposals' = [proposals EXCEPT ![p][currBlock.sequence] =
                           IF @ = NoBlock THEN Proposed(prev, tx) ELSE Several]
    PROVE  VotesIInv'
<1> DEFINE valid == chain.validBlock.id
           b == Proposed(prev, tx)
           inserted == insert(chain, p, b, FALSE)
<1>1. IInv /\ IInv' /\ ChainInv(chain)
  BY PeerProposalStep DEF VotesIInv, IInv
<1>2. valid \in BlockId /\ Len(valid) \in Nat /\ currBlock.sequence \in Nat
  BY <1>1 DEF IInv, TypeOK, IsChain, BlockId
<1>3. b \in BlockId /\ b # Genesis /\ ~ IsExecuted(b)
  BY <1>1, <1>2, PeerPath, ProposedLemma
<1>4. /\ Sequence(b) = currBlock.sequence
      /\ IF HasQuorum(inserted, currBlockId)
         THEN Execute(inserted, currBlockId, currBlock.id, acc)
         ELSE chain' = inserted /\ UNCHANGED <<currBlock, lastExecuted>>
  BY Zenon DEF PeerProposal
<1>5. proposals' = Recorded(proposals, p, b)
  <2>1. Len(b) = currBlock.sequence
    BY <1>4 DEF Sequence
  <2> QED
    BY <2>1, Zenon DEF Recorded
<1> HIDE DEF b
<1>6. Len(b) = Len(valid) + 1 /\ Len(b) \in 1 .. MaxSequence
  <2>1. Len(b) = currBlock.sequence /\ Len(b) \in Nat /\ Len(b) > 0
    BY <1>3, <1>4, PrevLemma DEF Sequence
  <2> QED
    BY <1>1, <2>1, MaxSequenceAssumption DEF VotesIInv, IInv, CurrBlockIsNextOrOld
<1>7. ChainInv(inserted) /\ inserted.validBlock = chain.validBlock
  BY <1>1, <1>3, <1>6, InsertInv DEF Peer
<1> DEFINE votes == Cast
           cast == [q \in Peer |->
                      {x \in BlockId : /\ Len(x) \in 1 .. MaxSequence
                                       /\ proposals'[q][Len(x)] \in {x, Several}}]
           before == VotedTwice
           again == \E q \in Peer : proposals'[q][Len(b)] = Several
<1>8. /\ proposals' \in ProposalType
      /\ \A q \in Peer : \A n \in 1 .. MaxSequence :
           q # p \/ n # Len(b) => proposals'[q][n] = proposals[q][n]
      /\ proposals'[p][Len(b)] = IF proposals[p][Len(b)] = NoBlock THEN b ELSE Several
  <2>1. proposals \in ProposalType
    BY DEF VotesIInv
  <2>2. OneMore(proposals, Recorded(proposals, p, b), p, b)
    BY <1>3, <1>6, <2>1, RecordLemma
  <2> QED
    BY <1>5, <2>2, ZenonT(60) DEF OneMore
<1>0. \A n \in 1 .. Len(valid) : \A q \in Peer : proposals'[q][n] = proposals[q][n]
  <2>1. ASSUME NEW n \in 1 .. Len(valid) PROVE n \in 1 .. MaxSequence /\ n # Len(b)
    <3>1. PICK k \in Nat : k = Len(b) /\ k <= MaxSequence
      BY <1>6, MaxSequenceAssumption
    <3>2. PICK v \in Nat : v = Len(valid)
      BY <1>2
    <3> QED
      BY <1>6, <3>1, <3>2, MaxSequenceAssumption
  <2> QED
    BY <1>8, <2>1
<1>9. /\ before \in BOOLEAN /\ again \in BOOLEAN
      /\ VotesCounted(chain, Peer, votes, before)
      /\ before => again
      /\ \A q \in Peer : \A x \in BlockId : x \in votes[q] => x \in cast[q]
      /\ b \in cast[p]
      /\ again \/ \A x \in BlockId : Len(x) = Len(b) => x \notin votes[p]
  <2>1. /\ before \in BOOLEAN /\ again \in BOOLEAN
        /\ VotesCounted(chain, Peer, votes, before)
    BY DEF VotesIInv, VotedTwice, Repeated
  <2>2. before => again
    BY <1>3, <1>6, <1>8, SeveralAssumption DEF VotedTwice, Repeated
  <2>3. ASSUME NEW q \in Peer, NEW x \in BlockId, x \in votes[q] PROVE x \in cast[q]
    <3>1. Len(x) \in 1 .. MaxSequence /\ proposals[q][Len(x)] \in {x, Several}
      BY <2>3 DEF Cast
    <3>2. proposals'[q][Len(x)] \in {x, Several}
      BY <1>8, <3>1, PointerAssumption, SeveralAssumption
    <3> QED
      BY <3>1, <3>2
  <2>4. b \in cast[p]
    BY <1>3, <1>6, <1>8
  <2>5. ASSUME ~ again, NEW x \in BlockId, Len(x) = Len(b) PROVE x \notin votes[p]
    <3>1. proposals[p][Len(b)] = NoBlock
      BY <1>8, <2>5
    <3> QED
      BY <2>5, <3>1, PointerAssumption, SeveralAssumption DEF Cast
  <2> QED
    BY <2>1, <2>2, <2>3, <2>4, <2>5
<1> HIDE DEF votes, cast, before, again
<1>10. VotesCounted(inserted, Peer, cast, again)
  BY <1>1, <1>3, <1>6, <1>9, PeersFacts, PeerVotes
<1>11. /\ again => \E q \in Peer : proposals'[q][Len(b)] = Several
       /\ \A q \in Peer : b \in cast[q] => proposals'[q][Len(b)] \in {b, Several}
       /\ \A x \in BlockId : Len(x) = Len(b) =>
            \A q \in Peer : x \in cast[q] => proposals'[q][Len(x)] \in {x, Several}
  BY <1>3 DEF cast, again
<1> HIDE DEF inserted
<1>12. CASE HasQuorum(inserted, currBlockId)
  <2>1. Execute(inserted, currBlockId, currBlock.id, acc)
    BY <1>4, <1>12
  <2>2. /\ currBlockId \in BlockId /\ currBlockId # Genesis /\ ~ IsExecuted(currBlockId)
        /\ \/ Len(currBlockId) <= Len(inserted.validBlock.id)
           \/ Prev(currBlockId) = inserted.validBlock.id
    BY <1>1, <1>7, <1>12, AskedAbout
  <2>3. Len(currBlockId) = Len(b)
    <3>1. Len(currBlockId) > Len(valid) /\ Len(currBlockId) \in Nat
      BY <1>7, <1>12, <2>2, PrevLemma DEF HasQuorum, checkQuorum, Sequence
    <3>2. Prev(currBlockId) = valid
      BY <1>2, <1>7, <2>2, <3>1
    <3> QED
      BY <1>6, <2>2, <3>2, PrevLemma
  <2>4. /\ again => \E q \in Peer : proposals'[q][Len(currBlockId)] = Several
        /\ \A q \in Peer : currBlockId \in cast[q] =>
             proposals'[q][Len(currBlockId)] \in {currBlockId, Several}
    BY <1>11, <2>2, <2>3
  <2>5. Backed(inserted.validBlock.id, proposals)
    BY <1>7 DEF VotesIInv
  <2>6. \A q \in Peer : \A n \in 1 .. Len(inserted.validBlock.id) :
          proposals'[q][n] = proposals[q][n]
    BY <1>0, <1>7
  <2>7. again \in BOOLEAN /\ acc \in AccHash /\ ChainInv(inserted)
    BY <1>7, <1>9
  <2>8. /\ Backed(chain'.validBlock.id, proposals')
        /\ \A u, a : VotesCounted(chain', Peer, u, a)
    BY ONLY <1>10, <1>12, <2>1, <2>2, <2>4, <2>5, <2>6, <2>7, ExecuteVotes, SMTT(60)
  <2>9. currBlock'.sequence <= MaxSequence
    BY <2>1, MaxSequenceAssumption DEF Execute, EmptyBlock
  <2> QED
    BY <1>1, <1>8, <2>8, <2>9 DEF VotesIInv
<1>13. CASE ~ HasQuorum(inserted, currBlockId)
  <2>1. chain' = inserted /\ currBlock' = currBlock
    BY <1>4, <1>13
  <2>2. chain'.validBlock = chain.validBlock
    BY <1>7, <2>1
  <2>3. Cast' = cast
    BY Zenon DEF Cast, cast
  <2>4. VotedTwice' = again
    <3>1. Len(chain'.validBlock.id) + 1 = Len(b) /\ Len(b) <= MaxSequence
      BY <1>6, <2>2
    <3> QED
      BY <3>1 DEF VotedTwice, Repeated, again
  <2>5. VotesCounted(chain', Peer, Cast', VotedTwice')
    BY <1>10, <2>1, <2>3, <2>4, Zenon
  <2>6. Backed(valid, proposals')
    <3>1. ASSUME NEW n \in 1 .. Len(valid), NEW x, BackedBlock(proposals, n, x)
          PROVE  BackedBlock(proposals', n, x)
      <4>1. \A q \in Peer : proposals'[q][n] = proposals[q][n]
        BY <1>0
      <4>2. {q \in Peer : proposals'[q][n] = x} = {q \in Peer : proposals[q][n] = x}
        BY <4>1
      <4> QED
        BY <3>1, <4>1, <4>2 DEF BackedBlock
    <3> QED
      BY <3>1 DEF VotesIInv, Backed
  <2> QED
    BY <1>1, <1>8, <2>1, <2>2, <2>5, <2>6 DEF VotesIInv
<1> QED
  BY <1>12, <1>13

LEMMA VotesStep == VotesIInv /\ [LocalStep \/ PeerStep]_votesVars => VotesIInv'
<1> SUFFICES ASSUME VotesIInv, [LocalStep \/ PeerStep]_votesVars PROVE VotesIInv'
  OBVIOUS
<1>1. CASE LocalStep
  BY <1>1, CloseBlockVotes, OnAcceptVotes DEF LocalStep
<1>2. CASE PeerStep
  BY <1>2, PeerVotesStep DEF PeerStep
<1>3. CASE UNCHANGED votesVars
  <2>1. UNCHANGED vars /\ proposals' = proposals
    BY <1>3 DEF votesVars
  <2>2. IInv'
    BY <2>1, NextStep DEF VotesIInv
  <2>3. chain' = chain /\ currBlock' = currBlock
    BY <2>1 DEF vars
  <2>4. Cast' = Cast /\ VotedTwice' = VotedTwice
    BY <2>1, <2>3 DEF Cast, VotedTwice, Repeated
  <2>5. VotesCounted(chain', Peer, Cast', VotedTwice')
    BY <2>3, <2>4, Zenon DEF VotesIInv
  <2> QED
    BY <2>1, <2>2, <2>3, <2>5 DEF VotesIInv
<1> QED
  BY <1>1, <1>2, <1>3

\* A block becomes valid only when more than 80 % of the different validators
\* on the UNL proposed it, for every size of the UNL and every order of the
\* proposals, unless a validator proposed twice for its sequence: a support that
\* is withdrawn, and wraps around at zero, never adds to another block.
THEOREM QuorumOfDifferent == VotesSpec => []QuorumIsOfDifferentValidators
<1>1. VotesIInv => QuorumIsOfDifferentValidators
  BY BackedIsQuorum DEF VotesIInv
<1> QED
  BY VotesInitInv, VotesStep, <1>1, PTL DEF VotesSpec
=============================================================================
