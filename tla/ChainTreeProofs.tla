-------------------------- MODULE ChainTreeProofs --------------------------
(***************************************************************************)
(* The lemmas about the methods of the class Chain: what an insertion and  *)
(* a validation do to any well-typed chain, and that both preserve the     *)
(* invariant of a chain that is used as Consensus uses it.                 *)
(***************************************************************************)
EXTENDS ChainTree, FiniteSetTheorems, TLAPS

-----------------------------------------------------------------------------
(***************************************************************************)
(* Block ids.                                                              *)
(***************************************************************************)
LEMMA PrevLemma ==
    ASSUME NEW b \in BlockId, b # Genesis
    PROVE  /\ Len(b) \in Nat /\ Len(b) > 0
           /\ Prev(b) \in BlockId
           /\ Len(Prev(b)) = Len(b) - 1
           /\ Prev(b) # b
<1>1. b \in Seq(Entry) /\ b # <<>>
  BY DEF BlockId, Genesis
<1>2. Len(b) \in Nat /\ Len(b) > 0
  BY <1>1
<1>3. Prev(b) = [i \in 1 .. Len(b) - 1 |-> b[i]]
  BY <1>1, <1>2 DEF Prev
<1>4. Prev(b) \in Seq(Entry) /\ Len(Prev(b)) = Len(b) - 1
  BY <1>1, <1>2, <1>3
<1> QED
  BY <1>2, <1>4 DEF BlockId

LEMMA ProposedLemma ==
    ASSUME NEW prev \in BlockId, NEW tx \in TxSet
    PROVE  /\ Proposed(prev, tx) \in BlockId
           /\ Proposed(prev, tx) # Genesis
           /\ Len(Proposed(prev, tx)) = Len(prev) + 1
           /\ Prev(Proposed(prev, tx)) = prev
           /\ ~ IsExecuted(Proposed(prev, tx))
BY DEF BlockId, Genesis, Prev, Proposed, Entry, IsExecuted

LEMMA ExecutedLemma ==
    ASSUME NEW b \in BlockId, b # Genesis, NEW acc \in AccHash
    PROVE  /\ Executed(b, acc) \in BlockId
           /\ Executed(b, acc) # Genesis
           /\ Len(Executed(b, acc)) = Len(b)
           /\ Prev(Executed(b, acc)) = Prev(b)
           /\ IsExecuted(Executed(b, acc))
           /\ \E e \in [tx : TxSet, acc : AccHash] :
                Executed(b, acc) = Append(Prev(b), e)
<1>1. Prev(b) \in Seq(Entry) /\ Len(Prev(b)) = Len(b) - 1 /\ Len(b) \in Nat /\ Len(b) > 0
  BY PrevLemma DEF BlockId
<1>2. b[Len(b)] \in Entry
  BY <1>1 DEF BlockId
<1> DEFINE e == [tx |-> b[Len(b)].tx, acc |-> acc]
<1>3. e \in Entry /\ e \in [tx : TxSet, acc : AccHash] /\ e.acc = acc
  BY <1>2 DEF Entry
<1>4. Executed(b, acc) = Append(Prev(b), e)
  BY DEF Executed
<1> HIDE DEF e
<1> QED
  BY <1>1, <1>3, <1>4, NullHashAssumption DEF BlockId, Genesis, Prev, IsExecuted

LEMMA AppendLemma ==
    ASSUME NEW S, NEW s \in Seq(S), NEW e \in S
    PROVE  /\ Len(s) \in Nat /\ DOMAIN s = 1 .. Len(s)
           /\ DOMAIN Append(s, e) = 1 .. Len(s) + 1
           /\ Append(s, e)[Len(s) + 1] = e
           /\ \A i \in 1 .. Len(s) : Append(s, e)[i] = s[i]
OBVIOUS

LEMMA AppendHasLast ==
    ASSUME NEW S, NEW s \in Seq(S), NEW e \in S
    PROVE  \E i \in DOMAIN Append(s, e) : Append(s, e)[i] = e
<1>1. Len(s) + 1 \in DOMAIN Append(s, e)
  BY ONLY AppendLemma
<1> QED
  BY ONLY <1>1, AppendLemma

-----------------------------------------------------------------------------
(***************************************************************************)
(* Chain::insert and the validation of a block, on any well-typed chain.   *)
(***************************************************************************)
LEMMA UintLemma ==
    ASSUME NEW n \in Int
    PROVE  Uint(n) \in 0 .. UintModulus - 1
BY UintAssumption DEF Uint

\* A map of nodes in which only tip supports differ from those of ch.
SameTree(ch, new) ==
    /\ DOMAIN new = DOMAIN ch
    /\ new \in [DOMAIN ch -> NodeType]
    /\ \A x \in DOMAIN ch : /\ new[x].parent = ch[x].parent
                           /\ new[x].validChild = ch[x].validChild
                           /\ new[x].childs = ch[x].childs

LEMMA AddSupportLemma ==
    ASSUME NEW S, NEW ch \in [S -> NodeType], NEW b \in S, NEW n \in {-1, 0, 1}
    PROVE  SameTree(ch, AddSupport(ch, b, n))
<1>1. ch[b] \in NodeType
  OBVIOUS
<1>2. ch[b].tipSupport + n \in Int
  BY <1>1, UintAssumption DEF NodeType
<1>3. PICK t : t = Uint(ch[b].tipSupport + n)
  OBVIOUS
<1>4. t \in 0 .. UintModulus - 1
  BY <1>2, <1>3, UintLemma
<1>5. PICK node : node = [ch[b] EXCEPT !.tipSupport = t]
  OBVIOUS
<1>6. /\ node \in NodeType
      /\ node.parent = ch[b].parent
      /\ node.validChild = ch[b].validChild
      /\ node.childs = ch[b].childs
  BY <1>1, <1>4, <1>5 DEF NodeType
<1>7. AddSupport(ch, b, n) = [ch EXCEPT ![b] = node]
  BY <1>3, <1>5 DEF AddSupport
<1> QED
  BY <1>6, <1>7 DEF SameTree

\* new is the map ch with b added below its predecessor.
Attached(S, ch, b, support, new) ==
    /\ new \in [S \union {b} -> NodeType]
    /\ new[b] = NewNode(Prev(b), support)
    /\ \A x \in S :
         /\ new[x].parent = ch[x].parent
         /\ new[x].validChild = ch[x].validChild
         /\ new[x].childs = IF x = Prev(b) THEN Append(ch[x].childs, b)
                                           ELSE ch[x].childs

LEMMA AttachLemma ==
    ASSUME NEW S \in SUBSET BlockId, NEW ch \in [S -> NodeType],
           NEW b \in BlockId, b \notin S, b # Genesis, Prev(b) \in S,
           NEW support \in 0 .. UintModulus - 1
    PROVE  Attached(S, ch, b, support, Attach(ch, b, support))
<1> DEFINE prev == Prev(b)
<1>1. ch[prev] \in NodeType
  OBVIOUS
<1>2. Append(ch[prev].childs, b) \in Seq(BlockId)
  BY <1>1 DEF NodeType
<1>3. NewNode(prev, support) \in NodeType
  BY PrevLemma DEF NewNode, NodeType
<1>4. PICK grown : grown = [ch[prev] EXCEPT !.childs = Append(ch[prev].childs, b)]
  OBVIOUS
<1>5. /\ grown \in NodeType
      /\ grown.parent = ch[prev].parent
      /\ grown.validChild = ch[prev].validChild
      /\ grown.childs = Append(ch[prev].childs, b)
  BY <1>1, <1>2, <1>4 DEF NodeType
<1>6. Attach(ch, b, support) = Put([ch EXCEPT ![prev] = grown], b, NewNode(prev, support))
  BY <1>4 DEF Attach
<1> QED
  BY <1>3, <1>5, <1>6 DEF Put, Attached

LEMMA WithdrawLemma ==
    ASSUME NEW c, IsChain(c), NEW issuer
    PROVE  SameTree(c.ch, WithdrawSupport(c, issuer))
<1>1. c.ch \in [DOMAIN c.ch -> NodeType]
  BY DEF IsChain
<1>2. CASE issuer \in DOMAIN c.validations /\ c.validations[issuer] \in DOMAIN c.ch
  BY <1>1, <1>2, AddSupportLemma DEF WithdrawSupport
<1>3. CASE ~ (issuer \in DOMAIN c.validations /\ c.validations[issuer] \in DOMAIN c.ch)
  BY <1>1, <1>3 DEF WithdrawSupport, SameTree
<1> QED
  BY <1>2, <1>3

\* What an insertion leaves alone, and the only node it can add.
Inserted(c, d, b) ==
    /\ IsChain(d)
    /\ d.validBlock = c.validBlock
    /\ DOMAIN d.ch = DOMAIN c.ch \union (IF Prev(b) \in DOMAIN c.ch THEN {b} ELSE {})
    /\ \A x \in DOMAIN c.ch :
         /\ d.ch[x].parent = c.ch[x].parent
         /\ d.ch[x].validChild = c.ch[x].validChild
         /\ d.ch[x].childs = IF b \notin DOMAIN c.ch /\ x = Prev(b)
                             THEN Append(c.ch[x].childs, b)
                             ELSE c.ch[x].childs
    /\ b \in DOMAIN d.ch \ DOMAIN c.ch =>
         /\ d.ch[b].parent = Prev(b)
         /\ d.ch[b].childs = <<>>
    /\ \A p \in DOMAIN d.validations :
         \/ d.validations[p] \in {b, Dangling}
         \/ p \in DOMAIN c.validations /\ d.validations[p] = c.validations[p]

LEMMA InsertLemma ==
    ASSUME NEW c, IsChain(c), NEW issuer \in Validator,
           NEW b \in BlockId, b # Genesis, NEW isLocal \in BOOLEAN
    PROVE  Inserted(c, insert(c, issuer, b, isLocal), b)
<1> DEFINE ch == IF isLocal THEN c.ch ELSE WithdrawSupport(c, issuer)
           support == IF isLocal THEN 0 ELSE 1
           d == insert(c, issuer, b, isLocal)
<1>1. SameTree(c.ch, ch)
  BY WithdrawLemma DEF SameTree, IsChain
<1>2. support \in 0 .. UintModulus - 1
  BY UintAssumption
<1>3. /\ c = [ch |-> c.ch, validBlock |-> c.validBlock, validations |-> c.validations]
      /\ DOMAIN c.ch \subseteq BlockId
      /\ c.validBlock \in [id : BlockId, node : NodeType]
      /\ DOMAIN c.validations \subseteq Validator
      /\ c.validations \in [DOMAIN c.validations -> BlockId \union {Dangling}]
  BY DEF IsChain
<1>4. d = IF b \in DOMAIN ch
          THEN [ch |-> AddSupport(ch, b, support),
                validBlock |-> c.validBlock,
                validations |-> Put(c.validations, issuer, b)]
          ELSE IF Prev(b) \in DOMAIN ch
          THEN [ch |-> Attach(ch, b, support),
                validBlock |-> c.validBlock,
                validations |-> Put(c.validations, issuer, Dangling)]
          ELSE [ch |-> ch, validBlock |-> c.validBlock, validations |-> c.validations]
  BY DEF insert
<1> HIDE DEF ch, support, d
<1>5. CASE b \in DOMAIN ch
  <2>1. SameTree(ch, AddSupport(ch, b, support))
    BY <1>1, <1>5, AddSupportLemma DEF SameTree, support
  <2>2. SameTree(c.ch, d.ch)
    BY <1>1, <1>4, <1>5, <2>1 DEF SameTree
  <2>3. /\ d = [ch |-> d.ch, validBlock |-> d.validBlock, validations |-> d.validations]
        /\ d.validBlock = c.validBlock
        /\ d.validations = Put(c.validations, issuer, b)
    BY <1>4, <1>5
  <2>4. IsChain(d)
    BY <1>3, <2>2, <2>3 DEF SameTree, IsChain, Put
  <2> QED
    BY <1>1, <1>5, <2>2, <2>3, <2>4 DEF SameTree, Put, d, Inserted
<1>6. CASE b \notin DOMAIN ch /\ Prev(b) \in DOMAIN ch
  <2>1. /\ d = [ch |-> d.ch, validBlock |-> d.validBlock, validations |-> d.validations]
        /\ d.ch = Attach(ch, b, support)
        /\ d.validBlock = c.validBlock
        /\ d.validations = Put(c.validations, issuer, Dangling)
    BY <1>4, <1>6
  <2>2. /\ DOMAIN ch = DOMAIN c.ch /\ ch \in [DOMAIN c.ch -> NodeType]
        /\ DOMAIN c.ch \in SUBSET BlockId
        /\ b \notin DOMAIN c.ch /\ Prev(b) \in DOMAIN c.ch
    BY <1>1, <1>3, <1>6 DEF SameTree
  <2>3. /\ d.ch \in [DOMAIN c.ch \union {b} -> NodeType]
        /\ d.ch[b] = NewNode(Prev(b), support)
        /\ \A x \in DOMAIN c.ch :
             /\ d.ch[x].parent = ch[x].parent
             /\ d.ch[x].validChild = ch[x].validChild
             /\ d.ch[x].childs = IF x = Prev(b) THEN Append(ch[x].childs, b)
                                                ELSE ch[x].childs
    <3> DEFINE S == DOMAIN c.ch
    <3>1. /\ S \in SUBSET BlockId /\ ch \in [S -> NodeType]
          /\ b \in BlockId /\ b \notin S /\ b # Genesis /\ Prev(b) \in S
      BY <2>2
    <3> HIDE DEF S
    <3>2. Attached(S, ch, b, support, Attach(ch, b, support))
      BY ONLY <1>2, <3>1, AttachLemma
    <3> QED
      BY <2>1, <3>2 DEF S, Attached
  <2>4. IsChain(d)
    BY <1>3, <2>1, <2>3 DEF IsChain, Put
  <2>5. \A p \in DOMAIN d.validations :
          \/ d.validations[p] \in {b, Dangling}
          \/ p \in DOMAIN c.validations /\ d.validations[p] = c.validations[p]
    BY <2>1 DEF Put
  <2>6. \A x \in DOMAIN c.ch :
          /\ d.ch[x].parent = c.ch[x].parent
          /\ d.ch[x].validChild = c.ch[x].validChild
          /\ d.ch[x].childs = IF b \notin DOMAIN c.ch /\ x = Prev(b)
                              THEN Append(c.ch[x].childs, b)
                              ELSE c.ch[x].childs
    BY <1>1, <1>6, <2>2, <2>3 DEF SameTree
  <2>7. d.ch[b].parent = Prev(b) /\ d.ch[b].childs = <<>>
    BY <2>3 DEF NewNode
  <2> QED
    BY <1>6, <2>1, <2>2, <2>3, <2>4, <2>5, <2>6, <2>7 DEF d, Inserted
<1>7. CASE b \notin DOMAIN ch /\ Prev(b) \notin DOMAIN ch
  <2>1. d = [ch |-> ch, validBlock |-> c.validBlock, validations |-> c.validations]
    BY <1>4, <1>7
  <2>2. IsChain(d)
    BY <1>1, <1>3, <2>1 DEF SameTree, IsChain
  <2> QED
    BY <1>1, <1>7, <2>1, <2>2 DEF SameTree, d, Inserted
<1> QED
  BY <1>5, <1>6, <1>7

\* What making b, a block of the tree, valid and executing it does.
Validated(c, d, b, new) ==
    /\ IsChain(d)
    /\ d.validBlock = [id |-> new, node |-> c.ch[b]]
    /\ DOMAIN d.ch = DOMAIN c.ch \union {new}
    /\ \A x \in DOMAIN c.ch :
         /\ d.ch[x].parent = c.ch[x].parent
         /\ d.ch[x].childs = c.ch[x].childs
         /\ d.ch[x].validChild = IF new \notin DOMAIN c.ch /\ x = c.ch[b].parent
                                 THEN new ELSE c.ch[x].validChild
    /\ new \notin DOMAIN c.ch => d.ch[new] = c.ch[b]
    /\ DOMAIN d.validations = DOMAIN c.validations
    /\ \A p \in DOMAIN c.validations :
         d.validations[p] = IF new \notin DOMAIN c.ch /\ c.validations[p] = b
                            THEN new ELSE c.validations[p]

LEMMA ValidateLemma ==
    ASSUME NEW c, IsChain(c), NEW b \in DOMAIN c.ch, b # Genesis, NEW acc \in AccHash
    PROVE  Validated(c, assignAccountHashToValidBlock(SetValidBlock(c, b), acc),
                     b, Executed(b, acc))
<1> DEFINE v == SetValidBlock(c, b)
           d == assignAccountHashToValidBlock(v, acc)
           new == Executed(b, acc)
           old == c.ch[b].parent
<1>1. /\ c = [ch |-> c.ch, validBlock |-> c.validBlock, validations |-> c.validations]
      /\ DOMAIN c.ch \subseteq BlockId
      /\ c.ch \in [DOMAIN c.ch -> NodeType]
      /\ DOMAIN c.validations \subseteq Validator
      /\ c.validations \in [DOMAIN c.validations -> BlockId \union {Dangling}]
  BY DEF IsChain
<1>2. v = [ch |-> c.ch, validBlock |-> [id |-> b, node |-> c.ch[b]],
           validations |-> c.validations]
  BY <1>1 DEF SetValidBlock
<1>3. b \in BlockId /\ c.ch[b] \in NodeType /\ new \in BlockId
  BY <1>1, ExecutedLemma
<1>4. d = IF new \in DOMAIN c.ch
          THEN [ch |-> c.ch, validBlock |-> [id |-> new, node |-> c.ch[b]],
                validations |-> c.validations]
          ELSE [ch |-> Put([c.ch EXCEPT ![old] = [c.ch[old] EXCEPT !.validChild = new]],
                           new, c.ch[b]),
                validBlock |-> [id |-> new, node |-> c.ch[b]],
                validations |-> [p \in DOMAIN c.validations |->
                                   IF c.validations[p] = b THEN new ELSE c.validations[p]]]
  BY <1>2, SMTT(60) DEF assignAccountHashToValidBlock
<1> HIDE DEF v, d, new, old
<1>5. CASE new \in DOMAIN c.ch
  <2>1. d = [ch |-> c.ch, validBlock |-> [id |-> new, node |-> c.ch[b]],
             validations |-> c.validations]
    BY <1>4, <1>5
  <2>2. IsChain(d)
    BY <1>1, <1>3, <2>1 DEF IsChain
  <2> QED
    BY <1>5, <2>1, <2>2 DEF d, v, new, old, Validated
<1>6. CASE new \notin DOMAIN c.ch
  <2>1. PICK ch : ch = [c.ch EXCEPT ![old] = [c.ch[old] EXCEPT !.validChild = new]]
    OBVIOUS
  <2>2. /\ DOMAIN ch = DOMAIN c.ch
        /\ \A x \in DOMAIN c.ch :
             /\ ch[x] \in NodeType
             /\ ch[x].parent = c.ch[x].parent
             /\ ch[x].childs = c.ch[x].childs
             /\ ch[x].validChild = IF x = old THEN new ELSE c.ch[x].validChild
    BY <1>1, <1>3, <2>1 DEF NodeType
  <2>3. d = [ch |-> Put(ch, new, c.ch[b]),
             validBlock |-> [id |-> new, node |-> c.ch[b]],
             validations |-> [p \in DOMAIN c.validations |->
                                IF c.validations[p] = b THEN new ELSE c.validations[p]]]
    BY <1>4, <1>6, <2>1
  <2>4. IsChain(d)
    BY <1>1, <1>3, <2>2, <2>3 DEF IsChain, Put
  <2> QED
    BY <1>6, <2>2, <2>3, <2>4 DEF d, v, new, old, Put, Validated
<1> QED
  BY <1>5, <1>6

-----------------------------------------------------------------------------
(***************************************************************************)
(* An insertion at the height above the valid block keeps the invariant.   *)
(***************************************************************************)
LEMMA InsertInv ==
    ASSUME NEW c, ChainInv(c), NEW issuer \in Validator,
           NEW b \in BlockId, b # Genesis, ~ IsExecuted(b),
           Len(b) = Len(c.validBlock.id) + 1, NEW isLocal \in BOOLEAN
    PROVE  /\ ChainInv(insert(c, issuer, b, isLocal))
           /\ insert(c, issuer, b, isLocal).validBlock = c.validBlock
<1> DEFINE d == insert(c, issuer, b, isLocal)
           new == IF Prev(b) \in DOMAIN c.ch THEN {b} ELSE {}
<1>2. IsChain(c) /\ WellFormed(c) /\ Linked(c) /\ VotesMoved(c) /\ Bounded(c)
  BY DEF ChainInv
<1>0. Inserted(c, d, b)
  BY <1>2, InsertLemma
<1> HIDE DEF d
<1>1. /\ IsChain(d)
      /\ d.validBlock = c.validBlock
      /\ DOMAIN d.ch = DOMAIN c.ch \union new
      /\ \A x \in DOMAIN c.ch :
           /\ d.ch[x].parent = c.ch[x].parent
           /\ d.ch[x].validChild = c.ch[x].validChild
           /\ d.ch[x].childs = IF b \notin DOMAIN c.ch /\ x = Prev(b)
                               THEN Append(c.ch[x].childs, b)
                               ELSE c.ch[x].childs
      /\ b \in DOMAIN d.ch \ DOMAIN c.ch =>
           /\ d.ch[b].parent = Prev(b)
           /\ d.ch[b].childs = <<>>
      /\ \A p \in DOMAIN d.validations :
           \/ d.validations[p] \in {b, Dangling}
           \/ p \in DOMAIN c.validations /\ d.validations[p] = c.validations[p]
  BY <1>0 DEF Inserted
<1>3. /\ DOMAIN c.ch \subseteq BlockId
      /\ \A x \in DOMAIN c.ch : c.ch[x].childs \in Seq(BlockId)
      /\ c.validBlock.id \in BlockId
  BY <1>2 DEF IsChain, NodeType
<1>4. Prev(b) \in BlockId /\ Len(Prev(b)) = Len(b) - 1 /\ Prev(b) # b
      /\ Len(b) \in Nat /\ Len(c.validBlock.id) \in Nat
  BY <1>3, PrevLemma DEF BlockId
<1>5. ASSUME NEW x \in DOMAIN c.ch
      PROVE  /\ \A i \in DOMAIN c.ch[x].childs :
                  i \in DOMAIN d.ch[x].childs /\ d.ch[x].childs[i] = c.ch[x].childs[i]
             /\ \A i \in DOMAIN d.ch[x].childs :
                  \/ i \in DOMAIN c.ch[x].childs /\ d.ch[x].childs[i] = c.ch[x].childs[i]
                  \/ b \notin DOMAIN c.ch /\ x = Prev(b) /\ d.ch[x].childs[i] = b
  <2>1. c.ch[x].childs \in Seq(BlockId)
    BY <1>3
  <2>2. CASE b \notin DOMAIN c.ch /\ x = Prev(b)
    <3>1. d.ch[x].childs = Append(c.ch[x].childs, b)
      BY <1>1, <2>2
    <3> QED
      BY <2>1, <2>2, <3>1, AppendLemma
  <2>3. CASE ~ (b \notin DOMAIN c.ch /\ x = Prev(b))
    BY <1>1, <2>3
  <2> QED
    BY <2>2, <2>3
<1>6. ASSUME b \in DOMAIN d.ch \ DOMAIN c.ch
      PROVE  /\ Prev(b) \in DOMAIN c.ch
             /\ \E i \in DOMAIN d.ch[Prev(b)].childs : d.ch[Prev(b)].childs[i] = b
  <2>1. Prev(b) \in DOMAIN c.ch
    BY <1>1, <1>6
  <2>2. d.ch[Prev(b)].childs = Append(c.ch[Prev(b)].childs, b)
    BY <1>1, <1>6, <2>1
  <2>3. c.ch[Prev(b)].childs \in Seq(BlockId)
    BY <1>3, <2>1
  <2>4. \E i \in DOMAIN Append(c.ch[Prev(b)].childs, b) : Append(c.ch[Prev(b)].childs, b)[i] = b
    BY ONLY <2>3, b \in BlockId, AppendHasLast
  <2> QED
    BY ONLY <2>1, <2>2, <2>4
<1>7. WellFormed(d)
  <2>1. Genesis \in DOMAIN d.ch
    BY <1>1, <1>2 DEF WellFormed
  <2>2. ASSUME NEW x \in DOMAIN d.ch \ {Genesis}
        PROVE  /\ Prev(x) \in DOMAIN d.ch
               /\ d.ch[x].parent = Prev(x)
               /\ \/ IsExecuted(x)
                  \/ \E i \in DOMAIN d.ch[Prev(x)].childs : d.ch[Prev(x)].childs[i] = x
    <3>1. CASE x \in DOMAIN c.ch
      BY <1>1, <1>2, <1>5, <3>1 DEF WellFormed
    <3>2. CASE x \notin DOMAIN c.ch
      BY <1>1, <1>6, <3>2
    <3> QED
      BY <3>1, <3>2
  <2>3. ASSUME NEW x \in DOMAIN d.ch, NEW i \in DOMAIN d.ch[x].childs
        PROVE  d.ch[x].childs[i] \in DOMAIN d.ch
    <3>1. CASE x \in DOMAIN c.ch
      BY <1>1, <1>2, <1>5, <3>1 DEF WellFormed
    <3>2. CASE x \notin DOMAIN c.ch
      BY <1>1, <3>2
    <3> QED
      BY <3>1, <3>2
  <2> QED
    BY <2>1, <2>2, <2>3 DEF WellFormed
<1>8. Linked(d)
  <2> SUFFICES ASSUME NEW n \in 1 .. Len(c.validBlock.id),
                      NEW x, x = SubSeq(c.validBlock.id, 1, n)
               PROVE  x \in DOMAIN d.ch /\ IsExecuted(x) /\ d.ch[Prev(x)].validChild = x
    BY <1>1 DEF Linked
  <2>1. x \in DOMAIN c.ch /\ IsExecuted(x) /\ c.ch[Prev(x)].validChild = x
    BY <1>2 DEF Linked
  <2>2. x # Genesis
    <3>1. c.validBlock.id \in Seq(Entry)
      BY <1>3 DEF BlockId
    <3>2. Len(x) = n /\ n > 0
      BY <3>1
    <3>3. Len(Genesis) = 0
      BY DEF Genesis
    <3> QED
      BY ONLY <3>2, <3>3
  <2>3. Prev(x) \in DOMAIN c.ch
    BY <1>2, <2>1, <2>2 DEF WellFormed
  <2> QED
    BY <1>1, <2>1, <2>3
<1>9. VotesMoved(d)
  <2> SUFFICES ASSUME NEW p \in DOMAIN d.validations, NEW x, x = d.validations[p],
                      x \in DOMAIN d.ch, ~ IsExecuted(x), NEW acc \in AccHash
               PROVE  Executed(x, acc) \notin DOMAIN d.ch
    BY DEF VotesMoved
  <2>1. x # Genesis /\ x \in BlockId
    BY <1>1 DEF IsExecuted, IsChain
  <2>2. IsExecuted(Executed(x, acc)) /\ Len(Executed(x, acc)) = Len(x)
    BY <2>1, ExecutedLemma
  <2>3. Executed(x, acc) # b
    BY <2>2
  <2>4. CASE x = b
    BY <1>1, <1>2, <1>4, <2>2, <2>3, <2>4 DEF Bounded
  <2>5. CASE x # b
    BY <1>1, <1>2, <2>3, <2>5, PointerAssumption, <2>1 DEF VotesMoved
  <2> QED
    BY <2>4, <2>5
<1>10. Bounded(d)
  <2>1. ASSUME NEW x \in DOMAIN d.ch
        PROVE  /\ Len(x) <= Len(d.validBlock.id) + 1
               /\ IsExecuted(x) => Len(x) <= Len(d.validBlock.id)
               /\ \A i \in DOMAIN d.ch[x].childs : Len(d.ch[x].childs[i]) = Len(x) + 1
    <3>1. CASE x \in DOMAIN c.ch
      BY <1>1, <1>2, <1>4, <1>5, <3>1 DEF Bounded
    <3>2. CASE x \notin DOMAIN c.ch
      BY <1>1, <1>4, <3>2
    <3> QED
      BY <3>1, <3>2
  <2> QED
    BY <1>1, <1>2, <2>1 DEF Bounded
<1> QED
  BY <1>1, <1>7, <1>8, <1>9, <1>10 DEF ChainInv, d

(***************************************************************************)
(* So does making a successor of the valid block valid, and executing it.  *)
(***************************************************************************)
LEMMA UnexecutedLemma ==
    ASSUME NEW x \in BlockId, NEW y \in BlockId, x # Genesis, y # Genesis,
           ~ IsExecuted(x), ~ IsExecuted(y),
           NEW a1 \in AccHash, NEW a2 \in AccHash, Executed(x, a1) = Executed(y, a2)
    PROVE  x = y
<1>1. /\ Len(x) \in Nat /\ Len(x) > 0 /\ x \in Seq(Entry)
      /\ Len(y) \in Nat /\ Len(y) > 0 /\ y \in Seq(Entry)
      /\ Prev(x) \in Seq(Entry) /\ Len(Prev(x)) = Len(x) - 1
      /\ Prev(y) \in Seq(Entry) /\ Len(Prev(y)) = Len(y) - 1
  BY PrevLemma DEF BlockId
<1>2. Len(x) = Len(y) /\ Prev(x) = Prev(y)
  BY ExecutedLemma
<1>3. x[Len(x)] \in Entry /\ y[Len(y)] \in Entry
  BY <1>1
<1>4. x[Len(x)].acc = NullHash /\ y[Len(y)].acc = NullHash
  BY DEF IsExecuted
<1>5. /\ Executed(x, a1)[Len(x)] = [tx |-> x[Len(x)].tx, acc |-> a1]
      /\ Executed(y, a2)[Len(y)] = [tx |-> y[Len(y)].tx, acc |-> a2]
  BY <1>1, <1>3 DEF Executed, Entry
<1>6. x[Len(x)] = y[Len(y)]
  BY <1>2, <1>3, <1>4, <1>5 DEF Entry
<1>7. \A i \in 1 .. Len(x) - 1 : x[i] = Prev(x)[i] /\ y[i] = Prev(y)[i]
  BY <1>1, <1>2 DEF Prev
<1>8. \A i \in 1 .. Len(x) : x[i] = y[i]
  BY <1>1, <1>2, <1>6, <1>7
<1> QED
  BY <1>1, <1>2, <1>8

LEMMA ValidateInv ==
    ASSUME NEW c, ChainInv(c), NEW b \in DOMAIN c.ch, b # Genesis, ~ IsExecuted(b),
           Prev(b) = c.validBlock.id, NEW acc \in AccHash
    PROVE  /\ ChainInv(assignAccountHashToValidBlock(SetValidBlock(c, b), acc))
           /\ assignAccountHashToValidBlock(SetValidBlock(c, b), acc).validBlock.id
                = Executed(b, acc)
<1> DEFINE d == assignAccountHashToValidBlock(SetValidBlock(c, b), acc)
           new == Executed(b, acc)
           valid == c.validBlock.id
<1>1. IsChain(c) /\ WellFormed(c) /\ Linked(c) /\ VotesMoved(c) /\ Bounded(c)
  BY DEF ChainInv
<1>2. /\ DOMAIN c.ch \subseteq BlockId
      /\ \A x \in DOMAIN c.ch : c.ch[x].childs \in Seq(BlockId)
      /\ valid \in BlockId /\ b \in BlockId
  BY <1>1 DEF IsChain, NodeType
<1>3. /\ Len(b) \in Nat /\ Len(valid) \in Nat /\ Len(b) = Len(valid) + 1
      /\ valid \in DOMAIN c.ch /\ c.ch[b].parent = valid
  BY <1>1, <1>2, PrevLemma DEF WellFormed, BlockId
<1>4. /\ new \in BlockId /\ new # Genesis /\ Len(new) = Len(b)
      /\ Prev(new) = valid /\ IsExecuted(new)
      /\ \E e : new = Append(valid, e)
  <2>1. \E e \in [tx : TxSet, acc : AccHash] : new = Append(Prev(b), e)
    BY <1>2, ExecutedLemma
  <2> QED
    BY <1>2, <2>1, ExecutedLemma
<1> HIDE DEF new, d
<1>5. new \notin DOMAIN c.ch
  <2> SUFFICES ASSUME new \in DOMAIN c.ch PROVE FALSE
    OBVIOUS
  <2>1. Len(new) <= Len(valid)
    BY <1>1, <1>4 DEF Bounded
  <2> QED
    BY <1>3, <1>4, <2>1
<1>6. c.ch[b].childs = <<>>
  <2>1. \A i \in DOMAIN c.ch[b].childs : FALSE
    <3> SUFFICES ASSUME NEW i \in DOMAIN c.ch[b].childs PROVE FALSE
      OBVIOUS
    <3>1. /\ c.ch[b].childs[i] \in DOMAIN c.ch
          /\ Len(c.ch[b].childs[i]) = Len(b) + 1
          /\ Len(c.ch[b].childs[i]) <= Len(valid) + 1
      BY <1>1 DEF WellFormed, Bounded
    <3> QED
      BY <1>3, <3>1
  <2>2. c.ch[b].childs \in Seq(BlockId)
    BY <1>2
  <2>3. Len(c.ch[b].childs) \in Nat /\ DOMAIN c.ch[b].childs = 1 .. Len(c.ch[b].childs)
    BY <2>2
  <2>4. Len(c.ch[b].childs) = 0
    <3> SUFFICES ASSUME Len(c.ch[b].childs) # 0 PROVE FALSE
      OBVIOUS
    <3>1. 1 \in DOMAIN c.ch[b].childs
      BY <2>3
    <3> QED
      BY <2>1, <3>1
  <2> QED
    BY <2>2, <2>4
<1>7. /\ IsChain(d)
      /\ d.validBlock = [id |-> new, node |-> c.ch[b]]
      /\ DOMAIN d.ch = DOMAIN c.ch \union {new}
      /\ \A x \in DOMAIN c.ch :
           /\ d.ch[x].parent = c.ch[x].parent
           /\ d.ch[x].childs = c.ch[x].childs
           /\ d.ch[x].validChild = IF x = valid THEN new ELSE c.ch[x].validChild
      /\ d.ch[new] = c.ch[b]
      /\ DOMAIN d.validations = DOMAIN c.validations
      /\ \A p \in DOMAIN c.validations :
           d.validations[p] = IF c.validations[p] = b THEN new ELSE c.validations[p]
  <2>1. Validated(c, d, b, new)
    BY <1>1, ValidateLemma DEF new, d
  <2> QED
    BY <1>3, <1>5, <2>1 DEF Validated
<1>8. WellFormed(d)
  <2>1. Genesis \in DOMAIN d.ch
    BY <1>1, <1>7 DEF WellFormed
  <2>2. ASSUME NEW x \in DOMAIN d.ch \ {Genesis}
        PROVE  /\ Prev(x) \in DOMAIN d.ch
               /\ d.ch[x].parent = Prev(x)
               /\ \/ IsExecuted(x)
                  \/ \E i \in DOMAIN d.ch[Prev(x)].childs : d.ch[Prev(x)].childs[i] = x
    <3>1. CASE x \in DOMAIN c.ch
      BY <1>1, <1>7, <3>1 DEF WellFormed
    <3>2. CASE x = new
      BY <1>3, <1>4, <1>7, <3>2
    <3> QED
      BY <1>7, <3>1, <3>2
  <2>3. ASSUME NEW x \in DOMAIN d.ch, NEW i \in DOMAIN d.ch[x].childs
        PROVE  d.ch[x].childs[i] \in DOMAIN d.ch
    <3>1. CASE x \in DOMAIN c.ch
      BY <1>1, <1>7, <3>1 DEF WellFormed
    <3>2. CASE x = new
      BY <1>6, <1>7, <3>2
    <3> QED
      BY <1>7, <3>1, <3>2
  <2> QED
    BY <2>1, <2>2, <2>3 DEF WellFormed
<1>9. Linked(d)
  <2> SUFFICES ASSUME NEW n \in 1 .. Len(new), NEW x, x = SubSeq(new, 1, n)
               PROVE  x \in DOMAIN d.ch /\ IsExecuted(x) /\ d.ch[Prev(x)].validChild = x
    <3>1. d.validBlock.id = new
      BY <1>7
    <3> QED
      BY <3>1 DEF Linked
  <2>1. CASE n = Len(new)
    <3>1. x = new
      BY <1>4, <2>1 DEF BlockId
    <3> QED
      BY <1>3, <1>4, <1>7, <3>1
  <2>2. CASE n # Len(new)
    <3>1. n \in 1 .. Len(valid)
      BY <1>3, <1>4, <2>2
    <3>2. x = SubSeq(valid, 1, n) /\ Len(x) = n
      BY <1>2, <1>3, <1>4, <3>1 DEF BlockId
    <3>3. x \in DOMAIN c.ch /\ IsExecuted(x) /\ c.ch[Prev(x)].validChild = x
      BY <1>1, <3>1, <3>2 DEF Linked
    <3>4. x # Genesis /\ x \in BlockId
      <4>1. n > 0 /\ Len(Genesis) = 0
        BY <3>1 DEF Genesis
      <4>2. Len(x) = n
        BY <3>2
      <4>3. x # Genesis
        BY ONLY <4>1, <4>2
      <4> QED
        BY <1>2, <3>3, <4>3
    <3>5. Prev(x) \in DOMAIN c.ch /\ Len(Prev(x)) = n - 1
      BY <1>1, <3>2, <3>3, <3>4, PrevLemma DEF WellFormed
    <3>6. Prev(x) # valid
      BY <1>3, <3>1, <3>5
    <3> QED
      BY <1>7, <3>3, <3>5, <3>6
  <2> QED
    BY <2>1, <2>2
<1>10. VotesMoved(d)
  <2> SUFFICES ASSUME NEW p \in DOMAIN d.validations, NEW x, x = d.validations[p],
                      x \in DOMAIN d.ch, ~ IsExecuted(x), NEW a \in AccHash
               PROVE  Executed(x, a) \notin DOMAIN d.ch
    BY DEF VotesMoved
  <2>1. x # new /\ x # b /\ x = c.validations[p] /\ x \in DOMAIN c.ch
    BY <1>4, <1>7
  <2>2. x \in BlockId /\ x # Genesis
    BY <1>2, <2>1 DEF IsExecuted
  <2>3. Executed(x, a) # new
    BY <1>2, <2>1, <2>2, UnexecutedLemma DEF new
  <2>4. Executed(x, a) \notin DOMAIN c.ch
    BY <1>1, <1>7, <2>1 DEF VotesMoved
  <2> QED
    BY <1>7, <2>3, <2>4
<1>11. Bounded(d)
  <2>1. ASSUME NEW x \in DOMAIN d.ch
        PROVE  /\ Len(x) <= Len(new) + 1
               /\ IsExecuted(x) => Len(x) <= Len(new)
               /\ \A i \in DOMAIN d.ch[x].childs : Len(d.ch[x].childs[i]) = Len(x) + 1
    <3>1. Len(x) \in Nat
      BY <1>2, <1>4, <1>7 DEF BlockId
    <3>2. CASE x \in DOMAIN c.ch
      <4>1. /\ Len(x) <= Len(valid) + 1
            /\ IsExecuted(x) => Len(x) <= Len(valid)
            /\ \A i \in DOMAIN c.ch[x].childs : Len(c.ch[x].childs[i]) = Len(x) + 1
        BY <1>1, <3>2 DEF Bounded
      <4>2. d.ch[x].childs = c.ch[x].childs
        BY <1>7, <3>2
      <4> QED
        BY <1>3, <1>4, <3>1, <4>1, <4>2
    <3>3. CASE x = new
      <4>1. d.ch[x].childs = <<>>
        BY ONLY <1>6, <1>7, <3>3
      <4>2. DOMAIN d.ch[x].childs = {}
        BY ONLY <4>1
      <4> QED
        BY ONLY <3>1, <3>3, <4>2
    <3> QED
      BY <1>7, <3>2, <3>3
  <2> QED
    BY <1>6, <1>7, <2>1 DEF Bounded
<1> QED
  BY <1>7, <1>8, <1>9, <1>10, <1>11 DEF ChainInv, d, new

(***************************************************************************)
(* What the consensus asks for: a quorum of the block it accepted last.    *)
(***************************************************************************)
LEMMA BecomesValid ==
    ASSUME NEW c, ChainInv(c), NEW id \in BlockId, id # Genesis, ~ IsExecuted(id),
           \/ Len(id) <= Len(c.validBlock.id)
           \/ Prev(id) = c.validBlock.id,
           HasQuorum(c, id), NEW acc \in AccHash
    PROVE  /\ ChainInv(assignAccountHashToValidBlock(SetValidBlock(c, id), acc))
           /\ assignAccountHashToValidBlock(SetValidBlock(c, id), acc).validBlock.id
                = Executed(id, acc)
           /\ Prev(id) = c.validBlock.id
<1>1. id \in DOMAIN c.ch /\ Len(id) > Len(c.validBlock.id)
  BY DEF HasQuorum, checkQuorum, Sequence
<1>2. c.validBlock.id \in BlockId
  BY DEF ChainInv, IsChain
<1>3. Len(id) \in Nat /\ Len(c.validBlock.id) \in Nat
  BY <1>2 DEF BlockId
<1>4. Prev(id) = c.validBlock.id
  BY <1>1, <1>3
<1> QED
  BY <1>1, <1>4, ValidateInv

\* The search for the preferred block ends where it starts, at the valid block.
LEMMA PreferredLemma ==
    ASSUME NEW c, c.validBlock.node.childs = <<>>
    PROVE  getPreferredBlock(c) = c.validBlock.id
BY DEF getPreferredBlock, Decided

LEMMA NewChainInv == ChainInv(NewChain)
<1> DEFINE c == NewChain
<1> USE DEF NewChain
<1>1. GenesisNode \in NodeType /\ GenesisNode.childs = <<>> /\ GenesisNode.parent = NoBlock
  BY UintAssumption DEF GenesisNode, NewNode, NodeType
<1>2. Genesis \in BlockId /\ Len(Genesis) = 0 /\ IsExecuted(Genesis)
  BY DEF BlockId, Genesis, IsExecuted
<1>3. IsChain(c)
  BY <1>1, <1>2 DEF IsChain
<1>4. WellFormed(c)
  BY <1>1 DEF WellFormed
<1>5. Linked(c)
  BY <1>2 DEF Linked
<1>6. VotesMoved(c) /\ Bounded(c)
  BY <1>1, <1>2 DEF VotesMoved, Bounded
<1> QED
  BY <1>3, <1>4, <1>5, <1>6 DEF ChainInv

-----------------------------------------------------------------------------
(***************************************************************************)
(* What a tip support stands for.  P are the peers of the node, votes the  *)
(* blocks each of them has proposed to it, and repeated says that a peer   *)
(* proposed more than one block of the height that is voted on, the one    *)
(* above the valid block.                                                  *)
(***************************************************************************)
Voters(P, votes, b) == {p \in P : b \in votes[p]}

VotesCounted(c, P, votes, repeated) ==
    /\ \A p \in DOMAIN c.validations :
         c.validations[p] \in BlockId =>
           Len(c.validations[p]) <= Len(c.validBlock.id) + 1
    /\ \A p \in P \intersect DOMAIN c.validations :
         /\ c.validations[p] \in BlockId
         /\ Len(c.validations[p]) = Len(c.validBlock.id) + 1
         => c.validations[p] \in votes[p]
    /\ \A b \in DOMAIN c.ch :
         Len(b) = Len(c.validBlock.id) + 1 =>
           /\ c.ch[b].tipSupport # 0 => Voters(P, votes, b) # {}
           /\ repeated \/ c.ch[b].tipSupport <= Cardinality(Voters(P, votes, b))

\* The tip supports a proposal changes: the one of its block and, of a peer's
\* proposal, the one of the block proposed before.
Supported(c, d, issuer, b, isLocal) ==
    \A x \in DOMAIN d.ch :
        /\ x # b => x \in DOMAIN c.ch
        /\ x \in DOMAIN c.ch /\ (isLocal \/ x # b) =>
             \/ d.ch[x].tipSupport = c.ch[x].tipSupport
             \/ /\ ~ isLocal
                /\ issuer \in DOMAIN c.validations /\ c.validations[issuer] = x
        /\ x = b /\ ~ isLocal /\ x \in DOMAIN c.ch =>
             \/ d.ch[x].tipSupport <= c.ch[x].tipSupport + 1
             \/ issuer \in DOMAIN c.validations /\ c.validations[issuer] = x
        /\ x \notin DOMAIN c.ch => d.ch[x].tipSupport = IF isLocal THEN 0 ELSE 1

LEMMA SupportLemma ==
    ASSUME NEW c, IsChain(c), NEW issuer, NEW b \in BlockId, b # Genesis,
           NEW isLocal \in BOOLEAN
    PROVE  Supported(c, insert(c, issuer, b, isLocal), issuer, b, isLocal)
<1> SUFFICES ASSUME NEW d, d = insert(c, issuer, b, isLocal), NEW x \in DOMAIN d.ch
             PROVE  /\ x # b => x \in DOMAIN c.ch
                    /\ x \in DOMAIN c.ch /\ (isLocal \/ x # b) =>
                         \/ d.ch[x].tipSupport = c.ch[x].tipSupport
                         \/ /\ ~ isLocal
                            /\ issuer \in DOMAIN c.validations
                            /\ c.validations[issuer] = x
                    /\ x = b /\ ~ isLocal /\ x \in DOMAIN c.ch =>
                         \/ d.ch[x].tipSupport <= c.ch[x].tipSupport + 1
                         \/ issuer \in DOMAIN c.validations /\ c.validations[issuer] = x
                    /\ x \notin DOMAIN c.ch => d.ch[x].tipSupport = IF isLocal THEN 0 ELSE 1
  BY Zenon DEF Supported
<1> DEFINE ch == IF isLocal THEN c.ch ELSE WithdrawSupport(c, issuer)
           support == IF isLocal THEN 0 ELSE 1
           w == c.validations[issuer]
<1>1. c.ch \in [DOMAIN c.ch -> NodeType]
  BY DEF IsChain
<1>2. /\ DOMAIN ch = DOMAIN c.ch /\ ch \in [DOMAIN c.ch -> NodeType]
      /\ \A y \in DOMAIN c.ch :
           \/ ch[y] = c.ch[y]
           \/ ~ isLocal /\ issuer \in DOMAIN c.validations /\ w = y
  <2>1. CASE isLocal
    BY <1>1, <2>1
  <2>2. CASE ~ isLocal
    <3>1. SameTree(c.ch, WithdrawSupport(c, issuer))
      BY WithdrawLemma
    <3>2. ASSUME NEW y \in DOMAIN c.ch, ~ (issuer \in DOMAIN c.validations /\ w = y)
          PROVE  WithdrawSupport(c, issuer)[y] = c.ch[y]
      BY <3>2 DEF WithdrawSupport, AddSupport
    <3> QED
      BY <2>2, <3>1, <3>2 DEF SameTree
  <2> QED
    BY <2>1, <2>2
<1>3. d.ch = IF b \in DOMAIN ch THEN AddSupport(ch, b, support)
             ELSE IF Prev(b) \in DOMAIN ch THEN Attach(ch, b, support)
             ELSE ch
  BY DEF insert
<1> HIDE DEF ch, w
<1>4. CASE b \in DOMAIN ch
  <2>1. DOMAIN d.ch = DOMAIN c.ch /\ \A y \in DOMAIN c.ch \ {b} : d.ch[y] = ch[y]
    BY <1>2, <1>3, <1>4 DEF AddSupport
  <2>2. PICK t : t = Uint(ch[b].tipSupport + support)
    OBVIOUS
  <2>3. d.ch[b].tipSupport = t
    <3>1. d.ch = [ch EXCEPT ![b].tipSupport = t]
      BY <1>3, <1>4, <2>2 DEF AddSupport
    <3>2. ch[b] \in NodeType
      BY <1>2, <1>4
    <3> QED
      BY <1>2, <1>4, <3>1, <3>2 DEF NodeType
  <2>4. ch[b].tipSupport \in 0 .. UintModulus - 1
    BY <1>2, <1>4 DEF NodeType
  <2>5. isLocal => t = ch[b].tipSupport
    BY <2>2, <2>4, UintAssumption DEF Uint
  <2>6. ~ isLocal => t <= ch[b].tipSupport + 1
    <3>1. ASSUME NEW k \in Nat, k <= UintModulus PROVE k % UintModulus <= k
      BY <3>1, UintAssumption
    <3> QED
      BY <2>2, <2>4, <3>1, UintAssumption DEF Uint
  <2> QED
    BY <1>2, <1>4, <2>1, <2>3, <2>5, <2>6 DEF w
<1>5. CASE b \notin DOMAIN ch /\ Prev(b) \in DOMAIN ch
  <2>1. d.ch = Put([ch EXCEPT ![Prev(b)].childs = Append(@, b)], b, NewNode(Prev(b), support))
    BY <1>3, <1>5 DEF Attach
  <2>2. PICK grown : grown = [ch EXCEPT ![Prev(b)].childs = Append(@, b)]
    OBVIOUS
  <2>3. /\ DOMAIN grown = DOMAIN c.ch
        /\ \A y \in DOMAIN c.ch : grown[y].tipSupport = ch[y].tipSupport
    BY <1>2, <1>5, <2>2 DEF NodeType
  <2>4. /\ DOMAIN d.ch = DOMAIN c.ch \union {b}
        /\ d.ch[b].tipSupport = support
        /\ \A y \in DOMAIN c.ch : d.ch[y].tipSupport = ch[y].tipSupport
    BY <1>2, <1>5, <2>1, <2>2, <2>3 DEF Put, NewNode
  <2> QED
    BY <1>2, <1>5, <2>4 DEF w
<1>6. CASE b \notin DOMAIN ch /\ Prev(b) \notin DOMAIN ch
  BY <1>2, <1>3, <1>6 DEF w
<1> QED
  BY <1>4, <1>5, <1>6

\* What the tip supports count stays counted when more proposals are known.
LEMMA MoreVotes ==
    ASSUME NEW c, NEW P, IsFiniteSet(P), NEW votes, NEW more,
           NEW repeated \in BOOLEAN, NEW again \in BOOLEAN,
           repeated => again, VotesCounted(c, P, votes, repeated), IsChain(c),
           \A p \in P : \A x \in BlockId : x \in votes[p] => x \in more[p]
    PROVE  VotesCounted(c, P, more, again)
<1>1. ASSUME NEW b \in BlockId
      PROVE  /\ Voters(P, votes, b) \subseteq Voters(P, more, b)
             /\ Cardinality(Voters(P, votes, b)) \in Nat
             /\ Cardinality(Voters(P, more, b)) \in Nat
             /\ Cardinality(Voters(P, votes, b)) <= Cardinality(Voters(P, more, b))
  <2>1. Voters(P, votes, b) \subseteq Voters(P, more, b)
    BY DEF Voters
  <2>2. IsFiniteSet(Voters(P, more, b))
    <3>1. Voters(P, more, b) \subseteq P
      BY DEF Voters
    <3> QED
      BY <3>1, FS_Subset
  <2> QED
    BY <2>1, <2>2, FS_Subset, FS_CardinalityType
<1>2. DOMAIN c.ch \subseteq BlockId /\ \A b \in DOMAIN c.ch : c.ch[b].tipSupport \in Int
  BY UintAssumption DEF IsChain, NodeType
<1>3. ASSUME NEW b \in DOMAIN c.ch, Len(b) = Len(c.validBlock.id) + 1
      PROVE  /\ c.ch[b].tipSupport # 0 => Voters(P, more, b) # {}
             /\ again \/ c.ch[b].tipSupport <= Cardinality(Voters(P, more, b))
  <2>1. /\ c.ch[b].tipSupport # 0 => Voters(P, votes, b) # {}
        /\ repeated \/ c.ch[b].tipSupport <= Cardinality(Voters(P, votes, b))
    BY <1>3 DEF VotesCounted
  <2>2. /\ Voters(P, votes, b) \subseteq Voters(P, more, b)
        /\ Cardinality(Voters(P, votes, b)) \in Nat
        /\ Cardinality(Voters(P, more, b)) \in Nat
        /\ Cardinality(Voters(P, votes, b)) <= Cardinality(Voters(P, more, b))
    BY <1>1, <1>2
  <2> QED
    BY <1>2, <2>1, <2>2
<1> QED
  BY <1>3 DEF VotesCounted

LEMMA NewVotes ==
    ASSUME NEW P, NEW votes, NEW repeated
    PROVE  VotesCounted(NewChain, P, votes, repeated)
BY DEF VotesCounted, NewChain, Genesis

\* The block of this node gets no support of its own.
LEMMA LocalVotes ==
    ASSUME NEW c, ChainInv(c), NEW P, NEW votes, NEW repeated \in BOOLEAN,
           IsFiniteSet(P), VotesCounted(c, P, votes, repeated),
           NEW self \in Validator, self \notin P,
           NEW b \in BlockId, b # Genesis, Len(b) = Len(c.validBlock.id) + 1
    PROVE  VotesCounted(insert(c, self, b, TRUE), P, votes, repeated)
<1> DEFINE d == insert(c, self, b, TRUE)
           valid == c.validBlock.id
<1>1. IsChain(c)
  BY DEF ChainInv
<1>2. IsChain(d) /\ d.validBlock.id = valid
  <2>1. TRUE \in BOOLEAN
    OBVIOUS
  <2>2. Inserted(c, d, b)
    BY <1>1, <2>1, InsertLemma
  <2> QED
    BY <2>2 DEF Inserted
<1>3. \A p \in DOMAIN d.validations :
        \/ d.validations[p] \in {b, Dangling} /\ p = self
        \/ p \in DOMAIN c.validations /\ d.validations[p] = c.validations[p]
  BY DEF insert, Put
<1>4. ASSUME NEW x \in DOMAIN d.ch, Len(x) = Len(valid) + 1
      PROVE  \/ x \in DOMAIN c.ch /\ d.ch[x].tipSupport = c.ch[x].tipSupport
             \/ d.ch[x].tipSupport = 0
  <2>1. TRUE \in BOOLEAN
    OBVIOUS
  <2>2. Supported(c, d, self, b, TRUE)
    BY <1>1, <2>1, SupportLemma
  <2> HIDE DEF d
  <2> QED
    BY <2>2 DEF Supported
<1>5. \A x : Cardinality(Voters(P, votes, x)) \in Nat
  <2>1. \A x : Voters(P, votes, x) \subseteq P
    BY DEF Voters
  <2> QED
    BY <2>1, FS_Subset, FS_CardinalityType
<1> HIDE DEF d, valid
<1>6. ASSUME NEW x \in DOMAIN d.ch, Len(x) = Len(valid) + 1
      PROVE  /\ d.ch[x].tipSupport # 0 => Voters(P, votes, x) # {}
             /\ repeated \/ d.ch[x].tipSupport <= Cardinality(Voters(P, votes, x))
  <2>1. CASE x \in DOMAIN c.ch /\ d.ch[x].tipSupport = c.ch[x].tipSupport
    BY <1>6, <2>1 DEF VotesCounted, valid
  <2>2. CASE d.ch[x].tipSupport = 0
    <3>1. Cardinality(Voters(P, votes, x)) >= 0
      BY <1>5
    <3> QED
      BY <2>2, <3>1
  <2> QED
    BY <1>4, <1>6, <2>1, <2>2
<1>7. ASSUME NEW p \in DOMAIN d.validations, d.validations[p] \in BlockId
      PROVE  Len(d.validations[p]) <= Len(valid) + 1
  <2>1. Len(b) \in Nat /\ Len(valid) \in Nat /\ Len(b) = Len(valid) + 1
    BY <1>1 DEF BlockId, IsChain, valid
  <2>2. CASE d.validations[p] = b
    BY <2>1, <2>2
  <2>3. CASE p \in DOMAIN c.validations /\ d.validations[p] = c.validations[p]
    BY <1>7, <2>3 DEF VotesCounted, valid
  <2> QED
    BY <1>3, <1>7, <2>2, <2>3, PointerAssumption
<1>8. ASSUME NEW p \in P \intersect DOMAIN d.validations, d.validations[p] \in BlockId,
             Len(d.validations[p]) = Len(valid) + 1
      PROVE  d.validations[p] \in votes[p]
  <2>1. p \in DOMAIN c.validations /\ d.validations[p] = c.validations[p]
    BY <1>3
  <2> QED
    BY <1>8, <2>1 DEF VotesCounted, valid
<1>9. VotesCounted(d, P, votes, repeated)
  BY <1>2, <1>6, <1>7, <1>8 DEF VotesCounted
<1> QED
  BY <1>9 DEF d

\* A peer proposes b: the support it gave to another block is withdrawn, which
\* takes it below zero at most if the peer proposed that one, too.
LEMMA PeerVotes ==
    ASSUME NEW c, ChainInv(c), NEW P \in SUBSET Validator, NEW votes, NEW more,
           NEW repeated \in BOOLEAN, NEW again \in BOOLEAN,
           VotesCounted(c, P, votes, repeated), repeated => again,
           \A p \in P : \A x \in BlockId : x \in votes[p] => x \in more[p],
           NEW issuer \in P, NEW b \in BlockId, b # Genesis,
           Len(b) = Len(c.validBlock.id) + 1, b \in more[issuer],
           again \/ \A x \in BlockId : Len(x) = Len(b) => x \notin votes[issuer]
    PROVE  VotesCounted(insert(c, issuer, b, FALSE), P, more, again)
<1> DEFINE d == insert(c, issuer, b, FALSE)
           valid == c.validBlock.id
<1>1. IsChain(c) /\ IsFiniteSet(P)
  BY ValidatorAssumption, FS_Subset DEF ChainInv
<1>2. IsChain(d) /\ d.validBlock.id = valid
  <2>1. FALSE \in BOOLEAN /\ issuer \in Validator
    OBVIOUS
  <2>2. Inserted(c, d, b)
    BY <1>1, <2>1, InsertLemma
  <2> QED
    BY <2>2 DEF Inserted
<1>3. \A p \in DOMAIN d.validations :
        \/ d.validations[p] \in {b, Dangling} /\ p = issuer
        \/ p \in DOMAIN c.validations /\ d.validations[p] = c.validations[p]
  BY DEF insert, Put
<1>4. ASSUME NEW x \in DOMAIN d.ch
      PROVE  /\ x # b => x \in DOMAIN c.ch
             /\ x \in DOMAIN c.ch /\ x # b =>
                  \/ d.ch[x].tipSupport = c.ch[x].tipSupport
                  \/ issuer \in DOMAIN c.validations /\ c.validations[issuer] = x
             /\ x = b /\ x \in DOMAIN c.ch =>
                  \/ d.ch[x].tipSupport <= c.ch[x].tipSupport + 1
                  \/ issuer \in DOMAIN c.validations /\ c.validations[issuer] = x
             /\ x \notin DOMAIN c.ch => d.ch[x].tipSupport = 1
  <2>1. FALSE \in BOOLEAN
    OBVIOUS
  <2>2. Supported(c, d, issuer, b, FALSE)
    BY <1>1, <2>1, SupportLemma
  <2> HIDE DEF d
  <2> QED
    BY <2>2 DEF Supported
<1>5. VotesCounted(c, P, more, again)
  BY <1>1, MoreVotes
<1>6. \A x : IsFiniteSet(Voters(P, votes, x)) /\ IsFiniteSet(Voters(P, more, x))
  <2>1. \A x : Voters(P, votes, x) \subseteq P /\ Voters(P, more, x) \subseteq P
    BY DEF Voters
  <2> QED
    BY <1>1, <2>1, FS_Subset
<1> HIDE DEF d
<1>7. /\ DOMAIN c.ch \subseteq BlockId /\ DOMAIN d.ch \subseteq BlockId
      /\ \A x \in DOMAIN c.ch : c.ch[x].tipSupport \in Int
      /\ \A x \in DOMAIN d.ch : d.ch[x].tipSupport \in Int
      /\ Len(b) \in Nat /\ Len(valid) \in Nat
  BY <1>1, <1>2, UintAssumption DEF IsChain, NodeType, BlockId
<1>8. ASSUME NEW x, issuer \in DOMAIN c.validations, c.validations[issuer] = x,
             x \in BlockId, Len(x) = Len(valid) + 1
      PROVE  again /\ x \in more[issuer]
  <2>1. x \in votes[issuer]
    BY <1>8 DEF VotesCounted
  <2> QED
    BY <1>8, <2>1
<1>9. ASSUME NEW x \in DOMAIN d.ch, Len(x) = Len(valid) + 1
      PROVE  d.ch[x].tipSupport # 0 => Voters(P, more, x) # {}
  <2>1. CASE x = b
    BY <2>1 DEF Voters
  <2>2. CASE issuer \in DOMAIN c.validations /\ c.validations[issuer] = x
    BY <1>7, <1>8, <1>9, <2>2 DEF Voters
  <2>3. CASE x \in DOMAIN c.ch /\ d.ch[x].tipSupport = c.ch[x].tipSupport
    BY <1>5, <1>9, <2>3 DEF VotesCounted
  <2> QED
    BY <1>4, <2>1, <2>2, <2>3
<1>10. ASSUME NEW x \in DOMAIN d.ch, Len(x) = Len(valid) + 1, ~ again
       PROVE  d.ch[x].tipSupport <= Cardinality(Voters(P, more, x))
  <2>1. ~ (issuer \in DOMAIN c.validations /\ c.validations[issuer] = x)
    BY <1>7, <1>8, <1>10
  <2>2. CASE x # b
    BY <1>4, <1>5, <1>10, <2>1, <2>2 DEF VotesCounted
  <2>3. CASE x = b
    <3> DEFINE old == Voters(P, votes, b)
               new == Voters(P, more, b)
    <3>1. issuer \notin old /\ issuer \in new /\ old \subseteq new
      BY <1>10 DEF Voters
    <3>2. IsFiniteSet(old) /\ IsFiniteSet(new)
      BY <1>6
    <3> HIDE DEF old, new
    <3>3. /\ Cardinality(old) \in Nat /\ Cardinality(new) \in Nat
          /\ Cardinality(old) + 1 <= Cardinality(new)
      <4>1. /\ Cardinality(old \union {issuer}) = Cardinality(old) + 1
            /\ IsFiniteSet(old \union {issuer})
        BY <3>1, <3>2, FS_AddElement
      <4>2. Cardinality(old \union {issuer}) <= Cardinality(new)
        <5>1. old \union {issuer} \subseteq new
          BY <3>1
        <5> QED
          BY <3>2, <5>1, FS_Subset
      <4> QED
        BY <3>2, <4>1, <4>2, FS_CardinalityType
    <3>4. CASE x \in DOMAIN c.ch
      <4>1. c.ch[b].tipSupport <= Cardinality(old)
        BY <1>10, <2>3, <3>4 DEF VotesCounted, old
      <4>2. d.ch[b].tipSupport <= c.ch[b].tipSupport + 1
        BY <1>4, <1>10, <2>1, <2>3, <3>4
      <4>3. c.ch[b].tipSupport \in Int /\ d.ch[b].tipSupport \in Int
        BY <1>7, <2>3, <3>4
      <4>4. d.ch[b].tipSupport <= Cardinality(new)
        BY <3>3, <4>1, <4>2, <4>3
      <4> QED
        BY <2>3, <4>4 DEF new
    <3>5. CASE x \notin DOMAIN c.ch
      <4>1. d.ch[b].tipSupport = 1
        BY <1>4, <2>3, <3>5
      <4>2. 1 <= Cardinality(new)
        BY <3>3
      <4> QED
        BY <2>3, <4>1, <4>2 DEF new
    <3> QED
      BY <3>4, <3>5
  <2> QED
    BY <2>2, <2>3
<1>11. ASSUME NEW p \in DOMAIN d.validations, d.validations[p] \in BlockId
       PROVE  Len(d.validations[p]) <= Len(valid) + 1
  <2>1. CASE d.validations[p] = b
    BY <1>7, <2>1
  <2>2. CASE p \in DOMAIN c.validations /\ d.validations[p] = c.validations[p]
    BY <1>11, <2>2 DEF VotesCounted
  <2> QED
    BY <1>3, <1>11, <2>1, <2>2, PointerAssumption
<1>12. ASSUME NEW p \in P \intersect DOMAIN d.validations, d.validations[p] \in BlockId,
              Len(d.validations[p]) = Len(valid) + 1
       PROVE  d.validations[p] \in more[p]
  <2>1. CASE d.validations[p] = b /\ p = issuer
    BY <2>1
  <2>2. CASE p \in DOMAIN c.validations /\ d.validations[p] = c.validations[p]
    BY <1>5, <1>12, <2>2 DEF VotesCounted
  <2> QED
    BY <1>3, <1>12, <2>1, <2>2, PointerAssumption
<1> HIDE DEF valid
<1>13. VotesCounted(d, P, more, again)
  BY <1>2, <1>9, <1>10, <1>11, <1>12 DEF VotesCounted
<1> QED
  BY <1>13 DEF d

\* On a new valid block nothing was proposed yet.
LEMMA ExecutedVotes ==
    ASSUME NEW c, ChainInv(c), NEW P, NEW votes, NEW repeated,
           VotesCounted(c, P, votes, repeated),
           NEW id \in DOMAIN c.ch, id # Genesis, Len(id) = Len(c.validBlock.id) + 1,
           NEW acc \in AccHash, NEW more, NEW again
    PROVE  VotesCounted(assignAccountHashToValidBlock(SetValidBlock(c, id), acc), P, more, again)
<1> DEFINE d == assignAccountHashToValidBlock(SetValidBlock(c, id), acc)
           new == Executed(id, acc)
           valid == c.validBlock.id
<1>1. IsChain(c) /\ Bounded(c)
  BY DEF ChainInv
<1>2. Validated(c, d, id, new)
  BY <1>1, ValidateLemma
<1>3. id \in BlockId /\ Len(id) \in Nat /\ Len(valid) \in Nat
  BY <1>1 DEF IsChain, BlockId
<1>4. new \in BlockId /\ Len(new) = Len(id)
  BY <1>3, ExecutedLemma
<1> HIDE DEF d, new
<1>5. d.validBlock.id = new /\ DOMAIN d.ch = DOMAIN c.ch \union {new}
  BY <1>2 DEF Validated
<1>6. ASSUME NEW b \in DOMAIN d.ch PROVE Len(b) # Len(new) + 1
  <2>1. b \in BlockId
    BY <1>1, <1>4, <1>5 DEF IsChain
  <2>2. Len(b) \in Nat
    BY <2>1 DEF BlockId
  <2>3. Len(b) <= Len(valid) + 1
    BY <1>1, <1>3, <1>4, <1>5 DEF Bounded
  <2> QED
    BY <1>3, <1>4, <2>2, <2>3
<1>7. ASSUME NEW p \in DOMAIN d.validations, d.validations[p] \in BlockId
      PROVE  Len(d.validations[p]) <= Len(new)
  <2>1. CASE d.validations[p] = new
    BY <1>3, <1>4, <2>1
  <2>2. CASE p \in DOMAIN c.validations /\ d.validations[p] = c.validations[p]
    BY <1>3, <1>4, <1>7, <2>2 DEF VotesCounted
  <2> QED
    BY <1>2, <2>1, <2>2 DEF Validated
<1>8. ASSUME NEW p \in DOMAIN d.validations, d.validations[p] \in BlockId
      PROVE  /\ Len(d.validations[p]) <= Len(new) + 1
             /\ Len(d.validations[p]) # Len(new) + 1
  <2>1. Len(d.validations[p]) \in Nat /\ Len(new) \in Nat
    BY <1>4, <1>8 DEF BlockId
  <2> QED
    BY <1>7, <1>8, <2>1
<1>9. VotesCounted(d, P, more, again)
  BY <1>5, <1>6, <1>8 DEF VotesCounted
<1> QED
  BY <1>9 DEF d

\* What checkQuorum finds: more than 80 % of the UNL proposed the block.
LEMMA QuorumVotes ==
    ASSUME NEW c, ChainInv(c), NEW P \in SUBSET Validator, NEW votes, NEW repeated \in BOOLEAN,
           VotesCounted(c, P, votes, repeated), NEW id, HasQuorum(c, id),
           Len(id) = Len(c.validBlock.id) + 1
    PROVE  /\ Voters(P, votes, id) # {}
           /\ repeated \/ 10 * Cardinality(Voters(P, votes, id)) > 8 * UNLcount
<1>1. IsFiniteSet(P) /\ IsFiniteSet(Voters(P, votes, id))
  <2>1. IsFiniteSet(P)
    BY ValidatorAssumption, FS_Subset
  <2>2. Voters(P, votes, id) \subseteq P
    BY DEF Voters
  <2> QED
    BY <2>1, <2>2, FS_Subset
<1>2. UNLcount \in Nat
  <2>1. Cardinality(Validator) \in Nat /\ Cardinality(Validator) # 0
    BY ValidatorAssumption, FS_CardinalityType, FS_EmptySet
  <2> QED
    BY <2>1 DEF UNLcount
<1>3. id \in DOMAIN c.ch /\ 10 * c.ch[id].tipSupport > 8 * UNLcount
  BY DEF HasQuorum, checkQuorum
<1>4. c.ch[id].tipSupport \in Int
  BY <1>3, UintAssumption DEF ChainInv, IsChain, NodeType
<1>5. /\ c.ch[id].tipSupport # 0 => Voters(P, votes, id) # {}
      /\ repeated \/ c.ch[id].tipSupport <= Cardinality(Voters(P, votes, id))
  BY <1>3 DEF VotesCounted
<1>6. Cardinality(Voters(P, votes, id)) \in Nat
  BY <1>1, FS_CardinalityType
<1> QED
  BY <1>2, <1>3, <1>4, <1>5, <1>6

\* The path of a block once it is executed: that of its predecessor, and the
\* block it was proposed as.
LEMMA PathLemma ==
    ASSUME NEW id \in BlockId, id # Genesis, ~ IsExecuted(id), NEW acc \in AccHash,
           NEW v, v = Prev(id), NEW new, new = Executed(id, acc)
    PROVE  /\ Len(v) \in Nat /\ Len(new) = Len(v) + 1 /\ Len(id) = Len(v) + 1
           /\ \A i \in 1 .. Len(v) : SubSeq(new, 1, i) = SubSeq(v, 1, i)
           /\ SubSeq(new, 1, Len(new)) = new
           /\ Proposed(Prev(new), new[Len(new)].tx) = id
<1>1. /\ Len(id) \in Nat /\ Len(id) > 0 /\ Len(v) = Len(id) - 1 /\ v \in BlockId
      /\ new \in BlockId /\ Len(new) = Len(id) /\ Prev(new) = v
  BY PrevLemma, ExecutedLemma
<1> DEFINE e == [tx |-> id[Len(id)].tx, acc |-> acc]
<1>2. new = Append(v, e)
  BY DEF Executed
<1>3. v \in Seq(Entry) /\ id \in Seq(Entry) /\ new \in Seq(Entry)
  BY <1>1 DEF BlockId
<1>4. id[Len(id)] \in Entry
  BY <1>1, <1>3
<1>5. new[Len(new)] = e /\ \A i \in 1 .. Len(v) : new[i] = v[i]
  BY <1>1, <1>2, <1>3
<1>6. \A i \in 1 .. Len(v) : SubSeq(new, 1, i) = SubSeq(v, 1, i)
  BY <1>1, <1>3, <1>5
<1>7. SubSeq(new, 1, Len(new)) = new
  BY <1>1, <1>3
<1>8. Proposed(v, new[Len(new)].tx) = id
  <2>1. new[Len(new)].tx = id[Len(id)].tx
    BY <1>5
  <2>2. id[Len(id)].acc = NullHash
    BY DEF IsExecuted
  <2>3. id[Len(id)] = [tx |-> id[Len(id)].tx, acc |-> NullHash]
    BY <1>4, <2>2 DEF Entry
  <2>4. id = Append(v, id[Len(id)])
    <3>1. v = [i \in 1 .. Len(id) - 1 |-> id[i]]
      BY <1>1, <1>3 DEF Prev
    <3>2. /\ Append(v, id[Len(id)]) \in Seq(Entry)
          /\ Len(Append(v, id[Len(id)])) = Len(id)
      BY <1>1, <1>3, <1>4
    <3>3. \A i \in 1 .. Len(id) : Append(v, id[Len(id)])[i] = id[i]
      BY <1>1, <1>3, <1>4, <3>1
    <3> QED
      BY <1>1, <1>3, <3>2, <3>3
  <2> QED
    BY <2>1, <2>3, <2>4, Zenon DEF Proposed
<1> QED
  BY <1>1, <1>6, <1>7, <1>8
=============================================================================
