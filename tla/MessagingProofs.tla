--------------------------- MODULE MessagingProofs ---------------------------
(***************************************************************************)
(* What message processors announce, ask for and believe, for every        *)
(* network, every set of transactions and accounts, and messages in any    *)
(* order; and that no thread of a process sleeps on work, for every bound  *)
(* on its queues.                                                          *)
(***************************************************************************)
EXTENDS Gossip, Threads, TLAPS

-----------------------------------------------------------------------------
(* Bags of messages *)

LEMMA AddMessages ==
    ASSUME NEW B, IsABag(B), NEW S
    PROVE  /\ IsABag(B (+) SetToBag(S))
           /\ DOMAIN (B (+) SetToBag(S)) = DOMAIN B \union S
BY DEF IsABag, SetToBag, (+)

LEMMA TakeMessage ==
    ASSUME NEW B, IsABag(B), NEW m
    PROVE  /\ IsABag(B (-) SetToBag({m}))
           /\ DOMAIN (B (-) SetToBag({m})) \subseteq DOMAIN B
           /\ DOMAIN B \ {m} \subseteq DOMAIN (B (-) SetToBag({m}))
BY DEF IsABag, SetToBag, (-)

\* The messages in flight after m was processed and the messages of S were sent.
LEMMA ProcessMessage ==
    ASSUME IsABag(net), NEW m, NEW S,
           net' = (net (-) SetToBag({m})) (+) SetToBag(S)
    PROVE  /\ IsABag(net')
           /\ InFlight' \subseteq InFlight \union S
           /\ InFlight \ {m} \subseteq InFlight'
           /\ S \subseteq InFlight'
<1> DEFINE B == net (-) SetToBag({m})
<1>1. /\ IsABag(B)
      /\ DOMAIN B \subseteq DOMAIN net
      /\ DOMAIN net \ {m} \subseteq DOMAIN B
  BY TakeMessage
<1> HIDE DEF B
<1>2. /\ IsABag(B (+) SetToBag(S))
      /\ DOMAIN (B (+) SetToBag(S)) = DOMAIN B \union S
  BY <1>1, AddMessages
<1>3. net' = B (+) SetToBag(S)
  BY DEF B
<1>4. /\ IsABag(net')
      /\ DOMAIN net' = DOMAIN B \union S
  BY <1>2, <1>3
<1> QED
  BY <1>1, <1>4 DEF InFlight, BagToSet

LEMMA SendMessages ==
    ASSUME IsABag(net), NEW S, net' = net (+) SetToBag(S)
    PROVE  /\ IsABag(net')
           /\ InFlight' = InFlight \union S
<1>1. /\ IsABag(net (+) SetToBag(S))
      /\ DOMAIN (net (+) SetToBag(S)) = DOMAIN net \union S
  BY AddMessages
<1>2. /\ IsABag(net')
      /\ DOMAIN net' = DOMAIN net \union S
  BY <1>1
<1> QED
  BY <1>2 DEF InFlight, BagToSet

-----------------------------------------------------------------------------
(* The invariant *)

\* The wallet checked what it has sent and not yet put into the pool.
CreatingIsChecked ==
    \A tx \in creating : Parties[tx] \subseteq DOMAIN accounts[Creator[tx]]

\* Nobody waits for an account it knows: procInvAccount asks for what is not there,
\* and an account that comes is no longer waited for.
WaitingIsUnknown ==
    \A n \in Node : waitingData[n] \cap DOMAIN accounts[n] = {}

IInv ==
    /\ TypeOK
    /\ PoolIsChecked
    /\ CreatingIsChecked
    /\ WaitingIsUnknown
    /\ AnnouncedIsHeld
    /\ WaitingIsAnswered

LEMMA MessageFields ==
    ASSUME NEW type, NEW item, NEW n, NEW p \in Peers(n)
    PROVE  LET m == Message(type, item, n, p)
           IN  /\ m.type = type /\ m.item = item /\ m.from = n /\ m.to = p
               /\ <<m.from, m.to>> \in Connected
BY DEF Message, Peers

\* Who waits is answered as before as long as no message is lost.
LEMMA AnswersStay ==
    ASSUME WaitingIsAnswered, InFlight \subseteq InFlight',
           waitingData' = waitingData, unanswered' = unanswered
    PROVE  WaitingIsAnswered'
<1> SUFFICES ASSUME NEW n \in Node, NEW item \in waitingData[n],
                    <<n, item>> \notin unanswered
             PROVE  \E m \in InFlight' : Brings(m, n, item)
  BY DEF WaitingIsAnswered
<1> PICK m \in InFlight : Brings(m, n, item)
  BY DEF WaitingIsAnswered
<1> WITNESS m \in InFlight'
<1> QED
  OBVIOUS

LEMMA InitInv == Init => IInv
<1> SUFFICES ASSUME Init PROVE IInv
  OBVIOUS
<1> USE GossipAssumption
<1>1. IsABag(net) /\ InFlight = {}
  BY DEF Init, EmptyBag, IsABag, InFlight, BagToSet, SetToBag
<1>2. TypeOK
  BY <1>1 DEF Init, TypeOK
<1>3. PoolIsChecked /\ CreatingIsChecked /\ WaitingIsUnknown /\ WaitingIsAnswered
  BY DEF Init, PoolIsChecked, CreatingIsChecked, WaitingIsUnknown, WaitingIsAnswered
<1>4. AnnouncedIsHeld
  BY <1>1 DEF AnnouncedIsHeld
<1> QED
  BY <1>2, <1>3, <1>4 DEF IInv

-----------------------------------------------------------------------------
(* Every step keeps it *)

LEMMA SendOwnTransactionInv ==
    ASSUME IInv, NEW tx \in Tx, SendOwnTransaction(tx)
    PROVE  IInv'
<1> USE GossipAssumption
<1> DEFINE n == Creator[tx]
           S == {Message("TX", tx, n, p) : p \in Peers(n)}
<1>1. /\ IsABag(net')
      /\ InFlight' = InFlight \union S
  <2>1. net' = net (+) SetToBag(S)
    BY DEF SendOwnTransaction, ToPeers
  <2> QED
    BY <2>1, SendMessages DEF IInv, TypeOK
<1>2. /\ creating' = creating \union {tx}
      /\ Parties[tx] \subseteq DOMAIN accounts[n]
      /\ UNCHANGED <<accounts, waitingData, txPool, executed, unanswered>>
  BY DEF SendOwnTransaction, checkTransaction, history
<1>3. \A m \in S : IsMessage(m) /\ m.type = "TX"
  BY MessageFields DEF IsMessage
<1> HIDE DEF S
<1>4. TypeOK'
  BY <1>1, <1>2, <1>3 DEF IInv, TypeOK
<1>5. PoolIsChecked' /\ CreatingIsChecked' /\ WaitingIsUnknown'
  BY <1>2 DEF IInv, PoolIsChecked, CreatingIsChecked, WaitingIsUnknown
<1>6. AnnouncedIsHeld'
  BY <1>1, <1>2, <1>3 DEF IInv, AnnouncedIsHeld
<1>7. WaitingIsAnswered'
  BY <1>1, <1>2, AnswersStay DEF IInv
<1> QED
  BY <1>4, <1>5, <1>6, <1>7 DEF IInv

LEMMA PoolOwnTransactionInv ==
    ASSUME IInv, NEW tx \in Tx, PoolOwnTransaction(tx)
    PROVE  IInv'
<1> USE GossipAssumption
<1>1. /\ txPool' = [txPool EXCEPT ![Creator[tx]] = @ \union {tx}]
      /\ creating' = creating \ {tx}
      /\ tx \in creating
      /\ UNCHANGED <<net, accounts, waitingData, executed, unanswered>>
  BY DEF PoolOwnTransaction, history
<1>2. InFlight' = InFlight
  BY <1>1 DEF InFlight
<1>3. TypeOK'
  BY <1>1, <1>2 DEF IInv, TypeOK
<1>4. PoolIsChecked' /\ CreatingIsChecked' /\ WaitingIsUnknown'
  BY <1>1 DEF IInv, TypeOK, PoolIsChecked, CreatingIsChecked, WaitingIsUnknown
<1>5. \A n \in Node : txPool[n] \subseteq txPool'[n]
  BY <1>1 DEF IInv, TypeOK
<1>6. AnnouncedIsHeld'
  BY <1>1, <1>2, <1>5 DEF IInv, TypeOK, IsMessage, AnnouncedIsHeld
<1>7. WaitingIsAnswered'
  BY <1>1, <1>2, AnswersStay DEF IInv
<1> QED
  BY <1>3, <1>4, <1>6, <1>7 DEF IInv

LEMMA ExecuteInv ==
    ASSUME IInv, NEW n \in Node, NEW tx \in Tx, Execute(n, tx)
    PROVE  IInv'
<1> USE GossipAssumption
<1>1. /\ txPool' = [txPool EXCEPT ![n] = @ \ {tx}]
      /\ executed' = [executed EXCEPT ![n] = @ \union {tx}]
      /\ UNCHANGED <<net, accounts, waitingData, creating, unanswered>>
  BY DEF Execute, history
<1>2. InFlight' = InFlight
  BY <1>1 DEF InFlight
<1>3. TypeOK'
  BY <1>1, <1>2 DEF IInv, TypeOK
<1>4. PoolIsChecked' /\ CreatingIsChecked' /\ WaitingIsUnknown'
  BY <1>1 DEF IInv, TypeOK, PoolIsChecked, CreatingIsChecked, WaitingIsUnknown
<1>5. \A k \in Node : txPool[k] \union executed[k] \subseteq txPool'[k] \union executed'[k]
  BY <1>1 DEF IInv, TypeOK
<1>6. AnnouncedIsHeld'
  BY <1>1, <1>2, <1>5 DEF IInv, TypeOK, IsMessage, AnnouncedIsHeld
<1>7. WaitingIsAnswered'
  BY <1>1, <1>2, AnswersStay DEF IInv
<1> QED
  BY <1>3, <1>4, <1>6, <1>7 DEF IInv

\* Sending what is no announcement, or an announcement of what is held.
LEMMA ProposeInv ==
    ASSUME IInv, NEW n \in Node, Propose(n)
    PROVE  IInv'
<1> USE GossipAssumption
<1> DEFINE S == {Message("TXSETPROPOSAL", txPool[n], n, p) : p \in Peers(n)}
<1>1. /\ IsABag(net')
      /\ InFlight' = InFlight \union S
  <2>1. net' = net (+) SetToBag(S)
    BY DEF Propose, ToPeers
  <2> QED
    BY <2>1, SendMessages DEF IInv, TypeOK
<1>2. UNCHANGED <<accounts, waitingData, txPool, creating, executed, unanswered>>
  BY DEF Propose, pools, history
<1>3. \A m \in S : IsMessage(m) /\ m.type = "TXSETPROPOSAL"
  <2>1. txPool[n] \subseteq Tx
    BY DEF IInv, TypeOK
  <2> QED
    BY <2>1, MessageFields DEF IsMessage
<1> HIDE DEF S
<1>4. TypeOK'
  BY <1>1, <1>2, <1>3 DEF IInv, TypeOK
<1>5. PoolIsChecked' /\ CreatingIsChecked' /\ WaitingIsUnknown'
  BY <1>2 DEF IInv, PoolIsChecked, CreatingIsChecked, WaitingIsUnknown
<1>6. AnnouncedIsHeld'
  BY <1>1, <1>2, <1>3 DEF IInv, AnnouncedIsHeld
<1>7. WaitingIsAnswered'
  BY <1>1, <1>2, AnswersStay DEF IInv
<1> QED
  BY <1>4, <1>5, <1>6, <1>7 DEF IInv

LEMMA AnnounceInv ==
    ASSUME IInv, NEW n \in Node, NEW item, Announce(n, item)
    PROVE  IInv'
<1> USE GossipAssumption
<1> PICK p \in Peers(n) : net' = net (+) ToPeers("INV", item, n, {p})
  BY DEF Announce
<1> DEFINE S == {Message("INV", item, n, q) : q \in {p}}
<1>1. /\ IsABag(net')
      /\ InFlight' = InFlight \union S
  <2>1. net' = net (+) SetToBag(S)
    BY DEF ToPeers
  <2> QED
    BY <2>1, SendMessages DEF IInv, TypeOK
<1>2. /\ UNCHANGED <<accounts, waitingData, txPool, creating, executed, unanswered>>
      /\ item \in DOMAIN accounts[n] \union Blocks[n]
  BY DEF Announce, pools, history
<1>3. \A m \in S : IsMessage(m) /\ m.type = "INV" /\ m.item = item /\ m.from = n
  BY MessageFields DEF IsMessage
<1> HIDE DEF S
<1>4. TypeOK'
  BY <1>1, <1>2, <1>3 DEF IInv, TypeOK
<1>5. PoolIsChecked' /\ CreatingIsChecked' /\ WaitingIsUnknown'
  BY <1>2 DEF IInv, PoolIsChecked, CreatingIsChecked, WaitingIsUnknown
<1>6. AnnouncedIsHeld'
  BY <1>1, <1>2, <1>3 DEF IInv, AnnouncedIsHeld
<1>7. WaitingIsAnswered'
  BY <1>1, <1>2, AnswersStay DEF IInv
<1> QED
  BY <1>4, <1>5, <1>6, <1>7 DEF IInv

-----------------------------------------------------------------------------
(* Processing a message *)

LEMMA ProcTransactionInv ==
    ASSUME IInv, NEW m \in InFlight, ProcTransaction(m)
    PROVE  IInv'
<1> USE GossipAssumption
<1> DEFINE n == m.to
           isNew == checkTransaction(n, m.item) /\ m.item \notin txPool[n]
           S == IF isNew THEN {Message("INV", m.item, n, p) : p \in Peers(n) \ {m.from}} ELSE {}
<1>1. /\ IsABag(net')
      /\ InFlight' \subseteq InFlight \union S
      /\ InFlight \ {m} \subseteq InFlight'
  <2>1. net' = (net (-) SetToBag({m})) (+) SetToBag(S)
    BY DEF ProcTransaction, forwardInvMessage, ToPeers, EmptyBag
  <2> HIDE DEF S
  <2> QED
    BY <2>1, ProcessMessage DEF IInv, TypeOK
<1>2. /\ m.type = "TX"
      /\ waitingData' = [waitingData EXCEPT ![n] = @ \ {m.item}]
      /\ txPool' = IF isNew THEN [txPool EXCEPT ![n] = @ \union {m.item}] ELSE txPool
      /\ UNCHANGED <<accounts, creating, executed, unanswered>>
  BY DEF ProcTransaction, erase, history
<1>3. \A s \in S : /\ IsMessage(s) /\ s.type = "INV" /\ s.from = n /\ s.item = m.item
                   /\ isNew
  BY MessageFields DEF IsMessage
<1>4. n \in Node /\ m.item \in Tx
  BY <1>2 DEF IInv, TypeOK, IsMessage
<1>5. isNew => Parties[m.item] \subseteq DOMAIN accounts[n]
  BY DEF checkTransaction
<1>6. \A k \in Node : txPool[k] \subseteq txPool'[k]
  BY <1>2, <1>4 DEF IInv, TypeOK
<1>7. isNew => m.item \in txPool'[n]
  BY <1>2, <1>4 DEF IInv, TypeOK
<1> HIDE DEF S, isNew, n
<1>8. TypeOK'
  BY <1>1, <1>2, <1>3, <1>4 DEF IInv, TypeOK
<1>9. PoolIsChecked' /\ CreatingIsChecked' /\ WaitingIsUnknown'
  BY <1>2, <1>4, <1>5 DEF IInv, TypeOK, PoolIsChecked, CreatingIsChecked, WaitingIsUnknown
<1>10. AnnouncedIsHeld'
  <2>1. UNCHANGED <<accounts, executed>>
    BY <1>2
  <2>2. SUFFICES ASSUME NEW x \in InFlight', x.type = "INV"
                 PROVE  \/ x.item \in txPool'[x.from] \union executed[x.from]
                        \/ x.item \in DOMAIN accounts[x.from]
                        \/ x.item \in Blocks[x.from]
    BY <2>1 DEF AnnouncedIsHeld
  <2>3. CASE x \in InFlight
    BY <1>6, <2>2, <2>3 DEF IInv, TypeOK, IsMessage, AnnouncedIsHeld
  <2>4. CASE x \in S
    BY <1>3, <1>7, <2>4
  <2> QED
    BY <1>1, <2>3, <2>4
<1>11. WaitingIsAnswered'
  <2>1. waitingData \in [Node -> SUBSET (Tx \union Account)]
    BY DEF IInv, TypeOK
  <2>2. SUFFICES ASSUME NEW k \in Node, NEW item \in waitingData'[k],
                        <<k, item>> \notin unanswered
                 PROVE  \E x \in InFlight' : Brings(x, k, item)
    <3>1. unanswered' = unanswered
      BY <1>2
    <3> QED
      BY <3>1 DEF WaitingIsAnswered
  <2>3. item \in waitingData[k] /\ ~ (k = n /\ item = m.item)
    BY <1>2, <2>1
  <2> PICK x \in InFlight : Brings(x, k, item)
    BY <2>2, <2>3 DEF IInv, WaitingIsAnswered
  <2>4. x # m
    BY <1>2, <2>3 DEF Brings, n
  <2> QED
    BY <1>1, <2>4
<1> QED
  BY <1>8, <1>9, <1>10, <1>11 DEF IInv

LEMMA ProcTxSetProposalInv ==
    ASSUME IInv, NEW m \in InFlight, ProcTxSetProposal(m)
    PROVE  IInv'
<1> USE GossipAssumption
<1> DEFINE n == m.to
<1> PICK new : /\ new \subseteq {tx \in m.item \ txPool[n] : checkTransaction(n, tx)}
               /\ txPool' = [txPool EXCEPT ![n] = @ \union new]
               /\ waitingData' = [waitingData EXCEPT ![n] = @ \ new]
  BY DEF ProcTxSetProposal
<1>1. /\ IsABag(net')
      /\ InFlight' \subseteq InFlight
      /\ InFlight \ {m} \subseteq InFlight'
  BY TakeMessage DEF ProcTxSetProposal, IInv, TypeOK, InFlight, BagToSet
<1>2. /\ m.type = "TXSETPROPOSAL"
      /\ UNCHANGED <<accounts, creating, executed, unanswered>>
  BY DEF ProcTxSetProposal
<1>3. n \in Node /\ m.item \subseteq Tx
  BY <1>2 DEF IInv, TypeOK, IsMessage
<1>4. new \subseteq Tx /\ \A tx \in new : Parties[tx] \subseteq DOMAIN accounts[n]
  BY <1>3 DEF checkTransaction
<1>5. \A k \in Node : txPool[k] \subseteq txPool'[k] /\ waitingData'[k] \subseteq waitingData[k]
  BY <1>3 DEF IInv, TypeOK
<1> HIDE DEF n
<1>6. TypeOK'
  BY <1>1, <1>2, <1>3, <1>4 DEF IInv, TypeOK
<1>7. PoolIsChecked' /\ CreatingIsChecked' /\ WaitingIsUnknown'
  <2>1. PoolIsChecked'
    BY <1>2, <1>3, <1>4 DEF IInv, TypeOK, PoolIsChecked
  <2>2. CreatingIsChecked' /\ WaitingIsUnknown'
    BY <1>2, <1>5 DEF IInv, CreatingIsChecked, WaitingIsUnknown
  <2> QED
    BY <2>1, <2>2
<1>8. AnnouncedIsHeld'
  BY <1>1, <1>2, <1>5 DEF IInv, TypeOK, IsMessage, AnnouncedIsHeld
<1>9. WaitingIsAnswered'
  <2>1. SUFFICES ASSUME NEW k \in Node, NEW item \in waitingData'[k],
                        <<k, item>> \notin unanswered
                 PROVE  \E x \in InFlight' : Brings(x, k, item)
    <3>1. unanswered' = unanswered
      BY <1>2
    <3> QED
      BY <3>1 DEF WaitingIsAnswered
  <2> PICK x \in InFlight : Brings(x, k, item)
    BY <1>5, <2>1 DEF IInv, WaitingIsAnswered
  <2>2. x # m
    BY <1>2 DEF Brings
  <2> QED
    BY <1>1, <2>2
<1> QED
  BY <1>6, <1>7, <1>8, <1>9 DEF IInv

LEMMA ProcAccountInv ==
    ASSUME IInv, NEW m \in InFlight, ProcAccount(m)
    PROVE  IInv'
<1> USE GossipAssumption
<1> DEFINE n == m.to
           a == m.item.account
           taken == a \in waitingData[n] \/ a \notin DOMAIN accounts[n]
           S == IF taken THEN {Message("INV", a, n, p) : p \in Peers(n) \ {m.from}} ELSE {}
<1>1. /\ IsABag(net')
      /\ InFlight' \subseteq InFlight \union S
      /\ InFlight \ {m} \subseteq InFlight'
  <2>1. net' = (net (-) SetToBag({m})) (+) SetToBag(S)
    BY DEF ProcAccount, forwardInvMessage, ToPeers, EmptyBag
  <2> HIDE DEF S
  <2> QED
    BY <2>1, ProcessMessage DEF IInv, TypeOK
<1>2. /\ m.type = "ACCOUNT"
      /\ waitingData' = [waitingData EXCEPT ![n] = @ \ {a}]
      /\ accounts' = IF taken
                     THEN [accounts EXCEPT ![n] = [x \in DOMAIN @ \union {a} |->
                              IF x = a THEN m.item.record ELSE @[x]]]
                     ELSE accounts
      /\ UNCHANGED <<txPool, creating, executed, unanswered>>
  BY DEF ProcAccount, pools, history
<1>3. \A s \in S : /\ IsMessage(s) /\ s.type = "INV" /\ s.from = n /\ s.item = a
                   /\ taken
  BY MessageFields DEF IsMessage
<1>4. n \in Node /\ a \in Account /\ m.item.record \in Node
  BY <1>2 DEF IInv, TypeOK, IsMessage
<1> HIDE DEF S, n, a
\* What is known afterwards.
<1>5. /\ DOMAIN accounts' = Node
      /\ \A k \in Node \ {n} : accounts'[k] = accounts[k]
      /\ ~ taken => accounts'[n] = accounts[n]
      /\ taken => /\ DOMAIN accounts'[n] = DOMAIN accounts[n] \union {a}
                  /\ accounts'[n] \in [DOMAIN accounts'[n] -> Node]
  BY <1>2, <1>4 DEF IInv, TypeOK
<1>6. \A k \in Node : /\ DOMAIN accounts[k] \subseteq DOMAIN accounts'[k]
                      /\ DOMAIN accounts'[k] \subseteq
                            DOMAIN accounts[k] \union (IF k = n THEN {a} ELSE {})
  BY <1>5
<1>7. taken => a \in DOMAIN accounts'[n]
  BY <1>5
<1>8. \A k \in Node : waitingData'[k] = waitingData[k] \ (IF k = n THEN {a} ELSE {})
  BY <1>2, <1>4 DEF IInv, TypeOK
<1>9. waitingData' \in [Node -> SUBSET (Tx \union Account)]
  BY <1>2, <1>4 DEF IInv, TypeOK
<1>10. \A k \in Node : /\ DOMAIN accounts'[k] \subseteq Account
                       /\ accounts'[k] \in [DOMAIN accounts'[k] -> Node]
  BY <1>4, <1>5, <1>6, ZenonT(60) DEF IInv, TypeOK
<1> HIDE DEF taken
<1>11. TypeOK'
  <2>1. UNCHANGED <<txPool, creating, executed>>
    BY <1>2
  <2>2. \A x \in InFlight' : IsMessage(x)
    BY <1>1, <1>3 DEF IInv, TypeOK
  <2> QED
    BY <1>1, <1>5, <1>9, <1>10, <2>1, <2>2 DEF IInv, TypeOK
<1>12. PoolIsChecked' /\ CreatingIsChecked' /\ WaitingIsUnknown'
  <2>1. UNCHANGED <<txPool, creating>>
    BY <1>2
  <2>2. PoolIsChecked'
    BY <1>6, <2>1 DEF IInv, PoolIsChecked
  <2>3. CreatingIsChecked'
    <3>1. \A tx \in creating : Creator[tx] \in Node
      BY DEF IInv, TypeOK
    <3> QED
      BY <1>6, <2>1, <3>1 DEF IInv, CreatingIsChecked
  <2>4. WaitingIsUnknown'
    BY <1>6, <1>8 DEF IInv, WaitingIsUnknown
  <2> QED
    BY <2>2, <2>3, <2>4
<1>13. AnnouncedIsHeld'
  <2>1. UNCHANGED <<txPool, executed>>
    BY <1>2
  <2>2. SUFFICES ASSUME NEW x \in InFlight', x.type = "INV"
                 PROVE  \/ x.item \in txPool[x.from] \union executed[x.from]
                        \/ x.item \in DOMAIN accounts'[x.from]
                        \/ x.item \in Blocks[x.from]
    BY <2>1 DEF AnnouncedIsHeld
  <2>3. CASE x \in InFlight
    BY <1>6, <2>2, <2>3, ZenonT(60) DEF IInv, TypeOK, IsMessage, AnnouncedIsHeld
  <2>4. CASE x \in S
    BY <1>3, <1>7, <2>4
  <2> QED
    BY <1>1, <2>3, <2>4
<1>14. WaitingIsAnswered'
  <2>1. SUFFICES ASSUME NEW k \in Node, NEW item \in waitingData'[k],
                        <<k, item>> \notin unanswered
                 PROVE  \E x \in InFlight' : Brings(x, k, item)
    <3>1. unanswered' = unanswered
      BY <1>2
    <3> QED
      BY <3>1 DEF WaitingIsAnswered
  <2>2. item \in waitingData[k] /\ ~ (k = n /\ item = a)
    BY <1>8
  <2> PICK x \in InFlight : Brings(x, k, item)
    BY <2>1, <2>2 DEF IInv, WaitingIsAnswered
  <2>3. x # m
    BY <1>2, <2>2 DEF Brings, n, a
  <2> QED
    BY <1>1, <2>3
<1> QED
  BY <1>11, <1>12, <1>13, <1>14 DEF IInv

LEMMA ProcInvInv ==
    ASSUME IInv, NEW m \in InFlight, ProcInv(m)
    PROVE  IInv'
<1> USE GossipAssumption
<1> DEFINE n == m.to
           asks == m.item \notin waitingData[n] /\ ~ Known(n, m.item)
           r == Message("GETDATA", m.item, n, m.from)
           S == IF asks THEN {Message("GETDATA", m.item, n, p) : p \in {m.from}} ELSE {}
<1>1. /\ IsABag(net')
      /\ InFlight' \subseteq InFlight \union S
      /\ InFlight \ {m} \subseteq InFlight'
      /\ S \subseteq InFlight'
  <2>1. net' = (net (-) SetToBag({m})) (+) SetToBag(S)
    BY DEF ProcInv, request, ToPeers, EmptyBag
  <2> HIDE DEF S
  <2> QED
    BY <2>1, ProcessMessage DEF IInv, TypeOK
<1>2. /\ m.type = "INV"
      /\ m.item \in Tx \union Account
      /\ waitingData' = IF asks THEN [waitingData EXCEPT ![n] = @ \union {m.item}]
                        ELSE waitingData
      /\ UNCHANGED <<accounts, txPool, creating, executed, unanswered>>
  BY DEF ProcInv, pools, history
<1>3. n \in Node /\ m.from \in Peers(n)
  BY <1>2 DEF IInv, TypeOK, IsMessage, Peers
<1>4. r.type = "GETDATA" /\ r.item = m.item /\ r.from = n /\ IsMessage(r)
  BY <1>3, MessageFields DEF IsMessage
<1>5. S = IF asks THEN {r} ELSE {}
  OBVIOUS
<1>6. asks /\ m.item \in Account => m.item \notin DOMAIN accounts[n]
  BY DEF Known
<1> HIDE DEF S, r, n
<1>7. TypeOK'
  <2>1. UNCHANGED <<accounts, txPool, creating, executed>>
    BY <1>2
  <2>2. \A x \in InFlight' : IsMessage(x)
    BY <1>1, <1>4, <1>5 DEF IInv, TypeOK
  <2>3. waitingData' \in [Node -> SUBSET (Tx \union Account)]
    BY <1>2, <1>3 DEF IInv, TypeOK
  <2> QED
    BY <1>1, <2>1, <2>2, <2>3 DEF IInv, TypeOK
<1>8. \A k \in Node :
        waitingData'[k] = waitingData[k] \union (IF k = n /\ asks THEN {m.item} ELSE {})
  BY <1>2, <1>3 DEF IInv, TypeOK
<1>9. PoolIsChecked' /\ CreatingIsChecked' /\ WaitingIsUnknown'
  <2>1. UNCHANGED <<accounts, txPool, creating>>
    BY <1>2
  <2>2. PoolIsChecked' /\ CreatingIsChecked'
    BY <2>1 DEF IInv, PoolIsChecked, CreatingIsChecked
  <2>3. \A k \in Node : DOMAIN accounts[k] \subseteq Account
    BY DEF IInv, TypeOK
  <2>4. WaitingIsUnknown'
    BY <1>6, <1>8, <2>1, <2>3 DEF IInv, WaitingIsUnknown
  <2> QED
    BY <2>2, <2>4
<1>10. AnnouncedIsHeld'
  <2>1. UNCHANGED <<accounts, txPool, executed>>
    BY <1>2
  <2>2. \A x \in InFlight' : x.type = "INV" => x \in InFlight
    BY <1>1, <1>4, <1>5
  <2> QED
    BY <2>1, <2>2 DEF IInv, AnnouncedIsHeld
<1>11. WaitingIsAnswered'
  <2>1. SUFFICES ASSUME NEW k \in Node, NEW item \in waitingData'[k],
                        <<k, item>> \notin unanswered
                 PROVE  \E x \in InFlight' : Brings(x, k, item)
    <3>1. unanswered' = unanswered
      BY <1>2
    <3> QED
      BY <3>1 DEF WaitingIsAnswered
  <2>2. CASE item \in waitingData[k]
    <3> PICK x \in InFlight : Brings(x, k, item)
      BY <2>1, <2>2 DEF IInv, WaitingIsAnswered
    <3>1. x # m
      BY <1>2 DEF Brings
    <3> QED
      BY <1>1, <3>1
  <2>3. CASE k = n /\ asks /\ item = m.item
    <3>1. r \in InFlight'
      BY <1>1, <1>5, <2>3
    <3>2. Brings(r, k, item)
      BY <1>4, <2>3 DEF Brings
    <3> QED
      BY <3>1, <3>2
  <2> QED
    BY <1>8, <2>2, <2>3
<1> QED
  BY <1>7, <1>9, <1>10, <1>11 DEF IInv

LEMMA ProcInvBlockInv ==
    ASSUME IInv, NEW m \in InFlight, ProcInvBlock(m)
    PROVE  IInv'
<1> USE GossipAssumption
<1> DEFINE n == m.to
<1> PICK asks \in BOOLEAN :
        net' = (net (-) SetToBag({m}))
                 (+) (IF asks THEN request(n, m.item, m.from) ELSE EmptyBag)
  <2> DEFINE quorum == blockInvQuorum[n]
             counted == m.item \in DOMAIN quorum
             A == counted /\ quorum[m.item] # 0 /\ enough(n, quorum[m.item] + 1)
  <2>1. net' = (net (-) SetToBag({m}))
                 (+) (IF A THEN request(n, m.item, m.from) ELSE EmptyBag)
    BY DEF ProcInvBlock
  <2> HIDE DEF A
  <2>2. CASE A
    BY <2>1, <2>2
  <2>3. CASE ~ A
    BY <2>1, <2>3
  <2> QED
    BY <2>2, <2>3
<1> DEFINE S == IF asks THEN {Message("GETDATA", m.item, n, p) : p \in {m.from}} ELSE {}
<1>1. /\ IsABag(net')
      /\ InFlight' \subseteq InFlight \union S
      /\ InFlight \ {m} \subseteq InFlight'
  <2>1. net' = (net (-) SetToBag({m})) (+) SetToBag(S)
    BY DEF request, ToPeers, EmptyBag
  <2> HIDE DEF S
  <2> QED
    BY <2>1, ProcessMessage DEF IInv, TypeOK
<1>2. /\ m.type = "INV"
      /\ UNCHANGED <<accounts, waitingData, txPool, creating, executed, unanswered>>
  BY DEF ProcInvBlock, pools
<1>3. m.from \in Peers(n)
  BY DEF IInv, TypeOK, IsMessage, Peers
<1>4. \A s \in S : s.type = "GETDATA" /\ IsMessage(s)
  BY <1>3, MessageFields DEF IsMessage
<1> HIDE DEF S, n
<1>5. TypeOK'
  <2>1. \A x \in InFlight' : IsMessage(x)
    BY <1>1, <1>4 DEF IInv, TypeOK
  <2> QED
    BY <1>1, <1>2, <2>1 DEF IInv, TypeOK
<1>6. PoolIsChecked' /\ CreatingIsChecked' /\ WaitingIsUnknown'
  BY <1>2 DEF IInv, PoolIsChecked, CreatingIsChecked, WaitingIsUnknown
<1>7. AnnouncedIsHeld'
  <2>1. \A x \in InFlight' : x.type = "INV" => x \in InFlight
    BY <1>1, <1>4
  <2> QED
    BY <1>2, <2>1 DEF IInv, AnnouncedIsHeld
<1>8. WaitingIsAnswered'
  <2>1. UNCHANGED <<waitingData, unanswered>>
    BY <1>2
  <2>2. SUFFICES ASSUME NEW k \in Node, NEW item \in waitingData[k],
                        <<k, item>> \notin unanswered
                 PROVE  \E x \in InFlight' : Brings(x, k, item)
    BY <2>1 DEF WaitingIsAnswered
  <2> PICK x \in InFlight : Brings(x, k, item)
    BY <2>2 DEF IInv, WaitingIsAnswered
  <2>3. x # m
    BY <1>2 DEF Brings
  <2> QED
    BY <1>1, <2>3
<1> QED
  BY <1>5, <1>6, <1>7, <1>8 DEF IInv

\* A request is answered by the transaction or the account, or noted as unanswered.
LEMMA ProcGetDataInv ==
    ASSUME IInv, NEW m \in InFlight, ProcGetData(m)
    PROVE  IInv'
<1> USE GossipAssumption
<1> DEFINE n == m.to
           S == {Message(x[1], x[2], n, m.from) : x \in Answer(n, m.item)}
<1>1. /\ IsABag(net')
      /\ InFlight' \subseteq InFlight \union S
      /\ InFlight \ {m} \subseteq InFlight'
      /\ S \subseteq InFlight'
  <2>1. net' = (net (-) SetToBag({m})) (+) SetToBag(S)
    BY DEF ProcGetData
  <2> HIDE DEF S
  <2> QED
    BY <2>1, ProcessMessage DEF IInv, TypeOK
<1>2. /\ m.type = "GETDATA"
      /\ unanswered' = IF S = {} THEN unanswered \union {<<m.from, m.item>>} ELSE unanswered
      /\ UNCHANGED <<accounts, waitingData, txPool, creating, executed>>
  BY DEF ProcGetData, pools
<1>3. n \in Node /\ m.from \in Peers(n) /\ m.from \in Node
  BY <1>2 DEF IInv, TypeOK, IsMessage, Peers
<1>4. \A s \in S : IsMessage(s) /\ s.type # "INV" /\ Brings(s, m.from, m.item)
  <2>1. SUFFICES ASSUME NEW x \in Answer(n, m.item)
                 PROVE  LET s == Message(x[1], x[2], n, m.from)
                        IN  IsMessage(s) /\ s.type # "INV" /\ Brings(s, m.from, m.item)
    OBVIOUS
  <2> DEFINE s == Message(x[1], x[2], n, m.from)
  <2>2. /\ s.type = x[1] /\ s.item = x[2] /\ s.to = m.from
        /\ <<s.from, s.to>> \in Connected
    BY <1>3, MessageFields
  <2>3. CASE x = <<"TX", m.item>> /\ m.item \in Tx
    BY <2>2, <2>3 DEF IsMessage, Brings
  <2>4. CASE /\ x = <<"ACCOUNT", [account |-> m.item, record |-> accounts[n][m.item]]>>
             /\ m.item \in Account /\ m.item \in DOMAIN accounts[n]
    <3>1. accounts[n][m.item] \in Node
      BY <1>3, <2>4 DEF IInv, TypeOK
    <3> QED
      BY <2>2, <2>4, <3>1 DEF IsMessage, Brings
  <2> QED
    BY <2>3, <2>4 DEF Answer, getRawBlock
<1> HIDE DEF S, n
<1>5. TypeOK'
  <2>1. \A x \in InFlight' : IsMessage(x)
    BY <1>1, <1>4 DEF IInv, TypeOK
  <2> QED
    BY <1>1, <1>2, <2>1 DEF IInv, TypeOK
<1>6. PoolIsChecked' /\ CreatingIsChecked' /\ WaitingIsUnknown'
  BY <1>2 DEF IInv, PoolIsChecked, CreatingIsChecked, WaitingIsUnknown
<1>7. AnnouncedIsHeld'
  <2>1. \A x \in InFlight' : x.type = "INV" => x \in InFlight
    BY <1>1, <1>4
  <2> QED
    BY <1>2, <2>1 DEF IInv, AnnouncedIsHeld
<1>8. WaitingIsAnswered'
  <2>1. waitingData' = waitingData
    BY <1>2
  <2>2. unanswered \subseteq unanswered'
    BY <1>2
  <2>3. SUFFICES ASSUME NEW k \in Node, NEW item \in waitingData[k],
                        <<k, item>> \notin unanswered'
                 PROVE  \E x \in InFlight' : Brings(x, k, item)
    BY <2>1 DEF WaitingIsAnswered
  <2> PICK x \in InFlight : Brings(x, k, item)
    BY <2>2, <2>3 DEF IInv, WaitingIsAnswered
  <2>4. CASE x = m
    <3>1. k = m.from /\ item = m.item
      BY <1>2, <2>4 DEF Brings
    <3>2. S # {}
      BY <1>2, <2>3, <3>1
    <3> PICK s \in S : TRUE
      BY <3>2
    <3> QED
      BY <1>1, <1>4, <3>1
  <2>5. CASE x # m
    BY <1>1, <2>5
  <2> QED
    BY <2>4, <2>5
<1> QED
  BY <1>5, <1>6, <1>7, <1>8 DEF IInv

-----------------------------------------------------------------------------
LEMMA NextInv == IInv /\ [Next]_vars => IInv'
<1> SUFFICES ASSUME IInv, [Next]_vars PROVE IInv'
  OBVIOUS
<1>1. ASSUME NEW n \in Node, NEW m \in {x \in BagToSet(net) : x.to = n}, Process(m)
      PROVE  IInv'
  <2>1. m \in InFlight
    BY DEF InFlight
  <2> QED
    BY <1>1, <2>1, ProcTransactionInv, ProcTxSetProposalInv, ProcAccountInv, ProcInvInv,
       ProcInvBlockInv, ProcGetDataInv DEF Process
<1>2. ASSUME NEW tx \in Tx, SendOwnTransaction(tx) \/ PoolOwnTransaction(tx)
      PROVE  IInv'
  BY <1>2, SendOwnTransactionInv, PoolOwnTransactionInv
<1>3. ASSUME NEW n \in Node, NEW tx \in Tx, Execute(n, tx)
      PROVE  IInv'
  BY <1>3, ExecuteInv
<1>4. ASSUME NEW n \in Node, Propose(n)
      PROVE  IInv'
  BY <1>4, ProposeInv
<1>5. ASSUME NEW n \in Node, NEW item \in Account \union Block, Announce(n, item)
      PROVE  IInv'
  BY <1>5, AnnounceInv
<1>6. CASE UNCHANGED vars
  BY <1>6 DEF vars, pools, history, IInv, TypeOK, InFlight, PoolIsChecked,
     CreatingIsChecked, WaitingIsUnknown, AnnouncedIsHeld, WaitingIsAnswered
<1> QED
  BY <1>1, <1>2, <1>3, <1>4, <1>5, <1>6 DEF Next, ProcessSome

\* The message processors keep their pools, requests and announcements in step,
\* in whatever order the handlers of MessageProcessor run.
THEOREM Invariance == Spec => []IInv
<1>1. Init => IInv
  BY InitInv
<1>2. IInv /\ [Next]_vars => IInv'
  BY NextInv
<1> QED
  BY <1>1, <1>2, PTL DEF Spec

\* No unchecked transaction is ever in a pool, by whatever way it came.
THEOREM PoolsAreChecked == Spec => []PoolIsChecked
<1>1. IInv => PoolIsChecked
  BY DEF IInv
<1> QED
  BY <1>1, Invariance, PTL

\* Nobody announces what he never had.
THEOREM HolderAnnounces == Spec => []AnnouncedIsHeld
<1>1. IInv => AnnouncedIsHeld
  BY DEF IInv
<1> QED
  BY <1>1, Invariance, PTL

\* An entry of waitingData_ has its answer under way, or was asked for in vain.
THEOREM RequestsAreAnswered == Spec => []WaitingIsAnswered
<1>1. IInv => WaitingIsAnswered
  BY DEF IInv
<1> QED
  BY <1>1, Invariance, PTL

\* The unconditional store of procAccountMessage replaces no known account.
THEOREM PeersReplaceNoAccount == Spec => KnownAccountsStay
<1> DEFINE Stay == \A n \in Node : \A a \in DOMAIN accounts[n] :
                     a \in DOMAIN accounts'[n] /\ accounts'[n][a] = accounts[n][a]
<1>1. IInv /\ [Next]_vars => Stay \/ UNCHANGED vars
  <2> SUFFICES ASSUME IInv, Next PROVE Stay
    OBVIOUS
  <2>1. CASE accounts' = accounts
    BY <2>1
  <2>2. CASE \E m \in InFlight : ProcAccount(m)
    <3> PICK m \in InFlight : ProcAccount(m)
      BY <2>2
    <3> DEFINE n == m.to
               a == m.item.account
               taken == a \in waitingData[n] \/ a \notin DOMAIN accounts[n]
    <3>1. accounts' = IF taken
                      THEN [accounts EXCEPT ![n] = [x \in DOMAIN @ \union {a} |->
                               IF x = a THEN m.item.record ELSE @[x]]]
                      ELSE accounts
      BY DEF ProcAccount
    <3>2. n \in Node
      BY GossipAssumption DEF IInv, TypeOK, IsMessage
    <3>3. taken => a \notin DOMAIN accounts[n]
      BY <3>2 DEF IInv, WaitingIsUnknown
    <3>4. DOMAIN accounts = Node
      BY DEF IInv, TypeOK
    <3> HIDE DEF n, a, taken
    <3>5. CASE taken
      BY <3>1, <3>2, <3>3, <3>4, <3>5
    <3>6. CASE ~ taken
      BY <3>1, <3>6
    <3> QED
      BY <3>5, <3>6
  <2> QED
    BY <2>1, <2>2 DEF Next, ProcessSome, Process, InFlight, ProcTransaction,
       ProcTxSetProposal, ProcInv, ProcInvBlock, ProcGetData, SendOwnTransaction,
       PoolOwnTransaction, Execute, Propose, Announce
<1>2. KnownAccountsStay <=> [][Stay]_vars
  BY PTL DEF KnownAccountsStay
<1> QED
  BY <1>1, <1>2, Invariance, PTL DEF Spec

-----------------------------------------------------------------------------
(* Blocks: until a block is asked for, its count is the number of announcements. *)

CountIsHeard(n, b) ==
    LET quorum == blockInvQuorum[n]
    IN  IF b \in DOMAIN quorum
        THEN IF quorum[b] = 0
             THEN heard[n][b] >= 2 /\ 10 * heard[n][b] >= 8 * UNLsize[n]
             ELSE quorum[b] = heard[n][b]
        ELSE b \in Blocks[n] \/ heard[n][b] = 0

AskedInVain(n, b) ==
    b \in DOMAIN blockInvQuorum[n] /\ blockInvQuorum[n][b] = 0 =>
        \/ <<n, b>> \in unanswered
        \/ \E m \in InFlight : m.type = "GETDATA" /\ m.item = b /\ m.from = n

BlockInv ==
    /\ DOMAIN blockInvQuorum = Node
    /\ heard \in [Node -> [Block -> Nat]]
    /\ \A n \in Node, b \in Block : CountIsHeard(n, b) /\ AskedInVain(n, b)

\* A step that counts nothing, and loses no request for a block.
LEMMA UncountedStep ==
    ASSUME BlockInv, blockInvQuorum' = blockInvQuorum, heard' = heard,
           unanswered \subseteq unanswered',
           \A m \in InFlight : m.type = "GETDATA" /\ m.item \in Block =>
               m \in InFlight' \/ <<m.from, m.item>> \in unanswered'
    PROVE  BlockInv'
<1>1. ASSUME NEW n \in Node, NEW b \in Block PROVE CountIsHeard(n, b)' /\ AskedInVain(n, b)'
  <2>1. CountIsHeard(n, b) /\ AskedInVain(n, b)
    BY DEF BlockInv
  <2>2. CountIsHeard(n, b)'
    BY <2>1 DEF CountIsHeard
  <2>3. AskedInVain(n, b)'
    BY <2>1 DEF AskedInVain
  <2> QED
    BY <2>2, <2>3
<1> QED
  BY <1>1 DEF BlockInv

LEMMA ProcInvBlockCounts ==
    ASSUME IInv, BlockInv, NEW m \in InFlight, ProcInvBlock(m)
    PROVE  BlockInv'
<1> USE GossipAssumption
<1> DEFINE n == m.to
           c == m.item
           quorum == blockInvQuorum[n]
           counted == c \in DOMAIN quorum
           asks == counted /\ quorum[c] # 0 /\ enough(n, quorum[c] + 1)
           count == CASE ~ counted -> 1
                      [] counted /\ quorum[c] = 0 -> 0
                      [] OTHER -> IF asks THEN 0 ELSE quorum[c] + 1
           listed == counted \/ c \notin Blocks[n]
           new == [b \in DOMAIN quorum \union {c} |-> IF b = c THEN count ELSE quorum[b]]
           S == IF asks THEN {Message("GETDATA", c, n, p) : p \in {m.from}} ELSE {}
<1>1. /\ m.type = "INV" /\ n \in Node /\ c \in Block
      /\ unanswered' = unanswered
      /\ heard' = [heard EXCEPT ![n][c] = @ + 1]
  BY DEF ProcInvBlock, IInv, TypeOK, IsMessage
<1>2. /\ DOMAIN blockInvQuorum' = Node
      /\ \A k \in Node \ {n} : blockInvQuorum'[k] = blockInvQuorum[k]
      /\ blockInvQuorum'[n] = IF listed THEN new ELSE quorum
  <2>1. blockInvQuorum' = IF listed THEN [blockInvQuorum EXCEPT ![n] = new]
                          ELSE blockInvQuorum
    BY DEF ProcInvBlock
  <2> HIDE DEF new, listed
  <2> QED
    BY <1>1, <2>1 DEF BlockInv
<1>3. /\ heard' \in [Node -> [Block -> Nat]]
      /\ heard[n][c] \in Nat /\ heard'[n][c] = heard[n][c] + 1
      /\ \A k \in Node, b \in Block : k # n \/ b # c => heard'[k][b] = heard[k][b]
  BY <1>1 DEF BlockInv
<1>4. InFlight \ {m} \subseteq InFlight' /\ S \subseteq InFlight'
  <2>1. net' = (net (-) SetToBag({m})) (+) SetToBag(S)
    BY DEF ProcInvBlock, request, ToPeers, EmptyBag
  <2> HIDE DEF S
  <2> QED
    BY <2>1, ProcessMessage DEF IInv, TypeOK
<1>5. CountIsHeard(n, c) /\ UNLsize[n] \in Nat
  BY <1>1 DEF BlockInv
\* The count of c at n afterwards.
<1>6. \/ ~ listed /\ c \notin DOMAIN blockInvQuorum'[n] /\ c \in Blocks[n]
      \/ /\ listed /\ c \in DOMAIN blockInvQuorum'[n]
         /\ blockInvQuorum'[n][c] = count
  BY <1>2
<1>7. listed => \/ count = heard'[n][c] /\ count # 0
                \/ /\ count = 0 /\ (asks \/ (counted /\ quorum[c] = 0))
                   /\ heard'[n][c] >= 2 /\ 10 * heard'[n][c] >= 8 * UNLsize[n]
  <2>1. CASE listed /\ ~ counted
    BY <1>3, <1>5, <2>1 DEF CountIsHeard
  <2>2. CASE counted /\ quorum[c] = 0
    BY <1>3, <1>5, <2>2 DEF CountIsHeard
  <2>3. CASE counted /\ quorum[c] # 0
    <3>1. quorum[c] = heard[n][c]
      BY <1>5, <2>3 DEF CountIsHeard
    <3>2. CASE asks
      BY <1>3, <1>5, <2>3, <3>1, <3>2 DEF enough
    <3>3. CASE ~ asks
      BY <1>3, <2>3, <3>1, <3>3
    <3> QED
      BY <3>2, <3>3
  <2> QED
    BY <2>1, <2>2, <2>3
<1>8. CountIsHeard(n, c)'
  <2> HIDE DEF count, listed, asks, counted
  <2> QED
    BY <1>6, <1>7 DEF CountIsHeard
<1>9. AskedInVain(n, c)'
  <2>1. CASE asks
    <3>1. Message("GETDATA", c, n, m.from) \in InFlight'
      BY <1>4, <2>1
    <3>2. LET r == Message("GETDATA", c, n, m.from)
          IN  r.type = "GETDATA" /\ r.item = c /\ r.from = n
      BY DEF Message
    <3> QED
      BY <3>1, <3>2 DEF AskedInVain
  <2>2. CASE counted /\ quorum[c] = 0
    <3>1. AskedInVain(n, c)
      BY <1>1 DEF BlockInv
    <3> QED
      BY <1>1, <1>4, <2>2, <3>1 DEF AskedInVain
  <2>3. CASE ~ asks /\ ~ (counted /\ quorum[c] = 0)
    <3> HIDE DEF count, listed, asks, counted
    <3> QED
      BY <1>6, <1>7, <2>3 DEF AskedInVain
  <2> QED
    BY <2>1, <2>2, <2>3
<1>10. ASSUME NEW k \in Node, NEW b \in Block, k # n \/ b # c
       PROVE  CountIsHeard(k, b)' /\ AskedInVain(k, b)'
  <2>1. CountIsHeard(k, b) /\ AskedInVain(k, b)
    BY DEF BlockInv
  <2>2. /\ b \in DOMAIN blockInvQuorum'[k] <=> b \in DOMAIN blockInvQuorum[k]
        /\ b \in DOMAIN blockInvQuorum[k] => blockInvQuorum'[k][b] = blockInvQuorum[k][b]
    <3>1. CASE k # n
      BY <1>2, <3>1
    <3>2. CASE k = n /\ b # c
      <4> HIDE DEF count, listed
      <4> QED
        BY <1>2, <3>2
    <3> QED
      BY <1>10, <3>1, <3>2
  <2>3. heard'[k][b] = heard[k][b]
    BY <1>3, <1>10
  <2>4. CountIsHeard(k, b)'
    BY <2>1, <2>2, <2>3 DEF CountIsHeard
  <2>5. AskedInVain(k, b)'
    BY <1>1, <1>4, <2>1, <2>2 DEF AskedInVain
  <2> QED
    BY <2>4, <2>5
<1> QED
  BY <1>2, <1>3, <1>8, <1>9, <1>10 DEF BlockInv

\* A request for a block finds no answer: getRawBlock never says it has it.
LEMMA ProcGetDataAnswers ==
    ASSUME IInv, BlockInv, NEW m \in InFlight, ProcGetData(m)
    PROVE  BlockInv'
<1> DEFINE S == {Message(x[1], x[2], m.to, m.from) : x \in Answer(m.to, m.item)}
<1>1. /\ unanswered' = IF S = {} THEN unanswered \union {<<m.from, m.item>>} ELSE unanswered
      /\ UNCHANGED <<blockInvQuorum, heard>>
  BY DEF ProcGetData
<1>2. InFlight \ {m} \subseteq InFlight'
  <2>1. net' = (net (-) SetToBag({m})) (+) SetToBag(S)
    BY DEF ProcGetData
  <2> HIDE DEF S
  <2> QED
    BY <2>1, ProcessMessage DEF IInv, TypeOK
<1>3. m.item \in Block => S = {}
  BY KindsAssumption DEF Answer, getRawBlock
<1> HIDE DEF S
<1> QED
  BY <1>1, <1>2, <1>3, UncountedStep

LEMMA NextCounts == IInv /\ BlockInv /\ [Next]_vars => BlockInv'
<1> SUFFICES ASSUME IInv, BlockInv, [Next]_vars PROVE BlockInv'
  OBVIOUS
<1>1. ASSUME NEW n \in Node, NEW m \in {x \in BagToSet(net) : x.to = n}, Process(m)
      PROVE  BlockInv'
  <2>1. m \in InFlight
    BY DEF InFlight
  <2>2. ASSUME NEW S, m.type # "GETDATA", net' = (net (-) SetToBag({m})) (+) SetToBag(S),
               UNCHANGED <<blockInvQuorum, heard, unanswered>>
        PROVE  BlockInv'
    <3>1. InFlight \ {m} \subseteq InFlight'
      BY <2>2, ProcessMessage DEF IInv, TypeOK
    <3> QED
      BY <2>2, <3>1, UncountedStep
  <2>3. CASE ProcTransaction(m)
    <3> DEFINE isNew == checkTransaction(m.to, m.item) /\ m.item \notin txPool[m.to]
               S == IF isNew THEN {Message("INV", m.item, m.to, p) : p \in Peers(m.to) \ {m.from}}
                    ELSE {}
    <3>1. net' = (net (-) SetToBag({m})) (+) SetToBag(S)
      BY <2>3 DEF ProcTransaction, forwardInvMessage, ToPeers, EmptyBag
    <3>2. m.type # "GETDATA" /\ UNCHANGED <<blockInvQuorum, heard, unanswered>>
      BY <2>3 DEF ProcTransaction, history
    <3> HIDE DEF S
    <3> QED
      BY <2>2, <3>1, <3>2
  <2>4. CASE ProcTxSetProposal(m)
    <3>1. /\ net' = net (-) SetToBag({m}) /\ m.type = "TXSETPROPOSAL"
          /\ UNCHANGED <<blockInvQuorum, heard, unanswered>>
      BY <2>4 DEF ProcTxSetProposal
    <3>2. InFlight \ {m} \subseteq InFlight'
      BY <3>1, TakeMessage DEF IInv, TypeOK, InFlight, BagToSet
    <3> QED
      BY <3>1, <3>2, UncountedStep
  <2>5. CASE ProcAccount(m)
    <3> DEFINE a == m.item.account
               taken == a \in waitingData[m.to] \/ a \notin DOMAIN accounts[m.to]
               S == IF taken THEN {Message("INV", a, m.to, p) : p \in Peers(m.to) \ {m.from}}
                    ELSE {}
    <3>1. net' = (net (-) SetToBag({m})) (+) SetToBag(S)
      BY <2>5 DEF ProcAccount, forwardInvMessage, ToPeers, EmptyBag
    <3>2. m.type # "GETDATA" /\ UNCHANGED <<blockInvQuorum, heard, unanswered>>
      BY <2>5 DEF ProcAccount, history
    <3> HIDE DEF S
    <3> QED
      BY <2>2, <3>1, <3>2
  <2>6. CASE ProcInv(m)
    <3> DEFINE asks == m.item \notin waitingData[m.to] /\ ~ Known(m.to, m.item)
               S == IF asks THEN {Message("GETDATA", m.item, m.to, p) : p \in {m.from}} ELSE {}
    <3>1. net' = (net (-) SetToBag({m})) (+) SetToBag(S)
      BY <2>6 DEF ProcInv, request, ToPeers, EmptyBag
    <3>2. m.type # "GETDATA" /\ UNCHANGED <<blockInvQuorum, heard, unanswered>>
      BY <2>6 DEF ProcInv, history
    <3> HIDE DEF S
    <3> QED
      BY <2>2, <3>1, <3>2
  <2> QED
    BY <1>1, <2>1, <2>3, <2>4, <2>5, <2>6, ProcInvBlockCounts, ProcGetDataAnswers DEF Process
\* What is started sends more, or nothing.
<1>2. ASSUME IsABag(net'), InFlight \subseteq InFlight',
             UNCHANGED <<blockInvQuorum, heard, unanswered>>
      PROVE  BlockInv'
  BY <1>2, UncountedStep
<1>3. ASSUME NEW S, net' = net (+) SetToBag(S), UNCHANGED <<blockInvQuorum, heard, unanswered>>
      PROVE  BlockInv'
  BY <1>2, <1>3, SendMessages DEF IInv, TypeOK
<1>4. ASSUME net' = net, UNCHANGED <<blockInvQuorum, heard, unanswered>> PROVE BlockInv'
  BY <1>2, <1>4 DEF IInv, TypeOK, InFlight
<1>5. ASSUME NEW tx \in Tx, SendOwnTransaction(tx) PROVE BlockInv'
  BY <1>3, <1>5 DEF SendOwnTransaction, ToPeers, history
<1>6. ASSUME NEW tx \in Tx, PoolOwnTransaction(tx) PROVE BlockInv'
  BY <1>4, <1>6 DEF PoolOwnTransaction, history
<1>7. ASSUME NEW n \in Node, NEW tx \in Tx, Execute(n, tx) PROVE BlockInv'
  BY <1>4, <1>7 DEF Execute, history
<1>8. ASSUME NEW n \in Node, Propose(n) PROVE BlockInv'
  BY <1>3, <1>8 DEF Propose, ToPeers, history
<1>9. ASSUME NEW n \in Node, NEW item \in Account \union Block, Announce(n, item) PROVE BlockInv'
  BY <1>3, <1>9 DEF Announce, ToPeers, history
<1>10. CASE UNCHANGED vars
  BY <1>4, <1>10 DEF vars, history
<1> QED
  BY <1>1, <1>5, <1>6, <1>7, <1>8, <1>9, <1>10 DEF Next, ProcessSome

\* procInvBlock asks for a block once and not on its first announcement, when 80 %
\* of the UNL announced it; and as getRawBlock fails no answer to that ever comes:
\* the request is on its way, or was handled in vain.
THEOREM BlocksAskedOnce == Spec => []BlockIsAskedForOnce
<1>1. Init => BlockInv
  BY DEF Init, BlockInv, CountIsHeard, AskedInVain
<1>2. IInv /\ BlockInv /\ [Next]_vars => BlockInv'
  BY NextCounts
<1>3. BlockInv => BlockIsAskedForOnce
  BY DEF BlockInv, CountIsHeard, AskedInVain, BlockIsAskedForOnce
<1> QED
  BY <1>1, <1>2, <1>3, Invariance, PTL DEF Spec

-----------------------------------------------------------------------------
(* The threads of one process *)

\* What a thread has found out about its queue stays true as long as it holds the
\* mutex, and until it is woken.
Holds ==
    /\ pc["consensus"] = "tick" => pool > 0
    /\ pc["consensus"] = "commit" => pool = 0
    /\ pc["processor"] = "commit" => processing = 0

ThreadsInv == ThreadsTypeOK /\ Holds /\ SleepersHaveNoWork

LEMMA DeletedWorker == ASSUME ThreadsTypeOK PROVE Deletion[worker] \in Worker
<1>1. Len(Deletion) = 3
  BY DEF Deletion
<1> QED
  BY <1>1 DEF ThreadsTypeOK, Deletion, Worker

LEMMA ThreadsInitInv == ThreadsInit => ThreadsInv
<1> SUFFICES ASSUME ThreadsInit PROVE ThreadsInv
  OBVIOUS
<1>1. Len(Deletion) = 3
  BY DEF Deletion
<1>2. ThreadsTypeOK
  BY <1>1, BoundsAssumption DEF ThreadsInit, ThreadsTypeOK, Label, Worker
<1>3. Holds /\ SleepersHaveNoWork
  BY DEF ThreadsInit, Holds, SleepersHaveNoWork, Worker
<1> QED
  BY <1>2, <1>3 DEF ThreadsInv

LEMMA ConsensusStep == ASSUME ThreadsInv, consensusThread PROVE ThreadsInv'
<1> USE BoundsAssumption DEF ThreadsInv, ThreadsTypeOK, Holds, SleepersHaveNoWork, Label, Worker, Go,
        main, queues
<1>1. CASE ConsensusLoop
  BY <1>1 DEF ConsensusLoop
<1>2. CASE ConsensusTest
  BY <1>2 DEF ConsensusTest
<1>3. CASE ConsensusWait
  BY <1>3 DEF ConsensusWait
<1>4. CASE ConsensusTick
  BY <1>4 DEF ConsensusTick, Use
<1>5. CASE ConsensusShare
  BY <1>5 DEF ConsensusShare
<1> QED
  BY <1>1, <1>2, <1>3, <1>4, <1>5 DEF consensusThread

LEMMA ProcessorStep == ASSUME ThreadsInv, messageProcessor PROVE ThreadsInv'
<1> USE BoundsAssumption DEF ThreadsInv, ThreadsTypeOK, Holds, SleepersHaveNoWork, Label, Worker, Go,
        main, queues, mutexes
<1>1. CASE ProcessorLoop
  BY <1>1 DEF ProcessorLoop
<1>2. CASE ProcessorTest
  BY <1>2 DEF ProcessorTest
<1>3. CASE ProcessorWait
  BY <1>3 DEF ProcessorWait
<1>4. CASE ProcessorProcess
  BY <1>4 DEF ProcessorProcess, Use, poolIsFree, added, Woken
<1>5. CASE ProcessorAnswer
  BY <1>5 DEF ProcessorAnswer
<1> QED
  BY <1>1, <1>2, <1>3, <1>4, <1>5 DEF messageProcessor

LEMMA ManagerStep == ASSUME ThreadsInv, manageConnections PROVE ThreadsInv'
<1> USE BoundsAssumption DEF ThreadsInv, ThreadsTypeOK, Holds, SleepersHaveNoWork, Label, Worker, Go,
        main, queues, mutexes
<1>1. CASE ManagerLoop
  BY <1>1 DEF ManagerLoop
<1>2. CASE ManagerRead
  BY <1>2 DEF ManagerRead, Use, Woken
<1>3. CASE ManagerLock
  BY <1>3 DEF ManagerLock
<1>4. CASE ManagerSend
  BY <1>4 DEF ManagerSend
<1> QED
  BY <1>1, <1>2, <1>3, <1>4 DEF manageConnections

LEMMA MainStep ==
    ASSUME ThreadsInv, CreateTransaction \/ PoolTransaction \/ Exit \/ Destruct
    PROVE  ThreadsInv'
<1> USE BoundsAssumption DEF ThreadsInv, ThreadsTypeOK, Holds, SleepersHaveNoWork, Label, Worker, Go,
        main, queues, mutexes
<1>1. CASE CreateTransaction
  BY <1>1 DEF CreateTransaction
<1>2. CASE PoolTransaction
  BY <1>2 DEF PoolTransaction, poolIsFree, added, Woken
<1>3. CASE Exit
  BY <1>3 DEF Exit
<1>4. CASE ClearRun
  BY <1>4 DEF ClearRun
<1>5. CASE Notify
  BY <1>5, DeletedWorker DEF Notify, notified, Woken
<1>6. CASE Join
  BY <1>6 DEF Join
<1> QED
  BY <1>1, <1>2, <1>3, <1>4, <1>5, <1>6 DEF Destruct

LEMMA PeerStep == ASSUME ThreadsInv, PeerSends \/ PeerReads PROVE ThreadsInv'
<1> USE BoundsAssumption DEF ThreadsInv, ThreadsTypeOK, Holds, SleepersHaveNoWork, Label, Worker,
        main, queues, mutexes
<1>1. CASE PeerSends
  BY <1>1 DEF PeerSends
<1>2. CASE PeerReads
  BY <1>2 DEF PeerReads
<1> QED
  BY <1>1, <1>2

\* Types, the holder of each mutex included; what a thread knows of its queue while
\* it holds the mutex (consensusThread, messageProcessor).
THEOREM ThreadsInvariance == ThreadsSpec => []ThreadsInv
<1>1. ThreadsInv /\ [ThreadsNext]_threadsVars => ThreadsInv'
  <2> SUFFICES ASSUME ThreadsInv, [ThreadsNext]_threadsVars PROVE ThreadsInv'
    OBVIOUS
  <2>1. CASE UNCHANGED threadsVars
    BY <2>1 DEF threadsVars, main, mutexes, queues, ThreadsInv, ThreadsTypeOK, Holds, SleepersHaveNoWork
  <2> QED
    BY <2>1, ConsensusStep, ProcessorStep, ManagerStep, MainStep, PeerStep DEF ThreadsNext
<1> QED
  BY <1>1, ThreadsInitInv, PTL DEF ThreadsSpec

\* The wait of consensusThread and of messageProcessor misses no wake-up: whoever
\* adds work does it under the mutex under which the thread decided to wait.
THEOREM NobodySleepsOnWork == ThreadsSpec => []SleepersHaveNoWork
BY ThreadsInvariance, PTL DEF ThreadsInv
==============================================================================
