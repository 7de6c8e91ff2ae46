------------------------- MODULE ConnectionsProofs -------------------------
(***************************************************************************)
(* The pools of connections and where messages go, for every number of     *)
(* nodes that connect, stop, start and send in any order.                  *)
(***************************************************************************)
EXTENDS Connections, FiniteSetTheorems, SequenceTheorems, WellFoundedInduction, TLAPS

-----------------------------------------------------------------------------
(* The invariant *)

Name == ({"peer", "closing"} \X Node) \union ({"port"} \X Nat)

Link ==
    [initiator : Node, acceptor : Node, open : SUBSET Node, wire : [Node -> Seq(Message)]]

ConnectionRecord == [link : Nat, connID : Name, isConfirmed : BOOLEAN, isUNL : BOOLEAN]

\* What from may have on its way to a node.
Letters(from, to) == {m \in Message : m.from = from /\ m.to \in {0, to}}

Ends(l) == {links[l].initiator, links[l].acceptor}

LinksOK ==
    /\ links \in Seq(Link)
    /\ \A l \in DOMAIN links :
        /\ links[l].initiator # links[l].acceptor
        /\ \A m \in Node : links[l].wire[m] \in Seq(Letters(Other(l, m), m))

\* A name, once it is an id, is that of the node at the other end.
Names(n, name, p) ==
    \/ name \in {Peer(p), Closing(p)}
    \/ \E l \in DOMAIN links : name = Port(l) /\ Other(l, n) = p

\* Only a connection whose VERSION is still to come is called by its port.
NameOK(connection) ==
    \/ connection.connID = Port(connection.link)
    \/ connection.isConfirmed /\ connection.connID[1] # "port"

ConnectionOK(n, connection) ==
    /\ connection \in ConnectionRecord
    /\ connection.link \in DOMAIN links
    /\ n \in Ends(connection.link)
    /\ NameOK(connection)
    /\ \A p \in Node : connection.connID \in {Peer(p), Closing(p)} => Other(connection.link, n) = p

PoolOK(n) ==
    /\ DOMAIN connectionPool[n] \in SUBSET Nat
    /\ IsFiniteSet(DOMAIN connectionPool[n])
    /\ socketsToClose[n] \subseteq DOMAIN connectionPool[n]
    /\ \A fd \in DOMAIN connectionPool[n] : ConnectionOK(n, connectionPool[n][fd])

NamesAreUnique(n) ==
    \A p \in Node :
        /\ \A f, g \in DOMAIN connectionPool[n] :
            connectionPool[n][f].connID = Peer(p) /\ connectionPool[n][g].connID = Peer(p) => f = g
        /\ Peer(p) \in connectedPeers[n] <=>
                \E fd \in DOMAIN connectionPool[n] : connectionPool[n][fd].connID = Peer(p)

RequestOK(n, req) ==
    /\ req.message \in Message
    /\ req.message.from = n
    /\ \/ req.message.to = 0
       \/ req.type = "ONE" /\ Names(n, req.peerID, req.message.to)

ReplyOK(n, r) == r[3] \in Node /\ Names(n, r[2], r[3])

QueuesOK(n) ==
    /\ \A req \in messageQueue[n] : RequestOK(n, req)
    /\ \A r \in replies[n] : ReplyOK(n, r)

TargetsOK(n) == connectQueue[n] \in Seq(Nat \ {0, n})

BacklogOK(n) ==
    /\ backlog[n] \in Seq(Nat)
    /\ \A i \in DOMAIN backlog[n] :
        backlog[n][i] \in DOMAIN links /\ links[backlog[n][i]].acceptor = n

NodeOK(n) == PoolOK(n) /\ NamesAreUnique(n) /\ QueuesOK(n) /\ TargetsOK(n) /\ BacklogOK(n)

Shape ==
    /\ DOMAIN connectionPool = Node
    /\ DOMAIN connectedPeers = Node
    /\ DOMAIN socketsToClose = Node
    /\ DOMAIN messageQueue = Node
    /\ DOMAIN connectQueue = Node
    /\ DOMAIN replies = Node
    /\ DOMAIN backlog = Node
    /\ DOMAIN received = Node

IInv ==
    /\ UNL \in Networks
    /\ Shape
    /\ LinksOK
    /\ \A n \in Node : NodeOK(n)
    /\ AnswersReachTheirPeer

-----------------------------------------------------------------------------
(* Descriptors *)

\* One of the first Cardinality(D) + 1 numbers is not in D.
LEMMA SomeNumberIsFree ==
    ASSUME NEW D, IsFiniteSet(D)
    PROVE  (1 .. Cardinality(D) + 1) \ D # {}
<1>1. Cardinality(D) \in Nat
    BY FS_CardinalityType
<1>2. SUFFICES ASSUME 1 .. Cardinality(D) + 1 \subseteq D
               PROVE  FALSE
    OBVIOUS
<1>3. Cardinality(1 .. Cardinality(D) + 1) <= Cardinality(D)
    BY <1>2, FS_Subset
<1>4. Cardinality(1 .. Cardinality(D) + 1) = Cardinality(D) + 1
    BY <1>1, FS_Interval
<1> QED
    BY <1>1, <1>3, <1>4

LEMMA LeastNumber ==
    ASSUME NEW S, S \subseteq Nat, S # {}
    PROVE  Min(S) \in S
<1>1. PICK x \in S : \A y \in S : <<y, x>> \notin OpToRel(<, Nat)
    BY NatLessThanWellFounded, WFMin
<1>2. \A y, z \in Nat : y < z => <<y, z>> \in OpToRel(<, Nat)
    BY Zenon DEF OpToRel
<1>3. \A y \in S : ~ (y < x)
    BY <1>1, <1>2, Zenon
<1>4. \A y \in S : x <= y
    BY <1>3
<1> QED
    BY <1>4 DEF Min

\* A new socket has a descriptor that no connection of the node has.
LEMMA DescriptorIsFree ==
    ASSUME NEW n, PoolOK(n)
    PROVE  FreeDescriptor(n) \in Nat \ DOMAIN connectionPool[n]
<1> DEFINE D == DOMAIN connectionPool[n]
           S == (1 .. Cardinality(D) + 1) \ D
<1>1. IsFiniteSet(D)
    BY DEF PoolOK
<1>2. S # {}
    BY <1>1, SomeNumberIsFree
<1>3. Cardinality(D) \in Nat
    BY <1>1, FS_CardinalityType
<1>4. S \subseteq Nat
    BY <1>3
<1>5. Min(S) \in S
    BY <1>2, <1>4, LeastNumber
<1> QED
    BY <1>4, <1>5 DEF FreeDescriptor

-----------------------------------------------------------------------------
(* Links *)

\* The links that were made stay, between the same two nodes.
Grows ==
    \A l \in DOMAIN links :
        /\ l \in DOMAIN links'
        /\ links'[l].initiator = links[l].initiator
        /\ links'[l].acceptor = links[l].acceptor

LEMMA OtherIsNode ==
    ASSUME LinksOK, NEW l \in DOMAIN links, NEW n \in Ends(l)
    PROVE  /\ n \in Node /\ Other(l, n) \in Node
           /\ Other(l, n) # n /\ Other(l, n) \in Ends(l)
           /\ Other(l, Other(l, n)) = n
<1>1. links[l] \in Link
    BY DEF LinksOK
<1>2. links[l].initiator # links[l].acceptor
    BY DEF LinksOK
<1> QED
    BY <1>1, <1>2 DEF Link, Other, Ends

LEMMA GrowsKeepsEnds ==
    ASSUME Grows, NEW l \in DOMAIN links
    PROVE  /\ l \in DOMAIN links'
           /\ Ends(l)' = Ends(l)
           /\ \A n : Other(l, n)' = Other(l, n)
BY DEF Grows, Ends, Other

LEMMA SameLinksGrow ==
    ASSUME UNCHANGED links
    PROVE  Grows /\ (LinksOK => LinksOK')
BY DEF Grows, LinksOK, Other

LEMMA GrowsKeepsNames ==
    ASSUME Grows
    PROVE  \A n, name, p : Names(n, name, p) => Names(n, name, p)'
<1> SUFFICES ASSUME NEW n, NEW name, NEW p, Names(n, name, p)
             PROVE  Names(n, name, p)'
    OBVIOUS
<1>1. CASE name \in {Peer(p), Closing(p)}
    BY <1>1 DEF Names
<1>2. ASSUME NEW l \in DOMAIN links, name = Port(l), Other(l, n) = p
      PROVE  Names(n, name, p)'
    BY <1>2, GrowsKeepsEnds DEF Names
<1> QED
    BY <1>1, <1>2 DEF Names

\* A step that changes what is on the wires of some links.
LEMMA WiresChange ==
    ASSUME LinksOK,
           links' = [l \in DOMAIN links |-> links'[l]],
           \A l \in DOMAIN links :
                /\ links'[l] \in Link
                /\ links'[l].initiator = links[l].initiator
                /\ links'[l].acceptor = links[l].acceptor
                /\ \A m \in Node : links'[l].wire[m] \in Seq(Letters(Other(l, m), m))
    PROVE  LinksOK' /\ Grows
<1>1. links \in Seq(Link)
    BY DEF LinksOK
<1>2. DOMAIN links = 1 .. Len(links) /\ Len(links) \in Nat
    BY <1>1
<1>3. links' \in Seq(Link)
    BY <1>2
<1>4. DOMAIN links' = DOMAIN links
    OBVIOUS
<1>5. Grows
    BY <1>4 DEF Grows
<1>6. ASSUME NEW l \in DOMAIN links'
      PROVE  /\ links'[l].initiator # links'[l].acceptor
             /\ \A m \in Node : links'[l].wire[m] \in Seq(Letters(Other(l, m)', m))
    BY <1>4, <1>5, <1>6, GrowsKeepsEnds DEF LinksOK
<1> QED
    BY <1>3, <1>5, <1>6 DEF LinksOK

LEMMA LettersAreMessages ==
    \A n, m : Letters(n, m) \subseteq Message /\ Seq(Letters(n, m)) \subseteq Seq(Message)
BY DEF Letters

LEMMA WireHolds ==
    ASSUME LinksOK, NEW l \in DOMAIN links
    PROVE  /\ links[l] \in Link
           /\ \A m \in Node : links[l].wire[m] \in Seq(Letters(Other(l, m), m))
BY DEF LinksOK

LEMMA WireOfLink ==
    ASSUME NEW link \in Link, NEW w \in [Node -> Seq(Message)],
           NEW changed, changed = [link EXCEPT !.wire = w]
    PROVE  /\ changed \in Link /\ changed.wire = w
           /\ changed.initiator = link.initiator /\ changed.acceptor = link.acceptor
BY DEF Link

LEMMA PartsOfLink ==
    ASSUME NEW link \in Link
    PROVE  link.open \in SUBSET Node /\ link.wire \in [Node -> Seq(Message)]
BY DEF Link

\* The end of a connection is closed at n.
LEMMA ClosingKeepsLinks ==
    ASSUME LinksOK, NEW n \in Node, NEW closed, links' = CloseEnds(closed, n)
    PROVE  LinksOK' /\ Grows
<1>1. links' = [l \in DOMAIN links |-> links'[l]]
    BY DEF CloseEnds
<1>2. ASSUME NEW l \in DOMAIN links
      PROVE  /\ links'[l] \in Link
             /\ links'[l].initiator = links[l].initiator
             /\ links'[l].acceptor = links[l].acceptor
             /\ \A m \in Node : links'[l].wire[m] \in Seq(Letters(Other(l, m), m))
  <2>1. /\ links[l] \in Link
        /\ \A m \in Node : links[l].wire[m] \in Seq(Letters(Other(l, m), m))
      BY WireHolds
  <2>2. CASE l \notin closed
      BY <2>1, <2>2 DEF CloseEnds
  <2>3. CASE l \in closed
    <3> DEFINE w == [links[l].wire EXCEPT ![n] = <<>>]
               left == [links[l] EXCEPT !.open = @ \ {n}]
    <3>1. links'[l] = [left EXCEPT !.wire = [left.wire EXCEPT ![n] = <<>>]]
        BY <2>3 DEF CloseEnds
    <3>3. links[l].wire \in [Node -> Seq(Message)] /\ links[l].open \in SUBSET Node
        BY <2>1, PartsOfLink
    <3>5. w \in [Node -> Seq(Message)]
        BY <3>3
    <3>2. /\ links'[l].initiator = links[l].initiator
          /\ links'[l].acceptor = links[l].acceptor
          /\ links'[l].wire = w
          /\ links'[l] \in Link
      <4>1. links[l].open \ {n} \in SUBSET Node
          BY <3>3
      <4>4. left = [links[l] EXCEPT !.open = links[l].open \ {n}]
          OBVIOUS
      <4> HIDE DEF left
      <4>2. /\ left \in Link /\ left.wire = links[l].wire
            /\ left.initiator = links[l].initiator /\ left.acceptor = links[l].acceptor
          BY <2>1, <4>1, <4>4 DEF Link
      <4>3. links'[l] = [left EXCEPT !.wire = w]
          BY <3>1, <4>2
      <4> HIDE DEF w
      <4> QED
          BY <3>5, <4>2, <4>3, WireOfLink
    <3>4. \A m \in Node : links'[l].wire[m] \in Seq(Letters(Other(l, m), m))
        BY <2>1, <3>2, <3>3
    <3> QED
        BY <3>2, <3>4
  <2> QED
      BY <2>2, <2>3
<1> QED
    BY <1>1, <1>2, WiresChange

\* n reads the next of what the other side wrote.
LEMMA ReadingKeepsLinks ==
    ASSUME LinksOK, NEW n \in Node, NEW k \in DOMAIN links, links[k].wire[n] # <<>>,
           links' = [links EXCEPT ![k].wire[n] = Tail(@)]
    PROVE  LinksOK' /\ Grows /\ Head(links[k].wire[n]) \in Letters(Other(k, n), n)
<1>1. links' = [l \in DOMAIN links |-> links'[l]]
    OBVIOUS
<1>2. ASSUME NEW l \in DOMAIN links
      PROVE  /\ links'[l] \in Link
             /\ links'[l].initiator = links[l].initiator
             /\ links'[l].acceptor = links[l].acceptor
             /\ \A m \in Node : links'[l].wire[m] \in Seq(Letters(Other(l, m), m))
  <2>1. /\ links[l] \in Link
        /\ \A m \in Node : links[l].wire[m] \in Seq(Letters(Other(l, m), m))
      BY WireHolds
  <2>2. CASE l # k
      BY <2>1, <2>2
  <2>3. CASE l = k
    <3>1. links'[l] = [links[l] EXCEPT !.wire[n] = Tail(@)]
        BY <2>3
    <3>2. links[l].wire \in [Node -> Seq(Message)]
        BY <2>1 DEF Link
    <3>3. Tail(links[l].wire[n]) \in Seq(Letters(Other(l, n), n))
        BY <2>1, <2>3
    <3>4. Tail(links[l].wire[n]) \in Seq(Message)
        BY <3>3, LettersAreMessages
    <3>5. /\ links'[l].initiator = links[l].initiator
          /\ links'[l].acceptor = links[l].acceptor
          /\ links'[l].wire = [links[l].wire EXCEPT ![n] = Tail(@)]
          /\ links'[l] \in Link
        BY <2>1, <3>1, <3>4 DEF Link
    <3>6. \A m \in Node : links'[l].wire[m] \in Seq(Letters(Other(l, m), m))
        BY <2>1, <3>2, <3>3, <3>5
    <3> QED
        BY <3>5, <3>6
  <2> QED
      BY <2>2, <2>3
<1>3. Head(links[k].wire[n]) \in Letters(Other(k, n), n)
    BY WireHolds
<1> QED
    BY <1>1, <1>2, <1>3, WiresChange

\* n writes a message that everybody it goes to may read.
LEMMA WritingKeepsLinks ==
    ASSUME LinksOK, NEW n \in Node, PoolOK(n),
           NEW fds, fds \subseteq DOMAIN connectionPool[n],
           NEW msg \in Message, msg.from = n,
           \A fd \in fds : msg.to \in {0, Other(connectionPool[n][fd].link, n)},
           links' = Transmit(n, fds, msg)
    PROVE  LinksOK' /\ Grows
<1>1. links' = [l \in DOMAIN links |-> links'[l]]
    BY DEF Transmit
<1>2. ASSUME NEW l \in DOMAIN links
      PROVE  /\ links'[l] \in Link
             /\ links'[l].initiator = links[l].initiator
             /\ links'[l].acceptor = links[l].acceptor
             /\ \A m \in Node : links'[l].wire[m] \in Seq(Letters(Other(l, m), m))
  <2> DEFINE p == Other(l, n)
             written == \E fd \in fds : connectionPool[n][fd].link = l /\ p \in links[l].open
  <2>1. /\ links[l] \in Link
        /\ \A m \in Node : links[l].wire[m] \in Seq(Letters(Other(l, m), m))
      BY WireHolds
  <2>2. CASE ~ written
      BY <2>1, <2>2 DEF Transmit
  <2>3. CASE written
    <3> DEFINE w == [links[l].wire EXCEPT ![p] = Append(@, msg)]
    <3>1. links'[l] = [links[l] EXCEPT !.wire = w]
        BY <2>3 DEF Transmit
    <3>2. PICK fd \in fds : connectionPool[n][fd].link = l
        BY <2>3
    <3>3. n \in Ends(l)
        BY <3>2 DEF PoolOK, ConnectionOK
    <3>4. p \in Node /\ Other(l, p) = n
        BY <3>3, OtherIsNode
    <3>5. msg \in Letters(Other(l, p), p)
        BY <3>2, <3>4 DEF Letters
    <3>6. links[l].wire \in [Node -> Seq(Message)]
        BY <2>1, PartsOfLink
    <3>7. Append(links[l].wire[p], msg) \in Seq(Letters(Other(l, p), p))
      <4>1. links[l].wire[p] \in Seq(Letters(Other(l, p), p))
          BY <2>1, <3>4
      <4> QED
          BY <3>5, <4>1
    <3>8. Append(links[l].wire[p], msg) \in Seq(Message)
        BY <3>7, LettersAreMessages
    <3> HIDE DEF p
    <3>11. w \in [Node -> Seq(Message)]
        BY <3>4, <3>6, <3>8
    <3>9. /\ links'[l].initiator = links[l].initiator
          /\ links'[l].acceptor = links[l].acceptor
          /\ links'[l].wire = w
          /\ links'[l] \in Link
      <4> HIDE DEF w
      <4> QED
          BY <2>1, <3>1, <3>11, WireOfLink
    <3>10. \A m \in Node : links'[l].wire[m] \in Seq(Letters(Other(l, m), m))
        BY <2>1, <3>4, <3>6, <3>7, <3>9
    <3> QED
        BY <3>9, <3>10
  <2> QED
      BY <2>2, <2>3
<1> QED
    BY <1>1, <1>2, WiresChange

-----------------------------------------------------------------------------
(* What a step leaves of the state of a node *)

LEMMA ConnectionKept ==
    ASSUME NEW n, NEW connection, ConnectionOK(n, connection), Grows
    PROVE  ConnectionOK(n, connection)'
BY GrowsKeepsEnds DEF ConnectionOK

LEMMA PoolKept ==
    ASSUME NEW n, PoolOK(n), Grows,
           connectionPool'[n] = connectionPool[n],
           socketsToClose'[n] \subseteq DOMAIN connectionPool[n]
    PROVE  PoolOK(n)'
<1>1. ASSUME NEW fd \in DOMAIN connectionPool[n]
      PROVE  ConnectionOK(n, connectionPool[n][fd])'
  <2> DEFINE c == connectionPool[n][fd]
  <2>1. PICK d : d = c
      OBVIOUS
  <2>2. ConnectionOK(n, d)'
      BY <2>1, ConnectionKept DEF PoolOK
  <2> QED
      BY <2>1, <2>2 DEF ConnectionOK
<1> QED
    BY <1>1 DEF PoolOK

LEMMA UniqueKept ==
    ASSUME NEW n, NamesAreUnique(n),
           connectionPool'[n] = connectionPool[n], connectedPeers'[n] = connectedPeers[n]
    PROVE  NamesAreUnique(n)'
BY DEF NamesAreUnique

LEMMA RequestKept ==
    ASSUME NEW n, NEW req, RequestOK(n, req), Grows
    PROVE  RequestOK(n, req)'
BY GrowsKeepsNames DEF RequestOK

LEMMA ReplyKept ==
    ASSUME NEW n, NEW r, ReplyOK(n, r), Grows
    PROVE  ReplyOK(n, r)'
BY GrowsKeepsNames DEF ReplyOK

LEMMA QueuesKept ==
    ASSUME NEW n, QueuesOK(n), Grows,
           \A req \in messageQueue'[n] : req \in messageQueue[n] \/ RequestOK(n, req)',
           \A r \in replies'[n] : r \in replies[n] \/ ReplyOK(n, r)'
    PROVE  QueuesOK(n)'
BY RequestKept, ReplyKept DEF QueuesOK

LEMMA BacklogKept ==
    ASSUME NEW n, BacklogOK(n), Grows, backlog'[n] = backlog[n]
    PROVE  BacklogOK(n)'
BY DEF BacklogOK, Grows

Kept(n) ==
    /\ connectionPool'[n] = connectionPool[n]
    /\ connectedPeers'[n] = connectedPeers[n]
    /\ socketsToClose'[n] = socketsToClose[n]
    /\ messageQueue'[n] = messageQueue[n]
    /\ replies'[n] = replies[n]
    /\ connectQueue'[n] = connectQueue[n]

\* A step of n alone, apart from the backlogs.
LEMMA StepOfOne ==
    ASSUME IInv, NEW n \in Node, UNCHANGED UNL,
           Shape', LinksOK', Grows,
           PoolOK(n)', NamesAreUnique(n)', QueuesOK(n)', TargetsOK(n)',
           \A m \in Node \ {n} : Kept(m),
           \A m \in Node : BacklogOK(m)',
           AnswersReachTheirPeer'
    PROVE  IInv'
<1>1. ASSUME NEW m \in Node \ {n}
      PROVE  PoolOK(m)' /\ NamesAreUnique(m)' /\ QueuesOK(m)' /\ TargetsOK(m)'
  <2>1. Kept(m) /\ PoolOK(m) /\ NamesAreUnique(m) /\ QueuesOK(m) /\ TargetsOK(m)
      BY DEF IInv, NodeOK
  <2>2. PoolOK(m)'
      BY <2>1, PoolKept DEF Kept, PoolOK
  <2>3. NamesAreUnique(m)'
      BY <2>1, UniqueKept DEF Kept
  <2>4. QueuesOK(m)'
      BY <2>1, QueuesKept DEF Kept
  <2>5. TargetsOK(m)'
      BY <2>1 DEF Kept, TargetsOK
  <2> QED
      BY <2>2, <2>3, <2>4, <2>5
<1> QED
    BY <1>1 DEF IInv, NodeOK

-----------------------------------------------------------------------------
(* The pool of connections *)

LEMMA NamesAreNames ==
    /\ \A p \in Node : Peer(p) \in Name /\ Closing(p) \in Name
    /\ \A l \in Nat : Port(l) \in Name
    /\ \A p, q : Peer(p) = Peer(q) => p = q
    /\ \A p, q : Closing(p) = Closing(q) => p = q
    /\ \A p, q : Port(p) = Port(q) => p = q
    /\ \A p, l : Port(l) # Peer(p) /\ Port(l) # Closing(p)
    /\ \A p, q : Peer(p) # Closing(q)
BY DEF Peer, Closing, Port, Name

LEMMA AddingKeepsPool ==
    ASSUME Shape, NEW n \in Node, PoolOK(n), NamesAreUnique(n), Grows,
           NEW connection, ConnectionOK(n, connection)',
           \A p \in Node : connection.connID = Peer(p) => ~ isConnectionInConnectionPool(n, p),
           addConnectionToConnectionPool(n, FreeDescriptor(n), connection),
           UNCHANGED socketsToClose
    PROVE  PoolOK(n)' /\ NamesAreUnique(n)'
<1> DEFINE fd == FreeDescriptor(n)
           pool == connectionPool[n]
<1>1. fd \in Nat \ DOMAIN pool
    BY DescriptorIsFree
<1>2. connectionPool'[n] = [f \in DOMAIN pool \union {fd} |-> IF f = fd THEN connection ELSE pool[f]]
    BY DEF addConnectionToConnectionPool, Shape
<1> HIDE DEF fd
<1>3. /\ DOMAIN connectionPool'[n] = DOMAIN pool \union {fd}
      /\ connectionPool'[n][fd] = connection
      /\ \A f \in DOMAIN pool : connectionPool'[n][f] = pool[f]
    BY <1>1, <1>2
<1>4. connectedPeers'[n] = connectedPeers[n] \union {connection.connID}
    BY DEF addConnectionToConnectionPool, Shape
<1>5. PoolOK(n)'
  <2>1. DOMAIN connectionPool'[n] \in SUBSET Nat
      BY <1>1, <1>3 DEF PoolOK
  <2>2. IsFiniteSet(DOMAIN connectionPool'[n])
      BY <1>3, FS_AddElement DEF PoolOK
  <2>3. socketsToClose'[n] \subseteq DOMAIN connectionPool'[n]
      BY <1>3 DEF PoolOK
  <2>4. ASSUME NEW f \in DOMAIN connectionPool'[n], NEW c, c = connectionPool'[n][f]
        PROVE  ConnectionOK(n, c)'
    <3>1. CASE f = fd
        BY <1>3, <2>4, <3>1
    <3>2. CASE f \in DOMAIN pool
      <4>1. c = pool[f]
          BY <1>3, <2>4, <3>2
      <4>2. ConnectionOK(n, c)
          BY <4>1, <3>2 DEF PoolOK
      <4> QED
          BY <4>2, ConnectionKept
    <3> QED
        BY <1>3, <3>1, <3>2
  <2> QED
      BY <2>1, <2>2, <2>3, <2>4 DEF PoolOK, ConnectionOK
<1>6. NamesAreUnique(n)'
    BY <1>1, <1>3, <1>4 DEF NamesAreUnique, isConnectionInConnectionPool
<1> QED
    BY <1>5, <1>6

-----------------------------------------------------------------------------
(* Every action keeps the invariant *)

LEMMA InitInv ==
    Init => IInv
<1> SUFFICES ASSUME Init
             PROVE  IInv
    OBVIOUS
<1>1. Shape
    BY DEF Init, Shape
<1>2. LinksOK
    BY DEF Init, LinksOK
<1>3. AnswersReachTheirPeer /\ UNL \in Networks
    BY DEF Init, AnswersReachTheirPeer
<1>4. ASSUME NEW n \in Node
      PROVE  NodeOK(n)
  <2>1. /\ connectionPool[n] = <<>> /\ connectedPeers[n] = {} /\ socketsToClose[n] = {}
        /\ messageQueue[n] = {} /\ connectQueue[n] = <<>> /\ replies[n] = {}
        /\ backlog[n] = <<>>
      BY DEF Init
  <2>2. DOMAIN connectionPool[n] = {}
      BY <2>1
  <2>3. PoolOK(n)
      BY <2>1, <2>2, FS_EmptySet DEF PoolOK
  <2>4. NamesAreUnique(n)
      BY <2>1, <2>2 DEF NamesAreUnique
  <2>5. QueuesOK(n) /\ TargetsOK(n) /\ BacklogOK(n)
      BY <2>1 DEF QueuesOK, TargetsOK, BacklogOK
  <2> QED
      BY <2>3, <2>4, <2>5 DEF NodeOK
<1> QED
    BY <1>1, <1>2, <1>3, <1>4 DEF IInv

\* What the node n has, by name.
LEMMA PartsOfInv ==
    ASSUME IInv, NEW n \in Node
    PROVE  /\ Shape /\ LinksOK /\ AnswersReachTheirPeer
           /\ PoolOK(n) /\ NamesAreUnique(n) /\ QueuesOK(n) /\ TargetsOK(n) /\ BacklogOK(n)
BY DEF IInv, NodeOK

LEMMA BacklogsKept ==
    ASSUME IInv, Grows, UNCHANGED backlog
    PROVE  \A m \in Node : BacklogOK(m)'
BY PartsOfInv, BacklogKept

LEMMA PollStep ==
    ASSUME IInv, NEW n \in Node, UNCHANGED UNL, Poll(n)
    PROVE  IInv'
<1>1. /\ Shape /\ LinksOK /\ AnswersReachTheirPeer
      /\ PoolOK(n) /\ NamesAreUnique(n) /\ QueuesOK(n) /\ TargetsOK(n) /\ BacklogOK(n)
    BY PartsOfInv
<1>2. /\ UNCHANGED <<phase, socketsToClose, links, received, messageQueue, connectQueue, replies>>
      /\ \/ backlog[n] # <<>> /\ AcceptNewConnection(n)
         \/ UNCHANGED <<backlog, connectionPool, connectedPeers>>
    BY DEF Poll, queues, history
<1>3. Grows /\ LinksOK'
    BY <1>1, <1>2, SameLinksGrow
<1>4. QueuesOK(n)'
    BY <1>1, <1>2, <1>3, QueuesKept
<1>5. TargetsOK(n)'
    BY <1>1, <1>2 DEF TargetsOK
<1>6. AnswersReachTheirPeer'
    BY <1>1, <1>2 DEF AnswersReachTheirPeer
<1>7. CASE UNCHANGED <<backlog, connectionPool, connectedPeers>>
  <2>1. Shape'
      BY <1>1, <1>2, <1>7 DEF Shape
  <2>2. PoolOK(n)' /\ NamesAreUnique(n)'
      BY <1>1, <1>2, <1>3, <1>7, PoolKept, UniqueKept DEF PoolOK
  <2>3. \A m \in Node \ {n} : Kept(m)
      BY <1>2, <1>7 DEF Kept
  <2>4. \A m \in Node : BacklogOK(m)'
      BY <1>3, <1>7, BacklogsKept
  <2> QED
      BY <1>3, <1>4, <1>5, <1>6, <2>1, <2>2, <2>3, <2>4, StepOfOne
<1>8. CASE backlog[n] # <<>> /\ AcceptNewConnection(n)
  <2>9. PICK l : l = Head(backlog[n])
      OBVIOUS
  <2>10. PICK connection : connection = Connection(l, Port(l), FALSE, FALSE)
      OBVIOUS
  <2>1. /\ backlog' = [backlog EXCEPT ![n] = Tail(@)]
        /\ addConnectionToConnectionPool(n, FreeDescriptor(n), connection)
      BY <1>8, <2>9, <2>10 DEF AcceptNewConnection
  <2>2. /\ l \in Nat /\ l \in DOMAIN links /\ links[l].acceptor = n
    <3>1. l = backlog[n][1] /\ 1 \in DOMAIN backlog[n]
        BY <1>1, <1>8, <2>9 DEF BacklogOK
    <3> QED
        BY <1>1, <3>1 DEF BacklogOK
  <2>4. /\ connection.link = l /\ connection.connID = Port(l)
        /\ connection \in ConnectionRecord
    <3>1. Port(l) \in Name
        BY <2>2, NamesAreNames
    <3> QED
        BY <2>2, <2>10, <3>1 DEF Connection, ConnectionRecord
  <2>3. ConnectionOK(n, connection)'
    <3>1. l \in DOMAIN links' /\ n \in Ends(l)'
        BY <1>2, <2>2 DEF Ends
    <3>2. NameOK(connection)
        BY <2>4 DEF NameOK
    <3>3. \A p \in Node : connection.connID \notin {Peer(p), Closing(p)}
        BY <2>4, NamesAreNames
    <3> QED
        BY <2>4, <3>1, <3>2, <3>3 DEF ConnectionOK
  <2>5. PoolOK(n)' /\ NamesAreUnique(n)'
    <3>1. \A p \in Node : connection.connID # Peer(p)
        BY <2>4, NamesAreNames
    <3> QED
        BY <1>1, <1>2, <1>3, <2>1, <2>3, <3>1, AddingKeepsPool
  <2>6. Shape'
      BY <1>1, <1>2, <2>1 DEF Shape, addConnectionToConnectionPool
  <2>7. \A m \in Node \ {n} : Kept(m)
      BY <1>1, <1>2, <2>1 DEF Kept, addConnectionToConnectionPool, Shape
  <2>8. ASSUME NEW m \in Node
        PROVE  BacklogOK(m)'
    <3>1. CASE m # n
      <4>1. backlog'[m] = backlog[m]
          BY <1>1, <2>1, <3>1 DEF Shape
      <4> QED
          BY <1>3, <4>1, PartsOfInv, BacklogKept
    <3>2. CASE m = n
      <4>1. backlog'[n] = Tail(backlog[n])
          BY <1>1, <2>1 DEF Shape
      <4>2. backlog'[n] \in Seq(Nat)
          BY <1>1, <1>8, <4>1 DEF BacklogOK
      <4>3. \A i \in DOMAIN backlog'[n] : i + 1 \in DOMAIN backlog[n] /\ backlog'[n][i] = backlog[n][i + 1]
          BY <1>1, <1>8, <4>1 DEF BacklogOK
      <4> QED
          BY <1>1, <1>2, <3>2, <4>2, <4>3 DEF BacklogOK
    <3> QED
        BY <3>1, <3>2
  <2> QED
      BY <1>3, <1>4, <1>5, <1>6, <2>5, <2>6, <2>7, <2>8, StepOfOne
<1> QED
    BY <1>2, <1>7, <1>8

LEMMA PoolChanged ==
    ASSUME NEW n, PoolOK(n),
           DOMAIN connectionPool'[n] = DOMAIN connectionPool[n],
           \A f \in DOMAIN connectionPool[n] :
                \A c : c = connectionPool'[n][f] => ConnectionOK(n, c)',
           socketsToClose'[n] \subseteq DOMAIN connectionPool[n]
    PROVE  PoolOK(n)'
BY DEF PoolOK, ConnectionOK

\* The ACK of the other side.
LEMMA AckKeepsPool ==
    ASSUME Shape, NEW n \in Node, PoolOK(n), NamesAreUnique(n), Grows,
           NEW fd \in DOMAIN connectionPool[n],
           connectionPool' = [connectionPool EXCEPT ![n][fd].isConfirmed = TRUE],
           UNCHANGED <<connectedPeers, socketsToClose>>
    PROVE  PoolOK(n)' /\ NamesAreUnique(n)'
<1>1. /\ DOMAIN connectionPool'[n] = DOMAIN connectionPool[n]
      /\ connectionPool'[n][fd] = [connectionPool[n][fd] EXCEPT !.isConfirmed = TRUE]
      /\ \A f \in DOMAIN connectionPool[n] \ {fd} : connectionPool'[n][f] = connectionPool[n][f]
    BY DEF Shape
<1>2. connectionPool[n][fd] \in ConnectionRecord
    BY DEF PoolOK, ConnectionOK
<1>3. /\ connectionPool'[n][fd] \in ConnectionRecord
      /\ connectionPool'[n][fd].connID = connectionPool[n][fd].connID
      /\ connectionPool'[n][fd].link = connectionPool[n][fd].link
      /\ connectionPool'[n][fd].isConfirmed = TRUE
  <2>1. PICK c : c = connectionPool[n][fd]
      OBVIOUS
  <2>2. PICK k : k = [c EXCEPT !.isConfirmed = TRUE]
      OBVIOUS
  <2>3. k \in ConnectionRecord /\ k.connID = c.connID /\ k.link = c.link /\ k.isConfirmed = TRUE
      BY <1>2, <2>1, <2>2 DEF ConnectionRecord
  <2> QED
      BY <1>1, <2>1, <2>2, <2>3
<1>4. ASSUME NEW f \in DOMAIN connectionPool[n], NEW c, c = connectionPool'[n][f]
      PROVE  ConnectionOK(n, c)'
  <2>1. ConnectionOK(n, connectionPool[n][f])
      BY DEF PoolOK
  <2>2. CASE f # fd
      BY <1>1, <1>4, <2>1, <2>2, ConnectionKept
  <2>3. CASE f = fd
      BY <1>3, <1>4, <2>1, <2>3, GrowsKeepsEnds DEF ConnectionOK, NameOK
  <2> QED
      BY <2>2, <2>3
<1>5. PoolOK(n)'
    BY <1>1, <1>4, PoolChanged DEF PoolOK
<1>6. NamesAreUnique(n)'
  <2>1. \A f \in DOMAIN connectionPool[n] : connectionPool'[n][f].connID = connectionPool[n][f].connID
      BY <1>1, <1>3
  <2> QED
      BY <1>1, <2>1 DEF NamesAreUnique
<1> QED
    BY <1>5, <1>6

LEMMA MessagesAreMessages ==
    \A type \in {"VERSION", "ACK", "INV", "GETDATA", "BLOCKPROPOSAL"} :
        \A n \in Node, to \in Node \union {0} : [type |-> type, from |-> n, to |-> to] \in Message
BY DEF Message, MessageType

\* The VERSION of p, which the connection fd leads to.
LEMMA NotifyKeepsPool ==
    ASSUME Shape, NEW n \in Node, PoolOK(n), NamesAreUnique(n), Grows,
           NEW fd \in DOMAIN connectionPool[n], ~ connectionPool[n][fd].isConfirmed,
           NEW p \in Node, Other(connectionPool[n][fd].link, n) = p,
           NotifyConnectionVersion(n, fd, p)
    PROVE  PoolOK(n)' /\ NamesAreUnique(n)'
<1> DEFINE pool == connectionPool[n]
           duplicate == isConnectionInConnectionPool(n, p)
           kept(unl) == [pool[fd] EXCEPT !.connID = Peer(p), !.isConfirmed = TRUE, !.isUNL = unl]
<1>1. PICK exFd : exFd = CHOOSE f \in DOMAIN pool : pool[f].connID = Peer(p)
    OBVIOUS
<1>2. PICK K : \/ duplicate /\ K = kept(pool[exFd].isUNL \/ p \in Range(UNL[n]))
               \/ ~ duplicate /\ K = kept(pool[fd].isUNL \/ p \in Range(UNL[n]))
    OBVIOUS
<1>3. \/ UNCHANGED <<connectionPool, connectedPeers>> /\ socketsToClose' = [socketsToClose EXCEPT ![n] = @ \union {fd}]
      \/ /\ duplicate
         /\ connectionPool' = [connectionPool EXCEPT ![n][exFd].connID = Closing(p), ![n][fd] = K]
         /\ socketsToClose' = [socketsToClose EXCEPT ![n] = @ \union {exFd}]
         /\ connectedPeers' = [connectedPeers EXCEPT ![n] =
                                    ((@ \ {pool[fd].connID}) \union {Closing(p), Peer(p)})]
      \/ /\ ~ duplicate
         /\ connectionPool' = [connectionPool EXCEPT ![n][fd] = K]
         /\ UNCHANGED socketsToClose
         /\ connectedPeers' = [connectedPeers EXCEPT ![n] = (@ \ {pool[fd].connID}) \union {Peer(p)}]
    BY <1>1, <1>2, Zenon DEF NotifyConnectionVersion
<1>4. ConnectionOK(n, pool[fd]) /\ pool[fd].connID = Port(pool[fd].link)
    BY DEF PoolOK, ConnectionOK, NameOK
<1>5. pool[fd].isUNL \in BOOLEAN /\ pool[fd].link \in Nat
    BY <1>4 DEF ConnectionOK, ConnectionRecord
<1>6. ASSUME duplicate
      PROVE  /\ exFd \in DOMAIN pool /\ pool[exFd].connID = Peer(p) /\ exFd # fd
             /\ \A f \in DOMAIN pool : pool[f].connID = Peer(p) => f = exFd
             /\ ConnectionOK(n, pool[exFd])
  <2>1. exFd \in DOMAIN pool /\ pool[exFd].connID = Peer(p)
      BY <1>1, <1>6 DEF isConnectionInConnectionPool, NamesAreUnique
  <2>2. exFd # fd
      BY <1>4, <2>1, NamesAreNames
  <2> QED
      BY <2>1, <2>2 DEF NamesAreUnique, PoolOK
<1>7. /\ K \in ConnectionRecord /\ K.connID = Peer(p) /\ K.link = pool[fd].link
      /\ K.isConfirmed = TRUE
  <2>1. PICK unl \in BOOLEAN : K = kept(unl)
    <3>1. duplicate => (pool[exFd].isUNL \/ p \in Range(UNL[n])) \in BOOLEAN
        OBVIOUS
    <3> QED
        BY <1>2, Zenon
  <2>2. Peer(p) \in Name
      BY NamesAreNames
  <2>3. PICK c : c = pool[fd]
      OBVIOUS
  <2>4. c \in ConnectionRecord
      BY <1>4, <2>3 DEF ConnectionOK
  <2>5. K = [c EXCEPT !.connID = Peer(p), !.isConfirmed = TRUE, !.isUNL = unl]
      BY <2>1, <2>3
  <2>6. K = [link |-> c.link, connID |-> Peer(p), isConfirmed |-> TRUE, isUNL |-> unl]
      BY <2>4, <2>5 DEF ConnectionRecord
  <2> QED
      BY <2>2, <2>3, <2>4, <2>6 DEF ConnectionRecord
<1>8. ConnectionOK(n, K)'
  <2>1. /\ K.link \in DOMAIN links /\ n \in Ends(K.link) /\ Other(K.link, n) = p
      BY <1>4, <1>7 DEF ConnectionOK
  <2>2. /\ K.link \in DOMAIN links' /\ n \in Ends(K.link)' /\ Other(K.link, n)' = p
      BY <2>1, GrowsKeepsEnds
  <2>3. NameOK(K)
      BY <1>7 DEF NameOK, Peer
  <2>4. \A q \in Node : K.connID \in {Peer(q), Closing(q)} => q = p
      BY <1>7, NamesAreNames
  <2> QED
      BY <1>7, <2>2, <2>3, <2>4 DEF ConnectionOK
<1>9. CASE UNCHANGED <<connectionPool, connectedPeers>> /\ socketsToClose' = [socketsToClose EXCEPT ![n] = @ \union {fd}]
  <2>1. socketsToClose'[n] \subseteq DOMAIN pool
      BY <1>9 DEF PoolOK, Shape
  <2> QED
      BY <1>9, <2>1, PoolKept, UniqueKept
<1>10. CASE /\ duplicate
            /\ connectionPool' = [connectionPool EXCEPT ![n][exFd].connID = Closing(p), ![n][fd] = K]
            /\ socketsToClose' = [socketsToClose EXCEPT ![n] = @ \union {exFd}]
            /\ connectedPeers' = [connectedPeers EXCEPT ![n] =
                                    ((@ \ {pool[fd].connID}) \union {Closing(p), Peer(p)})]
  <2>1. PICK E : E = [pool[exFd] EXCEPT !.connID = Closing(p)]
      OBVIOUS
  <2>2. /\ DOMAIN connectionPool'[n] = DOMAIN pool
        /\ connectionPool'[n][fd] = K
        /\ connectionPool'[n][exFd] = E
        /\ \A f \in DOMAIN pool \ {fd, exFd} : connectionPool'[n][f] = pool[f]
      BY <1>6, <1>10, <2>1 DEF Shape
  <2>3. /\ E \in ConnectionRecord /\ E.connID = Closing(p) /\ E.link = pool[exFd].link
        /\ E.isConfirmed = TRUE
    <3>1. Closing(p) \in Name
        BY NamesAreNames
    <3>2. PICK c : c = pool[exFd]
        OBVIOUS
    <3>3. c \in ConnectionRecord /\ c.isConfirmed = TRUE
      <4>1. c.connID # Port(c.link)
          BY <1>6, <1>10, <3>2, NamesAreNames
      <4>2. c.isConfirmed
          BY <1>6, <1>10, <3>2, <4>1 DEF ConnectionOK, NameOK
      <4> QED
          BY <1>6, <1>10, <3>2, <4>2 DEF ConnectionOK, ConnectionRecord
    <3>4. E = [c EXCEPT !.connID = Closing(p)]
        BY <2>1, <3>2
    <3>5. E = [link |-> c.link, connID |-> Closing(p), isConfirmed |-> c.isConfirmed, isUNL |-> c.isUNL]
        BY <3>3, <3>4 DEF ConnectionRecord
    <3> QED
        BY <3>1, <3>2, <3>3, <3>5 DEF ConnectionRecord
  <2>4. ConnectionOK(n, E)'
    <3>1. /\ E.link \in DOMAIN links /\ n \in Ends(E.link) /\ Other(E.link, n) = p
        BY <1>6, <1>10, <2>3 DEF ConnectionOK
    <3>2. /\ E.link \in DOMAIN links' /\ n \in Ends(E.link)' /\ Other(E.link, n)' = p
        BY <3>1, GrowsKeepsEnds
    <3>3. NameOK(E)
        BY <2>3 DEF NameOK, Closing
    <3>4. \A q \in Node : E.connID \in {Peer(q), Closing(q)} => q = p
        BY <2>3, NamesAreNames
    <3> QED
        BY <2>3, <3>2, <3>3, <3>4 DEF ConnectionOK
  <2>5. ASSUME NEW f \in DOMAIN pool, NEW c, c = connectionPool'[n][f]
        PROVE  ConnectionOK(n, c)'
    <3>1. CASE f \in {fd, exFd}
        BY <1>8, <2>2, <2>4, <2>5, <3>1
    <3>2. CASE f \notin {fd, exFd}
      <4>1. c = pool[f] /\ ConnectionOK(n, c)
          BY <2>2, <2>5, <3>2 DEF PoolOK
      <4> QED
          BY <4>1, ConnectionKept
    <3> QED
        BY <3>1, <3>2
  <2>6. socketsToClose'[n] \subseteq DOMAIN pool
      BY <1>6, <1>10 DEF PoolOK, Shape
  <2>7. PoolOK(n)'
      BY <2>2, <2>5, <2>6, PoolChanged
  <2>8. connectedPeers'[n] = (connectedPeers[n] \ {pool[fd].connID}) \union {Closing(p), Peer(p)}
      BY <1>10 DEF Shape
  <2>9. \A q \in Node : Peer(q) \in connectedPeers'[n] <=> Peer(q) \in connectedPeers[n] \/ q = p
      BY <1>4, <2>8, NamesAreNames
  <2>10. \A q \in Node : \A f \in DOMAIN pool :
            connectionPool'[n][f].connID = Peer(q) <=>
                (f = fd /\ q = p) \/ (f \notin {fd, exFd} /\ pool[f].connID = Peer(q))
      BY <1>7, <2>2, <2>3, NamesAreNames
  <2>11. \A q \in Node : \A f \in DOMAIN pool :
            f \notin {fd, exFd} /\ pool[f].connID = Peer(q) => q # p
      BY <1>6, <1>10
  <2>12. \A q \in Node : pool[fd].connID # Peer(q) /\ (pool[exFd].connID = Peer(q) => q = p)
      BY <1>4, <1>6, <1>10, NamesAreNames
  <2>13. NamesAreUnique(n)'
      BY <2>2, <2>9, <2>10, <2>11, <2>12 DEF NamesAreUnique
  <2> QED
      BY <2>7, <2>13
<1>11. CASE /\ ~ duplicate
            /\ connectionPool' = [connectionPool EXCEPT ![n][fd] = K]
            /\ UNCHANGED socketsToClose
            /\ connectedPeers' = [connectedPeers EXCEPT ![n] = (@ \ {pool[fd].connID}) \union {Peer(p)}]
  <2>1. /\ DOMAIN connectionPool'[n] = DOMAIN pool
        /\ connectionPool'[n][fd] = K
        /\ \A f \in DOMAIN pool \ {fd} : connectionPool'[n][f] = pool[f]
      BY <1>11 DEF Shape
  <2>2. ASSUME NEW f \in DOMAIN pool, NEW c, c = connectionPool'[n][f]
        PROVE  ConnectionOK(n, c)'
    <3>1. CASE f = fd
        BY <1>8, <2>1, <2>2, <3>1
    <3>2. CASE f # fd
      <4>1. c = pool[f] /\ ConnectionOK(n, c)
          BY <2>1, <2>2, <3>2 DEF PoolOK
      <4> QED
          BY <4>1, ConnectionKept
    <3> QED
        BY <3>1, <3>2
  <2>3. PoolOK(n)'
      BY <1>11, <2>1, <2>2, PoolChanged DEF PoolOK
  <2>4. connectedPeers'[n] = (connectedPeers[n] \ {pool[fd].connID}) \union {Peer(p)}
      BY <1>11 DEF Shape
  <2>5. \A q \in Node : Peer(q) \in connectedPeers'[n] <=> Peer(q) \in connectedPeers[n] \/ q = p
      BY <1>4, <2>4, NamesAreNames
  <2>6. \A q \in Node : \A f \in DOMAIN pool :
            connectionPool'[n][f].connID = Peer(q) <=>
                (f = fd /\ q = p) \/ (f # fd /\ pool[f].connID = Peer(q))
      BY <1>7, <2>1, NamesAreNames
  <2>7. \A q \in Node : pool[fd].connID # Peer(q)
      BY <1>4, NamesAreNames
  <2>8. \A f \in DOMAIN pool : pool[f].connID # Peer(p)
      BY <1>11 DEF NamesAreUnique, isConnectionInConnectionPool
  <2>9. NamesAreUnique(n)'
      BY <2>1, <2>5, <2>6, <2>7, <2>8 DEF NamesAreUnique
  <2> QED
      BY <2>3, <2>9
<1> QED
    BY <1>3, <1>9, <1>10, <1>11

\* What else NotifyConnectionVersion does, and that it is for n alone.
LEMMA NotifyIsOfOne ==
    ASSUME Shape, NEW n \in Node, NEW fd, NEW p, NotifyConnectionVersion(n, fd, p)
    PROVE  /\ DOMAIN connectionPool' = Node /\ DOMAIN connectedPeers' = Node
           /\ DOMAIN socketsToClose' = Node /\ DOMAIN messageQueue' = Node
           /\ \A m \in Node \ {n} : /\ connectionPool'[m] = connectionPool[m]
                                    /\ connectedPeers'[m] = connectedPeers[m]
                                    /\ socketsToClose'[m] = socketsToClose[m]
                                    /\ messageQueue'[m] = messageQueue[m]
           /\ \A req \in messageQueue'[n] :
                \/ req \in messageQueue[n]
                \/ req = Request("ONE", fd, Peer(p), [type |-> "ACK", from |-> n, to |-> p])
<1> DEFINE ack == Request("ONE", fd, Peer(p), [type |-> "ACK", from |-> n, to |-> p])
<1>1. \/ UNCHANGED messageQueue
      \/ messageQueue' = [messageQueue EXCEPT ![n] = @ \union {ack}]
    BY Zenon DEF NotifyConnectionVersion
<1>2. \/ UNCHANGED connectionPool
      \/ \E f, K : connectionPool' = [connectionPool EXCEPT ![n][f].connID = Closing(p), ![n][fd] = K]
      \/ \E K : connectionPool' = [connectionPool EXCEPT ![n][fd] = K]
  <2> DEFINE pool == connectionPool[n]
             duplicate == isConnectionInConnectionPool(n, p)
             kept(unl) == [pool[fd] EXCEPT !.connID = Peer(p), !.isConfirmed = TRUE, !.isUNL = unl]
  <2>1. PICK exFd : exFd = CHOOSE f \in DOMAIN pool : pool[f].connID = Peer(p)
      OBVIOUS
  <2>2. PICK K : \/ duplicate /\ K = kept(pool[exFd].isUNL \/ p \in Range(UNL[n]))
                 \/ ~ duplicate /\ K = kept(pool[fd].isUNL \/ p \in Range(UNL[n]))
      OBVIOUS
  <2>3. \/ UNCHANGED connectionPool
        \/ connectionPool' = [connectionPool EXCEPT ![n][exFd].connID = Closing(p), ![n][fd] = K]
        \/ connectionPool' = [connectionPool EXCEPT ![n][fd] = K]
      BY <2>1, <2>2, Zenon DEF NotifyConnectionVersion
  <2> QED
      BY <2>3, Zenon
<1>3. \/ UNCHANGED connectedPeers
      \/ \E s : connectedPeers' = [connectedPeers EXCEPT ![n] = s]
    BY Zenon DEF NotifyConnectionVersion
<1>4. \/ UNCHANGED socketsToClose
      \/ \E s : socketsToClose' = [socketsToClose EXCEPT ![n] = s]
    BY Zenon DEF NotifyConnectionVersion
<1>5. /\ DOMAIN connectionPool' = Node
      /\ \A m \in Node \ {n} : connectionPool'[m] = connectionPool[m]
    BY <1>2 DEF Shape
<1>6. /\ DOMAIN connectedPeers' = Node
      /\ \A m \in Node \ {n} : connectedPeers'[m] = connectedPeers[m]
    BY <1>3 DEF Shape
<1>7. /\ DOMAIN socketsToClose' = Node
      /\ \A m \in Node \ {n} : socketsToClose'[m] = socketsToClose[m]
    BY <1>4 DEF Shape
<1>8. /\ DOMAIN messageQueue' = Node
      /\ \A m \in Node \ {n} : messageQueue'[m] = messageQueue[m]
      /\ \A req \in messageQueue'[n] : req \in messageQueue[n] \/ req = ack
  <2> HIDE DEF ack
  <2> QED
      BY <1>1 DEF Shape
<1> QED
    BY <1>5, <1>6, <1>7, <1>8

LEMMA ReadEndStep ==
    ASSUME IInv, NEW n \in Node, UNCHANGED <<UNL, connectQueue, backlog>>,
           NEW fd \in DOMAIN connectionPool[n], ReadEnd(n, fd)
    PROVE  IInv'
<1>1. /\ Shape /\ LinksOK /\ AnswersReachTheirPeer
      /\ PoolOK(n) /\ NamesAreUnique(n) /\ QueuesOK(n) /\ TargetsOK(n) /\ BacklogOK(n)
    BY PartsOfInv
<1>2. /\ UNCHANGED <<connectionPool, connectedPeers, messageQueue, replies, links, received>>
      /\ socketsToClose' = [socketsToClose EXCEPT ![n] = @ \union {fd}]
    BY DEF ReadEnd
<1>3. Grows /\ LinksOK'
    BY <1>1, <1>2, SameLinksGrow
<1>4. PoolOK(n)' /\ NamesAreUnique(n)'
  <2>1. socketsToClose'[n] \subseteq DOMAIN connectionPool[n]
      BY <1>1, <1>2 DEF PoolOK, Shape
  <2> QED
      BY <1>1, <1>2, <1>3, <2>1, PoolKept, UniqueKept
<1>5. QueuesOK(n)'
    BY <1>1, <1>2, <1>3, QueuesKept
<1>6. TargetsOK(n)' /\ AnswersReachTheirPeer'
    BY <1>1, <1>2 DEF TargetsOK, AnswersReachTheirPeer
<1>7. Shape' /\ \A m \in Node \ {n} : Kept(m)
    BY <1>1, <1>2 DEF Shape, Kept
<1> QED
    BY <1>3, <1>4, <1>5, <1>6, <1>7, BacklogsKept, StepOfOne

\* The name of a connection, at any time, is one of the node at the other end.
LEMMA ConnectionNamesPeer ==
    ASSUME NEW n, NEW connection, ConnectionOK(n, connection)
    PROVE  Names(n, connection.connID, Other(connection.link, n))
<1>1. CASE connection.connID = Port(connection.link)
    BY <1>1 DEF ConnectionOK, Names
<1>2. CASE connection.connID # Port(connection.link)
  <2>1. connection.connID \in Name /\ connection.connID[1] # "port"
      BY <1>2 DEF ConnectionOK, NameOK, ConnectionRecord
  <2>2. PICK p \in Node : connection.connID \in {Peer(p), Closing(p)}
      BY <2>1 DEF Name, Peer, Closing
  <2>3. Other(connection.link, n) = p
      BY <2>2 DEF ConnectionOK
  <2> QED
      BY <2>2, <2>3 DEF Names
<1> QED
    BY <1>1, <1>2

LEMMA ReadMessageStep ==
    ASSUME IInv, NEW n \in Node, UNCHANGED <<UNL, connectQueue, backlog>>,
           NEW fd \in DOMAIN connectionPool[n], ReadMessage(n, fd)
    PROVE  IInv'
<1> DEFINE connection == connectionPool[n][fd]
<1>1. /\ Shape /\ LinksOK /\ AnswersReachTheirPeer
      /\ PoolOK(n) /\ NamesAreUnique(n) /\ QueuesOK(n) /\ TargetsOK(n) /\ BacklogOK(n)
    BY PartsOfInv
<1>2. PICK l, msg : l = connection.link /\ msg = Head(links[l].wire[n])
    OBVIOUS
<1>3. links[l].wire[n] # <<>> /\ links' = [links EXCEPT ![l].wire[n] = Tail(@)]
    BY <1>2, Zenon DEF ReadMessage
<1>4. ConnectionOK(n, connection)
    BY <1>1 DEF PoolOK
<1>5. l \in DOMAIN links /\ n \in Ends(l)
    BY <1>2, <1>4 DEF ConnectionOK
<1>6. LinksOK' /\ Grows /\ msg \in Letters(Other(l, n), n)
    BY <1>1, <1>2, <1>3, <1>5, ReadingKeepsLinks
<1>7. Other(l, n) \in Node
    BY <1>1, <1>5, OtherIsNode
<1>8. msg \in Message /\ msg.from = Other(l, n) /\ msg.to \in {0, n}
    BY <1>6 DEF Letters
<1>9. TargetsOK(n)' /\ \A m \in Node : BacklogOK(m)'
    BY <1>1, <1>6, BacklogsKept DEF TargetsOK
<1>10. \/ /\ connectionPool' = [connectionPool EXCEPT ![n][fd].isConfirmed = TRUE]
          /\ UNCHANGED <<connectedPeers, socketsToClose, messageQueue, replies, received>>
       \/ /\ ~ connection.isConfirmed /\ NotifyConnectionVersion(n, fd, msg.from)
          /\ UNCHANGED <<replies, received>>
       \/ /\ received' = [received EXCEPT ![n] = @ \union {msg}]
          /\ \/ replies' = [replies EXCEPT ![n] = @ \union {<<fd, connection.connID, msg.from>>}]
             \/ UNCHANGED replies
          /\ UNCHANGED <<connectionPool, connectedPeers, socketsToClose, messageQueue>>
       \/ UNCHANGED <<connectionPool, connectedPeers, socketsToClose, messageQueue, replies, received>>
    BY <1>2, Zenon DEF ReadMessage, filterMessage
<1>11. CASE /\ connectionPool' = [connectionPool EXCEPT ![n][fd].isConfirmed = TRUE]
            /\ UNCHANGED <<connectedPeers, socketsToClose, messageQueue, replies, received>>
  <2>1. PoolOK(n)' /\ NamesAreUnique(n)'
      BY <1>1, <1>6, <1>11, AckKeepsPool
  <2>2. QueuesOK(n)'
      BY <1>1, <1>6, <1>11, QueuesKept
  <2>3. AnswersReachTheirPeer'
      BY <1>1, <1>11 DEF AnswersReachTheirPeer
  <2>4. Shape' /\ \A m \in Node \ {n} : Kept(m)
      BY <1>1, <1>11 DEF Shape, Kept
  <2> QED
      BY <1>6, <1>9, <2>1, <2>2, <2>3, <2>4, StepOfOne
<1>12. CASE /\ ~ connection.isConfirmed /\ NotifyConnectionVersion(n, fd, msg.from)
            /\ UNCHANGED <<replies, received>>
  <2>1. PICK p \in Node : p = msg.from /\ p = Other(l, n)
      BY <1>7, <1>8
  <2>2. PoolOK(n)' /\ NamesAreUnique(n)'
      BY <1>1, <1>2, <1>6, <1>12, <2>1, NotifyKeepsPool
  <2>3. PICK ack : ack = [type |-> "ACK", from |-> n, to |-> p]
      OBVIOUS
  <2>4. PICK request : request = Request("ONE", fd, Peer(p), ack)
      OBVIOUS
  <2>5. RequestOK(n, request)'
    <3>1. /\ request.message = ack /\ request.type = "ONE" /\ request.peerID = Peer(p)
        BY <2>4 DEF Request
    <3>2. ack \in Message /\ ack.from = n /\ ack.to = p
        BY <2>3, MessagesAreMessages
    <3> QED
        BY <3>1, <3>2 DEF RequestOK, Names
  <2>6. /\ DOMAIN connectionPool' = Node /\ DOMAIN connectedPeers' = Node
        /\ DOMAIN socketsToClose' = Node /\ DOMAIN messageQueue' = Node
        /\ \A m \in Node \ {n} : /\ connectionPool'[m] = connectionPool[m]
                                 /\ connectedPeers'[m] = connectedPeers[m]
                                 /\ socketsToClose'[m] = socketsToClose[m]
                                 /\ messageQueue'[m] = messageQueue[m]
        /\ \A req \in messageQueue'[n] : req \in messageQueue[n] \/ req = request
      BY <1>1, <1>12, <2>1, <2>3, <2>4, NotifyIsOfOne
  <2>7. QueuesOK(n)'
      BY <1>1, <1>6, <1>12, <2>5, <2>6, QueuesKept
  <2>8. AnswersReachTheirPeer'
      BY <1>1, <1>12 DEF AnswersReachTheirPeer
  <2>9. Shape' /\ \A m \in Node \ {n} : Kept(m)
      BY <1>1, <1>12, <2>6 DEF Shape, Kept
  <2> QED
      BY <1>6, <1>9, <2>2, <2>7, <2>8, <2>9, StepOfOne
<1>13. CASE /\ received' = [received EXCEPT ![n] = @ \union {msg}]
            /\ \/ replies' = [replies EXCEPT ![n] = @ \union {<<fd, connection.connID, msg.from>>}]
               \/ UNCHANGED replies
            /\ UNCHANGED <<connectionPool, connectedPeers, socketsToClose, messageQueue>>
  <2>1. PoolOK(n)' /\ NamesAreUnique(n)'
      BY <1>1, <1>6, <1>13, PoolKept, UniqueKept DEF PoolOK
  <2>2. PICK r : r = <<fd, connection.connID, msg.from>>
      OBVIOUS
  <2>3. ReplyOK(n, r)
      BY <1>2, <1>4, <1>7, <1>8, <2>2, ConnectionNamesPeer DEF ReplyOK
  <2>4. ReplyOK(n, r)'
      BY <1>6, <2>3, ReplyKept
  <2>5. \A s \in replies'[n] : s \in replies[n] \/ s = r
      BY <1>1, <1>13, <2>2 DEF Shape
  <2>6. QueuesOK(n)'
      BY <1>1, <1>6, <1>13, <2>4, <2>5, QueuesKept
  <2>7. AnswersReachTheirPeer'
      BY <1>1, <1>8, <1>13 DEF AnswersReachTheirPeer, Shape
  <2>8. Shape' /\ \A m \in Node \ {n} : Kept(m)
      BY <1>1, <1>13 DEF Shape, Kept
  <2> QED
      BY <1>6, <1>9, <2>1, <2>6, <2>7, <2>8, StepOfOne
<1>14. CASE UNCHANGED <<connectionPool, connectedPeers, socketsToClose, messageQueue, replies, received>>
  <2>1. PoolOK(n)' /\ NamesAreUnique(n)'
      BY <1>1, <1>6, <1>14, PoolKept, UniqueKept DEF PoolOK
  <2>2. QueuesOK(n)'
      BY <1>1, <1>6, <1>14, QueuesKept
  <2>3. AnswersReachTheirPeer'
      BY <1>1, <1>14 DEF AnswersReachTheirPeer
  <2>4. Shape' /\ \A m \in Node \ {n} : Kept(m)
      BY <1>1, <1>14 DEF Shape, Kept
  <2> QED
      BY <1>6, <1>9, <2>1, <2>2, <2>3, <2>4, StepOfOne
<1> QED
    BY <1>10, <1>11, <1>12, <1>13, <1>14

LEMMA ReadSocketStep ==
    ASSUME IInv, NEW n \in Node, UNCHANGED UNL, ReadSocket(n)
    PROVE  IInv'
BY ReadEndStep, ReadMessageStep DEF ReadSocket

LEMMA DeleteConnectionsStep ==
    ASSUME IInv, NEW n \in Node, UNCHANGED UNL, DeleteConnections(n)
    PROVE  IInv'
<1> DEFINE pool == connectionPool[n]
           closed == socketsToClose[n]
<1>1. /\ Shape /\ LinksOK /\ AnswersReachTheirPeer
      /\ PoolOK(n) /\ NamesAreUnique(n) /\ QueuesOK(n) /\ TargetsOK(n) /\ BacklogOK(n)
    BY PartsOfInv
<1>2. /\ connectionPool' = [connectionPool EXCEPT ![n] = [fd \in DOMAIN pool \ closed |-> pool[fd]]]
      /\ connectedPeers' = [connectedPeers EXCEPT ![n] = @ \ {pool[fd].connID : fd \in closed}]
      /\ socketsToClose' = [socketsToClose EXCEPT ![n] = {}]
      /\ links' = CloseEnds({pool[fd].link : fd \in closed}, n)
      /\ UNCHANGED <<messageQueue, connectQueue, replies, backlog, received>>
    BY DEF DeleteConnections, queues, history
<1>3. LinksOK' /\ Grows
    BY <1>1, <1>2, ClosingKeepsLinks
<1>4. /\ DOMAIN connectionPool'[n] = DOMAIN pool \ closed
      /\ \A f \in DOMAIN pool \ closed : connectionPool'[n][f] = pool[f]
      /\ connectedPeers'[n] = connectedPeers[n] \ {pool[fd].connID : fd \in closed}
      /\ socketsToClose'[n] = {}
    BY <1>1, <1>2 DEF Shape
<1>5. PoolOK(n)'
  <2>1. DOMAIN connectionPool'[n] \in SUBSET Nat
      BY <1>1, <1>4 DEF PoolOK
  <2>2. IsFiniteSet(DOMAIN connectionPool'[n])
    <3>1. IsFiniteSet(DOMAIN pool) /\ DOMAIN connectionPool'[n] \subseteq DOMAIN pool
        BY <1>1, <1>4 DEF PoolOK
    <3> QED
        BY <3>1, FS_Subset
  <2>3. ASSUME NEW f \in DOMAIN connectionPool'[n], NEW c, c = connectionPool'[n][f]
        PROVE  ConnectionOK(n, c)'
    <3>1. c = pool[f] /\ ConnectionOK(n, c)
        BY <1>1, <1>4, <2>3 DEF PoolOK
    <3> QED
        BY <1>3, <3>1, ConnectionKept
  <2> QED
      BY <1>4, <2>1, <2>2, <2>3 DEF PoolOK, ConnectionOK
<1>6. NamesAreUnique(n)'
  <2>1. closed \subseteq DOMAIN pool
      BY <1>1 DEF PoolOK
  <2> QED
      BY <1>1, <1>4, <2>1 DEF NamesAreUnique
<1>7. QueuesOK(n)'
    BY <1>1, <1>2, <1>3, QueuesKept
<1>8. TargetsOK(n)' /\ AnswersReachTheirPeer'
    BY <1>1, <1>2 DEF TargetsOK, AnswersReachTheirPeer
<1>9. Shape' /\ \A m \in Node \ {n} : Kept(m)
    BY <1>1, <1>2 DEF Shape, Kept
<1>10. \A m \in Node : BacklogOK(m)'
    BY <1>2, <1>3, BacklogsKept
<1> QED
    BY <1>3, <1>5, <1>6, <1>7, <1>8, <1>9, <1>10, StepOfOne

\* A message goes to the connections its request names, which lead where it says.
LEMMA TargetsAreMeant ==
    ASSUME NEW n, PoolOK(n), NEW req, RequestOK(n, req), NEW fd \in Targets(n, req)
    PROVE  /\ fd \in DOMAIN connectionPool[n]
           /\ req.message.to \in {0, Other(connectionPool[n][fd].link, n)}
<1> DEFINE connection == connectionPool[n][fd]
<1>1. fd \in DOMAIN connectionPool[n]
    BY DEF Targets
<1>2. ConnectionOK(n, connection)
    BY <1>1 DEF PoolOK
<1>3. CASE req.message.to = 0
    BY <1>1, <1>3
<1>4. CASE req.type = "ONE" /\ Names(n, req.peerID, req.message.to)
  <2>1. connection.connID = req.peerID
      BY <1>4 DEF Targets
  <2>2. req.message.to \in Node => (connection.connID \in {Peer(req.message.to), Closing(req.message.to)}
            => Other(connection.link, n) = req.message.to)
      BY <1>2 DEF ConnectionOK
  <2>3. CASE \E l \in DOMAIN links : req.peerID = Port(l) /\ Other(l, n) = req.message.to
    <3>1. PICK l \in DOMAIN links : connection.connID = Port(l) /\ Other(l, n) = req.message.to
        BY <2>1, <2>3
    <3>2. connection.connID[1] = "port"
        BY <3>1 DEF Port
    <3>3. connection.connID = Port(connection.link)
        BY <1>2, <3>2 DEF ConnectionOK, NameOK
    <3>4. l = connection.link
        BY <3>1, <3>3, NamesAreNames
    <3> QED
        BY <1>1, <3>1, <3>4
  <2>4. CASE req.peerID \in {Peer(req.message.to), Closing(req.message.to)}
    <3>1. req.message.to \in Node \union {0}
        BY DEF RequestOK, Message
    <3> QED
        BY <1>1, <2>1, <2>2, <2>4, <3>1
  <2> QED
      BY <1>4, <2>3, <2>4 DEF Names
<1> QED
    BY <1>3, <1>4 DEF RequestOK

LEMMA SendMessageStep ==
    ASSUME IInv, NEW n \in Node, UNCHANGED UNL, SendMessage(n)
    PROVE  IInv'
<1>1. /\ Shape /\ LinksOK /\ AnswersReachTheirPeer
      /\ PoolOK(n) /\ NamesAreUnique(n) /\ QueuesOK(n) /\ TargetsOK(n) /\ BacklogOK(n)
    BY PartsOfInv
<1>2. PICK req \in messageQueue[n] :
        /\ messageQueue' = [messageQueue EXCEPT ![n] = @ \ {req}]
        /\ links' = Transmit(n, Targets(n, req), req.message)
    BY DEF SendMessage
<1>3. UNCHANGED <<connectionPool, connectedPeers, socketsToClose, connectQueue, replies, backlog, received>>
    BY DEF SendMessage, history
<1>4. RequestOK(n, req)
    BY <1>1 DEF QueuesOK
<1>5. LinksOK' /\ Grows
  <2>1. /\ Targets(n, req) \subseteq DOMAIN connectionPool[n]
        /\ \A fd \in Targets(n, req) :
                req.message.to \in {0, Other(connectionPool[n][fd].link, n)}
    <3> SUFFICES ASSUME NEW fd \in Targets(n, req)
                 PROVE  /\ fd \in DOMAIN connectionPool[n]
                        /\ req.message.to \in {0, Other(connectionPool[n][fd].link, n)}
        OBVIOUS
    <3> QED
        BY <1>1, <1>4, TargetsAreMeant
  <2>2. req.message \in Message /\ req.message.from = n
      BY <1>4 DEF RequestOK
  <2> QED
      BY <1>1, <1>2, <2>1, <2>2, WritingKeepsLinks
<1>6. PoolOK(n)' /\ NamesAreUnique(n)'
    BY <1>1, <1>3, <1>5, PoolKept, UniqueKept DEF PoolOK
<1>7. QueuesOK(n)'
  <2>1. messageQueue'[n] \subseteq messageQueue[n]
      BY <1>1, <1>2 DEF Shape
  <2> QED
      BY <1>1, <1>3, <1>5, <2>1, QueuesKept
<1>8. TargetsOK(n)' /\ AnswersReachTheirPeer'
    BY <1>1, <1>3 DEF TargetsOK, AnswersReachTheirPeer
<1>9. Shape' /\ \A m \in Node \ {n} : Kept(m)
    BY <1>1, <1>2, <1>3 DEF Shape, Kept
<1>10. \A m \in Node : BacklogOK(m)'
    BY <1>3, <1>5, BacklogsKept
<1> QED
    BY <1>5, <1>6, <1>7, <1>8, <1>9, <1>10, StepOfOne

\* A new link between two nodes, with nothing on its wires.
LEMMA ConnectingKeepsLinks ==
    ASSUME LinksOK, NEW n \in Node, NEW p \in Node \ {n},
           links' = Append(links, [initiator |-> n, acceptor |-> p, open |-> {n, p},
                                   wire |-> [m \in Node |-> <<>>]])
    PROVE  /\ LinksOK' /\ Grows
           /\ Len(links) + 1 \in Nat /\ Len(links) + 1 \in DOMAIN links'
           /\ links'[Len(links) + 1].initiator = n
           /\ links'[Len(links) + 1].acceptor = p
<1>1. PICK link : link = [initiator |-> n, acceptor |-> p, open |-> {n, p},
                          wire |-> [m \in Node |-> <<>>]]
    OBVIOUS
<1>2. /\ link \in Link /\ link.initiator = n /\ link.acceptor = p
      /\ \A m \in Node : link.wire[m] = <<>>
  <2>1. [m \in Node |-> <<>>] \in [Node -> Seq(Message)]
      OBVIOUS
  <2> QED
      BY <1>1, <2>1 DEF Link
<1>3. links \in Seq(Link)
    BY DEF LinksOK
<1>4. PICK k : k = Len(links) + 1
    OBVIOUS
<1>5. links' = Append(links, link)
    BY <1>1
<1>6. /\ links' \in Seq(Link)
      /\ DOMAIN links = 1 .. Len(links) /\ Len(links) \in Nat
      /\ DOMAIN links' = DOMAIN links \union {k} /\ k \notin DOMAIN links
      /\ links'[k] = link
      /\ \A l \in DOMAIN links : links'[l] = links[l]
    BY <1>2, <1>3, <1>4, <1>5
<1>7. Grows
    BY <1>6 DEF Grows
<1>8. ASSUME NEW l \in DOMAIN links'
      PROVE  /\ links'[l].initiator # links'[l].acceptor
             /\ \A m \in Node : links'[l].wire[m] \in Seq(Letters(Other(l, m)', m))
  <2>1. CASE l = k
      BY <1>2, <1>6, <2>1
  <2>2. CASE l # k
      BY <1>6, <1>7, <2>2, GrowsKeepsEnds DEF LinksOK
  <2> QED
      BY <2>1, <2>2
<1>9. LinksOK'
    BY <1>6, <1>8 DEF LinksOK
<1> QED
    BY <1>2, <1>4, <1>6, <1>7, <1>9

\* The step of ProcessConnectionRequest in which a connection is made.
LEMMA CreateNewConnectionStep ==
    ASSUME IInv, NEW n \in Node, NEW p \in Known \ {n},
           UNCHANGED <<UNL, socketsToClose, replies, received>>,
           connectQueue[n] # <<>>,
           connectQueue' = [connectQueue EXCEPT ![n] = Tail(@)],
           ~ isConnectionInConnectionPool(n, p),
           CreateNewConnection(n, p)
    PROVE  IInv'
<1>1. /\ Shape /\ LinksOK /\ AnswersReachTheirPeer
      /\ PoolOK(n) /\ NamesAreUnique(n) /\ QueuesOK(n) /\ TargetsOK(n) /\ BacklogOK(n)
    BY PartsOfInv
<1>2. p \in Node
    BY NodeAssumption
<1>3. PICK l : l = Len(links) + 1
    OBVIOUS
<1>4. PICK connection : connection = Connection(l, Peer(p), TRUE, TRUE)
    OBVIOUS
<1>5. PICK version : version = [type |-> "VERSION", from |-> n, to |-> p]
    OBVIOUS
<1>6. PICK request : request = Request("ONE", FreeDescriptor(n), Peer(p), version)
    OBVIOUS
<1>7. /\ links' = Append(links, [initiator |-> n, acceptor |-> p, open |-> {n, p},
                                 wire |-> [m \in Node |-> <<>>]])
      /\ backlog' = [backlog EXCEPT ![p] = Append(@, l)]
      /\ addConnectionToConnectionPool(n, FreeDescriptor(n), connection)
      /\ messageQueue' = [messageQueue EXCEPT ![n] = @ \union {request}]
    BY <1>3, <1>4, <1>5, <1>6, Zenon DEF CreateNewConnection
<1>8. /\ LinksOK' /\ Grows /\ l \in Nat /\ l \in DOMAIN links'
      /\ links'[l].initiator = n /\ links'[l].acceptor = p
    BY <1>1, <1>2, <1>3, <1>7, ConnectingKeepsLinks
<1>9. /\ connection.link = l /\ connection.connID = Peer(p) /\ connection.isConfirmed = TRUE
      /\ connection \in ConnectionRecord
  <2>1. Peer(p) \in Name
      BY <1>2, NamesAreNames
  <2> QED
      BY <1>4, <1>8, <2>1 DEF Connection, ConnectionRecord
<1>10. ConnectionOK(n, connection)'
  <2>1. n \in Ends(l)' /\ Other(l, n)' = p
      BY <1>8 DEF Ends, Other
  <2>2. NameOK(connection)
      BY <1>9 DEF NameOK, Peer
  <2>3. \A q \in Node : connection.connID \in {Peer(q), Closing(q)} => q = p
      BY <1>9, NamesAreNames
  <2> QED
      BY <1>8, <1>9, <2>1, <2>2, <2>3 DEF ConnectionOK
<1>11. PoolOK(n)' /\ NamesAreUnique(n)'
  <2>1. \A q \in Node : connection.connID = Peer(q) => ~ isConnectionInConnectionPool(n, q)
    <3>1. \A q \in Node : connection.connID = Peer(q) => q = p
        BY <1>9, NamesAreNames
    <3> QED
        BY <3>1
  <2> QED
      BY <1>1, <1>7, <1>8, <1>10, <2>1, AddingKeepsPool
<1>12. QueuesOK(n)'
  <2>1. \A req \in messageQueue'[n] : req \in messageQueue[n] \/ req = request
      BY <1>1, <1>7 DEF Shape
  <2>2. /\ request.message = version /\ request.type = "ONE" /\ request.peerID = Peer(p)
      BY <1>6 DEF Request
  <2>3. version \in Message /\ version.from = n /\ version.to = p
      BY <1>2, <1>5, MessagesAreMessages
  <2>4. RequestOK(n, request)'
      BY <2>2, <2>3 DEF RequestOK, Names
  <2> QED
      BY <1>1, <1>8, <2>1, <2>4, QueuesKept
<1>13. TargetsOK(n)'
  <2>1. connectQueue'[n] = Tail(connectQueue[n])
      BY <1>1 DEF Shape
  <2> QED
      BY <1>1, <2>1 DEF TargetsOK
<1>14. AnswersReachTheirPeer'
    BY <1>1 DEF AnswersReachTheirPeer
<1>15. Shape' /\ \A m \in Node \ {n} : Kept(m)
    BY <1>1, <1>2, <1>7 DEF Shape, Kept, addConnectionToConnectionPool
<1>16. ASSUME NEW m \in Node
       PROVE  BacklogOK(m)'
  <2>1. BacklogOK(m)
      BY PartsOfInv
  <2>2. CASE m # p
    <3>1. backlog'[m] = backlog[m]
        BY <1>1, <1>7, <2>2 DEF Shape
    <3> QED
        BY <1>8, <2>1, <3>1, BacklogKept
  <2>3. CASE m = p
    <3>1. backlog'[p] = Append(backlog[p], l)
        BY <1>1, <1>2, <1>7 DEF Shape
    <3>2. backlog[p] \in Seq(Nat)
        BY <2>1, <2>3 DEF BacklogOK
    <3>3. backlog'[p] \in Seq(Nat)
        BY <1>8, <3>1, <3>2
    <3>4. \A i \in DOMAIN backlog'[p] :
            \/ i \in DOMAIN backlog[p] /\ backlog'[p][i] = backlog[p][i]
            \/ backlog'[p][i] = l
        BY <1>8, <3>1, <3>2
    <3>5. \A i \in DOMAIN backlog[p] :
            backlog[p][i] \in DOMAIN links' /\ links'[backlog[p][i]].acceptor = p
        BY <1>8, <2>1, <2>3 DEF BacklogOK, Grows
    <3> QED
        BY <1>8, <2>3, <3>3, <3>4, <3>5 DEF BacklogOK
  <2> QED
      BY <2>2, <2>3
<1> QED
    BY <1>8, <1>11, <1>12, <1>13, <1>14, <1>15, <1>16, StepOfOne

LEMMA ProcessConnectionRequestStep ==
    ASSUME IInv, NEW n \in Node, UNCHANGED UNL, ProcessConnectionRequest(n)
    PROVE  IInv'
<1>1. /\ Shape /\ LinksOK /\ AnswersReachTheirPeer
      /\ PoolOK(n) /\ NamesAreUnique(n) /\ QueuesOK(n) /\ TargetsOK(n) /\ BacklogOK(n)
    BY PartsOfInv
<1>2. PICK p : p = Head(connectQueue[n])
    OBVIOUS
<1>3. /\ connectQueue[n] # <<>>
      /\ connectQueue' = [connectQueue EXCEPT ![n] = Tail(@)]
      /\ UNCHANGED <<socketsToClose, replies, received>>
      /\ \/ p \in Known /\ ~ isConnectionInConnectionPool(n, p) /\ CreateNewConnection(n, p)
         \/ UNCHANGED <<links, backlog, connectionPool, connectedPeers, messageQueue>>
    BY <1>2, Zenon DEF ProcessConnectionRequest, history
<1>4. p # n /\ TargetsOK(n)'
  <2>1. connectQueue'[n] = Tail(connectQueue[n])
      BY <1>1, <1>3 DEF Shape
  <2> QED
      BY <1>1, <1>2, <1>3, <2>1 DEF TargetsOK
<1>5. CASE p \in Known /\ ~ isConnectionInConnectionPool(n, p) /\ CreateNewConnection(n, p)
    BY <1>3, <1>4, <1>5, CreateNewConnectionStep
<1>6. CASE UNCHANGED <<links, backlog, connectionPool, connectedPeers, messageQueue>>
  <2>1. LinksOK' /\ Grows
      BY <1>1, <1>6, SameLinksGrow
  <2>2. PoolOK(n)' /\ NamesAreUnique(n)'
      BY <1>1, <1>3, <1>6, <2>1, PoolKept, UniqueKept DEF PoolOK
  <2>3. QueuesOK(n)'
      BY <1>1, <1>3, <1>6, <2>1, QueuesKept
  <2>4. AnswersReachTheirPeer'
      BY <1>1, <1>3 DEF AnswersReachTheirPeer
  <2>5. Shape' /\ \A m \in Node \ {n} : Kept(m)
      BY <1>1, <1>3, <1>6 DEF Shape, Kept
  <2> QED
      BY <1>4, <1>6, <2>1, <2>2, <2>3, <2>4, <2>5, BacklogsKept, StepOfOne
<1> QED
    BY <1>3, <1>5, <1>6

\* A step of another thread of n, which touches its queues alone.
LEMMA QueueStep ==
    ASSUME IInv, NEW n \in Node,
           UNCHANGED <<UNL, connectionPool, connectedPeers, socketsToClose, links, backlog, received>>,
           DOMAIN messageQueue' = Node, DOMAIN connectQueue' = Node, DOMAIN replies' = Node,
           \A m \in Node \ {n} : /\ messageQueue'[m] = messageQueue[m]
                                 /\ connectQueue'[m] = connectQueue[m]
                                 /\ replies'[m] = replies[m],
           \A req \in messageQueue'[n] : req \in messageQueue[n] \/ RequestOK(n, req),
           replies'[n] \subseteq replies[n],
           connectQueue'[n] \in Seq(Nat \ {0, n})
    PROVE  IInv'
<1>1. /\ Shape /\ LinksOK /\ AnswersReachTheirPeer
      /\ PoolOK(n) /\ NamesAreUnique(n) /\ QueuesOK(n) /\ TargetsOK(n) /\ BacklogOK(n)
    BY PartsOfInv
<1>2. LinksOK' /\ Grows
    BY <1>1, SameLinksGrow
<1>3. PoolOK(n)' /\ NamesAreUnique(n)'
    BY <1>1, <1>2, PoolKept, UniqueKept DEF PoolOK
<1>4. QueuesOK(n)'
    BY <1>1, <1>2, RequestKept, QueuesKept
<1>5. TargetsOK(n)' /\ AnswersReachTheirPeer'
    BY <1>1 DEF TargetsOK, AnswersReachTheirPeer
<1>6. Shape' /\ \A m \in Node \ {n} : Kept(m)
    BY <1>1 DEF Shape, Kept
<1> QED
    BY <1>2, <1>3, <1>4, <1>5, <1>6, BacklogsKept, StepOfOne

LEMMA AssignStep ==
    ASSUME IInv, NEW n \in DOMAIN UNL, UNCHANGED UNL, Assign(n)
    PROVE  IInv'
<1>1. n \in Node /\ UNL[n] \in Seq(Nat \ {0, n})
    BY NodeAssumption DEF IInv
<1>2. Shape
    BY DEF IInv
<1>3. /\ connectQueue' = [connectQueue EXCEPT ![n] = UNL[n]]
      /\ UNCHANGED <<connectionPool, connectedPeers, socketsToClose, links, backlog, received,
                     messageQueue, replies>>
    BY DEF Assign, manager, network, history
<1>4. /\ DOMAIN connectQueue' = Node /\ connectQueue'[n] = UNL[n]
      /\ \A m \in Node \ {n} : connectQueue'[m] = connectQueue[m]
    BY <1>1, <1>2, <1>3 DEF Shape
<1> QED
    BY <1>1, <1>2, <1>3, <1>4, QueueStep DEF Shape

LEMMA PublishStep ==
    ASSUME IInv, NEW n \in Node, UNCHANGED UNL, Publish(n)
    PROVE  IInv'
<1>1. Shape /\ TargetsOK(n)
    BY PartsOfInv
<1>2. PICK type \in {"INV", "BLOCKPROPOSAL"} :
        AddMessageRequest(n, Request("BROADCAST", 0, Nobody, [type |-> type, from |-> n, to |-> 0]))
    BY DEF Publish
<1>3. PICK msg : msg = [type |-> type, from |-> n, to |-> 0]
    OBVIOUS
<1>4. PICK request : request = Request("BROADCAST", 0, Nobody, msg)
    OBVIOUS
<1>5. RequestOK(n, request)
  <2>1. request.message = msg
      BY <1>4 DEF Request
  <2>2. msg \in Message /\ msg.from = n /\ msg.to = 0
      BY <1>3, MessagesAreMessages
  <2> QED
      BY <2>1, <2>2 DEF RequestOK
<1>6. UNCHANGED <<connectionPool, connectedPeers, socketsToClose, links, backlog, received,
                  connectQueue, replies>>
    BY DEF Publish, manager, network, history
<1>7. messageQueue' = [messageQueue EXCEPT ![n] = @ \union {request}]
    BY <1>2, <1>3, <1>4 DEF AddMessageRequest
<1>8. /\ DOMAIN messageQueue' = Node
      /\ \A m \in Node \ {n} : messageQueue'[m] = messageQueue[m]
      /\ \A req \in messageQueue'[n] : req \in messageQueue[n] \/ RequestOK(n, req)
    BY <1>1, <1>5, <1>7 DEF Shape
<1> QED
    BY <1>1, <1>6, <1>8, QueueStep DEF Shape, TargetsOK

LEMMA ReplyStep ==
    ASSUME IInv, NEW n \in Node, UNCHANGED UNL, Reply(n)
    PROVE  IInv'
<1>1. Shape /\ TargetsOK(n) /\ QueuesOK(n)
    BY PartsOfInv
<1>2. PICK r \in replies[n] :
        /\ AddMessageRequest(n, Request("ONE", r[1], r[2],
                                        [type |-> "GETDATA", from |-> n, to |-> r[3]]))
        /\ replies' = [replies EXCEPT ![n] = @ \ {r}]
    BY DEF Reply
<1>3. PICK msg : msg = [type |-> "GETDATA", from |-> n, to |-> r[3]]
    OBVIOUS
<1>4. PICK request : request = Request("ONE", r[1], r[2], msg)
    OBVIOUS
<1>5. RequestOK(n, request)
  <2>1. request.message = msg /\ request.type = "ONE" /\ request.peerID = r[2]
      BY <1>4 DEF Request
  <2>2. r[3] \in Node /\ Names(n, r[2], r[3])
      BY <1>1 DEF QueuesOK, ReplyOK
  <2>3. msg \in Message /\ msg.from = n /\ msg.to = r[3]
      BY <1>3, <2>2, MessagesAreMessages
  <2> QED
      BY <2>1, <2>2, <2>3 DEF RequestOK
<1>6. UNCHANGED <<connectionPool, connectedPeers, socketsToClose, links, backlog, received, connectQueue>>
    BY DEF Reply, manager, network, history
<1>7. messageQueue' = [messageQueue EXCEPT ![n] = @ \union {request}]
    BY <1>2, <1>3, <1>4 DEF AddMessageRequest
<1>8. /\ DOMAIN messageQueue' = Node
      /\ \A m \in Node \ {n} : messageQueue'[m] = messageQueue[m]
      /\ \A req \in messageQueue'[n] : req \in messageQueue[n] \/ RequestOK(n, req)
    BY <1>1, <1>5, <1>7 DEF Shape
<1>9. /\ DOMAIN replies' = Node /\ replies'[n] \subseteq replies[n]
      /\ \A m \in Node \ {n} : replies'[m] = replies[m]
    BY <1>1, <1>2 DEF Shape
<1> QED
    BY <1>1, <1>6, <1>8, <1>9, QueueStep DEF Shape, TargetsOK

LEMMA StopStep ==
    ASSUME IInv, NEW n \in Node, UNCHANGED UNL, Stop(n)
    PROVE  IInv'
<1>1. /\ Shape /\ LinksOK /\ AnswersReachTheirPeer
      /\ PoolOK(n) /\ NamesAreUnique(n) /\ QueuesOK(n) /\ TargetsOK(n) /\ BacklogOK(n)
    BY PartsOfInv
<1>2. /\ connectionPool' = [connectionPool EXCEPT ![n] = <<>>]
      /\ connectedPeers' = [connectedPeers EXCEPT ![n] = {}]
      /\ socketsToClose' = [socketsToClose EXCEPT ![n] = {}]
      /\ messageQueue' = [messageQueue EXCEPT ![n] = {}]
      /\ connectQueue' = [connectQueue EXCEPT ![n] = <<>>]
      /\ replies' = [replies EXCEPT ![n] = {}]
      /\ links' = CloseEnds({l \in DOMAIN links : n \in links[l].open}, n)
      /\ backlog' = [backlog EXCEPT ![n] = <<>>]
      /\ UNCHANGED received
    BY DEF Stop
<1>3. LinksOK' /\ Grows
    BY <1>1, <1>2, ClosingKeepsLinks
<1>4. /\ DOMAIN connectionPool'[n] = {} /\ connectedPeers'[n] = {} /\ socketsToClose'[n] = {}
      /\ messageQueue'[n] = {} /\ connectQueue'[n] = <<>> /\ replies'[n] = {}
      /\ backlog'[n] = <<>>
    BY <1>1, <1>2 DEF Shape
<1>5. PoolOK(n)' /\ NamesAreUnique(n)'
    BY <1>4, FS_EmptySet DEF PoolOK, NamesAreUnique
<1>6. QueuesOK(n)' /\ TargetsOK(n)' /\ BacklogOK(n)'
    BY <1>4 DEF QueuesOK, TargetsOK, BacklogOK
<1>7. AnswersReachTheirPeer'
    BY <1>1, <1>2 DEF AnswersReachTheirPeer
<1>8. Shape' /\ \A m \in Node \ {n} : Kept(m)
    BY <1>1, <1>2 DEF Shape, Kept
<1>9. ASSUME NEW m \in Node \ {n}
      PROVE  BacklogOK(m)'
  <2>1. backlog'[m] = backlog[m]
      BY <1>1, <1>2 DEF Shape
  <2> QED
      BY <1>3, <2>1, PartsOfInv, BacklogKept
<1> QED
    BY <1>3, <1>5, <1>6, <1>7, <1>8, <1>9, StepOfOne

\* Nothing of what the invariant is about changes.
LEMMA StutterStep ==
    ASSUME IInv, UNCHANGED <<UNL, connectionPool, connectedPeers, socketsToClose, queues, links,
                             backlog, received>>
    PROVE  IInv'
<1>1. Shape' /\ AnswersReachTheirPeer' /\ UNL' \in Networks
    BY DEF IInv, Shape, AnswersReachTheirPeer, queues
<1>2. LinksOK' /\ Grows
    BY SameLinksGrow DEF IInv
<1>3. ASSUME NEW n \in Node
      PROVE  NodeOK(n)'
  <2>1. PoolOK(n) /\ NamesAreUnique(n) /\ QueuesOK(n) /\ TargetsOK(n) /\ BacklogOK(n)
      BY PartsOfInv
  <2>2. PoolOK(n)' /\ NamesAreUnique(n)'
      BY <1>2, <2>1, PoolKept, UniqueKept DEF PoolOK
  <2>3. QueuesOK(n)'
      BY <1>2, <2>1, QueuesKept DEF queues
  <2>4. TargetsOK(n)' /\ BacklogOK(n)'
      BY <1>2, <2>1, BacklogKept DEF TargetsOK, queues
  <2> QED
      BY <2>2, <2>3, <2>4 DEF NodeOK
<1> QED
    BY <1>1, <1>2, <1>3 DEF IInv

LEMMA NextInv ==
    IInv /\ [Next]_vars => IInv'
<1> SUFFICES ASSUME IInv, [Next]_vars
             PROVE  IInv'
    OBVIOUS
<1>1. CASE UNCHANGED vars
    BY <1>1, StutterStep DEF vars, manager, network, history
<1>2. CASE Next
  <2>1. UNCHANGED UNL
      BY <1>2 DEF Next
  <2>2. PICK n \in DOMAIN UNL :
            Manage(n) \/ Start(n) \/ Assign(n) \/ Publish(n) \/ Reply(n) \/ Stop(n)
      BY <1>2 DEF Next
  <2>3. n \in Node
      BY NodeAssumption DEF IInv
  <2>4. CASE Manage(n)
      BY <2>1, <2>3, <2>4, PollStep, ReadSocketStep, DeleteConnectionsStep, SendMessageStep,
         ProcessConnectionRequestStep DEF Manage
  <2>5. CASE Start(n)
      BY <2>1, <2>5, StutterStep DEF Start, manager, network, history
  <2>6. CASE Assign(n)
      BY <2>1, <2>6, AssignStep
  <2>7. CASE Publish(n)
      BY <2>1, <2>3, <2>7, PublishStep
  <2>8. CASE Reply(n)
      BY <2>1, <2>3, <2>8, ReplyStep
  <2>9. CASE Stop(n)
      BY <2>1, <2>3, <2>9, StopStep
  <2> QED
      BY <2>2, <2>4, <2>5, <2>6, <2>7, <2>8, <2>9
<1> QED
    BY <1>1, <1>2

-----------------------------------------------------------------------------
(* Theorems *)

\* The invariant holds, whatever the nodes do and however often they stop.
THEOREM Invariance ==
    Spec => []IInv
BY InitInv, NextInv, PTL DEF Spec

\* notifyConnectionVersion and processConnectionQueueRequests together never call
\* two connections by the id of one peer, and the one that is called so leads to it.
THEOREM OneConnection ==
    Spec => []OneConnectionOfPeer
<1>1. ASSUME IInv
      PROVE  OneConnectionOfPeer
  <2> SUFFICES ASSUME NEW n \in Node, NEW p \in Node
               PROVE  /\ Cardinality(ConnectionOf(n, p)) <= 1
                      /\ Peer(p) \in connectedPeers[n] <=> ConnectionOf(n, p) # {}
                      /\ \A fd \in ConnectionOf(n, p) : Other(connectionPool[n][fd].link, n) = p
      BY DEF OneConnectionOfPeer
  <2>1. PoolOK(n) /\ NamesAreUnique(n)
      BY <1>1, PartsOfInv
  <2>2. Cardinality(ConnectionOf(n, p)) <= 1
    <3>1. CASE ConnectionOf(n, p) = {}
        BY <3>1, FS_EmptySet
    <3>2. CASE ConnectionOf(n, p) # {}
      <4>1. PICK fd : ConnectionOf(n, p) = {fd}
          BY <2>1, <3>2 DEF NamesAreUnique, ConnectionOf
      <4> QED
          BY <4>1, FS_Singleton
    <3> QED
        BY <3>1, <3>2
  <2>3. Peer(p) \in connectedPeers[n] <=> ConnectionOf(n, p) # {}
      BY <2>1 DEF NamesAreUnique, ConnectionOf
  <2>4. \A fd \in ConnectionOf(n, p) : Other(connectionPool[n][fd].link, n) = p
      BY <2>1 DEF PoolOK, ConnectionOK, ConnectionOf
  <2> QED
      BY <2>2, <2>3, <2>4
<1> QED
    BY <1>1, Invariance, PTL

\* The id that a request carries beside the descriptor keeps an answer from the
\* connection that got the descriptor of one that was closed.
THEOREM AnswersGoRight ==
    Spec => []AnswersReachTheirPeer
<1>1. IInv => AnswersReachTheirPeer
    BY DEF IInv
<1> QED
    BY <1>1, Invariance, PTL
=============================================================================
