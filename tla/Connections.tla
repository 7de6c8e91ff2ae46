---------------------------- MODULE Connections ----------------------------
(***************************************************************************)
(* The connection managers of several nodes: the loop of manageConnections *)
(* that polls the sockets, closes what is to be closed, sends the messages *)
(* and makes the connections that other threads asked for; the handshake   *)
(* of VERSION and ACK, and the end of one of two connections that two      *)
(* nodes make with each other.                                             *)
(*                                                                         *)
(* A link is a TCP connection: messages arrive in order or not at all, and *)
(* after them the end of the other side.  A turn of the loop in which poll *)
(* times out and nothing is asked for is a stuttering step.                *)
(***************************************************************************)
EXTENDS Integers, FiniteSets, FiniteSetsExt, Sequences, SequencesExt

CONSTANTS
    Node,           \* wallet ids of the nodes, which are ordered
    Networks,       \* the nodes that take part, each with its UNL, in several ways
    Known,          \* the wallet ids in the database of addresses
    MaxNetwork,     \* bound on the nodes and the connections ever made, together
    MaxStops,       \* bound on the number of times a node stops
    MaxRequests     \* bound on the messages that other threads send

ASSUME NodeAssumption ==
    /\ Node \subseteq Nat \ {0}
    /\ \A network \in Networks : /\ DOMAIN network \subseteq Node
                                 /\ \A n \in DOMAIN network : network[n] \in Seq(Nat \ {0, n})
    /\ Known \subseteq Node
    /\ MaxNetwork \in Nat /\ MaxStops \in Nat /\ MaxRequests \in Nat

VARIABLES
    UNL,            \* UNL[n]: the wallet ids n connects to, read from its configuration
    phase,          \* phase[n]: how far the main thread of n has come
    pc,             \* pc[n]: where the thread of the manager is in its loop
    connectionPool, \* connectionPool[n]: descriptors mapped to connections
    connectedPeers, \* connectedPeers[n]: setOfConnectedPeers
    descriptors,    \* descriptors[n]: the sockets that are polled, in order
    ready,          \* ready[n]: the sockets poll found ready, still to be read
    socketsToClose, \* socketsToClose[n]: descriptors
    messageQueue,   \* messageQueue[n]: messages to send
    connectQueue,   \* connectQueue[n]: peers to connect to
    replies,        \* replies[n]: answers the message processor is about to ask for
    links,          \* the TCP connections made so far
    backlog,        \* backlog[n]: links the server of n has not accepted
    received,       \* history: received[n]: what reached the message processor of n
    versionLost,    \* history: a VERSION came before the processor was ready
    stops,          \* the number of times a node stopped
    asked           \* the number of messages other threads sent

manager == <<pc, connectionPool, connectedPeers, descriptors, ready, socketsToClose>>
queues == <<messageQueue, connectQueue, replies>>
network == <<links, backlog>>
history == <<received, versionLost, stops>>
vars == <<UNL, phase, manager, queues, network, history, asked>>

-----------------------------------------------------------------------------
(* Messages and connections *)

\* The message types by rank, which is their priority.
MessageType == [VERSION |-> 0, ACK |-> 1, INV |-> 50, GETDATA |-> 51, BLOCKPROPOSAL |-> 101]

\* A message names its author, and the peer it was meant for when it is an answer.
Message == [type : DOMAIN MessageType, from : Node, to : Node \union {0}]

\* The name of a connection: the wallet id of the peer, at first the port of an
\* accepted one, at last a part of the id of one that is to be closed.
Peer(p) == <<"peer", p>>
Port(l) == <<"port", l>>
Closing(p) == <<"closing", p>>
Nobody == <<"nobody", 0>>

Request(type, fd, peer, msg) == [type |-> type, connectionID |-> fd, peerID |-> peer, message |-> msg]

Connection(link, name, confirmed, unl) ==
    [link |-> link, connID |-> name, isConfirmed |-> confirmed, isUNL |-> unl]

Init ==
    /\ UNL \in Networks
    /\ phase = [n \in Node |-> "down"]
    /\ pc = [n \in Node |-> "poll"]
    /\ connectionPool = [n \in Node |-> <<>>]
    /\ connectedPeers = [n \in Node |-> {}]
    /\ descriptors = [n \in Node |-> <<>>]
    /\ ready = [n \in Node |-> <<>>]
    /\ socketsToClose = [n \in Node |-> {}]
    /\ messageQueue = [n \in Node |-> {}]
    /\ connectQueue = [n \in Node |-> <<>>]
    /\ replies = [n \in Node |-> {}]
    /\ links = <<>>
    /\ backlog = [n \in Node |-> <<>>]
    /\ received = [n \in Node |-> {}]
    /\ versionLost = FALSE
    /\ stops = 0
    /\ asked = 0

\* The lowest free descriptor, as the operating system gives it.
FreeDescriptor(n) ==
    Min((1 .. Cardinality(DOMAIN connectionPool[n]) + 1) \ DOMAIN connectionPool[n])

Other(l, n) == IF n = links[l].initiator THEN links[l].acceptor ELSE links[l].initiator

\* The ends at n of the links in closed are closed: n reads no more, the other
\* side reads what was sent and then the end.
CloseEnds(closed, n) ==
    [l \in DOMAIN links |->
        IF l \in closed THEN [links[l] EXCEPT !.open = @ \ {n}, !.wire[n] = <<>>] ELSE links[l]]

\* Connections of n, given by their descriptors, that msg is written to.
Transmit(n, fds, msg) ==
    [l \in DOMAIN links |->
        IF \E fd \in fds : connectionPool[n][fd].link = l /\ Other(l, n) \in links[l].open
        THEN [links[l] EXCEPT !.wire[Other(l, n)] = Append(@, msg)]
        ELSE links[l]]

\* Mutant of isConnectionInConnectionPool: the names are not looked up.
NeverInConnectionPool(n, p) == FALSE

isConnectionInConnectionPool(n, p) == Peer(p) \in connectedPeers[n]

addConnectionToConnectionPool(n, fd, connection) ==
    /\ connectionPool' = [connectionPool EXCEPT ![n] =
                            [f \in DOMAIN @ \union {fd} |-> IF f = fd THEN connection ELSE @[f]]]
    /\ connectedPeers' = [connectedPeers EXCEPT ![n] = @ \union {connection.connID}]
    /\ descriptors' = [descriptors EXCEPT ![n] = Append(@, fd)]

-----------------------------------------------------------------------------
(* manageConnections *)

\* Where the loop goes on: what has nothing to do is passed at once.
AfterConnections == "poll"
AfterMessages(connects) == IF connects # <<>> THEN "connections" ELSE AfterConnections
AfterReading(messages, connects) == IF messages # {} THEN "messages" ELSE AfterMessages(connects)

\* Data, or the end of the other side, waits at the socket.
Readable(n, fd) ==
    LET l == connectionPool[n][fd].link
    IN  links[l].wire[n] # <<>> \/ Other(l, n) \notin links[l].open

\* The server accepts one connection, named by the port of the peer.
AcceptNewConnection(n) ==
    LET l == Head(backlog[n])
    IN  /\ backlog' = [backlog EXCEPT ![n] = Tail(@)]
        /\ addConnectionToConnectionPool(n, FreeDescriptor(n),
                                         Connection(l, Port(l), FALSE, FALSE))

\* poll tells which sockets can be read; one just accepted is read next time.
Poll(n) ==
    /\ phase[n] # "down" /\ pc[n] = "poll"
    /\ ready' = [ready EXCEPT ![n] = SelectSeq(descriptors[n], LAMBDA fd : Readable(n, fd))]
    /\ \/ /\ backlog[n] # <<>>
          /\ AcceptNewConnection(n)
          /\ pc' = [pc EXCEPT ![n] = "read"]
       \/ /\ backlog[n] = <<>> /\ ready'[n] # <<>>
          /\ pc' = [pc EXCEPT ![n] = "read"]
          /\ UNCHANGED <<backlog, connectionPool, connectedPeers, descriptors>>
       \/ /\ backlog[n] = <<>> /\ ready'[n] = <<>>
          /\ messageQueue[n] # {} \/ connectQueue[n] # <<>>
          /\ pc' = [pc EXCEPT ![n] = AfterReading(messageQueue[n], connectQueue[n])]
          /\ UNCHANGED <<backlog, connectionPool, connectedPeers, descriptors>>
    /\ UNCHANGED <<phase, socketsToClose, queues, links, history, asked>>

\* What passes filterMessage, apart from ACK, which only confirms.
filterMessage(connection, msg) ==
    CASE msg.type = "VERSION" -> ~ connection.isConfirmed
      [] msg.type = "BLOCKPROPOSAL" -> connection.isConfirmed /\ connection.isUNL
      [] OTHER -> connection.isConfirmed

\* Mutant of KeepsExisting: the new one of two connections is always closed.
KeepsAlways(n, p) == TRUE

\* Which of two connections n keeps: both sides must keep the same one.
KeepsExisting(n, p) == n > p

\* notifyConnectionVersion: the VERSION of peer p came on descriptor fd.
\* When p is connected already, the id decides which connection stays.
NotifyConnectionVersion(n, fd, p) ==
    LET thisConn == connectionPool[n][fd]
        duplicate == isConnectionInConnectionPool(n, p)
        exFd == CHOOSE f \in DOMAIN connectionPool[n] : connectionPool[n][f].connID = Peer(p)
        exConn == connectionPool[n][exFd]
        onUNL == p \in Range(UNL[n])
        kept(unl) == [thisConn EXCEPT !.connID = Peer(p), !.isConfirmed = TRUE, !.isUNL = unl]
        ack == Request("ONE", fd, Peer(p), [type |-> "ACK", from |-> n, to |-> p])
    IN  \/ /\ duplicate /\ KeepsExisting(n, p)
           /\ socketsToClose' = [socketsToClose EXCEPT ![n] = @ \union {fd}]
           /\ UNCHANGED <<connectionPool, connectedPeers, messageQueue>>
        \/ /\ duplicate /\ ~ KeepsExisting(n, p)
           /\ connectionPool' = [connectionPool EXCEPT ![n][exFd].connID = Closing(p),
                                                       ![n][fd] = kept(exConn.isUNL \/ onUNL)]
           /\ socketsToClose' = [socketsToClose EXCEPT ![n] = @ \union {exFd}]
           /\ connectedPeers' = [connectedPeers EXCEPT ![n] =
                                    ((@ \ {thisConn.connID}) \union {Closing(p), Peer(p)})]
           /\ messageQueue' = [messageQueue EXCEPT ![n] = @ \union {ack}]
        \/ /\ ~ duplicate
           /\ connectionPool' = [connectionPool EXCEPT ![n][fd] = kept(thisConn.isUNL \/ onUNL)]
           /\ connectedPeers' = [connectedPeers EXCEPT ![n] =
                                    (@ \ {thisConn.connID}) \union {Peer(p)}]
           /\ messageQueue' = [messageQueue EXCEPT ![n] = @ \union {ack}]
           /\ UNCHANGED socketsToClose

\* handleConnectionPoll: the end of the other side.
ReadEnd(n, fd) ==
    /\ links[connectionPool[n][fd].link].wire[n] = <<>>
    /\ socketsToClose' = [socketsToClose EXCEPT ![n] = @ \union {fd}]
    /\ UNCHANGED <<connectionPool, connectedPeers, messageQueue, replies, links,
                   received, versionLost>>

\* handleConnectionPoll: one message.  Before assignConnectionManager the
\* processor forgets what it is given.
ReadMessage(n, fd) ==
    LET connection == connectionPool[n][fd]
        l == connection.link
        msg == Head(links[l].wire[n])
        passes == filterMessage(connection, msg)
    IN  /\ links[l].wire[n] # <<>>
        /\ links' = [links EXCEPT ![l].wire[n] = Tail(@)]
        /\ \/ /\ msg.type = "ACK"
              /\ connectionPool' = [connectionPool EXCEPT ![n][fd].isConfirmed = TRUE]
              /\ UNCHANGED <<connectedPeers, socketsToClose, messageQueue, replies,
                             received, versionLost>>
           \/ /\ msg.type = "VERSION" /\ passes
              /\ \/ /\ phase[n] = "up"
                    /\ NotifyConnectionVersion(n, fd, msg.from)
                    /\ UNCHANGED versionLost
                 \/ /\ phase[n] = "starting"
                    /\ versionLost' = TRUE
                    /\ UNCHANGED <<connectionPool, connectedPeers, socketsToClose, messageQueue>>
              /\ UNCHANGED <<replies, received>>
           \/ /\ msg.type \notin {"ACK", "VERSION"} /\ passes /\ phase[n] = "up"
              /\ received' = [received EXCEPT ![n] = @ \union {msg}]
              /\ replies' = IF msg.type = "INV"
                            THEN [replies EXCEPT ![n] = @ \union {<<fd, connection.connID, msg.from>>}]
                            ELSE replies
              /\ UNCHANGED <<connectionPool, connectedPeers, socketsToClose, messageQueue,
                             versionLost>>
           \/ /\ msg.type # "ACK"
              /\ ~ passes \/ (phase[n] = "starting" /\ msg.type # "VERSION")
              /\ UNCHANGED <<connectionPool, connectedPeers, socketsToClose, messageQueue,
                             replies, received, versionLost>>

ReadSocket(n) ==
    /\ phase[n] # "down" /\ pc[n] = "read" /\ ready[n] # <<>>
    /\ ready' = [ready EXCEPT ![n] = Tail(@)]
    /\ Head(ready[n]) \in DOMAIN connectionPool[n]
    /\ ReadEnd(n, Head(ready[n])) \/ ReadMessage(n, Head(ready[n]))
    /\ UNCHANGED <<phase, pc, descriptors, connectQueue, backlog, stops, asked>>

RemoveDescriptors(ds, closed) == SelectSeq(ds, LAMBDA fd : fd \notin closed)

\* Only now are the connections deleted that this turn decided to close.
DeleteConnections(n) ==
    LET closed == socketsToClose[n]
        pool == connectionPool[n]
    IN  /\ phase[n] # "down" /\ pc[n] = "read" /\ ready[n] = <<>>
        /\ connectionPool' = [connectionPool EXCEPT ![n] =
                                [fd \in DOMAIN pool \ closed |-> pool[fd]]]
        /\ connectedPeers' = [connectedPeers EXCEPT ![n] = @ \ {pool[fd].connID : fd \in closed}]
        /\ descriptors' = [descriptors EXCEPT ![n] = RemoveDescriptors(@, closed)]
        /\ socketsToClose' = [socketsToClose EXCEPT ![n] = {}]
        /\ links' = CloseEnds({pool[fd].link : fd \in closed}, n)
        /\ pc' = [pc EXCEPT ![n] = AfterReading(messageQueue[n], connectQueue[n])]
        /\ UNCHANGED <<phase, ready, queues, backlog, history, asked>>

\* Mutant of Targets: an answer goes to whoever has the descriptor now.
TargetsByDescriptor(n, req) ==
    LET pool == connectionPool[n]
    IN  {fd \in DOMAIN pool :
            /\ pool[fd].isConfirmed
            /\ (req.type = "ONE") = (fd = req.connectionID)}

\* The connections a request is for.  Nobody asks for the third kind, UNLCAST.
Targets(n, req) ==
    LET pool == connectionPool[n]
    IN  {fd \in DOMAIN pool :
            /\ pool[fd].isConfirmed
            /\ IF req.type = "ONE"
               THEN fd = req.connectionID /\ pool[fd].connID = req.peerID
               ELSE fd # req.connectionID /\ pool[fd].connID # req.peerID}

\* processMessageQueueRequests, which holds the lock of the queue: a message of
\* the highest rank goes first.
SendMessage(n) ==
    /\ phase[n] # "down" /\ pc[n] = "messages"
    /\ \E req \in messageQueue[n] :
        /\ \A r \in messageQueue[n] : MessageType[r.message.type] <= MessageType[req.message.type]
        /\ messageQueue' = [messageQueue EXCEPT ![n] = @ \ {req}]
        /\ links' = Transmit(n, Targets(n, req), req.message)
        /\ pc' = IF messageQueue[n] = {req}
                 THEN [pc EXCEPT ![n] = AfterMessages(connectQueue[n])] ELSE pc
    /\ UNCHANGED <<phase, connectionPool, connectedPeers, descriptors, ready, socketsToClose,
                   connectQueue, replies, backlog, history, asked>>

\* createNewConnection once the peer's server has answered.  The VERSION waits in
\* the queue with everything else.
CreateNewConnection(n, p) ==
    LET l == Len(links) + 1
        fd == FreeDescriptor(n)
        version == Request("ONE", fd, Peer(p), [type |-> "VERSION", from |-> n, to |-> p])
    IN  /\ Cardinality(DOMAIN UNL) + Len(links) < MaxNetwork
        /\ links' = Append(links, [initiator |-> n, acceptor |-> p, open |-> {n, p},
                                   wire |-> [m \in Node |-> <<>>]])
        /\ backlog' = [backlog EXCEPT ![p] = Append(@, l)]
        /\ addConnectionToConnectionPool(n, fd, Connection(l, Peer(p), TRUE, TRUE))
        /\ messageQueue' = [messageQueue EXCEPT ![n] = @ \union {version}]

\* connectToPeer tries the addresses of a peer, one after the other: it gets a
\* socket if the peer's server listens.
connectToPeer(p) == phase[p] # "down"

\* One turn of processConnectionQueueRequests.  A peer without an address ends
\* it, one that is connected or does not answer is passed over.
ProcessConnectionRequest(n) ==
    LET p == Head(connectQueue[n])
        refused == p \in Known /\ (isConnectionInConnectionPool(n, p) \/ ~ connectToPeer(p))
    IN  /\ phase[n] # "down" /\ pc[n] = "connections" /\ connectQueue[n] # <<>>
        /\ connectQueue' = [connectQueue EXCEPT ![n] = Tail(@)]
        /\ \/ /\ p \in Known /\ ~ refused
              /\ CreateNewConnection(n, p)
           \/ /\ p \notin Known \/ refused
              /\ UNCHANGED <<links, backlog, connectionPool, connectedPeers, descriptors,
                             messageQueue>>
        /\ pc' = [pc EXCEPT ![n] = IF p \in Known THEN AfterMessages(Tail(connectQueue[n]))
                                   ELSE AfterConnections]
        /\ UNCHANGED <<phase, ready, socketsToClose, replies, history, asked>>

Manage(n) ==
    \/ Poll(n)
    \/ ReadSocket(n)
    \/ DeleteConnections(n)
    \/ SendMessage(n)
    \/ ProcessConnectionRequest(n)

-----------------------------------------------------------------------------
(* The other threads, and the program as a whole *)

\* initializeManagers: the manager runs before the processor knows it.
Start(n) ==
    /\ phase[n] = "down"
    /\ phase' = [phase EXCEPT ![n] = "starting"]
    /\ UNCHANGED <<manager, queues, network, history, asked>>

\* assignConnectionManager, then initializeUNLConnections.
Assign(n) ==
    /\ phase[n] = "starting"
    /\ phase' = [phase EXCEPT ![n] = "up"]
    /\ connectQueue' = [connectQueue EXCEPT ![n] = UNL[n]]
    /\ UNCHANGED <<manager, messageQueue, replies, network, history, asked>>

\* addMessageRequest waits while the manager holds the lock.
AddMessageRequest(n, req) ==
    /\ phase[n] = "up" /\ pc[n] # "messages"
    /\ messageQueue' = [messageQueue EXCEPT ![n] = @ \union {req}]

\* An inventory or a proposal for everybody; without connections it is nothing.
Publish(n) ==
    /\ asked < MaxRequests
    /\ connectionPool[n] # <<>>
    /\ asked' = asked + 1
    /\ \/ AddMessageRequest(n, Request("BROADCAST", 0, Nobody, [type |-> "INV", from |-> n, to |-> 0]))
       \/ AddMessageRequest(n, Request("BROADCAST", 0, Nobody,
                                       [type |-> "BLOCKPROPOSAL", from |-> n, to |-> 0]))
    /\ UNCHANGED <<phase, manager, connectQueue, replies, network, history>>

\* The message processor answers an inventory, perhaps long after it came.
Reply(n) ==
    /\ \E r \in replies[n] :
        /\ AddMessageRequest(n, Request("ONE", r[1], r[2],
                                        [type |-> "GETDATA", from |-> n, to |-> r[3]]))
        /\ replies' = [replies EXCEPT ![n] = @ \ {r}]
    /\ UNCHANGED <<phase, manager, connectQueue, network, history, asked>>

\* The process of n ends: its sockets are closed, its memory is gone.
Stop(n) ==
    /\ phase[n] # "down" /\ stops < MaxStops
    /\ stops' = stops + 1
    /\ phase' = [phase EXCEPT ![n] = "down"]
    /\ pc' = [pc EXCEPT ![n] = "poll"]
    /\ connectionPool' = [connectionPool EXCEPT ![n] = <<>>]
    /\ connectedPeers' = [connectedPeers EXCEPT ![n] = {}]
    /\ descriptors' = [descriptors EXCEPT ![n] = <<>>]
    /\ ready' = [ready EXCEPT ![n] = <<>>]
    /\ socketsToClose' = [socketsToClose EXCEPT ![n] = {}]
    /\ messageQueue' = [messageQueue EXCEPT ![n] = {}]
    /\ connectQueue' = [connectQueue EXCEPT ![n] = <<>>]
    /\ replies' = [replies EXCEPT ![n] = {}]
    /\ links' = CloseEnds({l \in DOMAIN links : n \in links[l].open}, n)
    /\ backlog' = [backlog EXCEPT ![n] = <<>>]
    /\ UNCHANGED <<received, versionLost, asked>>

Next ==
    /\ \E n \in DOMAIN UNL :
        \/ Manage(n)
        \/ Start(n)
        \/ Assign(n)
        \/ Publish(n)
        \/ Reply(n)
        \/ Stop(n)
    /\ UNCHANGED UNL

Spec == Init /\ [][Next]_vars

\* The manager polls at least once a second and the main thread goes on: both
\* are threads the system schedules.
FairSpec == Spec /\ \A n \in Node : WF_vars(n \in DOMAIN UNL /\ Manage(n) /\ UNCHANGED UNL)
                                /\ WF_vars(Assign(n) /\ UNCHANGED UNL)

-----------------------------------------------------------------------------
(* Properties *)

ConnectionOf(n, p) == {fd \in DOMAIN connectionPool[n] : connectionPool[n][fd].connID = Peer(p)}

TypeOK ==
    /\ phase \in [Node -> {"down", "starting", "up"}]
    /\ pc \in [Node -> {"poll", "read", "messages", "connections"}]
    /\ \A n \in Node :
        /\ \A fd \in DOMAIN connectionPool[n] :
            /\ connectionPool[n][fd].link \in DOMAIN links
            /\ n \in links[connectionPool[n][fd].link].open
        /\ Range(descriptors[n]) = DOMAIN connectionPool[n]
        /\ Len(descriptors[n]) = Cardinality(DOMAIN connectionPool[n])
        /\ Range(ready[n]) \union socketsToClose[n] \subseteq DOMAIN connectionPool[n]
        /\ received[n] \subseteq Message
        /\ \A req \in messageQueue[n] : req.message \in Message

\* A peer is known by its wallet id: never are two connections called by it, the
\* set of connected peers holds just the ids that call one, and the one it calls
\* leads to that peer, whatever descriptors are closed and given out again.
OneConnectionOfPeer ==
    \A n, p \in Node :
        /\ Cardinality(ConnectionOf(n, p)) <= 1
        /\ Peer(p) \in connectedPeers[n] <=> ConnectionOf(n, p) # {}
        /\ \A fd \in ConnectionOf(n, p) : Other(connectionPool[n][fd].link, n) = p

\* A message for one peer never reaches another, though the request names a
\* descriptor that may by now be the socket of somebody else.
AnswersReachTheirPeer ==
    \A n \in Node : \A msg \in received[n] : msg.to \in {0, n}

\* n and p have one and the same connection, confirmed on both sides.
Connected(n, p) ==
    /\ \A fd \in DOMAIN connectionPool[n] :
        Other(connectionPool[n][fd].link, n) = p => fd \in ConnectionOf(n, p)
    /\ \E fd \in ConnectionOf(n, p), g \in ConnectionOf(p, n) :
        /\ connectionPool[n][fd].link = connectionPool[p][g].link
        /\ connectionPool[n][fd].isConfirmed /\ connectionPool[p][g].isConfirmed
        /\ connectionPool[n][fd].isUNL /\ connectionPool[p][g].isUNL

OnEachOthersUNL(n, p) ==
    {n, p} \subseteq DOMAIN UNL /\ p \in Range(UNL[n]) /\ n \in Range(UNL[p])

\* Two nodes on each other's UNL, started in any order and connecting at the same
\* time or not, end with one confirmed connection, the same on both sides.  Not
\* so when a VERSION comes before the message processor is ready, or a node stops.
PeersConnect ==
    \A n, p \in Known :
        <>[](OnEachOthersUNL(n, p) /\ phase[n] = "up" /\ phase[p] = "up"
                /\ ~ versionLost /\ stops = 0 => Connected(n, p))

\* "one connection has to be closed so there will be just one connection between
\* two nodes": the connection for whose sake a duplicate is closed is not closed
\* on the other side already.
DuplicateLeavesOne ==
    \A n, p \in Node : \A fd \in ConnectionOf(n, p) :
        LET l == connectionPool[n][fd].link
            duplicates == {f \in socketsToClose[n] :
                            /\ connectionPool[n][f].connID = Port(connectionPool[n][f].link)
                            /\ Other(connectionPool[n][f].link, n) = p
                            /\ p \in links[connectionPool[n][f].link].open}
        IN  duplicates # {} => p \in links[l].open
=============================================================================
