------------------------------- MODULE Gossip -------------------------------
(***************************************************************************)
(* The message processors of nodes that are connected: how a transaction   *)
(* reaches everybody by an inventory (INV), a request (GETDATA) and the    *)
(* data itself, and the same for accounts and blocks.                      *)
(*                                                                         *)
(* Connections stay up and lose nothing.  The sender's queue and the       *)
(* processing queue both reorder by rank, so messages come in any order.   *)
(***************************************************************************)
EXTENDS Integers, FiniteSets, Bags

CONSTANTS
    Node,           \* the nodes
    Connected,      \* pairs of connected nodes, both ways
    UNLsize,        \* UNLsize[n]: number of nodes on the UNL of n
    Tx,             \* transactions
    Creator,        \* Creator[tx]: the node whose wallet makes tx
    Account,        \* the accounts that some node may not know
    Wallet,         \* Wallet[n]: the account of n, in Account or known to everybody
    Parties,        \* Parties[tx]: the accounts of sender and receiver
    Accounts,       \* Accounts[n]: the accounts n knows at the start
    Block,          \* blocks
    Blocks,         \* Blocks[n]: the blocks n stores
    MaxStarted      \* bound on what is started from outside: transactions made and
                    \* executed, sets proposed, accounts and blocks announced

ASSUME GossipAssumption ==
    /\ Connected \subseteq Node \X Node
    /\ \A pair \in Connected : <<pair[2], pair[1]>> \in Connected /\ pair[1] # pair[2]
    /\ UNLsize \in [Node -> Nat]
    /\ Creator \in [Tx -> Node]
    /\ DOMAIN Wallet = Node
    /\ Parties \in [Tx -> SUBSET Account]
    /\ Accounts \in [Node -> SUBSET Account]
    /\ Blocks \in [Node -> SUBSET Block]
    /\ MaxStarted \in Nat

\* An inventory names the kind of its item.
ASSUME KindsAssumption == Block \cap (Tx \union Account) = {}

VARIABLES
    net,            \* messages sent and not processed, a bag
    txPool,         \* txPool[n]: transactions
    accounts,       \* accounts[n]: known accounts, each with whose record it is
    waitingData,    \* waitingData[n]: items asked for
    blockInvQuorum, \* blockInvQuorum[n]: announcements of blocks, 0 when asked for
    creating,       \* transactions that are sent but not in the pool of their wallet
    created,        \* transactions whose wallet made them
    executed,       \* executed[n]: transactions n took out of its pool
    started,        \* how much was started so far
    unanswered,     \* history: the pairs <<n, item>> that n asked for in vain
    heard,          \* history: heard[n][b]: announcements of block b n processed
    quiet           \* history: the transactions some node took from a proposal

pools == <<txPool, creating, created, executed>>
history == <<unanswered, heard, quiet>>
vars == <<net, accounts, waitingData, blockInvQuorum, pools, started, history>>

-----------------------------------------------------------------------------
Peers(n) == {p \in Node : <<n, p>> \in Connected}

Message(type, item, from, to) == [type |-> type, item |-> item, from |-> from, to |-> to]

ToPeers(type, item, n, peers) == SetToBag({Message(type, item, n, p) : p \in peers})

\* Mutant of forwardInvMessage: only the sender hears of the item.
forwardToSender(n, item, from) == ToPeers("INV", item, n, {from})

\* An inventory for every peer but the one the item came from.
forwardInvMessage(n, item, from) == ToPeers("INV", item, n, Peers(n) \ {from})

\* One thing more is started from outside.
Start == started < MaxStarted /\ started' = started + 1

Init ==
    /\ net = EmptyBag
    /\ txPool = [n \in Node |-> {}]
    /\ accounts = [n \in Node |-> [a \in Accounts[n] |-> n]]
    /\ waitingData = [n \in Node |-> {}]
    /\ blockInvQuorum = [n \in Node |-> [b \in {} |-> 0]]
    /\ creating = {}
    /\ created = {}
    /\ executed = [n \in Node |-> {}]
    /\ started = 0
    /\ unanswered = {}
    /\ heard = [n \in Node |-> [b \in Block |-> 0]]
    /\ quiet = {}

-----------------------------------------------------------------------------
(* Transactions *)

\* Mutant of checkTransaction: the receiver may be unknown.
checkSomeParty(n, tx) == Parties[tx] \cap DOMAIN accounts[n] # {}

\* Structure and signature are right, as a wallet makes them.
checkTransaction(n, tx) == Parties[tx] \subseteq DOMAIN accounts[n]

\* PQBModel::createTransaction sends the transaction ...
SendOwnTransaction(tx) ==
    LET n == Creator[tx]
    IN  /\ Start
        /\ tx \notin created
        /\ checkTransaction(n, tx)
        /\ created' = created \union {tx}
        /\ creating' = creating \union {tx}
        /\ net' = net (+) ToPeers("TX", tx, n, Peers(n))
        /\ UNCHANGED <<accounts, waitingData, blockInvQuorum, txPool, executed, history>>

\* ... and puts it into the pool afterwards.
PoolOwnTransaction(tx) ==
    /\ tx \in creating
    /\ creating' = creating \ {tx}
    /\ txPool' = [txPool EXCEPT ![Creator[tx]] = @ \union {tx}]
    /\ UNCHANGED <<net, accounts, waitingData, blockInvQuorum, created, executed, started, history>>

\* A block with the transaction is executed and the pool gives it up.
Execute(n, tx) ==
    /\ Start
    /\ tx \in txPool[n]
    /\ txPool' = [txPool EXCEPT ![n] = @ \ {tx}]
    /\ executed' = [executed EXCEPT ![n] = @ \union {tx}]
    /\ UNCHANGED <<net, accounts, waitingData, blockInvQuorum, creating, created, history>>

\* Mutant of erase: only what is checked is no longer waited for.
eraseChecked(n, tx) ==
    IF checkTransaction(n, tx) THEN [waitingData EXCEPT ![n] = @ \ {tx}] ELSE waitingData

erase(n, tx) == [waitingData EXCEPT ![n] = @ \ {tx}]

ProcTransaction(m) ==
    LET n == m.to
        isNew == checkTransaction(n, m.item) /\ m.item \notin txPool[n]
    IN  /\ m.type = "TX"
        /\ waitingData' = erase(n, m.item)
        /\ txPool' = IF isNew THEN [txPool EXCEPT ![n] = @ \union {m.item}] ELSE txPool
        /\ net' = (net (-) SetToBag({m}))
                    (+) (IF isNew THEN forwardInvMessage(n, m.item, m.from) ELSE EmptyBag)
        /\ UNCHANGED <<accounts, blockInvQuorum, creating, created, executed, started, history>>

\* A proposal is of no use without the issuer's key; it is signed as it should be.
checkProposal(n, issuer) == Wallet[issuer] \in Account => Wallet[issuer] \in DOMAIN accounts[n]

\* A proposed set brings transactions along.  They are not announced further.
ProcTxSetProposal(m) ==
    LET n == m.to
        new == IF checkProposal(n, m.from)
               THEN {tx \in m.item \ txPool[n] : checkTransaction(n, tx)} ELSE {}
    IN  /\ m.type = "TXSETPROPOSAL"
        /\ txPool' = [txPool EXCEPT ![n] = @ \union new]
        /\ waitingData' = [waitingData EXCEPT ![n] = @ \ new]
        /\ quiet' = quiet \union new
        /\ net' = net (-) SetToBag({m})
        /\ UNCHANGED <<accounts, blockInvQuorum, creating, created, executed, started, unanswered, heard>>

Propose(n) ==
    /\ Start
    /\ txPool[n] # {}
    /\ net' = net (+) ToPeers("TXSETPROPOSAL", txPool[n], n, Peers(n))
    /\ UNCHANGED <<accounts, waitingData, blockInvQuorum, pools, history>>

-----------------------------------------------------------------------------
(* Accounts and blocks *)

\* An account that was asked for, or is not known, is taken as the peer has it.
ProcAccount(m) ==
    LET n == m.to
        a == m.item.account
        taken == a \in waitingData[n] \/ a \notin DOMAIN accounts[n]
    IN  /\ m.type = "ACCOUNT"
        /\ waitingData' = [waitingData EXCEPT ![n] = @ \ {a}]
        /\ accounts' = IF taken
                       THEN [accounts EXCEPT ![n] = [x \in DOMAIN @ \union {a} |->
                                IF x = a THEN m.item.record ELSE @[x]]]
                       ELSE accounts
        /\ net' = (net (-) SetToBag({m}))
                    (+) (IF taken THEN forwardInvMessage(n, a, m.from) ELSE EmptyBag)
        /\ UNCHANGED <<blockInvQuorum, pools, started, history>>

\* Nothing here starts the announcement of an account or a block; a peer may.
Announce(n, item) ==
    /\ Start
    /\ item \in DOMAIN accounts[n] \union Blocks[n]
    /\ \E p \in Peers(n) : net' = net (+) ToPeers("INV", item, n, {p})
    /\ UNCHANGED <<accounts, waitingData, blockInvQuorum, pools, history>>

-----------------------------------------------------------------------------
(* Inventories and requests *)

\* Mutant of Known: accounts are not looked up.
KnownTransaction(n, item) == item \in Tx /\ item \in txPool[n]

Known(n, item) ==
    \/ item \in Tx /\ item \in txPool[n]
    \/ item \in Account /\ item \in DOMAIN accounts[n]

\* Mutant of request: the inventory is forwarded before the item is there.
requestAndForward(n, item, from) ==
    ToPeers("GETDATA", item, n, {from}) (+) forwardInvMessage(n, item, from)

request(n, item, from) == ToPeers("GETDATA", item, n, {from})

\* procInvTransaction and procInvAccount: one peer is asked for one item.
ProcInv(m) ==
    LET n == m.to
        asks == m.item \notin waitingData[n] /\ ~ Known(n, m.item)
    IN  /\ m.type = "INV" /\ m.item \in Tx \union Account
        /\ waitingData' = IF asks THEN [waitingData EXCEPT ![n] = @ \union {m.item}]
                          ELSE waitingData
        /\ net' = (net (-) SetToBag({m}))
                    (+) (IF asks THEN request(n, m.item, m.from) ELSE EmptyBag)
        /\ UNCHANGED <<accounts, blockInvQuorum, pools, started, history>>

\* Mutant of enough: any second announcement is enough.
enoughOfTwo(n, count) == count >= 2

enough(n, count) == 10 * count >= 8 * UNLsize[n]

\* procInvBlock: the first announcement starts the count and is not compared.
ProcInvBlock(m) ==
    LET n == m.to
        quorum == blockInvQuorum[n]
        counted == m.item \in DOMAIN quorum
        asks == counted /\ quorum[m.item] # 0 /\ enough(n, quorum[m.item] + 1)
        count == CASE ~ counted -> 1
                   [] counted /\ quorum[m.item] = 0 -> 0
                   [] OTHER -> IF asks THEN 0 ELSE quorum[m.item] + 1
    IN  /\ m.type = "INV" /\ m.item \in Block
        /\ blockInvQuorum' =
            IF counted \/ m.item \notin Blocks[n]
            THEN [blockInvQuorum EXCEPT ![n] = [b \in DOMAIN @ \union {m.item} |->
                                                  IF b = m.item THEN count ELSE @[b]]]
            ELSE blockInvQuorum
        /\ heard' = [heard EXCEPT ![n][m.item] = @ + 1]
        /\ net' = (net (-) SetToBag({m}))
                    (+) (IF asks THEN request(n, m.item, m.from) ELSE EmptyBag)
        /\ UNCHANGED <<accounts, waitingData, pools, started, unanswered, quiet>>

\* BlocksStorage::getRawBlock reads the block and says that it did not.
getRawBlock(n, b) == FALSE

\* procGetTransaction, procGetBlock, procGetAccount: who does not have the item
\* does not answer.
Answer(n, item) ==
    IF item \in Tx /\ item \in txPool[n] THEN {<<"TX", item>>}
    ELSE IF item \in Account /\ item \in DOMAIN accounts[n]
         THEN {<<"ACCOUNT", [account |-> item, record |-> accounts[n][item]]>>}
    ELSE IF item \in Block /\ getRawBlock(n, item) THEN {<<"BLOCK", item>>}
    ELSE {}

ProcGetData(m) ==
    LET n == m.to
        answers == {Message(x[1], x[2], n, m.from) : x \in Answer(n, m.item)}
    IN  /\ m.type = "GETDATA"
        /\ net' = (net (-) SetToBag({m})) (+) SetToBag(answers)
        /\ unanswered' = IF answers = {} THEN unanswered \union {<<m.from, m.item>>}
                         ELSE unanswered
        /\ UNCHANGED <<accounts, waitingData, blockInvQuorum, pools, started, heard, quiet>>

-----------------------------------------------------------------------------
Process(m) ==
    \/ ProcTransaction(m)
    \/ ProcTxSetProposal(m)
    \/ ProcAccount(m)
    \/ ProcInv(m)
    \/ ProcInvBlock(m)
    \/ ProcGetData(m)

ProcessSome(n) == \E m \in {x \in BagToSet(net) : x.to = n} : Process(m)

Next ==
    \/ \E n \in Node : ProcessSome(n)
    \/ \E tx \in Tx : SendOwnTransaction(tx) \/ PoolOwnTransaction(tx)
    \/ \E n \in Node, tx \in Tx : Execute(n, tx)
    \/ \E n \in Node : Propose(n)
    \/ \E n \in Node, item \in Account \union Block : Announce(n, item)

Spec == Init /\ [][Next]_vars

\* The processing thread of a node takes one message after the other as long as
\* there are any, and the thread of the user interface goes on.
FairSpec ==
    /\ Spec
    /\ \A n \in Node : WF_vars(ProcessSome(n))
    /\ \A tx \in Tx : WF_vars(PoolOwnTransaction(tx))

-----------------------------------------------------------------------------
(* Properties *)

InFlight == BagToSet(net)

\* What messages carry.
IsMessage(m) ==
    /\ <<m.from, m.to>> \in Connected
    /\ m.type = "TX" => m.item \in Tx
    /\ m.type = "TXSETPROPOSAL" => m.item \subseteq Tx
    /\ m.type = "ACCOUNT" => m.item.account \in Account /\ m.item.record \in Node

TypeOK ==
    /\ IsABag(net)
    /\ \A m \in InFlight : IsMessage(m)
    /\ txPool \in [Node -> SUBSET Tx]
    /\ executed \in [Node -> SUBSET Tx]
    /\ creating \subseteq Tx
    /\ DOMAIN accounts = Node
    /\ \A n \in Node : /\ DOMAIN accounts[n] \subseteq Account
                      /\ accounts[n] \in [DOMAIN accounts[n] -> Node]
    /\ waitingData \in [Node -> SUBSET (Tx \union Account)]

\* Only checked transactions are in a pool, whether they come one by one, with a
\* proposal, or from the wallet: procTransactionMessage, procTxSetProposalMessage.
PoolIsChecked ==
    \A n \in Node : \A tx \in txPool[n] : Parties[tx] \subseteq DOMAIN accounts[n]

\* "the node is propagating INVENTORY of a message that he do not has yet" is what
\* procInvMessage avoids: who announces an item has it, until it is executed.
AnnouncedIsHeld ==
    \A m \in InFlight : m.type = "INV" =>
        \/ m.item \in txPool[m.from] \union executed[m.from]
        \/ m.item \in DOMAIN accounts[m.from]
        \/ m.item \in Blocks[m.from]

\* m brings the item to n, or asks for it.
Brings(m, n, item) ==
    \/ m.type = "GETDATA" /\ m.item = item /\ m.from = n
    \/ m.type = "TX" /\ m.item = item /\ m.to = n
    \/ m.type = "ACCOUNT" /\ m.item.account = item /\ m.to = n

\* Whoever waits for an item and so asks nobody else for it has been or will be
\* answered, unless the peer that was asked no longer has it: then it waits until
\* the item comes unasked.
WaitingIsAnswered ==
    \A n \in Node : \A item \in waitingData[n] :
        <<n, item>> \in unanswered \/ \E m \in InFlight : Brings(m, n, item)

\* The answer of a peer never replaces what a node knows of an account, its
\* balance included: procAccountMessage stores unconditionally what was waited for.
KnownAccountsStay ==
    [][\A n \in Node : \A a \in DOMAIN accounts[n] :
        a \in DOMAIN accounts'[n] /\ accounts'[n][a] = accounts[n][a]]_vars

\* A block is asked for once, after announcements of 80 % of the UNL and never
\* after the first one, and no answer to that ever comes.
BlockIsAskedForOnce ==
    \A n \in Node, b \in Block :
        LET asked == b \in DOMAIN blockInvQuorum[n] /\ blockInvQuorum[n][b] = 0
        IN  /\ asked => heard[n][b] >= 2 /\ 10 * heard[n][b] >= 8 * UNLsize[n]
            /\ (asked /\ ~ \E m \in InFlight : m.type = "GETDATA" /\ m.item = b /\ m.from = n)
                    => <<n, b>> \in unanswered

\* "When a node obtains a transaction it verifies it and broadcasts to other
\* nodes": what a wallet sends, and everybody can check, reaches every node,
\* though each asks only one peer for it.  Not so once a node has executed it, nor
\* when a node has it from a proposal, which goes before TX in every queue: it is
\* in the pool when the TX comes, and is not announced.
TransactionsSpread ==
    \A tx \in Tx :
        <>[](/\ tx \in created /\ tx \notin quiet
             /\ \A n \in Node : Parties[tx] \subseteq Accounts[n] /\ tx \notin executed[n]
             => \A n \in Node : tx \in txPool[n])
=============================================================================
