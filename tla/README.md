# PQBlockchain in TLA+

A verification project for the C++ blockchain client under `src/`. The modules
model its block tree, disputes, consensus rounds and the network of consensus
nodes; the execution of blocks with balances, wallet and databases; the
connections, the bytes on them and the gossip over them; and the threads of a
process from start to stop. TLC checks them on small instances, and TLAPS proves
their safety for every size.

## 1. The system

A node keeps account balances, account addresses and blocks in three LevelDB
databases, a wallet in a JSON file, and talks to the validators on its *unique
node list* (UNL) over TCP. It runs four threads:

| thread | code | enters |
|---|---|---|
| user interface | `App/` | wallet, transaction pool, connection manager |
| consensus, one tick a second while the pool is not empty | `ConsensusWrapper::consensusThread` | `Consensus`, `Chain`, storages, wallet, connection manager |
| message processing | `MessageProcessor::messageProcessor` | the pool, `Consensus`, `Chain`, storages, connection manager |
| connection management, poll of one second | `ConnectionManager::manageConnections` | connections, the processing queue |

`ConsensusWrapper::consensusMutex_` is held for every whole call that enters
`Consensus` and `Chain`, so one call is one atomic step of the models.

| component | state | operations | what is hard | what makes it correct |
|---|---|---|---|---|
| block tree, `Chain` | map of header nodes with tip supports, a copy of the valid block, last vote of each issuer | `insert`, `updateValidBlock`, `assignAccountHashToValidBlock`, `getPreferredBlock` | pointers into the map, a copy that goes stale, unsigned counters, blocks that enter twice under two ids | one linked chain of valid blocks, extended by one block at a time; a quorum is one of different validators |
| disputes, `DisputeTransaction` | local vote, two counters, votes | `setVote`, `unVote`, `updateVote` | counters kept beside the votes, integer division | the counters count the votes |
| round, `Consensus` | phase, proposed set, positions of peers, sets known by content, disputes | `beginConsensus`, `closeBlock`, `gotTxSet`, `updateProposals`, `haveConsensus`, `onAccept`, `peerProposal` | late, lost and stale positions; the working block and its id change at different times | votes match the set, votes belong to positions, a node executes the block it validated |
| network of nodes | all of the above, and the messages | broadcasts of `share` | every interleaving, loss, reordering; rounds repeated on one predecessor | a valid block was accepted by all; no two valid blocks of one sequence (does not hold) |
| execution | balances, sequence numbers | `executeBlock`, `setBalancesByAccDiffs` | two databases, unsigned differences, invalid transactions dropped at execution | conservation, no overdraft, no replay |
| wallet | balance, records, sequence number | `createNewTransaction`, `updateTransaction`, `receivedTransaction` | two threads without a lock, saved only at exit | it agrees with the account in the ledger |
| storage | balances, addresses, blocks, by hash | `setBlock`, `getBlock`, `setBalance`, `setAddresses` | a record is two writes; an account may be overwritten by a peer's | what is stored is read back; blocks explain balances |
| message processor | queue, `waitingData`, `blockInvQuorum` | one handler per message | data asked for once, answers lost, messages reordered by rank | what is announced is held, asked for and answered |
| connections | pool, sockets to close, queues of requests | connect, accept, VERSION/ACK, close | both sides connect at once, deferred closing, descriptors given out again | one connection per peer, answers to the peer that asked |
| message stream | message under construction, its header | `send`, `receive`, `createMsg` | partial reads, a header peeked before it is whole, magic and checksum | messages delivered whole, in order and once |
| start and stop | run flags, condition variables, mutexes | constructors, destructors | lost wake-ups, order of destruction, a peer that does not read | nobody sleeps on work, the program ends |

## 2. The modules

    ValidatedChain               what a chain promises: a log that only grows
      ^ implements
    ChainTree -- Chain -- ChainVotes           the tree and its calls, one node
    Dispute -- DisputeTransaction              one disputed transaction
    ConsensusRound -- OneRound                 a round, one node, any peers
      `-- Consensus -- ConsensusVotes          all nodes and their messages;
                                               implements Chain for each node
    Payments                     what a ledger promises: payments made once
      ^ implements
    Ledger                                     execution, balances, wallet
    Connections                                connection managers of all nodes
    Gossip                                     message processors of all nodes
    Threads                                    threads of one process
    Structures -- Messages -- Framing          records, messages, the stream
      `-- Storage                              the databases

ConsensusRound extends ChainTree and Dispute. The theorems are in ChainTreeProofs
(lemmas about the tree), ChainProofs (Chain, ChainVotes), ConsensusProofs
(DisputeTransaction, OneRound, Consensus, ConsensusVotes), LedgerProofs (Ledger, on
lemmas about sums in FoldProofs), MessagingProofs (Gossip, Threads),
ConnectionsProofs and RecordProofs (Structures, Messages, Framing, Storage).
Definitions that a module of proofs shares with another system carry that system's
name (`OwnSpec`, `DisputeSpec`, `ThreadsSpec`, `StorageSpec`).
A module `MCX` gives the constants of `X` for TLC. Definitions preceded by "Mutant of" are
plausible wrong versions of the definition that follows; no specification uses
them: they are put in its place to see that a property notices.

**ChainTree** holds the values and methods of `Chain` as operators on a record
`[ch, validBlock, validations]`. A block id is the path of header commitments
from the genesis block, which is what a collision-free hash of a header that
names its predecessor amounts to. A pointer is the id of the node it points to,
or `Dangling`, the address `&ch.end()->second` that `insert` stores for the
issuer of a new block. In the layout GCC gives the class that address lies
inside of the `Chain` object; a decrement of the support found there changes the
colour of the header of `validations`, which no operation used here reads, and
the comparison of ids in `assignAccountHashToValidBlock` fails, so the model
lets such a write change no node. Following it any further (in
`getUncommitted`) would read an invalid address; the model leaves the vote out
there, and `PreferredBlockIsValidBlock` shows that the function is never
reached.

**Chain** is the chain of one node under the calls `Consensus` makes:
`CloseBlock`, `OnAccept` and `PeerProposal`, each with the insertion, quorum
test and execution it leads to. Peers run the same program but may hold any
path of executed blocks for valid. `lastExecuted` is the block that was handed to
`executeBlock`, under the id the chain has for it; `lastExecuted = NoBlock` stands for the
exception by which `BlockHeader::serialize` ends the process when it is given
an empty block. **ChainVotes** and **ConsensusVotes** add history variables: who
proposed what, and how often.

**Dispute** and **DisputeTransaction** are the class of that name and the life
of one object of it: votes set and withdrawn in any order.

**ConsensusRound** is the state of a round and its handlers, as operators on a
record; **OneRound** runs them for one node whose peers propose anything;
**Consensus** composes the rounds, chains, pools and messages of all nodes.

| action of Consensus | code |
|---|---|
| `AddTransaction` | `addTransactionToPool`, from the wallet or a TX message |
| `BeginRound` | `beginConsensus`: after three seconds without a tick, or for a new preferred block |
| `CloseBlock` | `timerEntry`, end of the open phase |
| `Establish` / `UpdateProposals` | `timerEntry` in the establish phase, no consensus yet |
| `Establish` / `AcceptBlock` | the same with `onAccept` |
| `ReceiveTxSetProposal` | `procTxSetProposalMessage`, `gotTxSet` |
| `ReceiveBlockProposal` | `procBlockProposalMessage`, `peerProposal` |

What is abstracted there: a transaction is a number and a *slot* (sender and
sequence number, the order of `TransactionSet`); a transaction set stands for its
Merkle root; clocks are nondeterministic (a phase ends, a position is 20 seconds
old, the stage `converge_` is 0, 0.5, 0.85 or 2, whenever the code allows it); a
message is delivered at most once, in any order, or never;
`set_symmetric_difference` on ranges sorted by another order returns any set
that misses no difference; executing a block gives one account root, because
execution is deterministic and the nodes have the same accounts. All nodes are on all
UNLs. `ReceiveTxSetProposal` is one step, though each look-up in the pool takes
`consensusMutex_` of its own, and `gotTxSet` once more: a transaction that is executed
between its look-up and `gotTxSet` is then not put into the pool again by the code.

Two constants say what depends on accounts. `MayFail` are the transactions that some
node may refuse in `checkTransaction`, because it does not know an account of theirs:
`procTxSetProposalMessage` leaves them out of the content of a proposed set and of the
pool (`Checked`), while the position of the peer keeps the id of the whole set. So
`acquiredSets` maps ids to contents that may be smaller than what the id stands for.
`Dropped(b, set)` are the transactions of a block that execution drops after the path
`b`. `Execute` hands the block to `executeBlock` under its executed id (`lastExecuted`,
which is what the chain keeps) and stores what is left of it, with a count and a root
of its own (`lastStored`): another id, whenever something was dropped.

**Ledger** is one node again, with what Consensus leaves out: what executing a
block does. On disk are `balances`, `blocks` and `walletFile`; in memory the
`wallet`, a transaction the user interface has half made (`ui`), the `chain` and
the block under execution (`exec`). Amounts are numbers modulo `Cash` (2^32 in
the code). Which transactions a block holds is left open: any that some node
could have proposed, repeated ones too.

| action of Ledger | code |
|---|---|
| `BeginTransaction`, `CreateTransaction` | `Wallet::createNewTransaction`: the balance is read, and later written back less the amount, in another thread than execution |
| `SaveWallet` | the orderly end of the process: the destructor of the model saves the wallet |
| `Restart` | the process stops anywhere and starts again: databases and file are read, the chain begins at the genesis block |
| `ExecuteBlock`, `CountTransaction` | `countAccountDifferencesByTxSet`, one transaction after the other, with the wallet's records changed on the way |
| `SetBalances` | `setBalancesByAccDiffs` |
| `StoreBlock` | the roots computed again after drops, `setBlock`, `assignAccountHashToValidBlock` |

**Payments** is its abstract specification: payments are applied in batches,
none twice, those of one account in the order of their numbers.

**Connections** composes the managers of several nodes. For each node: how far
its main thread is (`phase`), where its manager's loop is (`pc`), the pool of
connections by descriptor, the ids of connected peers, the polled descriptors,
what poll reported and is still to be read, the sockets to close, the queues of
messages and of connections asked for, and replies that the message processor has
yet to ask for. `links` are the TCP connections, each with a wire of messages in
each direction and the set of ends that are open; `backlog` is what the server
has not accepted.

| action of Connections | code |
|---|---|
| `Poll`, `ReadSocket` | one turn of `manageConnections`: the server and the sockets, one step each; the end of a connection, or one message with `filterMessage` and `notifyConnectionVersion` |
| `DeleteConnections` | `closeConnections`: sockets marked before are closed now |
| `SendMessage` | `processMessageRequest`, one request at a time: to all, to one peer or to a descriptor |
| `ProcessConnectionRequest` | `createNewConnection` and the VERSION it writes |
| `Start`, `Assign`, `Publish` | `PQBModel`: manager started, UNL connected to, processor given the manager |
| `Reply` | the message processor's answer to a peer: the request names a descriptor |
| `Stop` | the process ends: its sockets are closed, what was on the way is read or not |

A descriptor is the least free number, as the system gives them out, so a closed
one is soon that of somebody else. `connID` is `Port(link)` until the VERSION has
come (or the peer was connected to), `Peer(n)` then, or `Closing(n)` of a
connection closed as a duplicate.

**Gossip** takes connections for granted and models what the message processors
do over them: `net` is a bag of messages in any order, `ProcessSome(n)` handles
one of n's with the handler of its type (INV, GETDATA, TX, TXSETPROPOSAL,
ACCOUNT). `SendOwnTransaction` and `PoolOwnTransaction` are the two halves of
`PQBModel::createTransaction`, `Propose` is a broadcast set, `Announce` an
inventory of an account or block, `Execute` takes a transaction out of the pool.

**Threads** is one process: the `stage` and `worker` of the main thread, the run
flag and place of each worker, three mutexes, the lengths of the queues, the
window of a peer's socket (`written`), and two histories: workers notified between
their test and their wait (`lost`), and use of an object already deleted
(`dangling`). Actions are the loops of the three threads step by step, the main
thread (`CreateTransaction`, `PoolTransaction`, `Exit`, `Destruct` in the order
`~PQBModel` deletes), and peers that send and read.

**Structures** writes every record of the ledger and the protocol to cells and
reads it back, with the sizes and offsets the code uses and its exceptions; it
also has the Merkle roots. **Messages** adds the header with magic number, size
and checksum (a polynomial, so that two payloads can differ). **Framing** is one
direction of a connection: `SendMessage`, `SendFragment`, `Shutdown` of the
writer, `Arrive` of any number of cells, `Receive` of the reader, which peeks at
a header and then collects the payload. **Storage** is the three databases as
maps from keys to cells. The message thread asks for accounts (`AskFor`, into
`waitingData`) and takes them: `SetBalance` and `SetAddresses` are the two writes of
`setAccount`. What was asked for is stored as it comes; what was not is stored if the
account is not known whole, and then a balance found without addresses stays. The
record is that of the peer when it answers, which may have executed blocks since it
announced the account: `Records` gives its balances and sequence numbers. The
consensus thread executes blocks: `SetBalancesByAccDiffs` and `SetBlock`. The two
threads interleave, and `Stop` comes between any two writes, `OpenDatabases` after it.
That a batch of balances is read and written in one step matters only for an account
that is left torn by a stop, since no other one is replaced in between.

## 3. What is checked

| run | instance | distinct states | what holds or fails |
|---|---|---|---|
| `chain` | 2 peers, 2 transaction sets, sequence up to 2, counters modulo 3 | 539 457 | six properties hold: the tree, its valid chain and its votes; a quorum is of different validators unless one proposed twice |
| `dispute` | 4 voters, the 4 stages | 162 | counters count the votes; only a no changes our vote |
| `one_round` | 2 peers, 2 transactions (one may be refused), all stages, everything may expire | 128 431 | a round ends with unanimity; no vote without a position; sets only shrink |
| `consensus` | 2 nodes, 2 transactions that may be dropped, 2 closed blocks each, sequence up to 2 | 437 313 | votes match sets, valid blocks were accepted by both, what is executed is the valid block and what is stored is the rest of it, each node implements Chain |
| `ledger` | 2 accounts, amounts modulo 4, 2 blocks, sequence numbers up to 3 | 545 090 | balances and blocks hold the history of payments, the wallet tracks its account, the ledger implements Payments |
| `connections` | networks of 2 and 3 nodes, 2 or 3 connections, one stop, one request | 405 739 | one connection per peer, answers reach their peer, peers connect |
| `gossip` | a ring of 4 nodes, 2 transactions, 2 accounts, 1 block, 3 things started | 436 730 | what is announced is held, what is asked for is answered, transactions spread |
| `threads` | 2 transactions, queues of 2, 3 arrivals, a window of 1 | 148 920 | nobody sleeps on work, the pool is served, the shutdown ends |
| `framing` | 2 messages, fragments of 5 cells, pieces of any length | 535 167 | messages arrive whole, in order, once; the reader keeps step; all arrive |
| `storage` | 2 accounts with 2 records each, 4 transactions, 2 blocks, 1 stop | 260 022 | blocks are read back and explain the balances; numbers are the last ones since the account was taken; peers replace no balance |
| `consensus_fork` | 2 nodes, 2 transactions, 3 closed blocks for a node, messages in order | | `Agreement` fails |
| `connections_restart` | 2 nodes, one stop | | `DuplicateLeavesOne` fails |

States are counted up to the symmetry of nodes, peers or transaction sets in
`chain`, `consensus` and `one_round`; the properties there do not tell them apart,
and no liveness is checked under symmetry.

*Bounds.* `MaxSequence` 2 lets a block be executed and a successor be voted on in the
same tree, with late votes for the first: a third block repeats that. `UintModulus` 3
makes the tip supports wrap in `chain` (the same run with 4 has 1 453 963 states and the
same result). Two closed blocks for each node are what a repeated proposal, a stale
working block and two candidates of one sequence need. Two peers are the least for which
a quorum, more than 0.8 of the UNL, is more than one vote; with five or fewer peers a
quorum is all of them, and so is the agreement on a set. `ValidBlocksWereAcceptedByAll`
is unconditional with one peer, which is what `consensus` checks with repeated rounds;
with more peers it makes an exception for sequences that some node accepted twice,
because there the double counting of finding 3 below breaks it: with two closed blocks
for each of three nodes TLC reaches such a block after 3.1 million states.
`consensus_fork` needs a third block of one node; its constraints (messages in order, no
state beyond the first in which all nodes have a valid block) only take behaviours away.
`MaxSeq` 0 bounds the numbers of positions in `one_round`; a peer still changes its
position there after the old one expired or a new round began. In `ledger` amounts are
below 4 so that sums wrap, two accounts pay each other, and sequence numbers up to 3
leave room for a repeated, an outrun and a dropped transaction; two blocks are enough
for a predecessor whose roots changed. In `connections` two nodes that connect to each
other make two links, and a third link is that of a restart; the network of three has a
node both others connect to, so a descriptor passes from one peer to the other (with two
links there). In `gossip` a ring of four is the least in which a node hears of an item
from two sides before it has it. A window of one message in `threads` makes the blocking
`send` block. Fragments of 5 cells in `framing` are longer than a header, which has 4,
and shorter than most messages, which have up to 15; the stream cuts both headers and
payloads. `CHECK_DEADLOCK FALSE` appears where the bounds (and the end of a process)
stop the system; `dispute`, `one_round` and `ledger` are checked for deadlock too.

In `consensus` transaction 1 is dropped when it comes a second time and 2 when 1 has
not come before, so blocks are executed whole, in part and empty; that a node refuses a
transaction is in `one_round`. One stop in `storage` tears an account or a block, and
what follows it (an account taken again, the next block) runs to the end.

*Larger and other instances*, checked by hand with the same modules and without error:
`Consensus` with a transaction that a node may refuse, `MayFail = {2}` (697 310 states,
the other constants as in `consensus`), also with positions that expire and all stages
(1 closed block each, 21 840 states; 1 transaction and 2 blocks each, 7 564), and with 3
nodes, 1 transaction and 1 block each (9 403). The type invariants of Consensus,
Connections, Gossip, Threads, Framing and Storage, and the inductive invariants of
ConnectionsProofs and RecordProofs, hold on the instances of the runs; they are in no
configuration because they say little beyond the proofs or the other properties.

*Fairness.* Weak fairness, each justified by a loop of the code:
`Connections` assumes that the manager of each running node goes on (its poll
times out after a second, so it always comes round) and that the main thread goes
on with `assignConnections`; nothing is assumed of stops or requests. `Gossip`
assumes that each processing thread handles its messages, one after the other as
they are (`WF` of `ProcessSome(n)`; a message may be overtaken as long as others
come, but only finitely many do), and that the wallet's thread puts its transaction
into the pool after it was sent. `Threads` assumes that each of the four threads is
scheduled. That peers read what they are sent is not the program's to promise, so
it is no part of the specification but the hypothesis `PeersRead` of the two liveness
properties: without it both fail, because the manager writes with blocking
sockets while it holds `messageRequestQueueMutex`. `Framing` assumes that the
stream delivers, that a begun message is written on and that the reader reads.
None is assumed in `Consensus` and there is no liveness there: the establish phase
has no end but agreement of all, positions are sent once, and a lost one, a node
that is down or two transactions of one slot keep every node in it, until it has
been idle for three seconds.

### What the runs show of the code

Each finding is in `PROJECT.json` with the run, the line and the sentence of the
repository it disagrees with. The first two are runs that TLC must find violated;
the others are stated by properties that hold because they say what the code does,
or name the exception.

1. **Nodes fork** (`consensus_fork`). A node that accepted a block without a
   quorum starts the round again on the same predecessor and may accept another
   block there. It then asks for the quorum of the new block while its peer may
   still count the old proposal. With two nodes that both accepted {2} and {1,2},
   the proposals cross: one executes {2}, the other {1,2}, and as the preferred
   block is always the own valid block (6), they never meet again. No message is
   lost or overtaken in the trace. What does hold is
   `ValidBlocksWereAcceptedByAll`: the quorum is a real one, but accepting a
   block is no promise to accept no other. That the rounds repeat takes more than three
   seconds between two ticks of a node whose pool is not empty; the consensus thread is
   held up that long by a `share` that blocks, for example.
2. **The wrong duplicate is closed** (`connections_restart`). A node that stopped
   and connects again is a duplicate of its own old connection when its VERSION is
   read before the end of the old one; the new connection is closed, then the old
   one is found dead, and a connection is asked for only once.
3. **A validator is counted twice** (`QuorumIsOfDifferentValidators`).
   `Chain::insert` remembers the issuer of a new block with the end iterator of
   the failed search, so its next proposal withdraws nothing. A node proposes a
   block again whenever a round did not end with a valid block; one of two
   validators then makes a quorum of two. The property makes the exception.
4. **The working block and its id part** (`ExecutedBlockIsValidBlock`).
   `closeBlock` empties `currBlock_` but not `currBlockId_`; a late proposal for
   the block of the round before then completes its quorum and the empty block is
   executed. The exception of `serialize` ends the process; the property speaks of
   nodes that still run, for which the block handed to `executeBlock` is the valid
   one, and the block stored is what execution left of it (see 8).
5. **Agreement on a transaction or a set is unanimity and a no is a veto**
   (`OnlyVetoesChangeOurVote`, `ConsensusIsUnanimous`): both shares are quotients
   of unsigned integers, where the thresholds speak of 50 to 95 percent.
   `PositionsOnlyShrink` follows: a proposed set never gains a transaction.
6. **The preferred block is the own valid block** (`PreferredBlockIsValidBlock`):
   the search for the block most validators work on never runs, because it starts
   at a copy taken before the block had children.
7. **A transaction is taken for another one of its slot**
   (`OurVotesMatchOurSet`, which holds for transactions of distinct slots only).
8. **A stored block may have another hash than the one its successor names**
   (`StoredChainIsLinked`): roots are computed again when execution drops
   transactions, but not those in the chain. A dropped transaction also stays
   WAITING in the wallet for ever and its amount is never returned
   (`WalletTracksAccount` counts what waits).
9. **A transaction that came with a proposal is announced to nobody**
   (`TransactionsSpread` makes the exception).
10. **A request for a block is never answered** (`BlockIsAskedForOnce`):
    `getRawBlock` returns false when it found the block, and nothing asks again.

## 4. What is proved

For every value of the constants that satisfies the modules' named assumptions
(finitely many validators, this node one of them, amounts below `Cash`, nobody on
his own UNL, and the like). Each is an `ASSUME` that TLC evaluates in the runs.
Those that say more than a type:

- `SupplyAssumption` (Ledger): all accounts together hold less than `Cash`. No code
  checks it; it is how the generators of accounts and wallets are configured, and
  without it the receiver's balance wraps.
- `KindsAssumption` (Gossip): an item is a transaction, an account or a block, as
  the type in an inventory says.
- `StorageAssumption` (Storage): what a peer says of an account (`Records`) is a balance
  and a sequence number, and nothing else is assumed of either.
- `TxAssumption`, `MerkleAssumption` (Storage): a wallet signs one transaction with a
  number, and different sets of transactions (the empty one too) have different Merkle
  roots. The first
  is what wallets do, the second what the hash is trusted for: a block is stored
  under the hash of its header, and would otherwise replace another one.
- `SendableAssumption` (Framing): what is sent has the fields that the constructors of
  its message take (`IsMessage`).
- `AccHashAssumption`, `SeveralAssumption`, `PointerAssumption`: there is some account
  root; marks such as `Several` and `Dangling` are no blocks.

Three theorems have a hypothesis of their own, `SlotsDiffer`, `UNLcount <= 5` and
`MagicIsApart`; they are explained below and hold in the instances of the runs.
Without the first two the properties do not hold, and without the third only the
check sum speaks for it.

**ChainProofs**, with the lemmas about the operators in ChainTreeProofs:
`TypeCorrect`, `TreeStaysWellFormed`, `ValidChainStaysLinked`,
`PreferredBlockStays`, `VotesStayMoved` and `Refinement`
(`Spec => ImplementsValidatedChain`), for every set of validators, transaction
sets, account roots, counter width and bound on the sequence. The inductive
invariant is `TypeOK /\ ChainInv(chain) /\ CurrBlockIsNextOrOld`; the properties
are not inductive alone. That the chain is only extended does not follow from
`checkQuorum`, which compares sequence numbers and nothing else. It follows from
what can be in the tree (`Bounded`: at most one block above the valid one, and
executed blocks not above it; so a block one above has the valid block for its
parent) and from what the node may ask for (`CurrBlockIsNextOrOld`). `Bounded` in
turn needs that the copy `validBlock` has no children, because then the preferred
block, which `closeBlock` builds on, is the valid one.

`QuorumOfDifferent` is about the validators behind a quorum. What `checkQuorum`
compares is a counter that `insert` raises at one node and lowers at another,
modulo the counter width, sometimes through a pointer that points nowhere. The
invariant `VotesCounted` ties it to the proposals of the sequence that is voted on,
the one above the valid block: a support that is not zero has a validator who
proposed the block, no support exceeds the number of those who did unless somebody
proposed two blocks of that sequence (`VotedTwice`: a counter may then wrap), and
the last vote of a validator points to a block he proposed. `Backed` remembers the
proposals of blocks already valid.

**ConsensusProofs**, first one object and one node: for one dispute,
`DisputeTypeCorrect` (no counter passes below
zero), `CountersStayExact` and `OurVoteOnlyVetoed`, for every finite set of voters and
every set of stages, from the invariant that the counters are the cardinalities of
the votes on each side. For a round, `RoundsEndUnanimously`: positions are those of
other validators, so the count of agreeing ones is at most their number, and the
integer quotient of `haveConsensus` is at least 1 only if it is all of them.
`VotersKeepPositions` and `PositionsShrink` need `RoundInv`: every dispute keeps
its counters exact, its voters have a position, and positions are sets that can be
built. The loops over disputes and positions are
choices of a function there, so each loop has a lemma that it preserves the
invariant whatever order it takes. A set only shrinks because a dispute turns a
yes into a no and never the reverse.

Then the network: `NodesImplementChain` carries everything proved in ChainProofs to each
node of a network. Chain lets peers propose any path of executed blocks; that nodes of
the network propose nothing else is the invariant `MessageInv` of what is on its way,
and each of the seven actions maps to one call of Chain or to a stutter. All this holds
for every `Dropped` and every `MayFail`: whatever execution drops, and whatever a node
leaves out of the sets it hears. `NodeInv` joins the state of Chain with the round's
(`RoundInv`, and the predecessor, working block and working id of a round agree as far
as `closeBlock` and `onAccept` leave them agreeing). From it, `NetworkTypeCorrect`,
`ExecutedIsValid` (with `StoredInv`, that what is stored is the rest of what was handed
to `executeBlock`), and `VotesMatchSets` under the hypothesis `SlotsDiffer`: no two
transactions have sender and sequence number in common. Wallets number their
transactions, so this is what the code relies on, but nothing enforces it (finding 7).

`AcceptedByAll` is about all nodes at once: a valid block was accepted by every
validator, with the exception of sequences for which some node accepted twice. The
hypothesis `UNLcount <= 5` makes more than 80 % of the UNL all of it; of six peers
five are enough, and the property is false. The invariant (`VotesIInv`) instantiates
`VotesCounted` for each node with what it has `Heard`: the blocks its peers
accepted, less those whose proposals are still on their way (or lost). It needs
that a node accepts once in a round (`OncePerRound`) and that proposals come from
`onAccept` (`ProposalsAccepted`).

**LedgerProofs**: `TypeCorrect` and `PaysOnceInOrder`, the refinement of
Payments. `IInv` adds `CountInv` to the types: while a block is counted, what is
counted comes before what is not in the order of senders and numbers, every
transaction counted and not dropped is above the stored number of its sender, and
the difference of a sender has the number of an accepted transaction that none
exceeds. So the batch that `SetBalances` applies is new, and steps that do not
set balances are stutters.

`BlocksTellHistory` and `StoredChainLinked` follow from `BlocksInv`: what was applied
is in a stored block, in the one being stored, or was lost to a stop, and the chain
in memory is stored. `BalancesFollowHistory` says in plain numbers what unsigned
differences modulo `Cash` add up to. `BalanceInv` relates them to the sums over the
accepted transactions (`SpendInv`, which uses that a block is counted sender by
sender); `Conservation`, that what is sent is received, with `SupplyAssumption`
then excludes a wrap. `WalletFollowsAccount` is the same sum for what waits in the
wallet (`RecordsInv`): the transactions of this node are numbered as they are
made, so those confirmed are those that took effect. **FoldProofs** has what these
proofs need of `MapThenFoldSet`: that the recursion it is defined by computes
something, and that a sum does not depend on the order the elements are taken in.
It does without the induction theorems of the library that take an operator, by
stating the induction for a set of subsets.

**ConnectionsProofs**: `OneConnection` and `AnswersGoRight`. `IInv` says what every
link and every name mean: a link ends at two different nodes, a wire to a node
holds only what the other end wrote for that node; a connection whose name is a
peer's leads to that peer, names are unique, the names of peers are the connected
peers, and every queued request or answer names its peer or nobody. A request that
names a descriptor is safe although descriptors are given out again, because its
peer is looked up again when it is sent. New descriptors exist by the pigeonhole
principle, proved from the library's facts on cardinalities.

**MessagingProofs**: of Gossip, `PoolsAreChecked`, `HolderAnnounces`,
`RequestsAreAnswered` and `PeersReplaceNoAccount`. The invariant adds that a
transaction between wallet and pool was checked (`CreatingIsChecked`) and that a
node waits only for what it does not know (`WaitingIsUnknown`), which is why the
unconditional store of an account never replaces one. `BlocksAskedOnce` adds
`BlockInv`: the counter of a block is the number of announcements heard until the
block is asked for and zero from then on, and the request is then on its way or
unanswered.
Of Threads, `ThreadsInvariance` and `NobodySleepsOnWork`. `Holds` says who may be
where while a mutex is held: between a worker's test and its wait the mutex is its
own, so nobody can add work there. The destructors clear the run flags without
the mutex: that is the wake-up that can be lost, and `ShutdownEnds` excepts it.

**RecordProofs**, first the records: transaction, header, body, block, account, both
proposals and every message are read back from wherever they were written, with
whatever stands before and after (`BlockRead`, `AccountRead`, `MessageRead` and the
lemmas they are made of; `Holds` says that cells stand at a place). The reader
steps over what was written, and the sizes the code reserves are those of the cells
written, or more for an account with more addresses than are written. Where the code
loops,
over the transactions of a body or the addresses of an account, the model folds;
induction is stated for a set of numbers (`UpwardInduction`, and `FoldStates` for
the steps of a fold). A body is written in the order of its set, which exists because
no two transactions of it are in one slot.

Of Storage, `StoredBlocksReadBack`, `StoredBlocksExplainBalances`,
`StoredSequenceIsLast` and `StoredBalancesAreOwn`. `StorageInv` says that all three
databases hold what their readers accept, that an account without addresses is being
written or was left so by a stop (`torn`), that who has sent has a balance, whose number
is the larger of the one the account was taken with (`opened`) and the last one executed
here (`setBalancesByAccDiffs` raises it only for senders), and that each stored block
stands in the database as it was written. The last needs `MerkleAssumption`: a block put
under the header of another one has the same transactions, so it writes the same cells.
That peers replace no balance needs all of it: an account is asked for when its record
cannot be read, and it can be read whenever both its parts were written. What was asked
for is then stored without another look; `WaitingInv` says that it has no addresses yet
and is not being written, because every account that comes takes its name out of
`waitingData`. So the number of an account starts once at what a peer says, and from
then on only rises.

Of Framing, `ReaderStaysInStep` and `DeliveredWasSent`. `FrameInv` looks at all cells
that are in the reader, in the stream and in the writer as one row. Either it is
the rest of what was sent, cut at the head of a message (the reader may have
dropped whole messages, and the writer may have stopped in the middle of one), and
the message under construction has the header that stands there; or a header was
peeked before all of it had arrived (`lost`), its size was read as 0, and the reader
goes on in a payload. There it stands for ever, if no payload holds the magic
number: that is the hypothesis `MagicIsApart`. The code does not exclude a payload
that does, and then a part of it may be taken for a message whose check sum
happens to agree. `DeliveredInStep` needs no such hypothesis, but ends where a
header was peeked half.

Only model-checked:

- liveness under fairness (`PeersConnect`, `TransactionsSpread`, `PoolIsServed`,
  `ShutdownEnds`, `AllArrive`), which is out of the prover's reach, as is `ENABLED`;
- `Agreement` and `DuplicateLeavesOne`, which do not hold.

## 5. Not modelled

- Hashing and signatures: calls of Crypto++ and PQClean without state. A hash is
  taken to have no collisions (the checksum of a message is modelled and may
  collide), a signature that the program made is taken to verify.
- The console (commands, tables, arguments), logging, hexadecimal, exceptions as
  classes: they print or carry constants.
- `procBlockMessage`: no BLOCK message ever exists, since `getRawBlock` never
  answers. `CANCELED`, a state of the wallet's records that nothing sets.
- The JSON of the wallet's file; that `saveConf` truncates the file before it
  writes is listed among the hazards, without a property, since after a stop
  there the program does not start again.
- LevelDB beyond atomic writes that stay: the code writes without `sync`, so a
  failure of the machine (not of the process) may lose more.
- Options and error codes of sockets; `connectToPeer` keeps its address hints from
  one address to the next; a failed connection is never retried, which is modelled
  as not being asked for again.
- A node on its own UNL, or UNLs that differ between nodes, in Consensus. Nodes whose
  accounts differ when they execute a block, there: a node that took an account late
  could drop other transactions, or compute another root, than its peers.
- What a deleted object does when it is used: `Threads` records that it is
  (`dangling`), between the deletion of wallet, storages and chain and that of
  the consensus wrapper, and goes on as if it had no effect.

Every safety property of the passing runs is a theorem. What could be added: rounds
of three nodes with two blocks each, which are larger than a run of a few minutes,
and a composition of Storage with Ledger, whose stops are now modelled in both, once
for the bytes and once for the amounts.
