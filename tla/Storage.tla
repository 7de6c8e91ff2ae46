------------------------------ MODULE Storage ------------------------------
(***************************************************************************)
(* The three databases of a node: balances and addresses of accounts, and  *)
(* blocks.  A single write is atomic and stays when the process stops; an  *)
(* account is two writes, and a block that is executed is two as well.     *)
(* The message thread writes accounts and the consensus thread blocks, so  *)
(* the two writes of one may come between the two of the other.            *)
(*                                                                         *)
(* The keys are hashes: the wallet for an account, and for a block the     *)
(* hash of its header, which is the header itself here.                    *)
(***************************************************************************)
EXTENDS Structures

CONSTANTS
    Wallet,         \* numbers of wallets
    Tx,             \* the transactions there may be
    Sender(_),      \* of a transaction
    Receiver(_),
    Number(_),      \* the sequence number of a transaction
    Amount,         \* what every transaction moves
    Records,        \* what peers may say of an account: balance and sequence number
    MaxBlocks,      \* bound on the number of blocks
    MaxStops        \* bound on the number of times that the process stops

ASSUME StorageAssumption ==
    /\ {Amount, MaxBlocks, MaxStops} \subseteq Nat
    /\ Records \subseteq [balance : Nat, txSequence : Nat]

\* A wallet signs one transaction with a number.
ASSUME TxAssumption ==
    /\ IsFiniteSet(Tx) /\ Tx \subseteq TxRecord
    /\ \A t, u \in Tx : t.data = u.data => t = u
    /\ \A t \in Tx : Number(t) \in Nat

\* The root of a set of transactions is the root of no other one.
ASSUME MerkleAssumption ==
    \A S, T \in SUBSET Tx : ComputeTxSetMerkleRoot(S) = ComputeTxSetMerkleRoot(T) => S = T

VARIABLES
    balances,       \* database of AccountBalanceStorage: cells by wallet
    addresses,      \* database of AccountAddressStorage: cells by wallet
    blocks,         \* database of BlocksStorage: cells by header
    up,             \* the databases are open
    stops,          \* how often the process has stopped
    waiting,        \* the accounts in waitingData, which the node has asked for
    step,           \* the account whose balance the message thread has written
    execution,      \* the block whose balances the consensus thread has written
    opened,         \* history: wallet -> the sequence number it was taken with
    stored,         \* history: the blocks that were stored
    executed,       \* history: the transactions that were applied to balances
    torn,           \* history: accounts whose second write did not come
    unstored        \* history: transactions applied by a process that then stopped

databases == <<balances, addresses, blocks>>
threads == <<waiting, step, execution>>
histories == <<opened, stored, executed, torn, unstored>>
storageVars == <<databases, up, stops, threads, histories>>

Idle == [kind |-> "idle"]

StorageInit ==
    /\ balances = <<>> /\ addresses = <<>> /\ blocks = <<>>
    /\ up = TRUE
    /\ stops = 0
    /\ waiting = {} /\ step = Idle /\ execution = Idle
    /\ opened = <<>>
    /\ stored = {} /\ executed = {} /\ torn = {} /\ unstored = {}

\* Put replaces what is there.
Put(db, key, value) == [k \in DOMAIN db \union {key} |-> IF k = key THEN value ELSE db[k]]

getBalance(wallet) ==
    IF wallet \in DOMAIN balances THEN ReadAccountBalance(balances[wallet], 0) ELSE Thrown

getAddresses(wallet) ==
    IF wallet \in DOMAIN addresses THEN ReadAccountAddress(addresses[wallet], 0) ELSE Thrown

\* An account is known if it has a balance and addresses.
getAccount(wallet) == getBalance(wallet).ok /\ getAddresses(wallet).ok

getBlock(header) ==
    IF header \in DOMAIN blocks THEN ReadBlock(blocks[header], 0) ELSE Thrown

-----------------------------------------------------------------------------
(* setAccount, for an account of a peer                                    *)

\* Mutant of unknown: an account is taken whenever it comes.
anyAccount(wallet) == TRUE

\* procInvAccount and procAccountMessage look for an account that the node does not have.
unknown(wallet) == ~ getAccount(wallet)

\* procInvAccount asks for it.
AskFor(wallet) ==
    /\ up /\ step = Idle
    /\ wallet \notin waiting /\ unknown(wallet)
    /\ waiting' = waiting \union {wallet}
    /\ UNCHANGED <<databases, up, stops, step, execution, histories>>

\* procAccountMessage: what was asked for is stored as it came, with the balance and
\* the number that the peer has by now.  What was not is looked up into the record that
\* came: what is found of it, a balance without addresses, stays as it is.
SetBalance(wallet, list, record) ==
    LET came == [publicKey |-> wallet, balance |-> record.balance,
                 txSequence |-> record.txSequence]
        account == IF wallet \notin waiting /\ getBalance(wallet).ok
                   THEN getBalance(wallet).value ELSE came
    IN  /\ up /\ step = Idle
        /\ wallet \in waiting \/ unknown(wallet)
        /\ waiting' = waiting \ {wallet}
        /\ balances' = Put(balances, wallet, WriteAccountBalance(account))
        /\ opened' = Put(opened, wallet, account.txSequence)
        /\ step' = [kind |-> "account", wallet |-> wallet, addresses |-> list]
        /\ UNCHANGED <<addresses, blocks, up, stops, execution, stored, executed, torn, unstored>>

\* The buffer has room for all addresses: the rest of it is zero.
SetAddresses ==
    /\ up /\ step.kind = "account"
    /\ LET cells == WriteAccountAddress(step.addresses)
       IN  addresses' = Put(addresses, step.wallet,
                            [i \in 1 .. AccountAddressSize(step.addresses) |-> Field(cells, i - 1)])
    /\ step' = Idle
    /\ UNCHANGED <<balances, blocks, up, stops, waiting, execution, histories>>

-----------------------------------------------------------------------------
(* The end of executeBlock                                                 *)

Credit(wallet, txSet) == Amount * Cardinality({tx \in txSet : Receiver(tx) = wallet})
Debit(wallet, txSet) == Amount * Cardinality({tx \in txSet : Sender(tx) = wallet})

\* The largest sequence number of the sender; 0 for who only receives.
Sequence(wallet, txSet) == Max({Number(tx) : tx \in {t \in txSet : Sender(t) = wallet}} \union {0})

\* Mutant of Numbered: who only receives gets the sequence number 0.
NumberedAlways(txSequence, sequence) == sequence

Numbered(txSequence, sequence) == IF sequence # 0 THEN sequence ELSE txSequence

Touched(txSet) == UNION {{Sender(tx), Receiver(tx)} : tx \in txSet}

\* setBalancesByAccDiffs: one batch, of what is left when the transactions were checked
\* against the balances: every account is there, nobody spends what he has not, and
\* numbers rise.
SetBalancesByAccDiffs(txSet) ==
    /\ up /\ execution = Idle /\ Cardinality(stored) < MaxBlocks
    /\ \A wallet \in Touched(txSet) :
        /\ getBalance(wallet).ok
        /\ Debit(wallet, txSet) <= getBalance(wallet).value.balance
    /\ \A tx \in txSet : Number(tx) > getBalance(Sender(tx)).value.txSequence
    /\ balances' =
        [wallet \in DOMAIN balances |->
            LET account == getBalance(wallet).value
                after == [account EXCEPT
                            !.balance = @ + Credit(wallet, txSet) - Debit(wallet, txSet),
                            !.txSequence = Numbered(@, Sequence(wallet, txSet))]
            IN  IF wallet \in Touched(txSet) THEN WriteAccountBalance(after)
                ELSE balances[wallet]]
    /\ execution' = [kind |-> "block", txSet |-> txSet]
    /\ executed' = executed \union txSet
    /\ UNCHANGED <<addresses, blocks, up, stops, waiting, step, opened, stored, torn, unstored>>

\* The balances in the order of their keys, each by its hash (for the wallet of that
\* key the public key says nothing more).
getAccountsMerkleRootHash ==
    ComputeMerkleRoot([i \in 1 .. Cardinality(DOMAIN balances) |->
        LET account == getBalance(SetToSortSeq(DOMAIN balances, <)[i]).value
        IN  Hash(account.balance, account.txSequence)])

\* setBlock, after the root of the accounts: the parent is of no interest here.
SetBlock ==
    LET txSet == execution.txSet
        block == [header |-> [info |-> 1, txRoot |-> ComputeTxSetMerkleRoot(txSet),
                              previous |-> 1, accRoot |-> getAccountsMerkleRootHash],
                  body |-> [count |-> Cardinality(txSet), txSet |-> txSet]]
    IN  /\ up /\ execution.kind = "block"
        /\ BlockMayBeWritten(block)
        /\ blocks' = Put(blocks, block.header, WriteBlock(block))
        /\ stored' = stored \union {block}
        /\ execution' = Idle
        /\ UNCHANGED <<balances, addresses, up, stops, waiting, step, opened, executed, torn,
                       unstored>>

-----------------------------------------------------------------------------

Stop ==
    /\ up /\ stops < MaxStops
    /\ up' = FALSE
    /\ stops' = stops + 1
    /\ waiting' = {} /\ step' = Idle /\ execution' = Idle
    /\ torn' = IF step.kind = "account" THEN torn \union {step.wallet} ELSE torn
    /\ unstored' = IF execution.kind = "block" THEN unstored \union execution.txSet ELSE unstored
    /\ UNCHANGED <<databases, opened, stored, executed>>

OpenDatabases ==
    /\ ~ up
    /\ up' = TRUE
    /\ UNCHANGED <<databases, stops, threads, histories>>

AddressList == {<<>>, <<<<8>>, <<9, 9>>>>}

StorageNext ==
    \/ \E wallet \in Wallet : AskFor(wallet)
    \/ \E wallet \in Wallet, list \in AddressList, record \in Records :
        SetBalance(wallet, list, record)
    \/ SetAddresses
    \/ \E txSet \in SUBSET Tx : SetBalancesByAccDiffs(txSet)
    \/ SetBlock
    \/ Stop
    \/ OpenDatabases

StorageSpec == StorageInit /\ [][StorageNext]_storageVars

-----------------------------------------------------------------------------
(* Properties *)

StorageTypeOK ==
    /\ DOMAIN balances \subseteq Wallet /\ DOMAIN addresses \subseteq Wallet
    /\ \A wallet \in DOMAIN balances : balances[wallet] \in Seq(Nat) /\ getBalance(wallet).ok
    /\ \A wallet \in DOMAIN addresses :
        getAddresses(wallet).ok /\ Len(getAddresses(wallet).value) <= MaxAddresses
    /\ up \in BOOLEAN
    /\ waiting \subseteq Wallet
    /\ step.kind \in {"idle", "account"} /\ execution.kind \in {"idle", "block"}
    /\ torn \subseteq Wallet /\ unstored \subseteq executed

\* The hash of a header names one block: whatever was stored after it, a block is
\* read back by its hash with all its transactions, as they were signed.
BlocksReadBack ==
    \A block \in stored : LET read == getBlock(block.header) IN read.ok /\ read.value = block

\* The databases tell the same story: the transactions of the blocks are those that
\* were applied to the balances, but for those of a block whose process stopped
\* between the two writes (or is between them), which no block will ever contain.
BlocksExplainBalances ==
    LET inBlocks == UNION {getBlock(header).value.body.txSet : header \in DOMAIN blocks}
    IN  executed = inBlocks \union unstored \union
                   (IF execution.kind = "block" THEN execution.txSet ELSE {})

\* The sequence number of an account is that of the last transaction of its owner that
\* was executed here, or the one it was taken with from a peer when there is none since,
\* also after blocks in which the owner only received.  Not so if the process once
\* stopped between the two writes of the account: then it may be taken again.
SequenceIsLast ==
    \A wallet \in DOMAIN balances \ torn :
        getBalance(wallet).value.txSequence = Max({opened[wallet], Sequence(wallet, executed)})

\* Only the execution of a block replaces a balance, and never what a peer says of the
\* account, unless the process once stopped when it had written that balance and not yet
\* the addresses.
PeersReplaceNoBalance ==
    [][\A wallet \in DOMAIN balances :
        balances'[wallet] # balances[wallet] => execution' # execution \/ wallet \in torn]_storageVars
=============================================================================
