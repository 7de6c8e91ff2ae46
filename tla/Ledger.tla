------------------------------- MODULE Ledger -------------------------------
(***************************************************************************)
(* The balances, blocks and wallet of one node: executeBlock of            *)
(* ConsensusWrapper, step by step, beside the thread of the user interface *)
(* that makes transactions, with stops and restarts in between.  Balances, *)
(* blocks and the wallet's file are on disk, the rest is in memory.        *)
(*                                                                         *)
(* A transaction is a record; its hash is the record itself.  Which        *)
(* transactions a block holds is the business of module Consensus: here a  *)
(* block may hold any that passed checkTransaction.                        *)
(***************************************************************************)
EXTENDS Integers, FiniteSets, FiniteSetsExt, Sequences

CONSTANTS
    Account,            \* wallet ids, which are ordered; all are in the database
    Local,              \* the account of this node's wallet
    InitialBalance,     \* the balance of each account at the start
    Cash,               \* an amount is a number below Cash (2^32 in the code)
    Amount,             \* the amounts that are transferred
    Foreign,            \* the transactions other wallets make
    Request,            \* what the user asks for: receivers and amounts
    MaxSequence,        \* bound on sequence numbers
    MaxOwn,             \* bound on the sequence numbers this node's wallet gives
    MaxBlocks           \* bound on the blocks that are stored

ASSUME AccountAssumption == Account \subseteq Nat \ {0} /\ Local \in Account

ASSUME AmountAssumption ==
    /\ Cash \in Nat \ {0}
    /\ Amount \subseteq 0 .. Cash - 1
    /\ InitialBalance \in [Account -> 0 .. Cash - 1]
    /\ MaxSequence \in Nat \ {0}
    /\ MaxOwn \in 1 .. MaxSequence
    /\ MaxBlocks \in Nat

\* What the accounts hold together is an amount: the generators of accounts and
\* wallets are given balances for which it is.
ASSUME SupplyAssumption ==
    /\ IsFiniteSet(Account)
    /\ MapThenSumSet(LAMBDA a : InitialBalance[a], Account) < Cash

VARIABLES
    balances,       \* database of account balances and last sequence numbers
    blocks,         \* database of blocks, each with the id it is stored under
    walletFile,     \* the wallet's configuration file
    wallet,         \* the wallet in memory
    ui,             \* a transaction the user interface is about to make
    chain,          \* the chain of executed blocks in memory, a block id
    exec,           \* the block being executed
    issued,         \* transactions of this wallet that were given to the network
    applied,        \* history: transactions whose effect is in the balances
    paid,           \* history: how often a transaction took effect
    torn,           \* history: transactions of blocks that a stop kept from the disk
    disturbed       \* history: a stop or a race has separated wallet and balances

disk == <<balances, blocks, walletFile>>
memory == <<wallet, ui, chain, exec>>
history == <<applied, paid, torn, disturbed>>
vars == <<disk, memory, issued, history>>

-----------------------------------------------------------------------------
Transaction ==
    [sender : Account, receiver : Account, amount : Amount, sequence : 1 .. MaxSequence]

ASSUME ForeignAssumption ==
    Foreign \subseteq {tx \in Transaction : tx.sender # Local}

ASSUME RequestAssumption == Request \subseteq [receiver : Account, amount : Amount]

SameSlot(t, u) == t.sender = u.sender /\ t.sequence = u.sequence

\* The order of a TransactionSet.
Before(t, u) ==
    \/ t.sender < u.sender
    \/ t.sender = u.sender /\ t.sequence < u.sequence

checkTransaction(tx) == tx.sender # tx.receiver

\* A TransactionSet keeps one transaction of each sender and number.
IsTransactionSet(S) ==
    /\ IsFiniteSet(S)
    /\ \A t \in S : checkTransaction(t)
    /\ \A t, u \in S : SameSlot(t, u) => t = u

\* Mutant of Minus: signed arithmetic.
SignedMinus(a, b) == a - b

\* Unsigned arithmetic on amounts.
Plus(a, b) == (a + b) % Cash
Minus(a, b) == (a - b) % Cash

\* The block id that a header on prev commits to.
BlockId(prev, txs, acc) == Append(prev, [txs |-> txs, accounts |-> acc])

NoDifference == [a \in Account |-> [balanceDiff |-> 0, txSequence |-> 0]]

Idle == [pc |-> "idle", txSet |-> {}, todo |-> {}, dropped |-> {}, currAcc |-> 0,
         upBalance |-> 0, accDiffs |-> NoDifference]

NoRequest == [receiver |-> 0, amount |-> 0, balance |-> 0]

\* conf-generator makes wallets, acc-generator an account of each wallet, with
\* the wallet's balance and number.
GeneratedWallet(a) ==
    [balance |-> InitialBalance[a], txSequence |-> 1, txRecords |-> [t \in {} |-> "WAITING"]]

GeneratedAccounts ==
    [a \in Account |-> [balance |-> GeneratedWallet(a).balance,
                        txSequence |-> GeneratedWallet(a).txSequence]]

Init ==
    /\ balances = GeneratedAccounts
    /\ blocks = {}
    /\ walletFile = GeneratedWallet(Local)
    /\ wallet = walletFile
    /\ ui = NoRequest
    /\ chain = <<>>
    /\ exec = Idle
    /\ issued = {}
    /\ applied = {}
    /\ paid = 0
    /\ torn = {}
    /\ disturbed = FALSE

-----------------------------------------------------------------------------
(* Wallet *)

Record(records, tx, state) ==
    [t \in DOMAIN records \union {tx} |-> IF t = tx THEN state ELSE records[t]]

\* Mutant of updateTransaction: a confirmed transaction is paid again.
updateAndPay(w, tx, state) ==
    IF tx \in DOMAIN w.txRecords
    THEN [w EXCEPT !.balance = Minus(@, tx.amount), !.txRecords = Record(@, tx, state)]
    ELSE w

updateTransaction(w, tx, state) ==
    IF tx \in DOMAIN w.txRecords
    THEN [w EXCEPT !.txRecords = Record(@, tx, state)]
    ELSE w

receivedTransaction(w, tx) ==
    [w EXCEPT !.balance = Plus(@, tx.amount),
              !.txRecords = IF tx \in DOMAIN @ THEN @ ELSE Record(@, tx, "CONFIRMED")]

\* createNewTransaction takes the next number and reads the balance ...
BeginTransaction(receiver, amount) ==
    /\ ui = NoRequest
    /\ wallet.txSequence < MaxOwn
    /\ ui' = [receiver |-> receiver, amount |-> amount, balance |-> wallet.balance]
    /\ wallet' = [wallet EXCEPT !.txSequence = @ + 1]
    /\ UNCHANGED <<disk, chain, exec, issued, history>>

\* ... and writes it back.  The consensus thread may have changed it meanwhile:
\* no lock orders the two, so either change may be lost.  That checkTransaction
\* refuses the transaction afterwards does not undo anything.
CreateTransaction ==
    LET tx == [sender |-> Local, receiver |-> ui.receiver, amount |-> ui.amount,
               sequence |-> wallet.txSequence]
        raced == ui.balance # wallet.balance
    IN  /\ ui # NoRequest
        /\ \E b \in {Minus(ui.balance, ui.amount), Minus(wallet.balance, ui.amount)}
                    \union (IF raced THEN {wallet.balance} ELSE {}) :
             wallet' = [wallet EXCEPT !.balance = b,
                                      !.txRecords = IF tx \in DOMAIN @ THEN @
                                                    ELSE Record(@, tx, "WAITING")]
        /\ issued' = IF checkTransaction(tx) THEN issued \union {tx} ELSE issued
        /\ ui' = NoRequest
        /\ disturbed' = (disturbed \/ raced)
        /\ UNCHANGED <<disk, chain, exec, applied, paid, torn>>

\* The destructor of PQBModel, in the thread of the user interface, saves the
\* wallet first and stops the other threads last: they may still execute.
SaveWallet ==
    /\ ui = NoRequest
    /\ walletFile' = wallet
    /\ UNCHANGED <<balances, blocks, memory, issued, history>>

\* The program stops, in order or not, and starts again.
Restart ==
    /\ wallet' = walletFile
    /\ ui' = NoRequest
    /\ chain' = <<>>
    /\ exec' = Idle
    /\ torn' = IF exec.pc = "store" THEN torn \union (exec.txSet \ exec.dropped) ELSE torn
    /\ disturbed' = (disturbed \/ wallet # walletFile \/ exec.pc # "idle")
    /\ UNCHANGED <<disk, issued, applied, paid>>

-----------------------------------------------------------------------------
(* ConsensusWrapper::executeBlock *)

\* A block became valid.
ExecuteBlock(txSet) ==
    /\ exec.pc = "idle"
    /\ Len(chain) < MaxBlocks /\ Cardinality(blocks) < MaxBlocks
    /\ IsTransactionSet(txSet)
    /\ exec' = [Idle EXCEPT !.pc = "count", !.txSet = txSet, !.todo = txSet]
    /\ UNCHANGED <<disk, wallet, ui, chain, issued, history>>

\* Mutant of upBalance: what the sender spent in this block is forgotten.
balanceBefore(tx) == balances[tx.sender].balance

\* What the sender of tx has left of its balance before this block.
upBalance(tx) ==
    IF exec.currAcc = tx.sender THEN exec.upBalance ELSE balances[tx.sender].balance

\* Mutant of Valid: the last sequence number may be used again.
ValidAgain(tx) ==
    /\ upBalance(tx) >= tx.amount
    /\ balances[tx.sender].txSequence <= tx.sequence

Valid(tx) ==
    /\ upBalance(tx) >= tx.amount
    /\ balances[tx.sender].txSequence < tx.sequence

\* Debits are kept modulo Cash: 0 - amount is computed unsigned.
AddDifference(diffs, tx) ==
    [diffs EXCEPT ![tx.sender] = [balanceDiff |-> Minus(@.balanceDiff, tx.amount),
                                  txSequence |-> tx.sequence],
                  ![tx.receiver].balanceDiff = Plus(@, tx.amount)]

UpdateWallet(tx) ==
    IF tx.sender = Local THEN updateTransaction(wallet, tx, "CONFIRMED")
    ELSE IF tx.receiver = Local THEN receivedTransaction(wallet, tx)
    ELSE wallet

\* One turn of the loop of countAccountDifferencesByTxSet.
CountTransaction ==
    /\ exec.pc = "count"
    /\ \E tx \in exec.todo :
        /\ \A t \in exec.todo \ {tx} : Before(tx, t)
        /\ \/ /\ Valid(tx)
              /\ exec' = [exec EXCEPT !.todo = @ \ {tx},
                                      !.currAcc = tx.sender,
                                      !.upBalance = upBalance(tx) - tx.amount,
                                      !.accDiffs = AddDifference(@, tx)]
              /\ wallet' = UpdateWallet(tx)
           \/ /\ ~ Valid(tx)
              /\ exec' = [exec EXCEPT !.todo = @ \ {tx},
                                      !.currAcc = tx.sender,
                                      !.upBalance = upBalance(tx),
                                      !.dropped = @ \union {tx}]
              /\ UNCHANGED wallet
    /\ UNCHANGED <<disk, ui, chain, issued, history>>

NewBalances ==
    [a \in Account |->
        [balance |-> Plus(balances[a].balance, exec.accDiffs[a].balanceDiff),
         txSequence |-> IF exec.accDiffs[a].txSequence # 0
                        THEN exec.accDiffs[a].txSequence
                        ELSE balances[a].txSequence]]

\* setBalancesByAccDiffs: one batch.
SetBalances ==
    /\ exec.pc = "count" /\ exec.todo = {}
    /\ balances' = NewBalances
    /\ exec' = [exec EXCEPT !.pc = "store"]
    /\ applied' = applied \union (exec.txSet \ exec.dropped)
    /\ paid' = paid + Cardinality(exec.txSet \ exec.dropped)
    /\ UNCHANGED <<blocks, walletFile, wallet, ui, chain, issued, torn, disturbed>>

\* Mutant of StoredTransactions: dropped transactions stay in the block.
AllTransactions == exec.txSet

\* What setBlock is given: the block without what was dropped.
StoredTransactions == exec.txSet \ exec.dropped

\* Mutant of StoredBlock: it is stored before its account root is set.
blockWithoutRoot == BlockId(chain, StoredTransactions, <<>>)

StoredBlock == BlockId(chain, StoredTransactions, balances)

\* The account root completes the header in the chain, which commits to the
\* transactions as proposed, and the block is stored.
StoreBlock ==
    /\ exec.pc = "store"
    /\ chain' = BlockId(chain, exec.txSet, balances)
    /\ blocks' = blocks \union {StoredBlock}
    /\ exec' = Idle
    /\ UNCHANGED <<balances, walletFile, wallet, ui, issued, history>>

Next ==
    \/ \E r \in Request : BeginTransaction(r.receiver, r.amount)
    \/ CreateTransaction
    \/ SaveWallet
    \/ Restart
    \/ \E txSet \in SUBSET (Foreign \union issued) : ExecuteBlock(txSet)
    \/ CountTransaction
    \/ SetBalances
    \/ StoreBlock

Spec == Init /\ [][Next]_vars

-----------------------------------------------------------------------------
(* Properties *)

IsWallet(w) ==
    /\ w = [balance |-> w.balance, txSequence |-> w.txSequence, txRecords |-> w.txRecords]
    /\ w.balance \in 0 .. Cash - 1
    /\ w.txSequence \in 1 .. MaxSequence
    /\ DOMAIN w.txRecords \subseteq Transaction
    /\ w.txRecords \in [DOMAIN w.txRecords -> {"WAITING", "CONFIRMED"}]

IsExecution(e) ==
    /\ e \in [pc : {"idle", "count", "store"}, txSet : SUBSET Transaction,
              todo : SUBSET Transaction, dropped : SUBSET Transaction,
              currAcc : Account \union {0}, upBalance : 0 .. Cash - 1,
              accDiffs : [Account -> [balanceDiff : 0 .. Cash - 1,
                                      txSequence : 0 .. MaxSequence]]]
    /\ e.todo \subseteq e.txSet
    /\ e.dropped \subseteq e.txSet \ e.todo

TypeOK ==
    /\ balances \in [Account -> [balance : 0 .. Cash - 1, txSequence : 0 .. MaxSequence]]
    /\ IsWallet(wallet)
    /\ IsWallet(walletFile)
    /\ ui = NoRequest \/ ui \in [receiver : Account, amount : Amount, balance : 0 .. Cash - 1]
    /\ IsExecution(exec)
    /\ issued \subseteq Transaction
    /\ applied \subseteq Transaction
    /\ paid \in Nat
    /\ torn \subseteq Transaction
    /\ disturbed \in BOOLEAN

AmountsOf(S) == MapThenSumSet(LAMBDA t : t.amount, S)

\* Debits and credits are differences modulo 2^32, and only the balance before
\* a block limits what an account spends in it (countAccountDifferencesByTxSet
\* and setBalancesByAccDiffs).  Through stops and restarts, dropped and repeated
\* transactions, the balance of an account is what it had, less what it sent,
\* plus what it received, as plain numbers: nobody overdraws, nothing is lost or
\* made.
BalancesAreHistory ==
    \A a \in Account :
        balances[a].balance = InitialBalance[a]
                            - AmountsOf({t \in applied : t.sender = a})
                            + AmountsOf({t \in applied : t.receiver = a})

\* Balances and blocks are written one after the other, to two databases.  What
\* the stored blocks pay is what the balances account for, except for a block
\* whose balances were written when the program stopped.
BlocksHoldHistory ==
    exec.pc # "store" =>
        applied = torn \union UNION {b[Len(b)].txs : b \in blocks}

\* The wallet takes an amount off when a transaction is made, the account when
\* it is executed, and both may receive meanwhile.  The balance of the wallet
\* and the transactions still waiting add up to the balance of the account,
\* through drops, repetitions and orderly restarts, unless a stop lost changes
\* of the wallet or its two threads changed the balance at the same time.
\* A dropped transaction waits for ever: nothing returns its amount.
WalletTracksAccount ==
    LET waiting == {t \in DOMAIN wallet.txRecords : wallet.txRecords[t] = "WAITING"}
    IN  exec.pc # "count" /\ ~ disturbed =>
            balances[Local].balance = Plus(wallet.balance, AmountsOf(waiting))

\* No sequence number is paid for twice and none out of order, whatever is
\* proposed again after it was executed, before or after a restart.
P == INSTANCE Payments
        WITH Payment <- Transaction,
             last <- [a \in Account |-> balances[a].txSequence]

ImplementsPayments == P!Spec

\* b is stored, or was stored under another id: executing it dropped
\* transactions, and the roots of its header were computed again.
IsStored(b) ==
    \E c \in blocks :
        /\ Len(c) = Len(b)
        /\ c = [b EXCEPT ![Len(b)].txs = c[Len(b)].txs]
        /\ c[Len(b)].txs \subseteq b[Len(b)].txs

\* "Hash of the previous block" (Block.hpp, previousBlockHash): the predecessor
\* of a stored block is stored, with nothing left out by a stop between two
\* writes or by a restart, though the hash a block names is the stored one only
\* if no transaction of the predecessor was dropped.
StoredChainIsLinked ==
    \A b \in blocks : Len(b) > 1 => IsStored(SubSeq(b, 1, Len(b) - 1))
=============================================================================
