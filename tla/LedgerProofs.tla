---------------------------- MODULE LedgerProofs ----------------------------
(***************************************************************************)
(* Ledger, for any accounts, amounts and sequence numbers: it keeps its    *)
(* type, and no number of an account is ever paid for twice.               *)
(***************************************************************************)
EXTENDS Ledger, FoldProofs, SequenceTheorems

Accepted == (exec.txSet \ exec.todo) \ exec.dropped

\* While the transactions of a block are counted: those done come before those
\* to do, and the differences hold the last number each sender had accepted.
CountInv ==
    exec.pc # "idle" =>
        /\ IsTransactionSet(exec.txSet)
        /\ \A p \in exec.txSet \ exec.todo, t \in exec.todo : Before(p, t)
        /\ exec.pc = "count" =>
            /\ \A p \in Accepted : /\ balances[p.sender].txSequence < p.sequence
                                   /\ p.sequence <= exec.accDiffs[p.sender].txSequence
            /\ \A a \in Account : exec.accDiffs[a].txSequence # 0 =>
                  \E p \in Accepted :
                     p.sender = a /\ p.sequence = exec.accDiffs[a].txSequence

IInv == TypeOK /\ CountInv

USE AccountAssumption, AmountAssumption, ForeignAssumption, RequestAssumption

LEMMA ArithmeticType ==
    ASSUME NEW a \in Int, NEW b \in Int
    PROVE  Plus(a, b) \in 0 .. Cash - 1 /\ Minus(a, b) \in 0 .. Cash - 1
BY DEF Plus, Minus

LEMMA RecordType ==
    ASSUME NEW w, IsWallet(w), NEW tx \in Transaction, NEW state \in {"WAITING", "CONFIRMED"},
           NEW b \in 0 .. Cash - 1
    PROVE  /\ IsWallet([w EXCEPT !.balance = b, !.txRecords = Record(@, tx, state)])
           /\ IsWallet([w EXCEPT !.txRecords = Record(@, tx, state)])
           /\ IsWallet([w EXCEPT !.balance = b])
<1> DEFINE r == Record(w.txRecords, tx, state)
<1>1. DOMAIN r \subseteq Transaction /\ r \in [DOMAIN r -> {"WAITING", "CONFIRMED"}]
  BY DEF Record, IsWallet
<1> HIDE DEF r
<1> DEFINE x == [balance |-> b, txSequence |-> w.txSequence, txRecords |-> r]
           y == [balance |-> w.balance, txSequence |-> w.txSequence, txRecords |-> r]
           z == [balance |-> b, txSequence |-> w.txSequence, txRecords |-> w.txRecords]
<1>2. w = [balance |-> w.balance, txSequence |-> w.txSequence, txRecords |-> w.txRecords]
  BY DEF IsWallet
<1>a. [w EXCEPT !.txRecords = r] = y
  BY ONLY <1>2
<1>b. [w EXCEPT !.balance = b] = z
  BY ONLY <1>2
<1>c. [w EXCEPT !.balance = b, !.txRecords = r] = x
  <2>1. [w EXCEPT !.balance = b, !.txRecords = r] = [[w EXCEPT !.balance = b] EXCEPT !.txRecords = r]
    OBVIOUS
  <2>2. [z EXCEPT !.txRecords = r] = x
    OBVIOUS
  <2> QED
    BY <1>b, <2>1, <2>2
<1>3. IsWallet(x)
  BY <1>1 DEF IsWallet
<1>4. IsWallet(y)
  BY <1>1 DEF IsWallet
<1>5. IsWallet(z)
  BY DEF IsWallet
<1> QED
  BY <1>a, <1>b, <1>c, <1>3, <1>4, <1>5 DEF r

LEMMA IdleType == IsExecution(Idle) /\ Idle.pc = "idle"
BY DEF Idle, NoDifference, IsExecution

LEMMA TransactionFields ==
    ASSUME NEW tx \in Transaction
    PROVE  /\ tx.sender \in Account /\ tx.sender \in Nat
           /\ tx.receiver \in Account
           /\ tx.amount \in Nat
           /\ tx.sequence \in 1 .. MaxSequence
<1>1. /\ tx.sender \in Account /\ tx.receiver \in Account
      /\ tx.amount \in Amount /\ tx.sequence \in 1 .. MaxSequence
  BY DEF Transaction
<1>2. tx.amount \in 0 .. Cash - 1 /\ tx.sender \in Nat
  BY <1>1
<1> QED
  BY <1>1, <1>2

LEMMA InitInv == Init => IInv
<1> SUFFICES ASSUME Init PROVE IInv
  OBVIOUS
<1>1. IsWallet(walletFile) /\ wallet = walletFile
  <2>1. InitialBalance[Local] \in 0 .. Cash - 1
    OBVIOUS
  <2>2. [t \in {} |-> "WAITING"] \in [{} -> {"WAITING", "CONFIRMED"}]
    OBVIOUS
  <2> QED
    BY <2>1, <2>2 DEF Init, IsWallet, GeneratedWallet
<1>2. IsExecution(exec) /\ exec.pc = "idle"
  BY IdleType DEF Init
<1>3. balances \in [Account -> [balance : 0 .. Cash - 1, txSequence : 0 .. MaxSequence]]
  <2>1. \A a \in Account : InitialBalance[a] \in 0 .. Cash - 1
    OBVIOUS
  <2> QED
    BY <2>1 DEF Init, GeneratedAccounts, GeneratedWallet
<1>4. CountInv
  BY <1>2 DEF CountInv
<1> QED
  BY <1>1, <1>2, <1>3, <1>4 DEF Init, IInv, TypeOK

\* The steps of the user interface, the wallet's file and the network leave the
\* execution of a block alone.
LEMMA CountInvStays ==
    ASSUME CountInv, UNCHANGED <<exec, balances>>
    PROVE  CountInv'
BY DEF CountInv, Accepted

LEMMA BeginTransactionInv ==
    ASSUME IInv, NEW r \in Request, BeginTransaction(r.receiver, r.amount)
    PROVE  IInv'
<1>1. IsWallet(wallet')
  BY DEF BeginTransaction, IInv, TypeOK, IsWallet
<1>2. ui' \in [receiver : Account, amount : Amount, balance : 0 .. Cash - 1]
  BY DEF BeginTransaction, IInv, TypeOK, IsWallet
<1>3. CountInv'
  BY CountInvStays DEF BeginTransaction, IInv, disk
<1> QED
  BY <1>1, <1>2, <1>3 DEF BeginTransaction, IInv, TypeOK, disk, history

LEMMA CreateTransactionInv ==
    ASSUME IInv, CreateTransaction
    PROVE  IInv'
<1> DEFINE tx == [sender |-> Local, receiver |-> ui.receiver, amount |-> ui.amount,
                  sequence |-> wallet.txSequence]
<1>1. tx \in Transaction /\ wallet.balance \in 0 .. Cash - 1 /\ IsWallet(wallet)
  BY DEF CreateTransaction, IInv, TypeOK, IsWallet, Transaction
<1>2. PICK b \in 0 .. Cash - 1 :
         wallet' = [wallet EXCEPT !.balance = b,
                                  !.txRecords = IF tx \in DOMAIN @ THEN @
                                                ELSE Record(@, tx, "WAITING")]
  <2>1. ui.balance \in 0 .. Cash - 1 /\ ui.amount \in 0 .. Cash - 1
    BY DEF CreateTransaction, IInv, TypeOK
  <2>2. ui.balance \in Int /\ ui.amount \in Int /\ wallet.balance \in Int
    BY <1>1, <2>1
  <2>3. Minus(ui.balance, ui.amount) \in 0 .. Cash - 1
    BY ONLY <2>2, ArithmeticType
  <2>4. Minus(wallet.balance, ui.amount) \in 0 .. Cash - 1
    BY ONLY <2>2, ArithmeticType
  <2> DEFINE B == {Minus(ui.balance, ui.amount), Minus(wallet.balance, ui.amount)}
                  \union (IF ui.balance # wallet.balance THEN {wallet.balance} ELSE {})
  <2>5. B \subseteq 0 .. Cash - 1
    BY <1>1, <2>3, <2>4
  <2>6. \E b \in B :
          wallet' = [wallet EXCEPT !.balance = b,
                                   !.txRecords = IF tx \in DOMAIN @ THEN @
                                                 ELSE Record(@, tx, "WAITING")]
    BY DEF CreateTransaction
  <2> HIDE DEF B
  <2> QED
    BY <2>5, <2>6
<1>3. IsWallet(wallet')
  <2>1. CASE tx \in DOMAIN wallet.txRecords
    <3>1. wallet' = [wallet EXCEPT !.balance = b]
      BY <1>1, <1>2, <2>1 DEF IsWallet
    <3> QED
      BY <1>1, <3>1, RecordType
  <2>2. CASE tx \notin DOMAIN wallet.txRecords
    <3>1. wallet' = [wallet EXCEPT !.balance = b, !.txRecords = Record(@, tx, "WAITING")]
      BY <1>2, <2>2
    <3> QED
      BY <1>1, <3>1, RecordType
  <2> QED
    BY <2>1, <2>2
<1>4. issued' \subseteq Transaction
  BY <1>1 DEF CreateTransaction, IInv, TypeOK
<1>5. CountInv'
  BY CountInvStays DEF CreateTransaction, IInv, disk
<1>6. disturbed' \in BOOLEAN
  BY DEF CreateTransaction, IInv, TypeOK
<1> QED
  BY <1>3, <1>4, <1>5, <1>6 DEF CreateTransaction, IInv, TypeOK, disk

LEMMA SaveWalletInv ==
    ASSUME IInv, SaveWallet
    PROVE  IInv'
<1>1. CountInv'
  BY CountInvStays DEF SaveWallet, IInv, memory
<1> QED
  BY <1>1 DEF SaveWallet, IInv, TypeOK, memory, history

LEMMA RestartInv ==
    ASSUME IInv, Restart
    PROVE  IInv'
<1>1. torn' \subseteq Transaction
  BY DEF Restart, IInv, TypeOK, IsExecution
<1>2. disturbed' \in BOOLEAN
  BY DEF Restart, IInv, TypeOK
<1>3. CountInv' /\ IsExecution(exec')
  BY IdleType DEF Restart, CountInv
<1> QED
  BY <1>1, <1>2, <1>3 DEF Restart, IInv, TypeOK, disk

LEMMA ExecuteBlockInv ==
    ASSUME IInv, NEW txSet \in SUBSET (Foreign \union issued), ExecuteBlock(txSet)
    PROVE  IInv'
<1>1. txSet \subseteq Transaction
  BY DEF IInv, TypeOK
<1>2. IsExecution(exec')
  <2>1. exec' = [pc |-> "count", txSet |-> txSet, todo |-> txSet, dropped |-> {},
                 currAcc |-> 0, upBalance |-> 0, accDiffs |-> NoDifference]
    BY DEF ExecuteBlock, Idle
  <2>2. NoDifference \in [Account -> [balanceDiff : 0 .. Cash - 1, txSequence : 0 .. MaxSequence]]
    BY DEF NoDifference
  <2> HIDE DEF NoDifference
  <2> QED
    BY <1>1, <2>1, <2>2 DEF IsExecution
<1>3. CountInv'
  BY DEF ExecuteBlock, Idle, NoDifference, CountInv, Accepted
<1> QED
  BY <1>2, <1>3 DEF ExecuteBlock, IInv, TypeOK, disk, history

\* The wallet keeps its type when a counted transaction is recorded.
LEMMA UpdateWalletType ==
    ASSUME IInv, NEW tx \in Transaction
    PROVE  IsWallet(UpdateWallet(tx))
<1>1. IsWallet(wallet) /\ wallet.balance \in Int /\ tx.amount \in Int
  BY TransactionFields DEF IInv, TypeOK, IsWallet
<1>2. IsWallet(updateTransaction(wallet, tx, "CONFIRMED"))
  BY <1>1, RecordType DEF updateTransaction
<1>3. IsWallet(receivedTransaction(wallet, tx))
  <2> DEFINE b == Plus(wallet.balance, tx.amount)
  <2>1. b \in 0 .. Cash - 1
    BY <1>1, ArithmeticType
  <2> HIDE DEF b
  <2>2. CASE tx \in DOMAIN wallet.txRecords
    <3>1. receivedTransaction(wallet, tx) = [wallet EXCEPT !.balance = b]
      BY <1>1, <2>2 DEF receivedTransaction, IsWallet, b
    <3>2. IsWallet([wallet EXCEPT !.balance = b])
      BY <1>1, <2>1, RecordType
    <3> QED
      BY <3>1, <3>2
  <2>3. CASE tx \notin DOMAIN wallet.txRecords
    <3>1. receivedTransaction(wallet, tx) =
            [wallet EXCEPT !.balance = b, !.txRecords = Record(@, tx, "CONFIRMED")]
      BY <2>3 DEF receivedTransaction, b
    <3>2. IsWallet([wallet EXCEPT !.balance = b, !.txRecords = Record(@, tx, "CONFIRMED")])
      BY <1>1, <2>1, RecordType
    <3> QED
      BY <3>1, <3>2
  <2> QED
    BY <2>2, <2>3
<1> QED
  BY <1>1, <1>2, <1>3 DEF UpdateWallet

LEMMA DifferenceType ==
    ASSUME IInv, NEW tx \in Transaction
    PROVE  AddDifference(exec.accDiffs, tx) \in
             [Account -> [balanceDiff : 0 .. Cash - 1, txSequence : 0 .. MaxSequence]]
<1>1. tx.sender \in Account /\ tx.receiver \in Account /\ tx.amount \in Int
      /\ tx.sequence \in 0 .. MaxSequence
  BY TransactionFields
<1> DEFINE D == [balanceDiff : 0 .. Cash - 1, txSequence : 0 .. MaxSequence]
           d == [exec.accDiffs EXCEPT ![tx.sender] =
                   [balanceDiff |-> Minus(@.balanceDiff, tx.amount), txSequence |-> tx.sequence]]
<1>2. exec.accDiffs \in [Account -> D]
  BY DEF IInv, TypeOK, IsExecution
<1>3. \A x \in D : x.balanceDiff \in Int
  OBVIOUS
<1>4. d \in [Account -> D]
  BY <1>1, <1>2, <1>3, ArithmeticType
<1>5. AddDifference(exec.accDiffs, tx) =
        [d EXCEPT ![tx.receiver] = [d[tx.receiver] EXCEPT !.balanceDiff = Plus(@, tx.amount)]]
  BY DEF AddDifference
<1> HIDE DEF d
<1>6. Plus(d[tx.receiver].balanceDiff, tx.amount) \in 0 .. Cash - 1
  BY <1>1, <1>3, <1>4, ArithmeticType
<1> QED
  BY <1>1, <1>4, <1>5, <1>6

LEMMA CountTransactionInv ==
    ASSUME IInv, CountTransaction
    PROVE  IInv'
<1>1. PICK tx \in exec.todo :
        /\ \A t \in exec.todo \ {tx} : Before(tx, t)
        /\ \/ /\ Valid(tx)
              /\ exec' = [exec EXCEPT !.todo = @ \ {tx},
                                      !.currAcc = tx.sender,
                                      !.upBalance = upBalance(tx) - tx.amount,
                                      !.accDiffs = AddDifference(@, tx)]
              /\ wallet' = UpdateWallet(tx)
           \/ /\ ~ Valid(tx)
              /\ exec' = [exec EXCEPT !.todo = @ \ {tx},
                                      !.currAcc = tx.sender,
                                      !.upBalance = upBalance(tx),
                                      !.dropped = @ \union {tx}]
              /\ UNCHANGED wallet
  BY DEF CountTransaction
<1>2. /\ exec.pc = "count"
      /\ UNCHANGED <<balances, blocks, walletFile, ui, issued, applied, paid, torn, disturbed>>
  BY DEF CountTransaction, disk, history
<1>3. tx \in Transaction /\ tx \in exec.txSet /\ tx \notin exec.dropped
  BY DEF IInv, TypeOK, IsExecution
<1>4. /\ tx.sender \in Account /\ tx.receiver \in Account
      /\ tx.amount \in Nat /\ tx.sequence \in 1 .. MaxSequence
  BY <1>3, TransactionFields
<1>5. upBalance(tx) \in 0 .. Cash - 1
  BY <1>4 DEF upBalance, IInv, TypeOK, IsExecution
<1>6. /\ IsTransactionSet(exec.txSet)
      /\ \A p \in exec.txSet \ exec.todo, t \in exec.todo : Before(p, t)
  BY <1>2 DEF IInv, CountInv
<1>7. CASE Valid(tx) /\ exec' = [exec EXCEPT !.todo = @ \ {tx},
                                      !.currAcc = tx.sender,
                                      !.upBalance = upBalance(tx) - tx.amount,
                                      !.accDiffs = AddDifference(@, tx)]
                     /\ wallet' = UpdateWallet(tx)
  <2> DEFINE diffs == AddDifference(exec.accDiffs, tx)
  <2>1. upBalance(tx) - tx.amount \in 0 .. Cash - 1
    BY <1>4, <1>5, <1>7 DEF Valid
  <2>2. diffs \in [Account -> [balanceDiff : 0 .. Cash - 1, txSequence : 0 .. MaxSequence]]
    BY <1>3, DifferenceType
  <2>3. exec' = [pc |-> exec.pc, txSet |-> exec.txSet, todo |-> exec.todo \ {tx},
                 dropped |-> exec.dropped, currAcc |-> tx.sender,
                 upBalance |-> upBalance(tx) - tx.amount, accDiffs |-> diffs]
    BY <1>7 DEF IInv, TypeOK, IsExecution
  <2>4. \A a \in Account : diffs[a].txSequence = IF a = tx.sender THEN tx.sequence
                                                 ELSE exec.accDiffs[a].txSequence
    BY <1>4 DEF AddDifference, IInv, TypeOK, IsExecution
  <2> HIDE DEF diffs
  <2>5. IsExecution(exec')
    BY <1>3, <1>4, <2>1, <2>2, <2>3 DEF IInv, TypeOK, IsExecution
  <2>6. IsWallet(wallet')
    BY <1>3, <1>7, UpdateWalletType
  <2>7. Accepted' = Accepted \union {tx}
    BY <1>3, <2>3 DEF Accepted, IInv, TypeOK, IsExecution
  <2>8. ASSUME NEW p \in Accepted, p.sender = tx.sender
        PROVE  p.sequence < tx.sequence
    <3>1. Before(p, tx)
      BY <1>6 DEF Accepted
    <3>2. ~ (p.sender < tx.sender)
      BY <1>3, <2>8, TransactionFields
    <3> QED
      BY <3>1, <3>2 DEF Before
  <2>9. \A p \in Accepted : p \in Transaction /\ p.sender \in Account
    BY DEF Accepted, IInv, TypeOK, IsExecution, Transaction
  <2>10. \A p \in Accepted' : /\ balances[p.sender].txSequence < p.sequence
                              /\ p.sequence <= diffs[p.sender].txSequence
    <3> SUFFICES ASSUME NEW p \in Accepted'
                 PROVE  /\ balances[p.sender].txSequence < p.sequence
                        /\ p.sequence <= diffs[p.sender].txSequence
      OBVIOUS
    <3>1. CASE p = tx
      BY <1>4, <1>7, <2>4, <3>1 DEF Valid
    <3>2. CASE p \in Accepted
      <4>1. /\ balances[p.sender].txSequence < p.sequence
            /\ p.sequence <= exec.accDiffs[p.sender].txSequence
        BY <1>2, <3>2 DEF IInv, CountInv
      <4>2. p.sender = tx.sender => p.sequence <= tx.sequence
        <5>1. p.sequence \in Nat
          BY <2>9, <3>2 DEF Transaction
        <5> QED
          BY <1>4, <2>8, <3>2, <5>1
      <4> QED
        BY <2>4, <2>9, <3>2, <4>1, <4>2
    <3> QED
      BY <2>7, <3>1, <3>2
  <2>11. \A a \in Account : diffs[a].txSequence # 0 =>
            \E p \in Accepted' : p.sender = a /\ p.sequence = diffs[a].txSequence
    BY <1>2, <2>4, <2>7 DEF IInv, CountInv
  <2>12. CountInv'
    <3>1. \A p \in (exec.txSet \ exec.todo) \union {tx}, t \in exec.todo \ {tx} : Before(p, t)
      BY <1>1, <1>6
    <3>2. \A p \in exec'.txSet \ exec'.todo, t \in exec'.todo : Before(p, t)
      BY <2>3, <3>1
    <3>3. exec'.txSet = exec.txSet /\ exec'.accDiffs = diffs /\ balances' = balances
      BY <1>2, <2>3
    <3> QED
      BY <1>6, <2>10, <2>11, <3>2, <3>3 DEF CountInv, IsTransactionSet
  <2> QED
    BY <1>2, <2>5, <2>6, <2>12 DEF IInv, TypeOK
<1>8. CASE ~ Valid(tx) /\ exec' = [exec EXCEPT !.todo = @ \ {tx},
                                      !.currAcc = tx.sender,
                                      !.upBalance = upBalance(tx),
                                      !.dropped = @ \union {tx}]
                       /\ UNCHANGED wallet
  <2>1. exec' = [pc |-> exec.pc, txSet |-> exec.txSet, todo |-> exec.todo \ {tx},
                 dropped |-> exec.dropped \union {tx}, currAcc |-> tx.sender,
                 upBalance |-> upBalance(tx), accDiffs |-> exec.accDiffs]
    BY <1>8 DEF IInv, TypeOK, IsExecution
  <2>2. IsExecution(exec')
    BY <1>3, <1>4, <1>5, <2>1 DEF IInv, TypeOK, IsExecution
  <2>3. Accepted' = Accepted
    BY <1>3, <2>1 DEF Accepted, IInv, TypeOK, IsExecution
  <2>4. CountInv'
    <3>1. \A p \in (exec.txSet \ exec.todo) \union {tx}, t \in exec.todo \ {tx} : Before(p, t)
      BY <1>1, <1>6
    <3>2. \A p \in exec'.txSet \ exec'.todo, t \in exec'.todo : Before(p, t)
      BY <2>1, <3>1
    <3>3. exec'.txSet = exec.txSet /\ exec'.accDiffs = exec.accDiffs /\ balances' = balances
      BY <1>2, <2>1
    <3> QED
      BY <1>2, <1>6, <2>3, <3>2, <3>3 DEF IInv, CountInv, IsTransactionSet
  <2> QED
    BY <1>2, <1>8, <2>2, <2>4 DEF IInv, TypeOK
<1> QED
  BY <1>1, <1>7, <1>8

LEMMA SetBalancesInv ==
    ASSUME IInv, SetBalances
    PROVE  IInv'
<1>1. exec' = [exec EXCEPT !.pc = "store"]
  BY DEF SetBalances
<1>2. IsExecution(exec')
  BY <1>1 DEF IInv, TypeOK, IsExecution
<1>3. balances' \in [Account -> [balance : 0 .. Cash - 1, txSequence : 0 .. MaxSequence]]
  <2> SUFFICES ASSUME NEW a \in Account
               PROVE  NewBalances[a] \in [balance : 0 .. Cash - 1, txSequence : 0 .. MaxSequence]
    BY DEF SetBalances, NewBalances
  <2>1. /\ balances[a].balance \in Int /\ exec.accDiffs[a].balanceDiff \in Int
        /\ balances[a].txSequence \in 0 .. MaxSequence
        /\ exec.accDiffs[a].txSequence \in 0 .. MaxSequence
    BY DEF IInv, TypeOK, IsExecution
  <2>2. Plus(balances[a].balance, exec.accDiffs[a].balanceDiff) \in 0 .. Cash - 1
    BY ONLY <2>1, ArithmeticType
  <2> QED
    BY <2>1, <2>2 DEF NewBalances
<1>4. applied' \subseteq Transaction /\ paid' \in Nat
  <2>1. (exec.txSet \ exec.dropped) \subseteq Transaction
    BY DEF IInv, TypeOK, IsExecution
  <2>2. Cardinality(exec.txSet \ exec.dropped) \in Nat
    BY FS_Subset, FS_CardinalityType DEF SetBalances, IInv, CountInv, IsTransactionSet
  <2> QED
    BY <2>1, <2>2 DEF SetBalances, IInv, TypeOK
<1>5. CountInv'
  <2>1. exec'.pc = "store" /\ exec'.txSet = exec.txSet /\ exec'.todo = exec.todo
    BY <1>1 DEF IInv, TypeOK, IsExecution
  <2>2. exec.pc = "count"
    BY DEF SetBalances
  <2> QED
    BY <2>1, <2>2 DEF IInv, CountInv, IsTransactionSet
<1> QED
  BY <1>2, <1>3, <1>4, <1>5 DEF SetBalances, IInv, TypeOK

LEMMA StoreBlockInv ==
    ASSUME IInv, StoreBlock
    PROVE  IInv'
<1>1. CountInv' /\ IsExecution(exec')
  BY IdleType DEF StoreBlock, CountInv
<1> QED
  BY <1>1 DEF StoreBlock, IInv, TypeOK, history

LEMMA NextInv == IInv /\ [Next]_vars => IInv'
<1> SUFFICES ASSUME IInv, [Next]_vars PROVE IInv'
  OBVIOUS
<1>1. CASE UNCHANGED vars
  BY <1>1, CountInvStays DEF IInv, TypeOK, vars, disk, memory, history
<1> QED
  BY <1>1, BeginTransactionInv, CreateTransactionInv, SaveWalletInv, RestartInv,
     ExecuteBlockInv, CountTransactionInv, SetBalancesInv, StoreBlockInv DEF Next

LEMMA Inductive == Spec => []IInv
BY InitInv, NextInv, PTL DEF Spec

\* Amounts and numbers keep their ranges, unsigned arithmetic included, whatever
\* blocks executeBlock is given and whenever the program stops.
THEOREM TypeCorrect == Spec => []TypeOK
BY Inductive, PTL DEF IInv

-----------------------------------------------------------------------------
(* Refinement *)

\* What a block pays when its balances are written is a batch of new payments.
LEMMA SetBalancesApplies ==
    ASSUME IInv, SetBalances, balances' \in [Account -> [balance : 0 .. Cash - 1,
                                                         txSequence : 0 .. MaxSequence]]
    PROVE  P!Apply(exec.txSet \ exec.dropped)
<1> DEFINE batch == exec.txSet \ exec.dropped
           last(a) == balances[a].txSequence
<1>1. /\ exec.pc = "count" /\ exec.todo = {} /\ batch = Accepted
      /\ IsTransactionSet(exec.txSet) /\ batch \subseteq Transaction
  BY DEF SetBalances, Accepted, IInv, CountInv, TypeOK, IsExecution
<1>2. \A p \in batch : /\ last(p.sender) < p.sequence
                       /\ p.sequence <= exec.accDiffs[p.sender].txSequence
  BY <1>1 DEF IInv, CountInv
<1>3. \A a \in Account : exec.accDiffs[a].txSequence # 0 =>
         \E p \in batch : p.sender = a /\ p.sequence = exec.accDiffs[a].txSequence
  BY <1>1 DEF IInv, CountInv
<1>4. \A p \in batch : p.sender \in Account /\ p.sequence \in 1 .. MaxSequence
  BY <1>1, TransactionFields
<1>5. \A a \in Account : balances'[a].txSequence = IF exec.accDiffs[a].txSequence # 0
                                                  THEN exec.accDiffs[a].txSequence
                                                  ELSE last(a)
  BY DEF SetBalances, NewBalances
<1>6. \A a \in Account : last(a) \in 0 .. MaxSequence
                         /\ exec.accDiffs[a].txSequence \in 0 .. MaxSequence
                         /\ balances'[a].txSequence \in Nat
  BY DEF IInv, TypeOK, IsExecution
<1>7. applied' = applied \union batch /\ paid' = paid + Cardinality(batch)
  BY DEF SetBalances
<1>8. \A p, q \in batch : P!SameSlot(p, q) => p = q
  BY <1>1 DEF IsTransactionSet, SameSlot, P!SameSlot
<1> HIDE DEF batch
<1>9. ASSUME NEW a \in Account
      PROVE  LET numbers == {p.sequence : p \in {q \in batch : q.sender = a}}
             IN  IF numbers = {} THEN balances'[a].txSequence = last(a)
                 ELSE balances'[a].txSequence \in numbers
                      /\ \A n \in numbers : n <= balances'[a].txSequence
  <2> DEFINE numbers == {p.sequence : p \in {q \in batch : q.sender = a}}
             n0 == exec.accDiffs[a].txSequence
  <2>1. ASSUME n0 # 0 PROVE n0 \in numbers
    <3>1. PICK p \in batch : p.sender = a /\ p.sequence = n0
      BY <1>3, <1>9, <2>1
    <3> QED
      BY ONLY <3>1
  <2>2. \A n \in numbers : n <= n0 /\ n \in 1 .. MaxSequence
    BY <1>2, <1>4
  <2>3. numbers # {} => n0 # 0
    <3> SUFFICES ASSUME NEW n \in numbers, n0 = 0 PROVE FALSE
      OBVIOUS
    <3>1. n <= 0 /\ n \in 1 .. MaxSequence
      BY <2>2
    <3> QED
      BY <3>1
  <2>4. balances'[a].txSequence = IF n0 # 0 THEN n0 ELSE last(a)
    BY <1>5, <1>9
  <2> HIDE DEF numbers, n0
  <2>5. CASE n0 = 0
    BY <2>3, <2>4, <2>5 DEF numbers
  <2>6. CASE n0 # 0
    BY <2>1, <2>2, <2>4, <2>6 DEF numbers
  <2> QED
    BY <2>5, <2>6
<1> DEFINE bar == [a \in Account |-> balances[a].txSequence]
           bar1 == [a \in Account |-> balances'[a].txSequence]
<1>10. \A a \in Account : bar[a] = last(a) /\ bar1[a] = balances'[a].txSequence
  OBVIOUS
<1>11. bar1 \in [Account -> Nat]
  BY <1>6
<1>12. \A p \in batch : p.sequence > bar[p.sender]
  <2> SUFFICES ASSUME NEW p \in batch PROVE p.sequence > bar[p.sender]
    OBVIOUS
  <2>1. p.sender \in Account /\ p.sequence \in Int
    BY <1>4
  <2>2. \A a \in Account : bar[a] = last(a) /\ last(a) \in Int
    BY <1>6, <1>10
  <2>3. last(p.sender) < p.sequence
    BY <1>2
  <2> HIDE DEF bar, last
  <2> QED
    BY <2>1, <2>2, <2>3
<1>13. \A a \in Account :
          LET numbers == {p.sequence : p \in {q \in batch : q.sender = a}}
          IN  IF numbers = {} THEN bar1[a] = bar[a]
              ELSE bar1[a] \in numbers /\ \A n \in numbers : n <= bar1[a]
  BY <1>9, <1>10
<1>14. Cardinality(batch) = P!Cardinality(batch)
  BY DEF Cardinality, P!Cardinality
<1> HIDE DEF last
<1> QED
  BY <1>7, <1>8, <1>11, <1>12, <1>13, <1>14 DEF P!Apply, batch

\* The other steps leave alone what the payments are about.
LEMMA OthersStutter ==
    ASSUME Next, ~ SetBalances
    PROVE  UNCHANGED <<applied, paid, balances>>
BY DEF Next, BeginTransaction, CreateTransaction, SaveWallet, Restart, ExecuteBlock,
       CountTransaction, StoreBlock, disk, history

\* Whatever blocks executeBlock is given, however often a transaction is proposed
\* again and wherever the program stops: no sequence number of an account is paid
\* for twice and none after a larger one.
THEOREM PaysOnceInOrder == Spec => ImplementsPayments
<1>1. Init => P!Init
  BY DEF Init, GeneratedAccounts, GeneratedWallet, P!Init
<1>2. IInv /\ IInv' /\ [Next]_vars => [P!Next]_(P!vars)
  <2> SUFFICES ASSUME IInv, IInv', [Next]_vars PROVE [P!Next]_(P!vars)
    OBVIOUS
  <2>1. CASE SetBalances
    <3> DEFINE B == exec.txSet \ exec.dropped
    <3>1. P!Apply(B)
      BY <2>1, SetBalancesApplies DEF IInv, TypeOK
    <3>2. B \in SUBSET Transaction
      BY DEF IInv, TypeOK, IsExecution
    <3> HIDE DEF B
    <3>3. P!Next
      BY <3>1, <3>2 DEF P!Next, P!Apply
    <3> QED
      BY <3>3
  <2>2. CASE Next /\ ~ SetBalances
    BY <2>2, OthersStutter DEF P!vars
  <2>3. CASE UNCHANGED vars
    BY <2>3 DEF vars, disk, history, P!vars
  <2> QED
    BY <2>1, <2>2, <2>3
<1> QED
  BY <1>1, <1>2, Inductive, PTL DEF Spec, ImplementsPayments, P!Spec

-----------------------------------------------------------------------------
(* Blocks *)

Header ==
    [txs : SUBSET Transaction,
     accounts : [Account -> [balance : 0 .. Cash - 1, txSequence : 0 .. MaxSequence]]]

StoredPayments == UNION {b[Len(b)].txs : b \in blocks}

\* What is in the balances was stored with a block, is about to be, or was lost
\* with the block by a stop; and the chain in memory is stored.
BlocksInv ==
    /\ chain \in Seq(Header)
    /\ blocks \subseteq Seq(Header) \ {<<>>}
    /\ applied = torn \union StoredPayments
                      \union (IF exec.pc = "store" THEN exec.txSet \ exec.dropped ELSE {})
    /\ chain # <<>> => IsStored(chain)
    /\ StoredChainIsLinked

LEMMA InitBlocks == Init => BlocksInv
BY DEF Init, BlocksInv, StoredPayments, StoredChainIsLinked, Idle

\* IsStored, for a block and a set of blocks.
StoredIn(b, B) ==
    \E c \in B : /\ Len(c) = Len(b)
                 /\ c = [b EXCEPT ![Len(b)].txs = c[Len(b)].txs]
                 /\ c[Len(b)].txs \subseteq b[Len(b)].txs

LEMMA StoredUnfolds ==
    /\ IsStored(chain) <=> StoredIn(chain, blocks)
    /\ IsStored(chain)' <=> StoredIn(chain', blocks')
    /\ StoredChainIsLinked <=>
         \A b \in blocks : Len(b) > 1 => StoredIn(SubSeq(b, 1, Len(b) - 1), blocks)
    /\ StoredChainIsLinked' <=>
         \A b \in blocks' : Len(b) > 1 => StoredIn(SubSeq(b, 1, Len(b) - 1), blocks')
BY DEF IsStored, StoredChainIsLinked, StoredIn

\* A block stays stored.
LEMMA StaysStored ==
    ASSUME NEW b, NEW B, NEW C, StoredIn(b, B), B \subseteq C
    PROVE  StoredIn(b, C)
BY DEF StoredIn

LEMMA AppendFacts ==
    ASSUME NEW S, NEW q \in Seq(S), NEW x \in S, NEW y \in S
    PROVE  /\ Append(q, x) \in Seq(S) \ {<<>>}
           /\ Len(Append(q, x)) = Len(q) + 1
           /\ Append(q, x)[Len(q) + 1] = x
           /\ SubSeq(Append(q, x), 1, Len(q)) = q
           /\ Append(q, y) = [Append(q, x) EXCEPT ![Len(q) + 1] = y]
<1> DEFINE n == Len(q) + 1
           a == Append(q, x)
           b == Append(q, y)
<1>a. a \in Seq(S) /\ b \in Seq(S) /\ Len(a) = n /\ Len(b) = n /\ n \in Nat
  OBVIOUS
<1>b. a \in [1 .. n -> S] /\ b \in [1 .. n -> S]
  BY <1>a, LenProperties
<1>c. a[n] = x /\ b[n] = y /\ \A i \in 1 .. Len(q) : a[i] = b[i]
  OBVIOUS
<1>d. \A i \in 1 .. n : i = n \/ i \in 1 .. Len(q)
  OBVIOUS
<1>1. /\ a \in [1 .. n -> S] /\ b \in [1 .. n -> S] /\ a[n] = x /\ b[n] = y
      /\ \A i \in 1 .. n : i = n \/ a[i] = b[i]
      /\ n \in 1 .. n
  BY <1>a, <1>b, <1>c, <1>d
<1>2. /\ Append(q, x) \in Seq(S) \ {<<>>}
      /\ Len(Append(q, x)) = n
      /\ SubSeq(Append(q, x), 1, Len(q)) = q
  OBVIOUS
<1>3. b = [a EXCEPT ![n] = y]
  <2> HIDE DEF a, b, n
  <2> QED
    BY <1>1
<1> QED
  BY <1>1, <1>2, <1>3

LEMMA StoreBlockBlocks ==
    ASSUME IInv, BlocksInv, StoreBlock
    PROVE  BlocksInv'
<1> DEFINE stored == [txs |-> exec.txSet \ exec.dropped, accounts |-> balances]
           header == [txs |-> exec.txSet, accounts |-> balances]
           new == Append(chain, stored)
           n == Len(chain) + 1
<1>1. stored \in Header /\ header \in Header
  BY DEF IInv, TypeOK, IsExecution, Header
<1>2. chain \in Seq(Header) /\ blocks \subseteq Seq(Header) \ {<<>>} /\ n \in Nat
  BY DEF BlocksInv
<1>3. /\ chain' = Append(chain, header) /\ blocks' = blocks \union {new}
      /\ exec.pc = "store" /\ exec'.pc = "idle"
      /\ UNCHANGED <<applied, torn>>
  BY DEF StoreBlock, StoredBlock, BlockId, StoredTransactions, Idle, history
<1>4. stored.txs = exec.txSet \ exec.dropped /\ header.txs = exec.txSet
  OBVIOUS
<1>a. [header EXCEPT !.txs = exec.txSet \ exec.dropped] = stored
  BY SMTT(60)
<1> HIDE DEF stored, header
<1>5. /\ new \in Seq(Header) \ {<<>>} /\ Len(new) = n /\ new[n] = stored
      /\ SubSeq(new, 1, Len(new) - 1) = chain
  BY <1>1, <1>2, AppendFacts
<1>6. /\ chain' \in Seq(Header) /\ Len(chain') = n /\ chain'[n] = header
      /\ new = [chain' EXCEPT ![n] = stored]
  BY <1>1, <1>2, <1>3, AppendFacts
<1> HIDE DEF new, n
<1>7. StoredPayments' = StoredPayments \union (exec.txSet \ exec.dropped)
  <2> DEFINE txs(b) == b[Len(b)].txs
  <2>1. txs(new) = exec.txSet \ exec.dropped
    BY <1>4, <1>5
  <2>2. StoredPayments = UNION {txs(b) : b \in blocks}
        /\ StoredPayments' = UNION {txs(b) : b \in blocks'}
    BY DEF StoredPayments
  <2> HIDE DEF txs
  <2>3. \A x : x \in StoredPayments' <=> x \in StoredPayments \/ x \in txs(new)
    BY ONLY <1>3, <2>2
  <2> QED
    BY ONLY <2>1, <2>3
<1>8. applied' = torn' \union StoredPayments'
                       \union (IF exec'.pc = "store" THEN exec'.txSet \ exec'.dropped ELSE {})
  BY <1>3, <1>7 DEF BlocksInv
<1>9. StoredIn(chain', blocks')
  <2>1. new = [chain' EXCEPT ![Len(chain')].txs = new[Len(chain')].txs]
    BY <1>4, <1>a, <1>5, <1>6
  <2>2. new[Len(chain')].txs \subseteq chain'[Len(chain')].txs
    BY <1>4, <1>5, <1>6
  <2> QED
    BY <1>3, <1>5, <1>6, <2>1, <2>2 DEF StoredIn
<1>10. ASSUME NEW b \in blocks', Len(b) > 1
       PROVE  StoredIn(SubSeq(b, 1, Len(b) - 1), blocks')
  <2>1. CASE b \in blocks
    BY <1>3, <1>10, <2>1, StaysStored, StoredUnfolds DEF BlocksInv
  <2>2. CASE b = new
    <3>1. chain # <<>>
      BY <1>2, <1>5, <1>10, <2>2 DEF n
    <3>2. StoredIn(chain, blocks)
      BY <3>1, StoredUnfolds DEF BlocksInv
    <3>3. blocks \subseteq blocks'
      BY <1>3
    <3>4. StoredIn(chain, blocks')
      BY <3>2, <3>3, StaysStored
    <3> QED
      BY <1>5, <2>2, <3>4
  <2> QED
    BY <1>3, <2>1, <2>2
<1>11. blocks' \subseteq Seq(Header) \ {<<>>}
  BY <1>2, <1>3, <1>5
<1> QED
  BY <1>6, <1>8, <1>9, <1>10, <1>11, StoredUnfolds DEF BlocksInv

LEMMA NextBlocks == IInv /\ BlocksInv /\ [Next]_vars => BlocksInv'
<1> SUFFICES ASSUME IInv, BlocksInv, [Next]_vars PROVE BlocksInv'
  OBVIOUS
<1>1. ASSUME UNCHANGED <<chain, blocks, applied, torn>>,
             exec.pc # "store", exec'.pc # "store"
      PROVE  BlocksInv'
  BY <1>1 DEF BlocksInv, StoredPayments, StoredChainIsLinked, IsStored
<1>2. ASSUME UNCHANGED <<chain, blocks, applied, torn, exec>>
      PROVE  BlocksInv'
  BY <1>2 DEF BlocksInv, StoredPayments, StoredChainIsLinked, IsStored
<1>3. ASSUME NEW r \in Request, BeginTransaction(r.receiver, r.amount)
      PROVE  BlocksInv'
  BY <1>2, <1>3 DEF BeginTransaction, disk, history
<1>4. CASE CreateTransaction
  BY <1>2, <1>4 DEF CreateTransaction, disk
<1>5. CASE SaveWallet
  BY <1>2, <1>5 DEF SaveWallet, memory, history
<1>6. CASE Restart
  <2>1. /\ UNCHANGED <<blocks, applied>> /\ chain' = <<>> /\ exec'.pc = "idle"
        /\ torn' = IF exec.pc = "store" THEN torn \union (exec.txSet \ exec.dropped) ELSE torn
    BY <1>6 DEF Restart, disk, Idle
  <2>2. StoredPayments' = StoredPayments /\ <<>> \in Seq(Header)
    BY <2>1 DEF StoredPayments
  <2>a. StoredChainIsLinked'
    BY <2>1, StoredUnfolds DEF BlocksInv
  <2>3. applied = torn' \union StoredPayments
    BY <2>1 DEF BlocksInv
  <2> QED
    BY <2>1, <2>2, <2>a, <2>3 DEF BlocksInv
<1>7. ASSUME NEW txSet \in SUBSET (Foreign \union issued), ExecuteBlock(txSet)
      PROVE  BlocksInv'
  BY <1>1, <1>7 DEF ExecuteBlock, disk, history, Idle
<1>8. CASE CountTransaction
  <2>1. exec.pc = "count" /\ exec'.pc = "count"
    BY <1>8 DEF CountTransaction, IInv, TypeOK, IsExecution
  <2> QED
    BY <1>1, <1>8, <2>1 DEF CountTransaction, disk, history
<1>9. CASE SetBalances
  <2>1. exec.pc = "count" /\ exec' = [exec EXCEPT !.pc = "store"]
        /\ UNCHANGED <<chain, blocks, torn>> /\ applied' = applied \union (exec.txSet \ exec.dropped)
    BY <1>9 DEF SetBalances
  <2>2. exec'.pc = "store" /\ exec'.txSet = exec.txSet /\ exec'.dropped = exec.dropped
    BY <2>1 DEF IInv, TypeOK, IsExecution
  <2> QED
    BY <2>1, <2>2 DEF BlocksInv, StoredPayments, StoredChainIsLinked, IsStored
<1>10. CASE StoreBlock
  BY <1>10, StoreBlockBlocks
<1>11. CASE UNCHANGED vars
  BY <1>2, <1>11 DEF vars, disk, memory, history
<1> QED
  BY <1>3, <1>4, <1>5, <1>6, <1>7, <1>8, <1>9, <1>10, <1>11 DEF Next

LEMMA InductiveBlocks == Spec => []BlocksInv
BY InitBlocks, NextBlocks, Inductive, PTL DEF Spec

\* Through stops between the two databases, dropped transactions and repeated
\* ones, for any number of blocks: what the stored blocks pay is what the
\* balances account for, except for blocks that a stop kept from the disk.
THEOREM BlocksTellHistory == Spec => []BlocksHoldHistory
<1>1. BlocksInv => BlocksHoldHistory
  BY DEF BlocksInv, BlocksHoldHistory, StoredPayments
<1> QED
  BY <1>1, InductiveBlocks, PTL

\* The predecessor of every stored block was stored, under the id the block names
\* or, when transactions of it were dropped, under another.
THEOREM StoredChainLinked == Spec => []StoredChainIsLinked
BY InductiveBlocks, PTL DEF BlocksInv

-----------------------------------------------------------------------------
(* Sums of amounts *)

Amounts == [t \in Transaction |-> t.amount]

\* What a sent, and what it received, with the transactions of S.
Sent(S, a) == AmountsOf({t \in S : t.sender = a})
Received(S, a) == AmountsOf({t \in S : t.receiver = a})

LEMMA AmountsOfIsTotal ==
    ASSUME NEW S \in SUBSET Transaction, IsFiniteSet(S)
    PROVE  AmountsOf(S) = Total(Amounts, S)
<1> DEFINE I(it) == it = [s \in SUBSET S |-> IF s = {} THEN 0
                      ELSE (CHOOSE x \in s : TRUE).amount + it[s \ {CHOOSE x \in s : TRUE}]]
<1>1. \A x \in S : Amounts[x] \in Int /\ Amounts[x] = x.amount
  BY TransactionFields DEF Amounts
<1>2. IsChoice(First(S), S) /\ \A s \in SUBSET S : s # {} => (CHOOSE x \in s : TRUE) \in S
  BY DEF IsChoice, First
<1>3. ASSUME NEW it
      PROVE  Adds(it, S, Amounts, First(S)) <=> I(it)
  <2>1. \A s \in SUBSET S : s # {} =>
           Amounts[First(S)[s]] + it[s \ {First(S)[s]}]
             = (CHOOSE x \in s : TRUE).amount + it[s \ {CHOOSE x \in s : TRUE}]
    BY <1>1, <1>2 DEF First
  <2> QED
    BY <2>1, ZenonT(60) DEF Adds
<1>4. PICK it \in [SUBSET S -> Int] : it[S] = Total(Amounts, S) /\ Adds(it, S, Amounts, First(S))
  BY <1>1, TotalIsSum
<1>5. AmountsOf(S) = (CHOOSE i : I(i))[S]
  BY DEF AmountsOf, MapThenSumSet, MapThenFoldSet
<1> DEFINE sum == CHOOSE i : I(i)
<1>6. Adds(sum, S, Amounts, First(S))
  <2>1. I(sum)
    <3>1. I(it)
      BY <1>3, <1>4
    <3> QED
      BY <3>1, ZenonT(60)
  <2> HIDE DEF sum
  <2> QED
    BY <2>1, <1>3
<1> HIDE DEF sum
<1>7. it[S] = sum[S]
  <2>1. /\ S \subseteq S /\ S \in SUBSET S /\ IsFiniteSet(S)
        /\ \A x \in S : Amounts[x] = Amounts[x]
    OBVIOUS
  <2> QED
    BY ONLY <1>2, <1>4, <1>6, <2>1, SumUnique
<1> QED
  BY <1>4, <1>5, <1>7 DEF sum

LEMMA AmountsOfFacts ==
    ASSUME NEW S \in SUBSET Transaction, IsFiniteSet(S)
    PROVE  /\ AmountsOf(S) \in Nat
           /\ S = {} => AmountsOf(S) = 0
           /\ \A t \in S : AmountsOf(S) = t.amount + AmountsOf(S \ {t})
<1>1. \A x \in S : Amounts[x] \in Nat /\ Amounts[x] \in Int /\ Amounts[x] = x.amount
  BY TransactionFields DEF Amounts
<1>2. AmountsOf(S) = Total(Amounts, S)
  BY AmountsOfIsTotal
<1>3. \A t \in S : AmountsOf(S \ {t}) = Total(Amounts, S \ {t})
  BY AmountsOfIsTotal, FS_Subset
<1> HIDE DEF Amounts
<1>4. Total(Amounts, S) \in Nat
  BY <1>1, TotalNat
<1> QED
  BY <1>1, <1>2, <1>3, <1>4, TotalStep

LEMMA AmountsOfUnion ==
    ASSUME NEW S \in SUBSET Transaction, IsFiniteSet(S),
           NEW T \in SUBSET Transaction, IsFiniteSet(T), S \cap T = {}
    PROVE  AmountsOf(S \union T) = AmountsOf(S) + AmountsOf(T)
<1>1. \A x \in S \union T : Amounts[x] \in Int
  BY TransactionFields DEF Amounts
<1>2. IsFiniteSet(S \union T) /\ S \union T \in SUBSET Transaction
  BY FS_Union
<1> QED
  BY <1>1, <1>2, AmountsOfIsTotal, TotalUnion

\* One more transaction.
LEMMA SentAdd ==
    ASSUME NEW S \in SUBSET Transaction, IsFiniteSet(S), NEW t \in Transaction, t \notin S,
           NEW a
    PROVE  /\ Sent(S, a) \in Nat /\ Received(S, a) \in Nat
           /\ Sent(S \union {t}, a) = Sent(S, a) + (IF t.sender = a THEN t.amount ELSE 0)
           /\ Received(S \union {t}, a)
                = Received(S, a) + (IF t.receiver = a THEN t.amount ELSE 0)
<1> DEFINE out == {u \in S : u.sender = a}
           in == {u \in S : u.receiver = a}
           out1 == {u \in S \union {t} : u.sender = a}
           in1 == {u \in S \union {t} : u.receiver = a}
<1>1. IsFiniteSet(S \union {t})
  BY FS_AddElement
<1>2. /\ IsFiniteSet(out) /\ IsFiniteSet(in) /\ IsFiniteSet(out1) /\ IsFiniteSet(in1)
  BY <1>1, FS_Subset
<1>3. /\ t.sender = a => t \in out1 /\ out1 \ {t} = out
      /\ t.sender # a => out1 = out
      /\ t.receiver = a => t \in in1 /\ in1 \ {t} = in
      /\ t.receiver # a => in1 = in
  OBVIOUS
<1>4. out \in SUBSET Transaction /\ in \in SUBSET Transaction
      /\ out1 \in SUBSET Transaction /\ in1 \in SUBSET Transaction
  OBVIOUS
<1>5. /\ Sent(S, a) = AmountsOf(out) /\ Received(S, a) = AmountsOf(in)
      /\ Sent(S \union {t}, a) = AmountsOf(out1) /\ Received(S \union {t}, a) = AmountsOf(in1)
  BY DEF Sent, Received
<1> HIDE DEF out, in, out1, in1
<1>6. /\ AmountsOf(out) \in Nat /\ AmountsOf(in) \in Nat
      /\ t \in out1 => AmountsOf(out1) = t.amount + AmountsOf(out1 \ {t})
      /\ t \in in1 => AmountsOf(in1) = t.amount + AmountsOf(in1 \ {t})
  BY <1>2, <1>4, AmountsOfFacts
<1>7. t.amount \in Nat
  BY TransactionFields
<1>8. AmountsOf(out1) = AmountsOf(out) + (IF t.sender = a THEN t.amount ELSE 0)
  <2>1. CASE t.sender = a
    <3>1. AmountsOf(out1 \ {t}) = AmountsOf(out)
      BY <1>3, <2>1, Zenon
    <3> QED
      BY <1>3, <1>6, <1>7, <2>1, <3>1
  <2>2. CASE t.sender # a
    BY <1>3, <1>6, <2>2
  <2> QED
    BY <2>1, <2>2
<1>9. AmountsOf(in1) = AmountsOf(in) + (IF t.receiver = a THEN t.amount ELSE 0)
  <2>1. CASE t.receiver = a
    <3>1. AmountsOf(in1 \ {t}) = AmountsOf(in)
      BY <1>3, <2>1, Zenon
    <3> QED
      BY <1>3, <1>6, <1>7, <2>1, <3>1
  <2>2. CASE t.receiver # a
    BY <1>3, <1>6, <2>2
  <2> QED
    BY <2>1, <2>2
<1> QED
  BY ONLY <1>5, <1>6, <1>8, <1>9

LEMMA SentUnion ==
    ASSUME NEW S \in SUBSET Transaction, IsFiniteSet(S),
           NEW T \in SUBSET Transaction, IsFiniteSet(T), S \cap T = {}, NEW a
    PROVE  /\ Sent(S, a) \in Nat /\ Received(S, a) \in Nat
           /\ Sent(S \union T, a) = Sent(S, a) + Sent(T, a)
           /\ Received(S \union T, a) = Received(S, a) + Received(T, a)
<1>1. /\ {t \in S \union T : t.sender = a}
           = {t \in S : t.sender = a} \union {t \in T : t.sender = a}
      /\ {t \in S \union T : t.receiver = a}
           = {t \in S : t.receiver = a} \union {t \in T : t.receiver = a}
  OBVIOUS
<1> DEFINE outS == {t \in S : t.sender = a}
           outT == {t \in T : t.sender = a}
           inS == {t \in S : t.receiver = a}
           inT == {t \in T : t.receiver = a}
<1>2. /\ IsFiniteSet(outS) /\ IsFiniteSet(outT) /\ IsFiniteSet(inS) /\ IsFiniteSet(inT)
      /\ outS \in SUBSET Transaction /\ outT \in SUBSET Transaction
      /\ inS \in SUBSET Transaction /\ inT \in SUBSET Transaction
      /\ outS \cap outT = {} /\ inS \cap inT = {}
  BY FS_Subset
<1>3. /\ Sent(S, a) = AmountsOf(outS) /\ Received(S, a) = AmountsOf(inS)
      /\ Sent(T, a) = AmountsOf(outT) /\ Received(T, a) = AmountsOf(inT)
      /\ Sent(S \union T, a) = AmountsOf(outS \union outT)
      /\ Received(S \union T, a) = AmountsOf(inS \union inT)
  BY <1>1 DEF Sent, Received
<1> HIDE DEF outS, outT, inS, inT
<1>4. AmountsOf(outS) \in Nat /\ AmountsOf(inS) \in Nat
  BY <1>2, AmountsOfFacts
<1>5. /\ AmountsOf(outS \union outT) = AmountsOf(outS) + AmountsOf(outT)
      /\ AmountsOf(inS \union inT) = AmountsOf(inS) + AmountsOf(inT)
  BY <1>2, AmountsOfUnion
<1> QED
  BY ONLY <1>3, <1>4, <1>5

LEMMA SentType ==
    ASSUME NEW S \in SUBSET Transaction, IsFiniteSet(S), NEW a
    PROVE  Sent(S, a) \in Nat /\ Received(S, a) \in Nat
<1>1. /\ IsFiniteSet({t \in S : t.sender = a}) /\ {t \in S : t.sender = a} \in SUBSET Transaction
      /\ IsFiniteSet({t \in S : t.receiver = a})
      /\ {t \in S : t.receiver = a} \in SUBSET Transaction
  BY FS_Subset
<1> QED
  BY <1>1, AmountsOfFacts DEF Sent, Received

LEMMA SentNothing ==
    ASSUME NEW a, NEW S, \A t \in S : t.sender # a
    PROVE  Sent(S, a) = 0
<1>1. {t \in S : t.sender = a} = {}
  OBVIOUS
<1> QED
  BY <1>1, AmountsOfFacts, FS_EmptySet DEF Sent

LEMMA NothingSent ==
    ASSUME NEW a
    PROVE  Sent({}, a) = 0 /\ Received({}, a) = 0
<1>1. {t \in {} : t.sender = a} = {} /\ {t \in {} : t.receiver = a} = {}
  OBVIOUS
<1> QED
  BY <1>1, AmountsOfFacts, FS_EmptySet DEF Sent, Received

\* What the accounts received less what they sent.
Net(S) == [a \in Account |-> Received(S, a) - Sent(S, a)]

\* What one account sends another one receives.
LEMMA Conservation ==
    ASSUME NEW S \in SUBSET Transaction, IsFiniteSet(S)
    PROVE  Total(Net(S), Account) = 0
<1> USE SupplyAssumption
<1> DEFINE Good == {U \in SUBSET S : Total(Net(U), Account) = 0}
<1>1. ASSUME NEW U \in SUBSET S, \A W \in SUBSET U : W # U => W \in Good
      PROVE  U \in Good
  <2>1. CASE U = {}
    <3>1. \A a \in Account : Net({})[a] = 0
      BY NothingSent DEF Net
    <3>2. Total(Net({}), Account) = 0
      BY <3>1, TotalZero
    <3> QED
      BY <2>1, <3>2
  <2>2. CASE U # {}
    <3>1. PICK t \in U : TRUE
      BY <2>2
    <3> DEFINE W == U \ {t}
    <3>2. /\ W \in SUBSET Transaction /\ IsFiniteSet(W) /\ t \in Transaction /\ t \notin W
          /\ W \union {t} = U
      BY FS_Subset
    <3>3. Total(Net(W), Account) = 0
      <4>1. W \in Good
        BY <1>1
      <4> QED
        BY <4>1
    <3> HIDE DEF W
    <3> DEFINE f == Net(W)
               g == Net(U)
               m == [a \in Account |-> f[a] - (IF t.sender = a THEN t.amount ELSE 0)]
    <3>4. t.sender \in Account /\ t.receiver \in Account /\ t.amount \in Int
      BY <3>2, TransactionFields
    <3>5. \A a \in Account :
             /\ f[a] \in Int
             /\ g[a] = f[a] + (IF t.receiver = a THEN t.amount ELSE 0)
                            - (IF t.sender = a THEN t.amount ELSE 0)
      <4> SUFFICES ASSUME NEW a \in Account
                   PROVE  /\ f[a] \in Int
                          /\ g[a] = f[a] + (IF t.receiver = a THEN t.amount ELSE 0)
                                         - (IF t.sender = a THEN t.amount ELSE 0)
        OBVIOUS
      <4>1. /\ Sent(W, a) \in Nat /\ Received(W, a) \in Nat
            /\ Sent(W \union {t}, a) = Sent(W, a) + (IF t.sender = a THEN t.amount ELSE 0)
            /\ Received(W \union {t}, a)
                 = Received(W, a) + (IF t.receiver = a THEN t.amount ELSE 0)
        BY ONLY <3>2, SentAdd, SMTT(30)
      <4>2. /\ Sent(U, a) = Sent(W, a) + (IF t.sender = a THEN t.amount ELSE 0)
            /\ Received(U, a) = Received(W, a) + (IF t.receiver = a THEN t.amount ELSE 0)
        BY ONLY <3>2, <4>1
      <4>3. f[a] = Received(W, a) - Sent(W, a) /\ g[a] = Received(U, a) - Sent(U, a)
        BY DEF Net
      <4> HIDE DEF f, g
      <4> QED
        BY <3>4, <4>1, <4>2, <4>3
    <3> HIDE DEF f, g
    <3>6. \A a \in Account : m[a] = f[a] - (IF t.sender = a THEN t.amount ELSE 0)
      OBVIOUS
    <3> HIDE DEF m
    <3>7. Total(m, Account) = Total(f, Account) - f[t.sender] + m[t.sender]
      <4>1. /\ f[t.sender] \in Int /\ m[t.sender] \in Int
            /\ \A a \in Account \ {t.sender} : f[a] \in Int /\ m[a] = f[a]
        BY <3>4, <3>5, <3>6
      <4> QED
        BY <3>4, <4>1, TotalChange
    <3>8. Total(g, Account) = Total(m, Account) - m[t.receiver] + g[t.receiver]
      <4>1. /\ m[t.receiver] \in Int /\ g[t.receiver] \in Int
            /\ \A a \in Account \ {t.receiver} : m[a] \in Int /\ g[a] = m[a]
        BY <3>4, <3>5, <3>6
      <4> QED
        BY <3>4, <4>1, TotalChange
    <3>9. /\ m[t.sender] = f[t.sender] - t.amount /\ f[t.sender] \in Int
          /\ g[t.receiver] = m[t.receiver] + t.amount /\ m[t.receiver] \in Int
      BY <3>4, <3>5, <3>6
    <3>10. Total(g, Account) = 0
      BY <3>3, <3>4, <3>7, <3>8, <3>9 DEF f
    <3> QED
      BY <3>10 DEF g
  <2> QED
    BY <2>1, <2>2
<1> HIDE DEF Good
<1>2. \A U \in SUBSET S : U \in Good
  BY <1>1, SubsetInduction
<1> QED
  BY <1>2 DEF Good

-----------------------------------------------------------------------------
(* Balances *)

\* The differences of the transactions of a block accepted so far; the loop meets
\* the transactions of one sender after the other, and keeps what this one has
\* left.
SpendInv ==
    /\ \A a \in Account :
          /\ exec.accDiffs[a].balanceDiff
               = (Received(Accepted, a) - Sent(Accepted, a)) % Cash
          /\ Sent(Accepted, a) <= balances[a].balance
    /\ \A p \in exec.txSet \ exec.todo : p.sender <= exec.currAcc
    /\ exec.currAcc # 0 =>
          /\ exec.upBalance = balances[exec.currAcc].balance - Sent(Accepted, exec.currAcc)
          /\ \E p \in exec.txSet \ exec.todo : p.sender = exec.currAcc

BalanceInv ==
    /\ IsFiniteSet(applied)
    /\ \A t \in applied : t.sequence <= balances[t.sender].txSequence
    /\ BalancesAreHistory
    /\ exec.pc = "count" => SpendInv

LEMMA InitBalance == Init => BalanceInv
<1> SUFFICES ASSUME Init PROVE BalanceInv
  OBVIOUS
<1>1. applied = {} /\ exec.pc = "idle"
      /\ \A a \in Account : balances[a].balance = InitialBalance[a]
  BY DEF Init, Idle, GeneratedAccounts, GeneratedWallet
<1>2. \A a \in Account : InitialBalance[a] \in Int
  OBVIOUS
<1>3. BalancesAreHistory
  <2> SUFFICES ASSUME NEW a \in Account
               PROVE  balances[a].balance = InitialBalance[a] - Sent(applied, a)
                                                              + Received(applied, a)
    BY DEF BalancesAreHistory, Sent, Received
  <2>1. Sent(applied, a) = 0 /\ Received(applied, a) = 0
    BY <1>1, NothingSent
  <2> QED
    BY <1>1, <1>2, <2>1
<1> QED
  BY <1>1, <1>3, FS_EmptySet DEF BalanceInv

LEMMA BalanceStays ==
    ASSUME BalanceInv, UNCHANGED <<balances, applied>>,
           exec' = exec \/ exec'.pc # "count"
    PROVE  BalanceInv'
BY DEF BalanceInv, BalancesAreHistory, SpendInv, Accepted

LEMMA ExecuteBlockBalance ==
    ASSUME IInv, BalanceInv, NEW txSet, ExecuteBlock(txSet)
    PROVE  BalanceInv'
<1>1. /\ exec'.txSet = txSet /\ exec'.todo = txSet /\ exec'.dropped = {} /\ exec'.currAcc = 0
      /\ exec'.accDiffs = NoDifference
      /\ UNCHANGED <<balances, applied>>
  BY DEF ExecuteBlock, Idle, disk, history
<1>2. Accepted' = {}
  BY <1>1 DEF Accepted
<1>3. ASSUME NEW a \in Account
      PROVE  /\ exec'.accDiffs[a].balanceDiff
                  = (Received(Accepted', a) - Sent(Accepted', a)) % Cash
             /\ Sent(Accepted', a) <= balances'[a].balance
  <2>1. balances[a].balance \in Nat
    BY DEF IInv, TypeOK
  <2>2. Received({}, a) = 0 /\ Sent({}, a) = 0
    BY NothingSent
  <2>3. 0 % Cash = 0 /\ 0 - 0 = 0
    OBVIOUS
  <2> QED
    BY <1>1, <1>2, <2>1, <2>2, <2>3 DEF NoDifference
<1>4. \A a : Sent(Accepted, a)' = Sent(Accepted', a) /\ Received(Accepted, a)' = Received(Accepted', a)
  OBVIOUS
<1>5. SpendInv'
  BY <1>1, <1>3, <1>4 DEF SpendInv
<1> QED
  BY <1>1, <1>5 DEF BalanceInv, BalancesAreHistory

\* What tx.sender has left, whether tx is its first transaction in the block or not.
LEMMA LeftToSpend ==
    ASSUME IInv, SpendInv, exec.pc = "count", NEW tx \in exec.todo
    PROVE  /\ upBalance(tx) = balances[tx.sender].balance - Sent(Accepted, tx.sender)
           /\ \A p \in exec.txSet \ exec.todo : p.sender <= tx.sender
<1>1. /\ \A p \in exec.txSet \ exec.todo : Before(p, tx)
      /\ \A p \in exec.txSet : p \in Transaction /\ p.sender \in Nat \ {0}
      /\ tx \in exec.txSet
  BY TransactionFields DEF IInv, CountInv, TypeOK, IsExecution
<1>2. \A p \in exec.txSet \ exec.todo : p.sender <= tx.sender
  BY <1>1 DEF Before
<1>3. CASE exec.currAcc = tx.sender
  <2>1. exec.currAcc # 0
    BY <1>1, <1>3
  <2> QED
    BY <1>2, <1>3, <2>1 DEF upBalance, SpendInv
<1>4. CASE exec.currAcc # tx.sender
  <2>1. exec.currAcc \in Nat
    <3>1. exec.currAcc \in Account \/ exec.currAcc = 0
      BY DEF IInv, TypeOK, IsExecution
    <3>2. CASE exec.currAcc \in Account
      BY <3>2
    <3>3. CASE exec.currAcc = 0
      BY <3>3
    <3> QED
      BY <3>1, <3>2, <3>3
  <2>2. ASSUME NEW p \in Accepted
        PROVE  p.sender # tx.sender
    <3>1. p \in exec.txSet \ exec.todo /\ p.sender \in Nat \ {0}
      BY <1>1 DEF Accepted
    <3>2. p.sender <= exec.currAcc /\ exec.currAcc # 0
      BY <2>1, <3>1 DEF SpendInv
    <3>3. exec.currAcc <= tx.sender
      BY <1>2, <3>2 DEF SpendInv
    <3> QED
      BY <1>1, <1>4, <2>1, <3>1, <3>2, <3>3
  <2>3. Sent(Accepted, tx.sender) = 0
    BY <2>2, SentNothing
  <2>4. balances[tx.sender].balance \in Int
    BY <1>1, TransactionFields DEF IInv, TypeOK
  <2> QED
    BY <1>2, <1>4, <2>3, <2>4 DEF upBalance
<1> QED
  BY <1>3, <1>4

\* What a turn of the loop does to the execution, and to what is accepted.
LEMMA CountTransactionStep ==
    ASSUME IInv, CountTransaction
    PROVE  \E tx \in exec.todo :
              /\ tx \in Transaction /\ tx \in exec.txSet /\ checkTransaction(tx) /\ tx \notin Accepted
              /\ exec.pc = "count" /\ exec'.pc = "count" /\ exec'.txSet = exec.txSet
              /\ exec'.todo = exec.todo \ {tx} /\ exec'.currAcc = tx.sender
              /\ UNCHANGED <<balances, issued, applied, disturbed, ui>>
              /\ \/ /\ Valid(tx)
                    /\ exec'.upBalance = upBalance(tx) - tx.amount
                    /\ exec'.accDiffs = AddDifference(exec.accDiffs, tx)
                    /\ Accepted' = Accepted \union {tx}
                    /\ wallet' = UpdateWallet(tx)
                 \/ /\ exec'.upBalance = upBalance(tx)
                    /\ exec'.accDiffs = exec.accDiffs
                    /\ Accepted' = Accepted
                    /\ UNCHANGED wallet
<1>1. PICK tx \in exec.todo :
        \/ /\ Valid(tx)
           /\ exec' = [exec EXCEPT !.todo = @ \ {tx},
                                   !.currAcc = tx.sender,
                                   !.upBalance = upBalance(tx) - tx.amount,
                                   !.accDiffs = AddDifference(@, tx)]
           /\ wallet' = UpdateWallet(tx)
        \/ /\ ~ Valid(tx)
           /\ exec' = [exec EXCEPT !.todo = @ \ {tx},
                                   !.currAcc = tx.sender,
                                   !.upBalance = upBalance(tx),
                                   !.dropped = @ \union {tx}]
           /\ UNCHANGED wallet
  BY DEF CountTransaction
<1>2. /\ exec.pc = "count"
      /\ UNCHANGED <<balances, issued, applied, disturbed, ui>>
  BY DEF CountTransaction, disk, history
<1>3. tx \in Transaction /\ tx \in exec.txSet /\ tx \notin exec.dropped /\ tx \notin Accepted
  BY DEF IInv, TypeOK, IsExecution, Accepted
<1>4. checkTransaction(tx)
  BY <1>2, <1>3 DEF IInv, CountInv, IsTransactionSet
<1>5. ASSUME exec' = [exec EXCEPT !.todo = @ \ {tx},
                                  !.currAcc = tx.sender,
                                  !.upBalance = upBalance(tx) - tx.amount,
                                  !.accDiffs = AddDifference(@, tx)]
      PROVE  /\ exec'.pc = exec.pc /\ exec'.txSet = exec.txSet
             /\ exec'.todo = exec.todo \ {tx} /\ exec'.currAcc = tx.sender
             /\ exec'.upBalance = upBalance(tx) - tx.amount
             /\ exec'.accDiffs = AddDifference(exec.accDiffs, tx)
             /\ Accepted' = Accepted \union {tx}
  <2> DEFINE diffs == AddDifference(exec.accDiffs, tx)
             left == upBalance(tx) - tx.amount
  <2> HIDE DEF diffs, left
  <2>1. exec' = [pc |-> exec.pc, txSet |-> exec.txSet, todo |-> exec.todo \ {tx},
                 dropped |-> exec.dropped, currAcc |-> tx.sender,
                 upBalance |-> left, accDiffs |-> diffs]
    BY <1>5 DEF IInv, TypeOK, IsExecution, diffs, left
  <2>2. Accepted' = Accepted \union {tx}
    BY <1>3, <2>1 DEF Accepted, IInv, TypeOK, IsExecution
  <2> QED
    BY <2>1, <2>2 DEF diffs, left
<1>6. ASSUME exec' = [exec EXCEPT !.todo = @ \ {tx},
                                  !.currAcc = tx.sender,
                                  !.upBalance = upBalance(tx),
                                  !.dropped = @ \union {tx}]
      PROVE  /\ exec'.pc = exec.pc /\ exec'.txSet = exec.txSet
             /\ exec'.todo = exec.todo \ {tx} /\ exec'.currAcc = tx.sender
             /\ exec'.upBalance = upBalance(tx)
             /\ exec'.accDiffs = exec.accDiffs
             /\ Accepted' = Accepted
  <2>1. exec' = [pc |-> exec.pc, txSet |-> exec.txSet, todo |-> exec.todo \ {tx},
                 dropped |-> exec.dropped \union {tx}, currAcc |-> tx.sender,
                 upBalance |-> upBalance(tx), accDiffs |-> exec.accDiffs]
    BY <1>6 DEF IInv, TypeOK, IsExecution
  <2>2. Accepted' = Accepted
    BY <1>3, <2>1 DEF Accepted, IInv, TypeOK, IsExecution
  <2> QED
    BY <2>1, <2>2
<1> QED
  BY <1>1, <1>2, <1>3, <1>4, <1>5, <1>6

LEMMA AcceptedType ==
    ASSUME IInv, exec.pc # "idle"
    PROVE  IsFiniteSet(Accepted) /\ Accepted \in SUBSET Transaction /\ Accepted \subseteq exec.txSet
<1>1. exec.txSet \subseteq Transaction /\ IsFiniteSet(exec.txSet)
  BY DEF IInv, TypeOK, IsExecution, CountInv, IsTransactionSet
<1>2. Accepted \subseteq exec.txSet
  BY DEF Accepted
<1> QED
  BY <1>1, <1>2, FS_Subset

\* The difference that a transaction makes, as a plain number.
LEMMA DifferenceValue ==
    ASSUME IInv, NEW tx \in Transaction, checkTransaction(tx), NEW a \in Account
    PROVE  AddDifference(exec.accDiffs, tx)[a].balanceDiff =
              IF a = tx.sender THEN Minus(exec.accDiffs[a].balanceDiff, tx.amount)
              ELSE IF a = tx.receiver THEN Plus(exec.accDiffs[a].balanceDiff, tx.amount)
              ELSE exec.accDiffs[a].balanceDiff
<1>1. tx.sender \in Account /\ tx.receiver \in Account /\ tx.sender # tx.receiver
  BY TransactionFields DEF checkTransaction
<1> DEFINE D == [balanceDiff : 0 .. Cash - 1, txSequence : 0 .. MaxSequence]
           d == exec.accDiffs
           new == [balanceDiff |-> Minus(d[tx.sender].balanceDiff, tx.amount),
                   txSequence |-> tx.sequence]
           e == [d EXCEPT ![tx.sender] = new]
<1>2. d \in [Account -> D]
  BY DEF IInv, TypeOK, IsExecution
<1>3. AddDifference(d, tx) =
        [e EXCEPT ![tx.receiver] = [e[tx.receiver] EXCEPT !.balanceDiff = Plus(@, tx.amount)]]
  BY DEF AddDifference
<1>4. e[tx.receiver] = d[tx.receiver] /\ DOMAIN e = Account /\ e[tx.sender] = new
      /\ \A b \in Account : b # tx.sender => e[b] = d[b]
  BY <1>1, <1>2
<1>5. [d[tx.receiver] EXCEPT !.balanceDiff = Plus(@, tx.amount)].balanceDiff
         = Plus(d[tx.receiver].balanceDiff, tx.amount)
  BY <1>1, <1>2
<1>6. new.balanceDiff = Minus(d[tx.sender].balanceDiff, tx.amount)
  OBVIOUS
<1> HIDE DEF e, new
<1>7. AddDifference(d, tx)[a] =
        IF a = tx.receiver THEN [d[tx.receiver] EXCEPT !.balanceDiff = Plus(@, tx.amount)]
        ELSE e[a]
  BY <1>1, <1>3, <1>4
<1> HIDE DEF d
<1>8. CASE a = tx.receiver
  BY <1>1, <1>5, <1>7, <1>8 DEF d
<1>9. CASE a # tx.receiver
  BY <1>1, <1>4, <1>6, <1>7, <1>9 DEF d
<1> QED
  BY <1>8, <1>9

\* Amounts may be added and taken off one after the other.
LEMMA UnsignedArithmetic ==
    ASSUME NEW x \in Int, NEW y \in Int
    PROVE  /\ Minus(x % Cash, y) = (x - y) % Cash
           /\ Plus(x % Cash, y) = (x + y) % Cash
           /\ Plus(y, x % Cash) = (x + y) % Cash
           /\ x \in 0 .. Cash - 1 => x % Cash = x
<1>1. PICK q \in Int, r \in 0 .. Cash - 1 : x = q * Cash + r /\ x % Cash = r
  BY ModQuotient
<1>2. ASSUME NEW z \in Int, NEW w \in Int, w = q * Cash + z
      PROVE  w % Cash = z % Cash
  <2>1. PICK p \in Int, s \in 0 .. Cash - 1 : z = p * Cash + s /\ z % Cash = s
    BY ModQuotient
  <2> DEFINE k == p + q
  <2>2. w = k * Cash + s /\ k \in Int
    BY <1>2, <2>1
  <2> HIDE DEF k
  <2>3. w % Cash = s
    BY <2>2, ModUnique
  <2> QED
    BY <2>1, <2>3
<1>3. (x - y) % Cash = (r - y) % Cash
  <2>1. x - y = q * Cash + (r - y) /\ x - y \in Int /\ r - y \in Int
    BY <1>1
  <2> QED
    BY <1>2, <2>1
<1>4. (x + y) % Cash = (r + y) % Cash
  <2>1. x + y = q * Cash + (r + y) /\ x + y \in Int /\ r + y \in Int
    BY <1>1
  <2> QED
    BY <1>2, <2>1
<1>5. y + r = r + y
  OBVIOUS
<1>6. x \in 0 .. Cash - 1 => x % Cash = x
  BY ModSmall
<1> QED
  BY <1>1, <1>3, <1>4, <1>5, <1>6 DEF Plus, Minus

LEMMA CountTransactionBalance ==
    ASSUME IInv, BalanceInv, CountTransaction
    PROVE  BalanceInv'
<1>1. PICK tx \in exec.todo :
        /\ tx \in Transaction /\ tx \in exec.txSet /\ checkTransaction(tx) /\ tx \notin Accepted
        /\ exec.pc = "count" /\ exec'.pc = "count" /\ exec'.txSet = exec.txSet
        /\ exec'.todo = exec.todo \ {tx} /\ exec'.currAcc = tx.sender
        /\ UNCHANGED <<balances, issued, applied, disturbed, ui>>
        /\ \/ /\ Valid(tx)
              /\ exec'.upBalance = upBalance(tx) - tx.amount
              /\ exec'.accDiffs = AddDifference(exec.accDiffs, tx)
              /\ Accepted' = Accepted \union {tx}
              /\ wallet' = UpdateWallet(tx)
           \/ /\ exec'.upBalance = upBalance(tx)
              /\ exec'.accDiffs = exec.accDiffs
              /\ Accepted' = Accepted
              /\ UNCHANGED wallet
  BY CountTransactionStep
<1>2. SpendInv
  BY <1>1 DEF BalanceInv
<1>3. /\ upBalance(tx) = balances[tx.sender].balance - Sent(Accepted, tx.sender)
      /\ \A p \in exec.txSet \ exec.todo : p.sender <= tx.sender
  BY <1>1, <1>2, LeftToSpend
<1>4. IsFiniteSet(Accepted) /\ Accepted \in SUBSET Transaction
  BY <1>1, AcceptedType
<1>5. tx.sender \in Account /\ tx.sender \in Nat /\ tx.amount \in Nat /\ tx.sender # tx.receiver
  BY <1>1, TransactionFields DEF checkTransaction
<1>6. /\ \A p \in exec'.txSet \ exec'.todo : p.sender <= exec'.currAcc
      /\ \E p \in exec'.txSet \ exec'.todo : p.sender = exec'.currAcc
  <2>1. exec'.txSet \ exec'.todo = (exec.txSet \ exec.todo) \union {tx}
    BY <1>1
  <2> QED
    BY <1>1, <1>3, <1>5, <2>1
<1>7. ASSUME NEW a \in Account PROVE balances[a].balance \in Nat
  <2>1. balances \in [Account -> [balance : 0 .. Cash - 1, txSequence : 0 .. MaxSequence]]
    BY DEF IInv, TypeOK
  <2>2. balances[a].balance \in 0 .. Cash - 1
    BY ONLY <2>1, a \in Account
  <2> QED
    BY ONLY <2>2
<1>a. tx \in Transaction /\ tx \notin Accepted
  BY <1>1
<1>8. ASSUME /\ \A a \in Account :
                   /\ exec'.accDiffs[a].balanceDiff
                        = (Received(Accepted', a) - Sent(Accepted', a)) % Cash
                   /\ Sent(Accepted', a) <= balances[a].balance
             /\ exec'.upBalance = balances[tx.sender].balance - Sent(Accepted', tx.sender)
      PROVE  BalanceInv'
  <2>1. \A a : Sent(Accepted, a)' = Sent(Accepted', a)
               /\ Received(Accepted, a)' = Received(Accepted', a)
    OBVIOUS
  <2>2. SpendInv'
    BY <1>1, <1>6, <1>8, <2>1 DEF SpendInv
  <2> QED
    BY <1>1, <2>2 DEF BalanceInv, BalancesAreHistory
<1>9. CASE /\ exec'.upBalance = upBalance(tx)
           /\ exec'.accDiffs = exec.accDiffs
           /\ Accepted' = Accepted
  <2>1. \A a \in Account : /\ exec.accDiffs[a].balanceDiff
                                = (Received(Accepted, a) - Sent(Accepted, a)) % Cash
                           /\ Sent(Accepted, a) <= balances[a].balance
    BY <1>2 DEF SpendInv
  <2> QED
    BY <1>3, <1>8, <1>9, <2>1
<1>10. CASE /\ Valid(tx)
            /\ exec'.upBalance = upBalance(tx) - tx.amount
            /\ exec'.accDiffs = AddDifference(exec.accDiffs, tx)
            /\ Accepted' = Accepted \union {tx}
  <2>1. ASSUME NEW a \in Account
        PROVE  /\ Sent(Accepted, a) \in Nat /\ Received(Accepted, a) \in Nat
               /\ Sent(Accepted', a) = Sent(Accepted, a) + (IF tx.sender = a THEN tx.amount ELSE 0)
               /\ Received(Accepted', a)
                    = Received(Accepted, a) + (IF tx.receiver = a THEN tx.amount ELSE 0)
    <3> DEFINE A == Accepted
    <3>1. IsFiniteSet(A) /\ A \in SUBSET Transaction /\ tx \in Transaction /\ tx \notin A
      BY <1>a, <1>4
    <3> HIDE DEF A
    <3>2. /\ Sent(A, a) \in Nat /\ Received(A, a) \in Nat
          /\ Sent(A \union {tx}, a) = Sent(A, a) + (IF tx.sender = a THEN tx.amount ELSE 0)
          /\ Received(A \union {tx}, a)
               = Received(A, a) + (IF tx.receiver = a THEN tx.amount ELSE 0)
      BY ONLY <3>1, SentAdd, SMTT(30)
    <3>3. Accepted' = A \union {tx}
      BY <1>10 DEF A
    <3> QED
      BY ONLY <3>2, <3>3 DEF A
  <2>2. exec'.upBalance = balances[tx.sender].balance - Sent(Accepted', tx.sender)
    <3>1. Sent(Accepted', tx.sender) = Sent(Accepted, tx.sender) + tx.amount
          /\ Sent(Accepted, tx.sender) \in Nat
      BY <1>5, <2>1
    <3>2. balances[tx.sender].balance \in Nat
      BY <1>5, <1>7
    <3> QED
      BY <1>3, <1>5, <1>10, <3>1, <3>2
  <2>3. upBalance(tx) >= tx.amount
    BY <1>10 DEF Valid
  <2>4. ASSUME NEW a \in Account
        PROVE  /\ exec'.accDiffs[a].balanceDiff
                    = (Received(Accepted', a) - Sent(Accepted', a)) % Cash
               /\ Sent(Accepted', a) <= balances[a].balance
    <3> DEFINE r == Received(Accepted, a)
               s == Sent(Accepted, a)
               d == exec.accDiffs[a].balanceDiff
    <3>1. d = (r - s) % Cash /\ s <= balances[a].balance /\ r \in Nat /\ s \in Nat
      BY <1>2, <2>1 DEF SpendInv
    <3>2. exec'.accDiffs[a].balanceDiff =
              IF a = tx.sender THEN Minus(d, tx.amount)
              ELSE IF a = tx.receiver THEN Plus(d, tx.amount)
              ELSE d
      BY <1>1, <1>10, DifferenceValue
    <3>3. /\ Sent(Accepted', a) = s + (IF tx.sender = a THEN tx.amount ELSE 0)
          /\ Received(Accepted', a) = r + (IF tx.receiver = a THEN tx.amount ELSE 0)
      BY <2>1
    <3>4. balances[a].balance \in Nat
      BY <1>7
    <3> HIDE DEF r, s, d
    <3>5. CASE a = tx.sender
      <4> DEFINE k == r - s
      <4>1. k \in Int /\ d = k % Cash /\ tx.amount \in Int
        BY <1>5, <3>1
      <4> HIDE DEF k
      <4>a. Minus(k % Cash, tx.amount) = (k - tx.amount) % Cash
        BY <4>1, UnsignedArithmetic
      <4>2. Minus(d, tx.amount) = ((r - s) - tx.amount) % Cash
        BY <4>1, <4>a DEF k
      <4>3. Received(Accepted', a) - Sent(Accepted', a) = (r - s) - tx.amount
        BY <1>5, <3>1, <3>3, <3>5
      <4>4. s + tx.amount <= balances[a].balance
        BY <1>3, <1>5, <2>3, <3>1, <3>4, <3>5 DEF s
      <4>5. Sent(Accepted', a) = s + tx.amount
        BY <3>3, <3>5
      <4> QED
        BY <3>2, <3>5, <4>1, <4>2, <4>3, <4>4, <4>5
    <3>6. CASE a # tx.sender /\ a = tx.receiver
      <4> DEFINE k == r - s
      <4>1. k \in Int /\ d = k % Cash /\ tx.amount \in Int
        BY <1>5, <3>1
      <4> HIDE DEF k
      <4>a. Plus(k % Cash, tx.amount) = (k + tx.amount) % Cash
        BY <4>1, UnsignedArithmetic
      <4>2. Plus(d, tx.amount) = ((r - s) + tx.amount) % Cash
        BY <4>1, <4>a DEF k
      <4>3. Received(Accepted', a) - Sent(Accepted', a) = (r - s) + tx.amount
        BY <1>5, <3>1, <3>3, <3>6
      <4>4. Sent(Accepted', a) = s
        BY <3>1, <3>3, <3>6
      <4> QED
        BY <3>1, <3>2, <3>6, <4>1, <4>2, <4>3, <4>4
    <3>7. CASE a # tx.sender /\ a # tx.receiver
      <4>1. Received(Accepted', a) = r /\ Sent(Accepted', a) = s
        BY <3>1, <3>3, <3>7
      <4> QED
        BY <3>1, <3>2, <3>7, <4>1
    <3> QED
      BY <3>5, <3>6, <3>7
  <2> QED
    BY <1>8, <2>2, <2>4
<1> QED
  BY <1>1, <1>9, <1>10

\* The new last number of an account is no smaller, and covers what is paid.
LEMMA SequenceGrows ==
    ASSUME IInv, SetBalances
    PROVE  /\ Accepted = exec.txSet \ exec.dropped /\ exec.pc = "count"
           /\ \A a \in Account : balances[a].txSequence <= balances'[a].txSequence
           /\ \A p \in Accepted : /\ balances[p.sender].txSequence < p.sequence
                                  /\ p.sequence <= balances'[p.sender].txSequence
           /\ \A a \in Account : balances[a].txSequence \in Int /\ balances'[a].txSequence \in Int
<1>1. exec.pc = "count" /\ Accepted = exec.txSet \ exec.dropped
  BY DEF SetBalances, Accepted
<1>2. /\ \A p \in Accepted : /\ balances[p.sender].txSequence < p.sequence
                             /\ p.sequence <= exec.accDiffs[p.sender].txSequence
      /\ \A a \in Account : exec.accDiffs[a].txSequence # 0 =>
            \E p \in Accepted : p.sender = a /\ p.sequence = exec.accDiffs[a].txSequence
  BY <1>1 DEF IInv, CountInv
<1>3. \A a \in Account : balances'[a].txSequence = IF exec.accDiffs[a].txSequence # 0
                                                  THEN exec.accDiffs[a].txSequence
                                                  ELSE balances[a].txSequence
  BY DEF SetBalances, NewBalances
<1>4. \A p \in Accepted : p.sender \in Account /\ p.sequence \in 1 .. MaxSequence
  BY <1>1, AcceptedType, TransactionFields
<1>5. \A a \in Account : balances[a].txSequence \in Nat /\ exec.accDiffs[a].txSequence \in Nat
  BY DEF IInv, TypeOK, IsExecution
<1>6. ASSUME NEW a \in Account PROVE balances[a].txSequence <= balances'[a].txSequence
  BY <1>2, <1>3, <1>4, <1>5
<1>7. ASSUME NEW p \in Accepted PROVE p.sequence <= balances'[p.sender].txSequence
  <2> DEFINE n == exec.accDiffs[p.sender].txSequence
  <2>a. p.sender \in Account /\ p.sequence \in 1 .. MaxSequence
    BY <1>4
  <2>b. n \in Nat
    BY <1>5, <2>a
  <2> HIDE DEF n
  <2>1. p.sender \in Account /\ p.sequence \in Nat /\ p.sequence >= 1 /\ n \in Nat
    BY <2>a, <2>b
  <2>2. p.sequence <= n
    BY <1>2 DEF n
  <2>3. n # 0
    BY <2>1, <2>2
  <2> QED
    BY <1>3, <2>1, <2>2, <2>3 DEF n
<1> QED
  BY <1>1, <1>2, <1>3, <1>5, <1>6, <1>7

\* Nothing is paid with a block that was paid before.
LEMMA BatchIsNew ==
    ASSUME IInv, BalanceInv, SetBalances
    PROVE  applied \cap Accepted = {}
<1>1. \A t \in applied : t.sequence <= balances[t.sender].txSequence /\ t.sequence \in Int
                         /\ balances[t.sender].txSequence \in Int
  BY SequenceGrows, TransactionFields DEF BalanceInv, IInv, TypeOK
<1>2. \A t \in Accepted : balances[t.sender].txSequence < t.sequence
  BY SequenceGrows
<1> QED
  BY <1>1, <1>2

\* No account holds more than all accounts did at the start.
LEMMA SupplyBounds ==
    ASSUME NEW S \in SUBSET Transaction, IsFiniteSet(S),
           \A a \in Account : InitialBalance[a] + Net(S)[a] \in Nat
    PROVE  \A a \in Account : InitialBalance[a] + Net(S)[a] \in 0 .. Cash - 1
<1> USE SupplyAssumption
<1> DEFINE v == [a \in Account |-> InitialBalance[a] + Net(S)[a]]
           n == Net(S)
<1>1. \A a \in Account : InitialBalance[a] \in Int /\ n[a] \in Int /\ v[a] = InitialBalance[a] + n[a]
  <2>1. \A a \in Account : Sent(S, a) \in Nat /\ Received(S, a) \in Nat
    BY SentUnion, FS_EmptySet
  <2> QED
    BY <2>1 DEF Net
<1>2. \A a \in Account : v[a] \in Nat
  OBVIOUS
<1>a. Total(n, Account) = 0
  BY Conservation
<1> HIDE DEF v, n
<1>3. Total(v, Account) = Total(InitialBalance, Account) + Total(n, Account)
  BY <1>1, TotalPlus
<1>4. Total(InitialBalance, Account) \in Int
  BY <1>1, TotalStep
<1>5. Total(InitialBalance, Account) < Cash
  BY DEF Total
<1>6. \A a \in Account : v[a] <= Total(v, Account)
  BY <1>2, TotalNat
<1>7. ASSUME NEW a \in Account PROVE v[a] \in 0 .. Cash - 1
  BY <1>2, <1>3, <1>4, <1>5, <1>6, <1>a
<1> QED
  BY <1>1, <1>7 DEF n

LEMMA SetBalancesBalance ==
    ASSUME IInv, BalanceInv, SetBalances
    PROVE  BalanceInv'
<1>1. /\ exec.pc = "count" /\ exec'.pc = "store" /\ balances' = NewBalances
      /\ applied' = applied \union Accepted
  BY SequenceGrows DEF SetBalances, IInv, TypeOK, IsExecution
<1>2. IsFiniteSet(Accepted) /\ Accepted \in SUBSET Transaction
  BY <1>1, AcceptedType
<1>3. IsFiniteSet(applied) /\ applied \in SUBSET Transaction /\ applied \cap Accepted = {}
  BY BatchIsNew DEF BalanceInv, IInv, TypeOK
<1>4. IsFiniteSet(applied') /\ applied' \in SUBSET Transaction
  BY <1>1, <1>2, <1>3, FS_Union
<1>5. \A t \in applied' : t.sequence <= balances'[t.sender].txSequence
  <2> SUFFICES ASSUME NEW t \in applied' PROVE t.sequence <= balances'[t.sender].txSequence
    OBVIOUS
  <2>1. t.sender \in Account /\ t.sequence \in Int
    BY <1>4, TransactionFields
  <2>2. CASE t \in applied
    <3>1. t.sequence <= balances[t.sender].txSequence
      BY <2>2 DEF BalanceInv
    <3>2. balances[t.sender].txSequence <= balances'[t.sender].txSequence
          /\ balances[t.sender].txSequence \in Int /\ balances'[t.sender].txSequence \in Int
      BY <2>1, SequenceGrows
    <3> QED
      BY <2>1, <3>1, <3>2
  <2>3. CASE t \in Accepted
    BY <2>3, SequenceGrows
  <2> QED
    BY <1>1, <2>2, <2>3
<1> DEFINE val(a) == InitialBalance[a] + Net(applied')[a]
<1>6. ASSUME NEW a \in Account
      PROVE  /\ val(a) \in Nat
             /\ val(a) = balances[a].balance + (Received(Accepted, a) - Sent(Accepted, a))
             /\ balances[a].balance \in Int
             /\ Received(Accepted, a) - Sent(Accepted, a) \in Int
             /\ val(a) = InitialBalance[a] - Sent(applied', a) + Received(applied', a)
  <2> DEFINE H == applied
             B == Accepted
  <2>1. IsFiniteSet(H) /\ H \in SUBSET Transaction /\ H \cap B = {}
        /\ IsFiniteSet(B) /\ B \in SUBSET Transaction /\ B \cap H = {}
    BY <1>2, <1>3
  <2>2. applied' = H \union B
    BY <1>1
  <2>3. balances[a].balance = InitialBalance[a] - Sent(H, a) + Received(H, a)
    BY DEF BalanceInv, BalancesAreHistory, Sent, Received
  <2>4. Sent(B, a) <= balances[a].balance /\ balances[a].balance \in Nat
    BY <1>1 DEF BalanceInv, SpendInv, IInv, TypeOK
  <2> HIDE DEF H, B
  <2>5. /\ Sent(H, a) \in Nat /\ Received(H, a) \in Nat
        /\ Sent(H \union B, a) = Sent(H, a) + Sent(B, a)
        /\ Received(H \union B, a) = Received(H, a) + Received(B, a)
    BY ONLY <2>1, SentUnion, SMTT(30)
  <2>6. Sent(B, a) \in Nat /\ Received(B, a) \in Nat
    BY ONLY <2>1, SentType
  <2>7. /\ Sent(applied', a) = Sent(H, a) + Sent(B, a)
        /\ Received(applied', a) = Received(H, a) + Received(B, a)
    BY ONLY <2>2, <2>5
  <2>8. Net(applied')[a] = Received(applied', a) - Sent(applied', a)
    BY DEF Net
  <2>9. InitialBalance[a] \in Int
    OBVIOUS
  <2> QED
    BY <2>3, <2>4, <2>5, <2>6, <2>7, <2>8, <2>9 DEF B
<1>7. ASSUME NEW a \in Account PROVE val(a) \in 0 .. Cash - 1
  <2>1. \A b \in Account : InitialBalance[b] + Net(applied')[b] \in Nat
    BY <1>6
  <2> QED
    BY <1>4, <2>1, SupplyBounds
<1> HIDE DEF val
<1>8. ASSUME NEW a \in Account PROVE balances'[a].balance = val(a)
  <2> DEFINE x == Received(Accepted, a) - Sent(Accepted, a)
             y == balances[a].balance
  <2>1. exec.accDiffs[a].balanceDiff = x % Cash
    BY <1>1 DEF BalanceInv, SpendInv
  <2>2. balances'[a].balance = Plus(y, x % Cash)
    BY <1>1, <2>1 DEF NewBalances
  <2>3. x \in Int /\ y \in Int /\ val(a) = y + x
    BY <1>6
  <2> HIDE DEF x, y
  <2>4. Plus(y, x % Cash) = (x + y) % Cash
    BY <2>3, UnsignedArithmetic
  <2>5. (x + y) % Cash = val(a)
    BY <1>7, <2>3
  <2> QED
    BY <2>2, <2>4, <2>5
<1>9. BalancesAreHistory'
  <2> SUFFICES ASSUME NEW a \in Account
               PROVE  balances'[a].balance = InitialBalance[a] - Sent(applied', a)
                                                               + Received(applied', a)
    BY DEF BalancesAreHistory, Sent, Received
  <2> QED
    BY <1>6, <1>8
<1> QED
  BY <1>1, <1>4, <1>5, <1>9 DEF BalanceInv

LEMMA NextBalance == IInv /\ BalanceInv /\ [Next]_vars => BalanceInv'
<1> SUFFICES ASSUME IInv, BalanceInv, [Next]_vars PROVE BalanceInv'
  OBVIOUS
<1>1. ASSUME NEW r \in Request, BeginTransaction(r.receiver, r.amount)
      PROVE  BalanceInv'
  BY <1>1, BalanceStays DEF BeginTransaction, disk, history
<1>2. CASE CreateTransaction
  BY <1>2, BalanceStays DEF CreateTransaction, disk
<1>3. CASE SaveWallet
  BY <1>3, BalanceStays DEF SaveWallet, memory, history
<1>4. CASE Restart
  BY <1>4, BalanceStays DEF Restart, disk, Idle
<1>5. ASSUME NEW txSet \in SUBSET (Foreign \union issued), ExecuteBlock(txSet)
      PROVE  BalanceInv'
  BY <1>5, ExecuteBlockBalance
<1>6. CASE StoreBlock
  BY <1>6, BalanceStays DEF StoreBlock, history, Idle
<1>7. CASE UNCHANGED vars
  BY <1>7, BalanceStays DEF vars, disk, memory, history
<1> QED
  BY <1>1, <1>2, <1>3, <1>4, <1>5, <1>6, <1>7, CountTransactionBalance, SetBalancesBalance DEF Next

LEMMA InductiveBalance == Spec => []BalanceInv
BY InitBalance, NextBalance, Inductive, PTL DEF Spec

\* For any accounts, transactions and blocks, and wherever the program stops: a
\* balance is what the account had, less what it sent, plus what it received, as
\* plain numbers, though differences are kept modulo 2^32 and only the balance
\* before a block limits what is spent in it.
THEOREM BalancesFollowHistory == Spec => []BalancesAreHistory
BY InductiveBalance, PTL DEF BalanceInv

-----------------------------------------------------------------------------
(* The wallet *)

WaitingIn(records) == {t \in DOMAIN records : records[t] = "WAITING"}

\* What the block being counted changes about this node's account so far.
Pending == IF exec.pc = "count" THEN exec.accDiffs[Local].balanceDiff ELSE 0

\* This node's transactions are numbered as they are made, all that were issued
\* are recorded, those that took effect are the confirmed ones, and the wallet's
\* balance is ahead of the account's by what waits.
RecordsInv ==
    /\ IsFiniteSet(DOMAIN wallet.txRecords)
    /\ issued \subseteq DOMAIN wallet.txRecords
    /\ \A t \in DOMAIN wallet.txRecords : t.sender = Local =>
          /\ t.sequence <= wallet.txSequence
          /\ ui # NoRequest => t.sequence < wallet.txSequence
          /\ wallet.txRecords[t] = "CONFIRMED" =>
                \/ t.sequence <= balances[Local].txSequence
                \/ exec.pc = "count" /\ t \in Accepted
    /\ Plus(balances[Local].balance, Pending)
         = Plus(wallet.balance, AmountsOf(WaitingIn(wallet.txRecords)))

WalletInv ==
    /\ exec.pc # "idle" => \A t \in exec.txSet : t.sender = Local => t \in issued
    /\ ~ disturbed => RecordsInv

LEMMA WalletFields ==
    ASSUME NEW w, IsWallet(w), NEW b, NEW r
    PROVE  /\ [w EXCEPT !.balance = b, !.txRecords = r]
                = [balance |-> b, txSequence |-> w.txSequence, txRecords |-> r]
           /\ [w EXCEPT !.txRecords = r]
                = [balance |-> w.balance, txSequence |-> w.txSequence, txRecords |-> r]
           /\ [w EXCEPT !.balance = b]
                = [balance |-> b, txSequence |-> w.txSequence, txRecords |-> w.txRecords]
<1>1. w = [balance |-> w.balance, txSequence |-> w.txSequence, txRecords |-> w.txRecords]
  BY DEF IsWallet
<1> DEFINE z == [balance |-> b, txSequence |-> w.txSequence, txRecords |-> w.txRecords]
<1>2. [w EXCEPT !.balance = b] = z
  BY ONLY <1>1
<1>3. [w EXCEPT !.txRecords = r]
        = [balance |-> w.balance, txSequence |-> w.txSequence, txRecords |-> r]
  BY ONLY <1>1
<1>4. [w EXCEPT !.balance = b, !.txRecords = r] = [[w EXCEPT !.balance = b] EXCEPT !.txRecords = r]
  OBVIOUS
<1>5. [z EXCEPT !.txRecords = r]
        = [balance |-> b, txSequence |-> w.txSequence, txRecords |-> r]
  OBVIOUS
<1> QED
  BY <1>2, <1>3, <1>4, <1>5

LEMMA RecordFacts ==
    ASSUME NEW r, NEW tx, NEW state
    PROVE  /\ DOMAIN Record(r, tx, state) = DOMAIN r \union {tx}
           /\ Record(r, tx, state)[tx] = state
           /\ \A t \in DOMAIN r : t # tx => Record(r, tx, state)[t] = r[t]
           /\ state = "WAITING" => WaitingIn(Record(r, tx, state)) = WaitingIn(r) \union {tx}
           /\ state = "CONFIRMED" => WaitingIn(Record(r, tx, state)) = WaitingIn(r) \ {tx}
BY DEF Record, WaitingIn

\* The amounts that wait are those of finitely many transactions.
LEMMA WaitingType ==
    ASSUME IsWallet(wallet), IsFiniteSet(DOMAIN wallet.txRecords)
    PROVE  /\ WaitingIn(wallet.txRecords) \in SUBSET Transaction
           /\ IsFiniteSet(WaitingIn(wallet.txRecords))
           /\ AmountsOf(WaitingIn(wallet.txRecords)) \in Nat
<1>1. WaitingIn(wallet.txRecords) \subseteq DOMAIN wallet.txRecords
      /\ DOMAIN wallet.txRecords \subseteq Transaction
  BY DEF WaitingIn, IsWallet
<1>2. IsFiniteSet(WaitingIn(wallet.txRecords))
      /\ WaitingIn(wallet.txRecords) \in SUBSET Transaction
  BY <1>1, FS_Subset
<1> QED
  BY <1>2, AmountsOfFacts

LEMMA InitWallet == Init => WalletInv
<1> SUFFICES ASSUME Init PROVE WalletInv
  OBVIOUS
<1> DEFINE none == [t \in {} |-> "WAITING"]
<1>1. /\ wallet.txRecords = none /\ wallet.balance = InitialBalance[Local]
      /\ balances[Local].balance = InitialBalance[Local]
      /\ exec.pc = "idle" /\ issued = {}
  BY DEF Init, Idle, GeneratedWallet, GeneratedAccounts
<1>2. DOMAIN none = {} /\ WaitingIn(none) = {}
  BY DEF WaitingIn
<1> HIDE DEF none
<1>3. AmountsOf({}) = 0
  BY AmountsOfFacts, FS_EmptySet
<1> QED
  BY <1>1, <1>2, <1>3, FS_EmptySet DEF WalletInv, RecordsInv, Pending

\* Steps that leave the wallet alone and have no effect on the account.
LEMMA WalletStays ==
    ASSUME WalletInv, UNCHANGED <<wallet, issued, balances, ui>>,
           UNCHANGED <<exec, disturbed>>
    PROVE  WalletInv'
BY DEF WalletInv, RecordsInv, Pending, Accepted

LEMMA BeginTransactionWallet ==
    ASSUME IInv, WalletInv, NEW r \in Request, BeginTransaction(r.receiver, r.amount)
    PROVE  WalletInv'
<1>1. /\ UNCHANGED <<issued, balances, exec, disturbed>>
      /\ wallet' = [wallet EXCEPT !.txSequence = @ + 1]
  BY DEF BeginTransaction, disk, history
<1>2. /\ wallet'.txRecords = wallet.txRecords /\ wallet'.balance = wallet.balance
      /\ wallet'.txSequence = wallet.txSequence + 1 /\ wallet.txSequence \in Nat
  BY <1>1 DEF IInv, TypeOK, IsWallet
<1>3. \A t \in DOMAIN wallet.txRecords : t.sequence \in Nat
  BY TransactionFields DEF IInv, TypeOK, IsWallet
<1>4. UNCHANGED <<Accepted, Pending>>
  BY <1>1 DEF Accepted, Pending
<1>5. RecordsInv => RecordsInv'
  <2> SUFFICES ASSUME RecordsInv PROVE RecordsInv'
    OBVIOUS
  <2>1. \A t \in DOMAIN wallet'.txRecords : t.sender = Local =>
          /\ t.sequence <= wallet'.txSequence
          /\ t.sequence < wallet'.txSequence
          /\ wallet'.txRecords[t] = "CONFIRMED" =>
                \/ t.sequence <= balances'[Local].txSequence
                \/ exec'.pc = "count" /\ t \in Accepted'
    BY <1>1, <1>2, <1>3, <1>4 DEF RecordsInv
  <2> QED
    BY <1>1, <1>2, <1>4, <2>1 DEF RecordsInv
<1> QED
  BY <1>1, <1>5 DEF WalletInv

LEMMA CreateTransactionWallet ==
    ASSUME IInv, WalletInv, CreateTransaction
    PROVE  WalletInv'
<1> DEFINE tx == [sender |-> Local, receiver |-> ui.receiver, amount |-> ui.amount,
                  sequence |-> wallet.txSequence]
           r == wallet.txRecords
<1>1. /\ UNCHANGED <<balances, exec>> /\ ui # NoRequest /\ ui' = NoRequest
      /\ issued \subseteq issued' /\ issued' \subseteq issued \union {tx}
      /\ disturbed' = (disturbed \/ ui.balance # wallet.balance)
      /\ \E b \in {Minus(ui.balance, ui.amount), Minus(wallet.balance, ui.amount)}
                  \union (IF ui.balance # wallet.balance THEN {wallet.balance} ELSE {}) :
           wallet' = [wallet EXCEPT !.balance = b,
                                    !.txRecords = IF tx \in DOMAIN @ THEN @
                                                  ELSE Record(@, tx, "WAITING")]
  BY DEF CreateTransaction, disk
<1>2. UNCHANGED <<Accepted, Pending>>
  BY <1>1 DEF Accepted, Pending
<1>3. ASSUME ~ disturbed' PROVE RecordsInv'
  <2>1. RecordsInv /\ ui.balance = wallet.balance
    BY <1>1, <1>3 DEF WalletInv
  <2>2. IsWallet(wallet) /\ tx \in Transaction /\ ui.amount \in Nat
        /\ wallet.balance \in Nat /\ wallet.txSequence \in Nat
        /\ tx.sender = Local /\ tx.sequence = wallet.txSequence /\ tx.amount = ui.amount
    BY <1>1 DEF IInv, TypeOK, IsWallet, Transaction
  <2>a. \A t \in DOMAIN r : t.sequence \in Nat
    BY <2>2, TransactionFields DEF IsWallet
  <2>3. tx \notin DOMAIN r
    BY <1>1, <2>1, <2>2, <2>a DEF RecordsInv
  <2> HIDE DEF tx
  <2>4. wallet' = [wallet EXCEPT !.balance = Minus(wallet.balance, ui.amount),
                                 !.txRecords = Record(r, tx, "WAITING")]
    BY <1>1, <2>1, <2>3
  <2> DEFINE r1 == Record(r, tx, "WAITING")
             b1 == Minus(wallet.balance, ui.amount)
  <2> HIDE DEF r1, b1
  <2>b. wallet' = [wallet EXCEPT !.balance = b1, !.txRecords = r1]
    BY <2>4 DEF r1, b1
  <2>c. wallet' = [balance |-> b1, txSequence |-> wallet.txSequence, txRecords |-> r1]
    BY ONLY <2>2, <2>b, WalletFields
  <2>5. wallet'.balance = b1 /\ wallet'.txRecords = r1 /\ wallet'.txSequence = wallet.txSequence
    BY ONLY <2>c
  <2>6. /\ DOMAIN r1 = DOMAIN r \union {tx} /\ r1[tx] = "WAITING"
        /\ \A t \in DOMAIN r : t # tx => r1[t] = r[t]
        /\ WaitingIn(r1) = WaitingIn(r) \union {tx}
    BY DEF r1, Record, WaitingIn
  <2>7. IsFiniteSet(DOMAIN r1)
    BY <2>1, <2>6, FS_AddElement DEF RecordsInv
  <2>8. issued' \subseteq DOMAIN r1
    BY <1>1, <2>1, <2>6 DEF RecordsInv
  <2>9. \A t \in DOMAIN r1 : t.sender = Local =>
          /\ t.sequence <= wallet.txSequence
          /\ r1[t] = "CONFIRMED" => \/ t.sequence <= balances[Local].txSequence
                                    \/ exec.pc = "count" /\ t \in Accepted
    <3> SUFFICES ASSUME NEW t \in DOMAIN r1, t.sender = Local
                 PROVE  /\ t.sequence <= wallet.txSequence
                        /\ r1[t] = "CONFIRMED" => \/ t.sequence <= balances[Local].txSequence
                                                  \/ exec.pc = "count" /\ t \in Accepted
      OBVIOUS
    <3>1. CASE t = tx
      BY <2>2, <2>6, <3>1
    <3>2. CASE t \in DOMAIN r /\ t # tx
      BY <2>1, <2>6, <3>2 DEF RecordsInv
    <3> QED
      BY <2>6, <3>1, <3>2
  <2>10. AmountsOf(WaitingIn(r1)) = AmountsOf(WaitingIn(r)) + ui.amount
         /\ AmountsOf(WaitingIn(r)) \in Nat
    <3>1. /\ WaitingIn(r) \in SUBSET Transaction /\ IsFiniteSet(WaitingIn(r))
          /\ AmountsOf(WaitingIn(r)) \in Nat
      BY <2>1, <2>2, WaitingType DEF RecordsInv
    <3>2. tx \notin WaitingIn(r)
      BY <2>3 DEF WaitingIn
    <3>3. WaitingIn(r1) \in SUBSET Transaction /\ IsFiniteSet(WaitingIn(r1))
          /\ tx \in WaitingIn(r1) /\ WaitingIn(r1) \ {tx} = WaitingIn(r)
      BY <2>2, <2>6, <3>1, <3>2, FS_AddElement
    <3>4. AmountsOf(WaitingIn(r1)) = tx.amount + AmountsOf(WaitingIn(r1) \ {tx})
      BY <3>3, AmountsOfFacts
    <3>5. AmountsOf(WaitingIn(r1) \ {tx}) = AmountsOf(WaitingIn(r))
      BY <3>3, Zenon
    <3> QED
      BY <2>2, <3>1, <3>4, <3>5
  <2>11. Plus(b1, AmountsOf(WaitingIn(r1))) = Plus(wallet.balance, AmountsOf(WaitingIn(r)))
    <3> DEFINE W == AmountsOf(WaitingIn(r))
               k == wallet.balance - ui.amount
               m == W + ui.amount
    <3>1. b1 = k % Cash /\ k \in Int /\ m \in Int /\ AmountsOf(WaitingIn(r1)) = m
      BY <2>2, <2>10 DEF b1, Minus
    <3>2. k + m = wallet.balance + W
      BY <2>2, <2>10
    <3> HIDE DEF k, m, W
    <3>3. Plus(k % Cash, m) = (k + m) % Cash
      BY <3>1, UnsignedArithmetic
    <3> QED
      BY <3>1, <3>2, <3>3 DEF Plus, W
  <2>12. Plus(balances[Local].balance, Pending) = Plus(wallet.balance, AmountsOf(WaitingIn(r)))
    BY <2>1 DEF RecordsInv
  <2> HIDE DEF r
  <2> QED
    BY <1>1, <1>2, <2>5, <2>7, <2>8, <2>9, <2>11, <2>12 DEF RecordsInv
<1>4. exec'.pc # "idle" => \A t \in exec'.txSet : t.sender = Local => t \in issued'
  BY <1>1 DEF WalletInv
<1> QED
  BY <1>3, <1>4 DEF WalletInv

LEMMA RestartWallet ==
    ASSUME IInv, WalletInv, Restart
    PROVE  WalletInv'
<1>1. /\ UNCHANGED <<issued, balances>> /\ wallet' = walletFile /\ ui' = NoRequest
      /\ exec'.pc = "idle"
      /\ disturbed' = (disturbed \/ wallet # walletFile \/ exec.pc # "idle")
  BY DEF Restart, disk, Idle
<1>2. ASSUME ~ disturbed' PROVE RecordsInv'
  BY <1>1, <1>2 DEF WalletInv, RecordsInv, Pending
<1> QED
  BY <1>1, <1>2 DEF WalletInv

LEMMA ExecuteBlockWallet ==
    ASSUME IInv, WalletInv, NEW txSet \in SUBSET (Foreign \union issued), ExecuteBlock(txSet)
    PROVE  WalletInv'
<1>1. /\ UNCHANGED <<issued, balances, wallet, ui, disturbed>>
      /\ exec.pc = "idle" /\ exec'.pc = "count" /\ exec'.txSet = txSet
      /\ exec'.accDiffs = NoDifference
  BY DEF ExecuteBlock, disk, history, Idle
<1>2. Pending = 0 /\ Pending' = 0
  BY <1>1 DEF Pending, NoDifference
<1>3. RecordsInv => RecordsInv'
  BY <1>1, <1>2 DEF RecordsInv
<1>4. \A t \in txSet : t.sender = Local => t \in issued
  OBVIOUS
<1> QED
  BY <1>1, <1>3, <1>4 DEF WalletInv

LEMMA SetBalancesWallet ==
    ASSUME IInv, WalletInv, SetBalances
    PROVE  WalletInv'
<1>1. /\ UNCHANGED <<issued, wallet, ui, disturbed>> /\ balances' = NewBalances
      /\ exec.pc = "count" /\ exec'.pc = "store" /\ exec'.txSet = exec.txSet
  BY DEF SetBalances, IInv, TypeOK, IsExecution
<1>2. ASSUME RecordsInv PROVE RecordsInv'
  <2>1. /\ balances[Local].txSequence <= balances'[Local].txSequence
        /\ balances[Local].txSequence \in Int /\ balances'[Local].txSequence \in Int
        /\ \A p \in Accepted : p.sequence <= balances'[p.sender].txSequence
    BY SequenceGrows
  <2>2. \A t \in DOMAIN wallet.txRecords : t.sequence \in Int
    BY TransactionFields DEF IInv, TypeOK, IsWallet
  <2>3. ASSUME NEW t \in DOMAIN wallet.txRecords, t.sender = Local,
               wallet.txRecords[t] = "CONFIRMED"
        PROVE  t.sequence <= balances'[Local].txSequence
    BY <1>2, <2>1, <2>2, <2>3 DEF RecordsInv
  <2> DEFINE y == balances[Local].balance
             d == exec.accDiffs[Local].balanceDiff
             k == y + d
  <2>a. balances[Local] \in [balance : 0 .. Cash - 1, txSequence : 0 .. MaxSequence]
        /\ exec.accDiffs[Local] \in [balanceDiff : 0 .. Cash - 1, txSequence : 0 .. MaxSequence]
    BY DEF IInv, TypeOK, IsExecution
  <2>b. y \in Int /\ d \in Int
    BY <2>a
  <2>4. y \in Int /\ d \in Int /\ k \in Int /\ Pending = d /\ Pending' = 0
    BY <1>1, <2>b DEF Pending
  <2>5. balances'[Local].balance = Plus(y, d)
    BY <1>1 DEF NewBalances
  <2>6. Plus(y, d) = k % Cash
    BY DEF Plus
  <2>c. k + 0 = k
    BY <2>4
  <2> HIDE DEF k
  <2>d. 0 \in Int /\ k \in Int
    BY <2>4
  <2>7. Plus(k % Cash, 0) = (k + 0) % Cash /\ k + 0 = k
    BY ONLY <2>c, <2>d, UnsignedArithmetic, AmountAssumption
  <2> HIDE DEF y, d
  <2>8. Plus(balances'[Local].balance, Pending') = Plus(balances[Local].balance, Pending)
    BY <2>4, <2>5, <2>6, <2>7 DEF y
  <2> QED
    BY <1>1, <1>2, <2>3, <2>8 DEF RecordsInv
<1> QED
  BY <1>1, <1>2 DEF WalletInv

LEMMA StoreBlockWallet ==
    ASSUME IInv, WalletInv, StoreBlock
    PROVE  WalletInv'
<1>1. /\ UNCHANGED <<issued, balances, wallet, ui, disturbed>>
      /\ exec.pc = "store" /\ exec'.pc = "idle"
  BY DEF StoreBlock, history, Idle
<1> QED
  BY <1>1 DEF WalletInv, RecordsInv, Pending

\* What an execution and the wallet add up to moves together.
LEMMA SumsMove ==
    ASSUME NEW b \in Int, NEW p \in Int, NEW w \in Int, NEW m \in Int, NEW x \in Int,
           Plus(b, p) = Plus(w, m)
    PROVE  /\ Plus(b, Minus(p, x)) = Plus(w, m - x)
           /\ Plus(b, Plus(p, x)) = Plus(Plus(w, x), m)
<1> DEFINE s == b + p
           u == w + m
           q == p - x
           v == p + x
           z == w + x
<1>1. /\ s \in Int /\ u \in Int /\ q \in Int /\ v \in Int /\ z \in Int
      /\ q + b = s - x /\ w + (m - x) = u - x /\ v + b = s + x /\ z + m = u + x
  OBVIOUS
<1>2. /\ s % Cash = u % Cash /\ Minus(p, x) = q % Cash /\ Plus(p, x) = v % Cash
      /\ Plus(w, x) = z % Cash /\ Plus(w, m - x) = (u - x) % Cash
  BY <1>1 DEF Plus, Minus
<1> HIDE DEF s, u, q, v, z
<1>3. /\ Plus(b, q % Cash) = (q + b) % Cash /\ Plus(b, v % Cash) = (v + b) % Cash
      /\ Plus(z % Cash, m) = (z + m) % Cash
  BY ONLY <1>1, UnsignedArithmetic, b \in Int, m \in Int, AmountAssumption
<1>4. /\ Minus(s % Cash, x) = (s - x) % Cash /\ Minus(u % Cash, x) = (u - x) % Cash
      /\ Plus(s % Cash, x) = (s + x) % Cash /\ Plus(u % Cash, x) = (u + x) % Cash
  BY <1>1, UnsignedArithmetic
<1>5. /\ Plus(b, q % Cash) = (s - x) % Cash /\ Plus(b, v % Cash) = (s + x) % Cash
      /\ Plus(z % Cash, m) = (u + x) % Cash
  BY ONLY <1>1, <1>3
<1>6. (s - x) % Cash = (u - x) % Cash /\ (s + x) % Cash = (u + x) % Cash
  BY ONLY <1>2, <1>4, Zenon
<1>7. Plus(b, Minus(p, x)) = Plus(b, q % Cash) /\ Plus(b, Plus(p, x)) = Plus(b, v % Cash)
      /\ Plus(Plus(w, x), m) = Plus(z % Cash, m)
  BY ONLY <1>2, Zenon
<1> QED
  BY ONLY <1>2, <1>5, <1>6, <1>7, Zenon

\* A payment to this node's account.
LEMMA ReceivedWallet ==
    ASSUME IsWallet(wallet), NEW tx \in Transaction, IsFiniteSet(DOMAIN wallet.txRecords),
           wallet' = receivedTransaction(wallet, tx)
    PROVE  /\ wallet'.balance = Plus(wallet.balance, tx.amount)
           /\ wallet'.txSequence = wallet.txSequence
           /\ DOMAIN wallet'.txRecords = DOMAIN wallet.txRecords \union {tx}
           /\ IsFiniteSet(DOMAIN wallet'.txRecords)
           /\ \A t \in DOMAIN wallet.txRecords : wallet'.txRecords[t] = wallet.txRecords[t]
           /\ WaitingIn(wallet'.txRecords) = WaitingIn(wallet.txRecords)
<1> DEFINE r == wallet.txRecords
           r1 == IF tx \in DOMAIN r THEN r ELSE Record(r, tx, "CONFIRMED")
           b1 == Plus(wallet.balance, tx.amount)
<1>1. wallet' = [wallet EXCEPT !.balance = b1, !.txRecords = r1]
  BY DEF receivedTransaction
<1>2. /\ DOMAIN r1 = DOMAIN r \union {tx}
      /\ \A t \in DOMAIN r : r1[t] = r[t]
      /\ WaitingIn(r1) = WaitingIn(r)
  <2>1. CASE tx \in DOMAIN r
    BY <2>1
  <2>2. CASE tx \notin DOMAIN r
    <3>1. r1 = Record(r, tx, "CONFIRMED")
      BY <2>2
    <3>2. /\ DOMAIN r1 = DOMAIN r \union {tx} /\ r1[tx] = "CONFIRMED"
          /\ \A t \in DOMAIN r : r1[t] = r[t]
      BY <2>2, <3>1 DEF Record
    <3> HIDE DEF r1
    <3> QED
      BY <2>2, <3>2 DEF WaitingIn
  <2> QED
    BY <2>1, <2>2
<1> HIDE DEF r1, b1
<1>3. wallet' = [balance |-> b1, txSequence |-> wallet.txSequence, txRecords |-> r1]
  BY ONLY <1>1, WalletFields, IsWallet(wallet)
<1>4. wallet'.balance = b1 /\ wallet'.txRecords = r1 /\ wallet'.txSequence = wallet.txSequence
  BY ONLY <1>3
<1>5. IsFiniteSet(DOMAIN r1)
  <2>1. IsFiniteSet(DOMAIN r \union {tx})
    BY ONLY IsFiniteSet(DOMAIN wallet.txRecords), FS_AddElement
  <2> QED
    BY ONLY <1>2, <2>1
<1> QED
  BY <1>2, <1>4, <1>5 DEF b1

\* A payment of this node's account, which waited.
LEMMA SentWallet ==
    ASSUME IsWallet(wallet), NEW tx \in DOMAIN wallet.txRecords,
           wallet' = updateTransaction(wallet, tx, "CONFIRMED")
    PROVE  /\ wallet'.balance = wallet.balance
           /\ wallet'.txSequence = wallet.txSequence
           /\ DOMAIN wallet'.txRecords = DOMAIN wallet.txRecords
           /\ \A t \in DOMAIN wallet.txRecords : t # tx =>
                 wallet'.txRecords[t] = wallet.txRecords[t]
           /\ WaitingIn(wallet'.txRecords) = WaitingIn(wallet.txRecords) \ {tx}
<1> DEFINE r == wallet.txRecords
           r1 == Record(r, tx, "CONFIRMED")
<1>1. wallet' = [wallet EXCEPT !.txRecords = r1]
  BY DEF updateTransaction
<1>2. /\ DOMAIN r1 = DOMAIN r /\ r1[tx] = "CONFIRMED"
      /\ \A t \in DOMAIN r : t # tx => r1[t] = r[t]
  BY DEF Record
<1> HIDE DEF r1
<1>3. wallet' = [balance |-> wallet.balance, txSequence |-> wallet.txSequence, txRecords |-> r1]
  BY ONLY <1>1, WalletFields, IsWallet(wallet)
<1>4. wallet'.balance = wallet.balance /\ wallet'.txRecords = r1
      /\ wallet'.txSequence = wallet.txSequence
  BY ONLY <1>3
<1>5. WaitingIn(r1) = WaitingIn(r) \ {tx}
  BY <1>2 DEF WaitingIn
<1> QED
  BY <1>2, <1>4, <1>5

LEMMA CountTransactionWallet ==
    ASSUME IInv, WalletInv, CountTransaction
    PROVE  WalletInv'
<1>1. PICK tx \in exec.todo :
        /\ tx \in Transaction /\ tx \in exec.txSet /\ checkTransaction(tx) /\ tx \notin Accepted
        /\ exec.pc = "count" /\ exec'.pc = "count" /\ exec'.txSet = exec.txSet
        /\ exec'.todo = exec.todo \ {tx} /\ exec'.currAcc = tx.sender
        /\ UNCHANGED <<balances, issued, applied, disturbed, ui>>
        /\ \/ /\ Valid(tx)
              /\ exec'.upBalance = upBalance(tx) - tx.amount
              /\ exec'.accDiffs = AddDifference(exec.accDiffs, tx)
              /\ Accepted' = Accepted \union {tx}
              /\ wallet' = UpdateWallet(tx)
           \/ /\ exec'.upBalance = upBalance(tx)
              /\ exec'.accDiffs = exec.accDiffs
              /\ Accepted' = Accepted
              /\ UNCHANGED wallet
  BY CountTransactionStep
<1> DEFINE d == exec.accDiffs[Local].balanceDiff
           b == balances[Local].balance
           W == AmountsOf(WaitingIn(wallet.txRecords))
<1>2. Pending = d /\ Pending' = exec'.accDiffs[Local].balanceDiff
  BY <1>1 DEF Pending
<1>3. b \in Int /\ d \in Int /\ balances[Local].txSequence \in Int
  <2>1. balances[Local] \in [balance : 0 .. Cash - 1, txSequence : 0 .. MaxSequence]
        /\ exec.accDiffs[Local] \in [balanceDiff : 0 .. Cash - 1, txSequence : 0 .. MaxSequence]
    BY DEF IInv, TypeOK, IsExecution
  <2> QED
    BY <2>1
<1>4. IsWallet(wallet) /\ wallet.balance \in Int /\ tx.amount \in Int /\ tx.sequence \in Int
  BY <1>1, TransactionFields DEF IInv, TypeOK, IsWallet
<1>5. ASSUME RecordsInv PROVE RecordsInv'
  <2>1. IsFiniteSet(DOMAIN wallet.txRecords) /\ Plus(b, d) = Plus(wallet.balance, W)
        /\ W \in Int
    BY <1>2, <1>4, <1>5, WaitingType DEF RecordsInv
  <2>2. CASE Accepted' = Accepted /\ UNCHANGED wallet /\ exec'.accDiffs = exec.accDiffs
    <3>1. Pending' = Pending
      BY <1>2, <2>2
    <3> QED
      BY <1>1, <1>5, <2>2, <3>1 DEF RecordsInv
  <2>3. CASE /\ Valid(tx) /\ exec'.accDiffs = AddDifference(exec.accDiffs, tx)
             /\ Accepted' = Accepted \union {tx} /\ wallet' = UpdateWallet(tx)
    <3>1. tx.sender # tx.receiver
      BY <1>1 DEF checkTransaction
    <3>2. Pending' = IF Local = tx.sender THEN Minus(d, tx.amount)
                     ELSE IF Local = tx.receiver THEN Plus(d, tx.amount) ELSE d
      BY <1>1, <1>2, <2>3, DifferenceValue
    <3>3. /\ Plus(b, Minus(d, tx.amount)) = Plus(wallet.balance, W - tx.amount)
          /\ Plus(b, Plus(d, tx.amount)) = Plus(Plus(wallet.balance, tx.amount), W)
      <4> DEFINE w == wallet.balance
                 x == tx.amount
      <4>1. /\ b \in Int /\ d \in Int /\ w \in Int /\ W \in Int /\ x \in Int
            /\ Plus(b, d) = Plus(w, W)
        BY <1>3, <1>4, <2>1
      <4> HIDE DEF b, d, W, w, x
      <4>2. Plus(b, Minus(d, x)) = Plus(w, W - x) /\ Plus(b, Plus(d, x)) = Plus(Plus(w, x), W)
        BY ONLY <4>1, SumsMove
      <4> QED
        BY <4>2 DEF w, x
    <3>4. CASE tx.sender = Local
      <4>1. wallet' = updateTransaction(wallet, tx, "CONFIRMED")
        BY <2>3, <3>4 DEF UpdateWallet
      <4>2. tx \in DOMAIN wallet.txRecords
        BY <1>1, <1>5, <3>4 DEF WalletInv, RecordsInv
      <4>3. /\ wallet'.balance = wallet.balance
            /\ wallet'.txSequence = wallet.txSequence
            /\ DOMAIN wallet'.txRecords = DOMAIN wallet.txRecords
            /\ \A t \in DOMAIN wallet.txRecords : t # tx =>
                  wallet'.txRecords[t] = wallet.txRecords[t]
            /\ WaitingIn(wallet'.txRecords) = WaitingIn(wallet.txRecords) \ {tx}
        BY <1>4, <4>1, <4>2, SentWallet
      <4>4. tx \in WaitingIn(wallet.txRecords)
        <5>1. balances[Local].txSequence < tx.sequence
          BY <2>3, <3>4 DEF Valid
        <5>2. wallet.txRecords[tx] # "CONFIRMED"
          BY <1>1, <1>3, <1>4, <1>5, <3>4, <4>2, <5>1 DEF RecordsInv
        <5> QED
          BY <1>4, <4>2, <5>2 DEF WaitingIn, IsWallet
      <4>5. AmountsOf(WaitingIn(wallet'.txRecords)) = W - tx.amount
        <5> DEFINE S == WaitingIn(wallet.txRecords)
        <5>1. S \in SUBSET Transaction /\ IsFiniteSet(S) /\ AmountsOf(S) \in Nat
          BY <1>4, <2>1, WaitingType
        <5>2. AmountsOf(WaitingIn(wallet'.txRecords)) = AmountsOf(S \ {tx})
          BY <4>3, Zenon
        <5>3. tx \in S
          BY <4>4
        <5> HIDE DEF S
        <5>4. AmountsOf(S) = tx.amount + AmountsOf(S \ {tx})
          BY ONLY <5>1, <5>3, AmountsOfFacts
        <5>5. IsFiniteSet(S \ {tx}) /\ S \ {tx} \in SUBSET Transaction
          BY <5>1, FS_RemoveElement
        <5>6. AmountsOf(S \ {tx}) \in Nat
          BY ONLY <5>5, AmountsOfFacts
        <5> QED
          BY <1>4, <5>1, <5>2, <5>4, <5>6 DEF S
      <4>6. Plus(balances'[Local].balance, Pending')
              = Plus(wallet'.balance, AmountsOf(WaitingIn(wallet'.txRecords)))
        BY <1>1, <3>2, <3>3, <3>4, <4>3, <4>5
      <4>7. \A t \in DOMAIN wallet'.txRecords : t.sender = Local =>
              /\ t.sequence <= wallet'.txSequence
              /\ ui' # NoRequest => t.sequence < wallet'.txSequence
              /\ wallet'.txRecords[t] = "CONFIRMED" =>
                    \/ t.sequence <= balances'[Local].txSequence
                    \/ exec'.pc = "count" /\ t \in Accepted'
        BY <1>1, <1>5, <2>3, <4>3 DEF RecordsInv
      <4> QED
        BY <1>1, <1>5, <2>1, <4>3, <4>6, <4>7 DEF RecordsInv
    <3>5. CASE tx.sender # Local /\ tx.receiver = Local
      <4>1. wallet' = receivedTransaction(wallet, tx)
        BY <2>3, <3>5 DEF UpdateWallet
      <4>2. /\ wallet'.balance = Plus(wallet.balance, tx.amount)
            /\ wallet'.txSequence = wallet.txSequence
            /\ DOMAIN wallet'.txRecords = DOMAIN wallet.txRecords \union {tx}
            /\ IsFiniteSet(DOMAIN wallet'.txRecords)
            /\ \A t \in DOMAIN wallet.txRecords : wallet'.txRecords[t] = wallet.txRecords[t]
            /\ WaitingIn(wallet'.txRecords) = WaitingIn(wallet.txRecords)
        BY <1>1, <1>4, <2>1, <4>1, ReceivedWallet
      <4>3. AmountsOf(WaitingIn(wallet'.txRecords)) = W
        BY <4>2, Zenon
      <4>4. Plus(balances'[Local].balance, Pending')
              = Plus(wallet'.balance, AmountsOf(WaitingIn(wallet'.txRecords)))
        BY <1>1, <3>2, <3>3, <3>5, <4>2, <4>3
      <4>5. \A t \in DOMAIN wallet'.txRecords : t.sender = Local =>
              /\ t.sequence <= wallet'.txSequence
              /\ ui' # NoRequest => t.sequence < wallet'.txSequence
              /\ wallet'.txRecords[t] = "CONFIRMED" =>
                    \/ t.sequence <= balances'[Local].txSequence
                    \/ exec'.pc = "count" /\ t \in Accepted'
        BY <1>1, <1>5, <2>3, <3>5, <4>2 DEF RecordsInv
      <4> QED
        BY <1>1, <1>5, <4>2, <4>4, <4>5 DEF RecordsInv
    <3>6. CASE tx.sender # Local /\ tx.receiver # Local
      <4>1. wallet' = wallet /\ Pending' = Pending
        BY <1>2, <2>3, <3>2, <3>6 DEF UpdateWallet
      <4> QED
        BY <1>1, <1>5, <2>3, <4>1 DEF RecordsInv
    <3> QED
      BY <3>4, <3>5, <3>6
  <2> QED
    BY <1>1, <2>2, <2>3
<1> QED
  BY <1>1, <1>5 DEF WalletInv

LEMMA NextWallet == IInv /\ WalletInv /\ [Next]_vars => WalletInv'
<1> SUFFICES ASSUME IInv, WalletInv, [Next]_vars PROVE WalletInv'
  OBVIOUS
<1>1. CASE SaveWallet
  BY <1>1, WalletStays DEF SaveWallet, memory, history
<1>2. CASE UNCHANGED vars
  BY <1>2, WalletStays DEF vars, disk, memory, history
<1> QED
  BY <1>1, <1>2, BeginTransactionWallet, CreateTransactionWallet, RestartWallet,
     ExecuteBlockWallet, CountTransactionWallet, SetBalancesWallet, StoreBlockWallet DEF Next

LEMMA InductiveWallet == Spec => []WalletInv
BY InitWallet, NextWallet, Inductive, PTL DEF Spec

LEMMA WalletAgrees == IInv /\ WalletInv => WalletTracksAccount
<1> SUFFICES ASSUME IInv, WalletInv, exec.pc # "count", ~ disturbed
             PROVE  balances[Local].balance
                      = Plus(wallet.balance, AmountsOf(WaitingIn(wallet.txRecords)))
  BY DEF WalletTracksAccount, WaitingIn
<1>1. Pending = 0
  BY DEF Pending
<1>2. balances[Local].balance \in 0 .. Cash - 1
  BY DEF IInv, TypeOK
<1>3. Plus(balances[Local].balance, 0) = balances[Local].balance
  BY <1>2 DEF Plus
<1> QED
  BY <1>1, <1>3 DEF WalletInv, RecordsInv

\* For any accounts and transactions: the wallet's balance and what still waits
\* add up to the account's balance whenever no block is being counted, unless a
\* stop or a race separated the two.
THEOREM WalletFollowsAccount == Spec => []WalletTracksAccount
BY Inductive, InductiveWallet, WalletAgrees, PTL
=============================================================================
