----------------------------- MODULE MCStorage -----------------------------
(***************************************************************************)
(* Storage for TLC: two wallets, four transactions that each move one coin *)
(* of those an account has, and two blocks.  A peer sends an account with  *)
(* three coins and the number 1 it starts with, or with two after a block  *)
(* with the transaction of number 2, which this node may not have.  A set  *)
(* of three transactions has an odd level in its tree.                     *)
(***************************************************************************)
EXTENDS Storage

Wallets == {1, 2}

AccountRecords == {[balance |-> 3, txSequence |-> 1], [balance |-> 2, txSequence |-> 2]}

\* The number of a transaction comes after the number of its sender.
Transaction(sender, number, id) ==
    [data |-> 10 * sender + number, IDHash |-> id, signature |-> [i \in 1 .. number |-> 5]]

Transactions ==
    {Transaction(1, 2, 3), Transaction(1, 3, 4), Transaction(2, 2, 2), Transaction(2, 3, 5)}

SenderOf(tx) == tx.data \div 10
ReceiverOf(tx) == 3 - SenderOf(tx)
NumberOf(tx) == tx.data % 10
=============================================================================
