------------------------------ MODULE MCLedger ------------------------------
(* The wallet of account 2 and one other account, three units in all. *)
EXTENDS Ledger

MCInitialBalance == [a \in Account |-> IF a = 1 THEN 2 ELSE 1]

\* Account 1 can pay one of the two, or the first and not the second.
Pay(amount, sequence) ==
    [sender |-> 1, receiver |-> 2, amount |-> amount, sequence |-> sequence]

MCForeign == {Pay(1, 2), Pay(2, 3)}

\* The second is refused by checkTransaction, after the wallet has changed.
MCRequest == {[receiver |-> 1, amount |-> 1], [receiver |-> 2, amount |-> 1]}
==============================================================================
