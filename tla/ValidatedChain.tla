--------------------------- MODULE ValidatedChain ---------------------------
(***************************************************************************)
(* What the tree of block headers promises to its user: one chain of       *)
(* validated blocks, which is only ever extended, one block at a time, and *)
(* never rewritten.  A block is the entry (transactions, account state)    *)
(* that its header commits to.                                             *)
(***************************************************************************)
EXTENDS Sequences

CONSTANT ValidEntry

VARIABLE validated      \* the validated blocks after the genesis block

Init == validated = <<>>

Validate(e) == validated' = Append(validated, e)

Next == \E e \in ValidEntry : Validate(e)

Spec == Init /\ [][Next]_validated
==============================================================================
