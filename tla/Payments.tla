------------------------------ MODULE Payments ------------------------------
(***************************************************************************)
(* What the ledger of a node promises: payments are applied in batches,    *)
(* each at most once, and those of one account in the order of their       *)
(* sequence numbers.                                                       *)
(***************************************************************************)
EXTENDS Naturals, FiniteSets

CONSTANTS
    Account,        \* the accounts there are
    Payment         \* records with a sender and a sequence number

VARIABLES
    applied,        \* the payments made so far
    paid,           \* how often a payment was made
    last            \* the number of the last payment each account made, or where it starts

vars == <<applied, paid, last>>

Init ==
    /\ applied = {}
    /\ paid = 0
    /\ last \in [Account -> Nat]

SameSlot(p, q) == p.sender = q.sender /\ p.sequence = q.sequence

\* New payments, one for each number and all above the last, become applied.
Apply(batch) ==
    /\ \A p \in batch : p.sequence > last[p.sender]
    /\ \A p, q \in batch : SameSlot(p, q) => p = q
    /\ applied' = applied \union batch
    /\ paid' = paid + Cardinality(batch)
    /\ last' \in [Account -> Nat]
    /\ \A a \in Account :
        LET numbers == {p.sequence : p \in {q \in batch : q.sender = a}}
        IN  IF numbers = {} THEN last'[a] = last[a]
            ELSE last'[a] \in numbers /\ \A n \in numbers : n <= last'[a]

Next == \E batch \in SUBSET Payment : Apply(batch)

Spec == Init /\ [][Next]_vars
==============================================================================
