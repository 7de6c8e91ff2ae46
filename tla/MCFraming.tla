----------------------------- MODULE MCFraming -----------------------------
(***************************************************************************)
(* Framing for TLC: two messages, each of a kind that the program sends,   *)
(* fragments of five cells and accounts with at most one address written.  *)
(* The smallest message has four cells, the longest one fifteen.           *)
(***************************************************************************)
EXTENDS Framing

Tx1 == [data |-> 1, IDHash |-> 4, signature |-> <<6>>]

NewHeader == [info |-> 1, txRoot |-> 2, previous |-> 3, accRoot |-> 0]

Sent ==
    <<[type |-> VERSION, content |-> 1], [type |-> ACK, content |-> 0],
     [type |-> TX, content |-> Tx1],
     [type |-> INV, content |-> <<1, 2>>],
     [type |-> BLOCKPROPOSAL,
      content |-> [data |-> 1, issuer |-> 2, blockId |-> 3, signature |-> <<5>>,
                   header |-> NewHeader]],
     [type |-> TXSETPROPOSAL,
      content |-> [data |-> 1, issuer |-> 2, TxSetId |-> 3, previousBlockId |-> 4,
                   signature |-> <<5>>, body |-> [count |-> 1, txSet |-> {Tx1}]]],
     [type |-> ACCOUNT,
      content |-> [publicKey |-> 1, balance |-> 2, txSequence |-> 0,
                   addresses |-> <<<<8>>, <<9>>>>]]>>
=============================================================================
