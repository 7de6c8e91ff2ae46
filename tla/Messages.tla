------------------------------ MODULE Messages ------------------------------
(***************************************************************************)
(* The messages between two peers: a header of four cells and a payload.   *)
(*                                                                         *)
(* A message is [type, content]; the content of VERSION is a cell, that of *)
(* INV and GETDATA a sequence of inventories (a cell each), that of ACK    *)
(* nothing, and that of the others a record of Structures.                 *)
(***************************************************************************)
EXTENDS Structures

CONSTANTS
    Magic,          \* MESSAGE_MAGIC_CONST
    HashBase,       \* the hash of a payload is a polynomial in HashBase ...
    HashModulus     \* ... modulo HashModulus

ASSUME HashAssumption ==
    Magic \in Nat \ {0} /\ HashBase \in Nat \ {0} /\ HashModulus \in Nat \ {0}

VERSION == 0
ACK == 1
INV == 50
GETDATA == 51
TX == 100
BLOCKPROPOSAL == 101
TXSETPROPOSAL == 102
ACCOUNT == 104
BLOCK == 105

MessageType == {VERSION, ACK, INV, GETDATA, TX, BLOCKPROPOSAL, TXSETPROPOSAL, ACCOUNT, BLOCK}

MessageHeaderSize == 4

IsMessage(message) ==
    LET content == message.content
    IN  /\ message.type \in MessageType
        /\ message.type = VERSION => content \in Nat
        /\ message.type \in {INV, GETDATA} => content \in Seq(Nat)
        /\ message.type = TX => content \in TxRecord
        /\ message.type = BLOCKPROPOSAL => content \in BlockProposalRecord
        /\ message.type = TXSETPROPOSAL => IsTxSetProposal(content)
        /\ message.type = ACCOUNT => content \in AccountRecord
        /\ message.type = BLOCK => IsBlock(content)

\* The size with which the message is made.
PayloadSize(message) ==
    LET content == message.content
    IN  CASE message.type = VERSION -> 1
          [] message.type = ACK -> 0
          [] message.type \in {INV, GETDATA} -> Len(content)
          [] message.type = TX -> TransactionSize(content)
          [] message.type = BLOCKPROPOSAL -> BlockProposalSize(content)
          [] message.type = TXSETPROPOSAL -> TxSetProposalSize(content)
          [] message.type = ACCOUNT -> AccountSize(content)
          [] message.type = BLOCK -> BlockSize(content)

Serialized(message) ==
    LET content == message.content
    IN  CASE message.type = VERSION -> <<content>>
          [] message.type = ACK -> <<>>
          [] message.type \in {INV, GETDATA} -> content
          [] message.type = TX -> WriteTransaction(content)
          [] message.type = BLOCKPROPOSAL -> WriteBlockProposal(content)
          [] message.type = TXSETPROPOSAL -> WriteTxSetProposal(content)
          [] message.type = ACCOUNT -> WriteAccount(content)
          [] message.type = BLOCK -> WriteBlock(content)

\* resize(size, 0), and the record is written over that.
Payload(message) ==
    [i \in 1 .. PayloadSize(message) |-> Field(Serialized(message), i - 1)]

Deserialized(type, payload) ==
    CASE type = VERSION -> Read(Field(payload, 0), 1)
      [] type = ACK -> Read(<<>>, 0)
      [] type \in {INV, GETDATA} -> Read(payload, Len(payload))
      [] type = TX -> ReadTransaction(payload, 0)
      [] type = BLOCKPROPOSAL -> ReadBlockProposal(payload, 0)
      [] type = TXSETPROPOSAL -> ReadTxSetProposal(payload, 0)
      [] type = ACCOUNT -> ReadAccount(payload, 0)
      [] type = BLOCK -> ReadBlock(payload, 0)

\* 32 bits of the hash of the payload.  Magic is the hash of nothing.
CheckSum(payload) ==
    FoldLeft(LAMBDA hash, cell : (hash * HashBase + cell + 1) % HashModulus, Magic, payload)

MessageHeader(cells) ==
    [magicNum |-> Field(cells, 0), type |-> Field(cells, 1), size |-> Field(cells, 2),
     checkSum |-> Field(cells, 3)]

\* The cells that sendMessage writes.
OnWire(message) ==
    <<Magic, message.type, PayloadSize(message), CheckSum(Payload(message))>> \o Payload(message)

\* Mutant of checkMessage: a complete message is not compared with its check sum.
checkComplete(header, cells) ==
    Len(cells) = MessageHeaderSize + header.size /\ header.magicNum = Magic

\* The header is the one that was peeked, not the one in the cells that were read.
checkMessage(header, cells) ==
    /\ Len(cells) = MessageHeaderSize + header.size
    /\ header.magicNum = Magic
    /\ header.checkSum = CheckSum(SubSeq(cells, MessageHeaderSize + 1, Len(cells)))
=============================================================================
