----------------------------- MODULE Structures -----------------------------
(***************************************************************************)
(* The records of the ledger and of the protocol as they are written into  *)
(* buffers and read back: transactions, blocks, accounts, proposals; and   *)
(* the Merkle roots that name sets of transactions.                        *)
(*                                                                         *)
(* A buffer is a sequence of cells, and a cell is a number.  Fields of     *)
(* fixed size that are written one after the other, and read in the same   *)
(* order, are one cell; a signature and a network address have as many     *)
(* cells as the record says.  0 is a hash that is null (and the mark after *)
(* an address); a signature of no cells is a record that is not signed.    *)
(*                                                                         *)
(* A reader takes a buffer and an offset (the cells read so far) and       *)
(* returns the record and the next offset, or Thrown where the code throws *)
(* because the buffer is too small.                                        *)
(***************************************************************************)
EXTENDS Integers, Sequences, SequencesExt

CONSTANT MaxAddresses   \* MAX_ACCOUNT_ADDRESSES

ASSUME AddressesAssumption == MaxAddresses \in Nat \ {0}

Thrown == [ok |-> FALSE]
Read(value, next) == [ok |-> TRUE, value |-> value, next |-> next]

Left(buffer, offset) == Len(buffer) - offset

\* deserializeField tests nothing.  Beyond the buffer lies whatever lies there: here 0.
Field(buffer, offset) == IF offset < Len(buffer) THEN buffer[offset + 1] ELSE 0

\* resize and memcpy of the cells of a signature.
Cells(buffer, offset, n) == [i \in 1 .. n |-> Field(buffer, offset + i - 1)]

-----------------------------------------------------------------------------
(* Transactions: [data, IDHash, signature].  data stands for version,      *)
(* sequence number, amount, time, sender and receiver; here the order of   *)
(* data is the order of senders and sequence numbers.                      *)

TxRecord == [data : Nat, IDHash : Nat, signature : Seq(Nat)]

TransactionSize(tx) == 3 + Len(tx.signature)

WriteTransaction(tx) == <<tx.data, tx.IDHash, Len(tx.signature)>> \o tx.signature

ReadTransaction(buffer, offset) ==
    LET signatureSize == Field(buffer, offset + 2)
    IN  IF Left(buffer, offset) < 3 \/ Left(buffer, offset + 3) < signatureSize THEN Thrown
        ELSE Read([data |-> Field(buffer, offset), IDHash |-> Field(buffer, offset + 1),
                   signature |-> Cells(buffer, offset + 3, signatureSize)],
                  offset + 3 + signatureSize)

-----------------------------------------------------------------------------
(* Blocks: [info, txRoot, previous, accRoot] and [count, txSet]            *)

HeaderSize == 4

HeaderRecord == [info : Nat, txRoot : Nat, previous : Nat, accRoot : Nat]

WriteBlockHeader(header) == <<header.info, header.txRoot, header.previous, header.accRoot>>

ReadBlockHeader(buffer, offset) ==
    IF Left(buffer, offset) < HeaderSize THEN Thrown
    ELSE Read([info |-> Field(buffer, offset), txRoot |-> Field(buffer, offset + 1),
               previous |-> Field(buffer, offset + 2), accRoot |-> Field(buffer, offset + 3)],
              offset + HeaderSize)

\* A TransactionSet holds one transaction of a sender and number.
IsBlockBody(body) ==
    /\ body \in [count : {Cardinality(body.txSet)}, txSet : SUBSET TxRecord]
    /\ IsFiniteSet(body.txSet)
    /\ \A t, u \in body.txSet : t.data = u.data => t = u

IsBlock(block) ==
    block \in [header : HeaderRecord, body : {block.body}] /\ IsBlockBody(block.body)

\* The order of a TransactionSet, which is the order of its cells.
InOrder(txSet) ==
    LET n == Cardinality(txSet)
    IN  CHOOSE order \in [1 .. n -> txSet] :
            \A i, k \in 1 .. n : i < k => order[i].data < order[k].data

BlockBodySize(body) == 1 + MapThenSumSet(TransactionSize, body.txSet)

\* Mutant of WriteBlockBody: every transaction is written in the place of the last one.
WriteBlockBodyLast(body) ==
    <<body.count>> \o FlattenSeq([i \in 1 .. Len(InOrder(body.txSet)) |->
                                    WriteTransaction(Last(InOrder(body.txSet)))])

WriteBlockBody(body) ==
    <<body.count>> \o FlattenSeq([i \in 1 .. Len(InOrder(body.txSet)) |->
                                    WriteTransaction(InOrder(body.txSet)[i])])

\* Mutant of ReadBlockBody: the last transaction is not read.
ReadBlockBodyShort(buffer, offset) ==
    LET next(soFar, i) ==
            LET tx == ReadTransaction(buffer, soFar.next)
            IN  IF ~ soFar.ok \/ ~ tx.ok THEN Thrown
                ELSE Read([soFar.value EXCEPT !.txSet = @ \union {tx.value}], tx.next)
        count == Field(buffer, offset)
    IN  FoldLeft(next, Read([count |-> count, txSet |-> {}], offset + 1),
                 [i \in 1 .. count - 1 |-> i])

\* insert leaves a set alone that has a transaction of that sender and number.
InsertTransaction(txSet, tx) ==
    IF \E t \in txSet : t.data = tx.data THEN txSet ELSE txSet \union {tx}

ReadBlockBody(buffer, offset) ==
    LET count == Field(buffer, offset)
        next(soFar, i) ==
            IF ~ soFar.ok THEN Thrown
            ELSE LET tx == ReadTransaction(buffer, soFar.next)
                 IN  IF ~ tx.ok THEN Thrown
                     ELSE Read([soFar.value EXCEPT !.txSet = InsertTransaction(@, tx.value)],
                               tx.next)
    IN  IF Left(buffer, offset) < 1 THEN Thrown
        ELSE FoldLeft(next, Read([count |-> count, txSet |-> {}], offset + 1),
                      [i \in 1 .. count |-> i])

BlockSize(block) == HeaderSize + BlockBodySize(block.body)

WriteBlock(block) == WriteBlockHeader(block.header) \o WriteBlockBody(block.body)

\* Block::serialize leaves the checks of the header on.
BlockMayBeWritten(block) ==
    block.header.txRoot # 0 /\ block.header.previous # 0 /\ block.header.accRoot # 0

ReadBlock(buffer, offset) ==
    LET header == ReadBlockHeader(buffer, offset)
        body == ReadBlockBody(buffer, header.next)
    IN  IF ~ header.ok THEN Thrown
        ELSE IF ~ body.ok THEN Thrown
        ELSE Read([header |-> header.value, body |-> body.value], body.next)

-----------------------------------------------------------------------------
(* Accounts: [publicKey, balance, txSequence, addresses]                   *)

\* The characters of an address are not 0.
AccountRecord ==
    [publicKey : Nat, balance : Nat, txSequence : Nat, addresses : Seq(Seq(Nat \ {0}))]

WriteAccountBalance(account) == <<account.publicKey, account.balance, account.txSequence>>

ReadAccountBalance(buffer, offset) ==
    IF Left(buffer, offset) < 3 THEN Thrown
    ELSE Read([publicKey |-> Field(buffer, offset), balance |-> Field(buffer, offset + 1),
               txSequence |-> Field(buffer, offset + 2)], offset + 3)

\* Every address counts, also those that are not written.
AccountAddressSize(addresses) == 1 + Len(FlattenSeq(addresses)) + Len(addresses)

Written(addresses) == SubSeq(addresses, 1, IF Len(addresses) > MaxAddresses THEN MaxAddresses
                                           ELSE Len(addresses))

WriteAccountAddress(addresses) ==
    <<Len(Written(addresses))>> \o
    FlattenSeq([i \in 1 .. Len(Written(addresses)) |-> Append(addresses[i], 0)])

\* The cells up to the next mark.
AddressAt(buffer, offset) ==
    LET mark == CHOOSE i \in offset .. offset + Len(buffer) :
                    /\ Field(buffer, i) = 0
                    /\ \A j \in offset .. i - 1 : Field(buffer, j) # 0
    IN  Cells(buffer, offset, mark - offset)

\* More addresses than there may be are not an error: none of them is read.
ReadAccountAddress(buffer, offset) ==
    LET nAddresses == Field(buffer, offset)
        next(soFar, i) ==
            LET address == AddressAt(buffer, soFar.next)
            IN  Read(Append(soFar.value, address), soFar.next + Len(address) + 1)
    IN  IF Left(buffer, offset) < 1 THEN Thrown
        ELSE IF nAddresses > MaxAddresses THEN Read(<<>>, offset + 1)
        ELSE FoldLeft(next, Read(<<>>, offset + 1), [i \in 1 .. nAddresses |-> i])

AccountSize(account) == 3 + AccountAddressSize(account.addresses)

WriteAccount(account) == WriteAccountBalance(account) \o WriteAccountAddress(account.addresses)

ReadAccount(buffer, offset) ==
    LET balance == ReadAccountBalance(buffer, offset)
        addresses == ReadAccountAddress(buffer, balance.next)
    IN  IF ~ balance.ok THEN Thrown
        ELSE Read([publicKey |-> balance.value.publicKey, balance |-> balance.value.balance,
                   txSequence |-> balance.value.txSequence, addresses |-> addresses.value],
                  addresses.next)

-----------------------------------------------------------------------------
(* Proposals: [data, issuer, blockId, signature, header] and               *)
(* [data, issuer, TxSetId, previousBlockId, signature, body]               *)

BlockProposalRecord ==
    [data : Nat, issuer : Nat, blockId : Nat, signature : Seq(Nat), header : HeaderRecord]

BlockProposalSize(prop) == 4 + Len(prop.signature) + HeaderSize

\* The checks of the header are off: it has no root of the accounts yet.
WriteBlockProposal(prop) ==
    <<prop.data, prop.issuer, prop.blockId, Len(prop.signature)>> \o prop.signature \o
    WriteBlockHeader(prop.header)

ReadBlockProposal(buffer, offset) ==
    LET signatureSize == Field(buffer, offset + 3)
        header == ReadBlockHeader(buffer, offset + 4 + signatureSize)
    IN  IF Left(buffer, offset) < 4 \/ Left(buffer, offset + 4) < signatureSize THEN Thrown
        ELSE IF ~ header.ok THEN Thrown
        ELSE Read([data |-> Field(buffer, offset), issuer |-> Field(buffer, offset + 1),
                   blockId |-> Field(buffer, offset + 2),
                   signature |-> Cells(buffer, offset + 4, signatureSize),
                   header |-> header.value], header.next)

IsTxSetProposal(prop) ==
    /\ prop \in [data : Nat, issuer : Nat, TxSetId : Nat, previousBlockId : Nat,
                 signature : Seq(Nat), body : {prop.body}]
    /\ IsBlockBody(prop.body)

TxSetProposalSize(prop) == 5 + Len(prop.signature) + BlockBodySize(prop.body)

WriteTxSetProposal(prop) ==
    <<prop.data, prop.issuer, prop.TxSetId, prop.previousBlockId, Len(prop.signature)>> \o
    prop.signature \o WriteBlockBody(prop.body)

ReadTxSetProposal(buffer, offset) ==
    LET signatureSize == Field(buffer, offset + 4)
        body == ReadBlockBody(buffer, offset + 5 + signatureSize)
    IN  IF Left(buffer, offset) < 5 \/ Left(buffer, offset + 5) < signatureSize THEN Thrown
        ELSE IF ~ body.ok THEN Thrown
        ELSE Read([data |-> Field(buffer, offset), issuer |-> Field(buffer, offset + 1),
                   TxSetId |-> Field(buffer, offset + 2),
                   previousBlockId |-> Field(buffer, offset + 3),
                   signature |-> Cells(buffer, offset + 5, signatureSize),
                   body |-> body.value], body.next)

-----------------------------------------------------------------------------
(* Merkle roots.  A hash is a number; the hash of two hashes, or of a hash *)
(* and a cell, is another one for every pair of small numbers.             *)

Hash(a, b) == ((a + b) * (a + b + 1)) \div 2 + b + 10

\* The last hash of an odd level is taken twice.
Even(level) == IF Len(level) % 2 = 1 THEN Append(level, Last(level)) ELSE level

EmptyRoot == 1

ComputeMerkleRoot(leaves) ==
    LET above(level) == [i \in 1 .. Len(Even(level)) \div 2 |->
                            Hash(Even(level)[2 * i - 1], Even(level)[2 * i])]
        shorter(level, i) == IF Len(level) <= 1 THEN level ELSE above(level)
    IN  IF leaves = <<>> THEN EmptyRoot ELSE FoldLeft(shorter, leaves, leaves)[1]

ComputeTxSetMerkleRoot(txSet) ==
    ComputeMerkleRoot([i \in 1 .. Len(InOrder(txSet)) |-> InOrder(txSet)[i].IDHash])
=============================================================================
