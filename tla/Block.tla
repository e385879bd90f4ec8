-------------------------------- MODULE Block --------------------------------
(* A block as the wallet library assembles it (types/block.go): GetBlocks of     *)
(* rpc/client.go gives it the bytes of a block and of its transactions,          *)
(* FullfillBlockHeader parses it and GetHashingBlob, of which GetBlockId is the  *)
(* hash, serialises it again.                                                    *)
(*                                                                               *)
(* The bytes are a sequence of fields, each one token whatever its width: a      *)
(* number or some data.  A reader that is out of step takes the wrong field.     *)
EXTENDS Integers, SequencesExt

CONSTANTS
    Blocks,         \* [name, outs, extra, txs]: what the daemon may answer; outs is the
                    \* sequence of output types of the miner transaction, extra and txs counts
    TxPool,         \* bytes of transactions that may be inserted
    MaxInserts, MaxParses,  \* bounds of the exploration
    MaxMisread              \* of a number read where there is none

TxOutToKey       == 2
TxOutToTaggedKey == 3

ASSUME BlockAssumption ==
    Blocks \subseteq [name : STRING, outs : Seq({TxOutToKey, TxOutToTaggedKey}),
                      extra : Nat, txs : Nat]
ASSUME BoundAssumption == MaxInserts \in Nat /\ MaxParses \in Nat /\ MaxMisread \in Nat

VARIABLES
    block,          \* the bytes of the block
    tx,             \* the bytes of its transactions
    header,         \* MajorVersion, MinorVersion, Timestamp, PreviousBlockHash, Nonce
    minerTx,        \* [base, outs, extra]
    txsCount, TXs,  \* number of transactions; their [hash, raw]
    given,          \* history: the block SetBlockData was called with
    parsed,         \* history: the blocks that FullfillBlockHeader parsed
    orderly         \* history: one block, its transactions inserted in its order

vars == <<block, tx, header, minerTx, txsCount, TXs, given, parsed, orderly>>

-----------------------------------------------------------------------------
(* Bytes.                                                                     *)

Num(n)     == [num |-> n]
Data(b, f) == [data |-> <<b.name, f>>]
Keccak256(x) == [keccak |-> x]

ZeroHash == Num(0)
NoRaw    == Num(0)

TxData(b, i) == [tx |-> <<b.name, i>>]
TxHash(b, i) == Keccak256(<<TxData(b, i)>>)

\* One output: amount, type, target and, if it is tagged, view tag.
OutBytes(b, i) ==
    <<Data(b, "amount"), Num(b.outs[i]), Data(b, "target")>> \o
        (IF b.outs[i] = TxOutToTaggedKey THEN <<Data(b, "view tag")>> ELSE <<>>)

HeaderBytes(b) == <<Data(b, "major"), Data(b, "minor"), Data(b, "time"), Data(b, "prev"),
                    Data(b, "nonce")>>

MinerBytes(b) ==
    <<Data(b, "version"), Data(b, "unlock"), Num(1), Num(255), Data(b, "height"),
      Num(Len(b.outs))>>
    \o FlattenSeq([i \in DOMAIN b.outs |-> OutBytes(b, i)])
    \o <<Num(b.extra)>> \o [i \in 1 .. b.extra |-> Data(b, "extra")]

TxHashes(b) == [i \in 1 .. b.txs |-> TxHash(b, i)]

\* A block as the daemon sends it; the 0 is the signature type of its miner transaction.
BlockBytes(b) == HeaderBytes(b) \o MinerBytes(b) \o <<Num(0), Num(b.txs)>> \o TxHashes(b)

At(i) == IF i <= Len(block) THEN block[i] ELSE Num(0)

\* The numbers that a read at position i can give.
NumAt(i) == IF DOMAIN At(i) = {"num"} THEN {At(i).num} ELSE 0 .. MaxMisread

-----------------------------------------------------------------------------
Init ==
    /\ block = <<>> /\ tx = <<>>
    /\ header = [i \in 1 .. 5 |-> Num(0)]
    /\ minerTx = [base |-> [i \in 1 .. 5 |-> Num(0)], outs |-> <<>>, extra |-> <<>>]
    /\ txsCount = 0 /\ TXs = <<>>
    /\ given = {} /\ parsed = <<>> /\ orderly = TRUE

SetBlockData(b) ==
    /\ block' = BlockBytes(b)
    /\ given' = {b}
    /\ orderly' = (orderly /\ given = {} /\ tx = <<>>)
    /\ UNCHANGED <<tx, header, minerTx, txsCount, TXs, parsed>>

NextOfGiven(data) == \E b \in given : Len(tx) < b.txs /\ data = TxData(b, Len(tx) + 1)

InsertTx(data) ==
    /\ Len(tx) < MaxInserts
    /\ tx' = Append(tx, data)
    /\ orderly' = (orderly /\ NextOfGiven(data))
    /\ UNCHANGED <<block, header, minerTx, txsCount, TXs, given, parsed>>

\* Outputs are read as if each had a view tag, from position 12 on.
ParsedOut(i) ==
    [amount |-> At(8 + 4 * i), type |-> At(9 + 4 * i), target |-> At(10 + 4 * i),
     viewTag |-> At(11 + 4 * i)]

\* Bug: one transaction more than is counted.
ParsedTxs_OneMore(first, count) ==
    TXs \o [i \in 1 .. count + 1 |->
                [hash |-> At(first + i), raw |-> IF i <= Len(tx) THEN tx[i] ELSE NoRaw]]

\* Bug: the hash of the transaction before.
ParsedTxs_Shifted(first, count) ==
    TXs \o [i \in 1 .. count |->
                [hash |-> At(first + i - 1), raw |-> IF i <= Len(tx) THEN tx[i] ELSE NoRaw]]

\* The list of an earlier parse is appended to.
ParsedTxs(first, count) ==
    TXs \o [i \in 1 .. count |->
                [hash |-> At(first + i), raw |-> IF i <= Len(tx) THEN tx[i] ELSE NoRaw]]

\* Errors of the reader are ignored: what is read behind the end is zero.
FullfillBlockHeader ==
    /\ Len(parsed) < MaxParses
    /\ block # <<>>
    /\ \E outputNum \in NumAt(11) :
       \E extraSize \in NumAt(12 + 4 * outputNum) :
          LET extraAt == 12 + 4 * outputNum
              countAt == extraAt + extraSize + 2
          IN  /\ minerTx' = [base  |-> SubSeq(block, 6, 10),
                             outs  |-> [i \in 1 .. outputNum |-> ParsedOut(i)],
                             extra |-> [i \in 1 .. extraSize |-> At(extraAt + i)]]
              /\ txsCount' \in NumAt(countAt)
              /\ TXs' = ParsedTxs(countAt, txsCount')
    /\ header' = SubSeq(block, 1, 5)
    /\ \E b \in given : parsed' = Append(parsed, b)
    /\ UNCHANGED <<block, tx, given, orderly>>

\* "block data too short"; nothing is changed.
FullfillFails == block = <<>> /\ UNCHANGED vars

Next ==
    \/ \E b \in Blocks : SetBlockData(b)
    \/ \E data \in TxPool : InsertTx(data)
    \/ FullfillBlockHeader
    \/ FullfillFails

Spec == Init /\ [][Next]_vars

-----------------------------------------------------------------------------
(* The merkle root, in place in one array.                                    *)

\* leafHash of the slice that begins at position k.
leafHash(t, k) == IF k = Len(t) THEN t[k] ELSE Keccak256(<<t[k], t[k + 1]>>)

\* 1 << e, and the e of the largest such number that is not above x.
Shifted[e \in Nat] == IF e = 0 THEN 1 ELSE 2 * Shifted[e - 1]
Exponent(x) == CHOOSE e \in 0 .. x : Shifted[e] <= x /\ x < 2 * Shifted[e]
PreviousPowerOfTwo(x) == Shifted[Exponent(x)]

\* One round: entry i becomes the hash of entries 2i - 1 and 2i, from the first on.
Halve(t, n) ==
    LET after[i \in 0 .. n] ==
            IF i = 0 THEN t ELSE [after[i - 1] EXCEPT ![i] = leafHash(after[i - 1], 2 * i - 1)]
    IN  after[n]

\* Bug: the entries that have no partner are taken from the end.
Leaves_First(t, pow2cnt) ==
    LET offset == 2 * pow2cnt - Len(t)
    IN  [j \in 1 .. pow2cnt |-> IF j <= pow2cnt - offset THEN leafHash(t, 2 * j - 1)
                                ELSE t[Len(t) - pow2cnt + j]]

\* A power of two: the first entries as they are, the others hashed in pairs.
Leaves(t, pow2cnt) ==
    LET offset == 2 * pow2cnt - Len(t)
    IN  [j \in 1 .. pow2cnt |-> IF j <= offset THEN t[j] ELSE leafHash(t, 2 * j - offset - 1)]

calcMerkleRoot(t) ==
    IF Len(t) <= 2 THEN leafHash(t, 1)
    ELSE LET e == Exponent(Len(t))
             after[round \in 0 .. e - 1] ==
                 IF round = 0 THEN Leaves(t, PreviousPowerOfTwo(Len(t)))
                 ELSE Halve(after[round - 1], Shifted[e - round])
         IN  leafHash(after[e - 1], 1)

\* What is written of an output depends on its type.
OutBuff(o) ==
    <<o.amount, o.type>>
    \o (IF o.type \in {Num(TxOutToKey), Num(TxOutToTaggedKey)} THEN <<o.target>> ELSE <<>>)
    \o (IF o.type = Num(TxOutToTaggedKey) THEN <<o.viewTag>> ELSE <<>>)

CalculateMinerBuff ==
    minerTx.base \o <<Num(Len(minerTx.outs))>>
    \o FlattenSeq([i \in DOMAIN minerTx.outs |-> OutBuff(minerTx.outs[i])])
    \o <<Num(Len(minerTx.extra))>> \o minerTx.extra

\* The hash of three hashes: the prefix, an empty signature and no proof.
MinerTxHash(buff) == Keccak256(<<Keccak256(buff), Keccak256(<<Num(0)>>), ZeroHash>>)
CalculateMinerTxHash == MinerTxHash(CalculateMinerBuff)

GetHashingBlob ==
    [header     |-> header,
     merkleroot |-> calcMerkleRoot(<<CalculateMinerTxHash>> \o
                        [i \in 1 .. txsCount |-> IF i <= Len(TXs) THEN TXs[i].hash ELSE ZeroHash]),
     txcount    |-> txsCount + 1]

\* The array of hashes has room for txsCount of them.
GetHashingBlobPanics == Len(TXs) > txsCount

-----------------------------------------------------------------------------
(* Properties.                                                                *)

\* The root of a hash tree with a power of two of leaves: node i has the children
\* 2i and 2i + 1, and the last Len(t) nodes are the leaves.
Perfect(t) ==
    LET node[i \in 1 .. 2 * Len(t) - 1] ==
            IF i >= Len(t) THEN t[i - Len(t) + 1] ELSE Keccak256(<<node[2 * i], node[2 * i + 1]>>)
    IN  node[1]

\* Monero's tree hash: of n > 1 hashes the last 2(n - c) are paired, where c is the
\* largest power of two below n, which leaves c of them.
TreeHash(t) ==
    IF Len(t) = 1 THEN t[1]
    ELSE LET n == Len(t)
             c == CHOOSE p \in 1 .. n - 1 : 2 * p >= n /\ \E e \in 0 .. n : p = Shifted[e]
             pairs == [i \in 1 .. n - c |->
                          Keccak256(<<t[2 * c - n + 2 * i - 1], t[2 * c - n + 2 * i]>>)]
         IN  Perfect(SubSeq(t, 1, 2 * c - n) \o pairs)

HashingBlobOf(b) ==
    [header     |-> HeaderBytes(b),
     merkleroot |-> TreeHash(<<MinerTxHash(MinerBytes(b))>> \o TxHashes(b)),
     txcount    |-> b.txs + 1]

AllTagged(b) == \A i \in DOMAIN b.outs : b.outs[i] = TxOutToTaggedKey

\* The identifier of a block that was parsed once is computed from exactly what the
\* daemon sent: header, miner transaction and the tree hash of all its
\* transactions, however many there are, and whatever was inserted in between.
IdentifiesBlock ==
    Len(parsed) = 1 /\ AllTagged(parsed[1]) => GetHashingBlob = HashingBlobOf(parsed[1])

\* A parse appends its transactions to those of the parses before, but replaces
\* the count: asking for the identifier then panics, if and only if one of the
\* parses before had a transaction.
PanicsIfReparsed ==
    (\A i \in DOMAIN parsed : AllTagged(parsed[i])) =>
        (GetHashingBlobPanics <=>
            \E i \in DOMAIN parsed : i < Len(parsed) /\ parsed[i].txs > 0)

\* In one block whose transactions are inserted in its order, the bytes that go
\* with a hash are those of the transaction with that hash, after any number of
\* parses; transactions inserted after the parse have no bytes.
RawHasHash ==
    orderly =>
        \A b \in given : AllTagged(b) =>
            \A i \in DOMAIN TXs : TXs[i].raw # NoRaw => TXs[i].hash = Keccak256(<<TXs[i].raw>>)

\* Parser and serialiser agree on which outputs have a view tag: what is hashed of a
\* parsed miner transaction are the bytes it was parsed from.
MinerTxRoundTrips ==
    Len(parsed) = 1 => CalculateMinerBuff = MinerBytes(parsed[1])
=============================================================================
