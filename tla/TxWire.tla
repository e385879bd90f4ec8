------------------------------- MODULE TxWire -------------------------------
(* The bytes of a transaction (types/tx.go): Serialize and its inverse,        *)
(* ParseTx and ParseRctSig, with ParseTxExtra of util/crypto.go.  A wire is a  *)
(* sequence of fields, each with its width; what is in a field is whatever was *)
(* written there.  A reader that meets a field of another width than it        *)
(* expects is out of step, and what it reads from there on is not modelled.    *)
EXTENDS Integers, SequencesExt

CONSTANTS
    RingSize,   \* key offsets of an input, 16 in the code
    Rounds,     \* entries of L and of R of a range proof
    ZeroBytes   \* what a reader leaves in a field of bytes at the end of the wire

ASSUME WireAssumption == RingSize \in Nat \ {0} /\ Rounds \in Nat \ {0}

\* Widths: a varint, a byte, eight bytes, 32 bytes, and the extra field with its length.
Varint(n)  == [width |-> "varint", value |-> n]
Byte(b)    == [width |-> "byte", value |-> b]
Amount8(a) == [width |-> "amount", value |-> a]
Hash(h)    == [width |-> "hash", value |-> h]
Extra(e)   == [width |-> "extra", value |-> e]

\* Types of inputs and of ring confidential transactions.
ToKey         == 2
Generated     == 255
RctNull       == 0
RctBpp        == 6
CompactAmount == {4, 5, 6}

-----------------------------------------------------------------------------
(* A Transaction, as far as it is written and read.                           *)

EmptyTx == [unlock |-> 0, vinCount |-> 0, inputs |-> <<>>, voutCount |-> 0, outputs |-> <<>>,
            extra |-> <<>>, raw |-> <<>>, rctRaw |-> <<>>, signature |-> <<>>, prunable |-> <<>>,
            inStep |-> TRUE]

NewInput(type) == [type |-> type, height |-> 0, offsets |-> <<>>, image |-> ZeroBytes]

-----------------------------------------------------------------------------
(* Serialize: CalculatePart1, CalculatePart2 and CalculatePart3.              *)

Concat(Write(_), s) == FlattenSeq([i \in DOMAIN s |-> Write(s[i])])
Each(Write(_), s)   == [i \in DOMAIN s |-> Write(s[i])]

\* Of a generated input only the type is written.
InputFields(input) ==
    <<Byte(input.type)>> \o
    IF input.type = ToKey
    THEN <<Varint(0), Varint(Len(input.offsets))>> \o Each(Varint, input.offsets)
             \o <<Hash(input.image)>>
    ELSE <<>>

OutputFields(output) == <<Varint(0), Byte(3), Hash(output.target), Byte(output.viewTag)>>

Part1Fields(tx) ==
    <<Varint(2), Varint(tx.unlock), Varint(Len(tx.inputs))>> \o Concat(InputFields, tx.inputs)
        \o <<Varint(Len(tx.outputs))>> \o Concat(OutputFields, tx.outputs)
        \o <<Extra(tx.extra)>>

\* A zero mask is written as bytes unless the type says that amounts are compact.
EcdhFields(type, ecdh) ==
    IF type \in CompactAmount THEN <<Amount8(ecdh)>> ELSE <<Hash(ZeroBytes), Amount8(ecdh)>>

Part2Fields(tx) ==
    LET sig == tx.signature[1]
    IN  <<Varint(sig.type), Varint(sig.fee)>>
            \o Concat(LAMBDA ecdh : EcdhFields(sig.type, ecdh), sig.ecdhInfo)
            \o Each(Hash, sig.outPk)

BppFields(bpp) ==
    Each(Hash, bpp.head) \o <<Varint(Len(bpp.L))>> \o Each(Hash, bpp.L)
        \o <<Varint(Len(bpp.R))>> \o Each(Hash, bpp.R)

ClsagFields(clsag) == Each(Hash, clsag.S) \o <<Hash(clsag.C1), Hash(clsag.D)>>

\* The number of range proofs is written as 1, whatever it is.
Part3Fields(tx) ==
    LET prunable == tx.prunable[1]
    IN  <<Varint(1)>> \o Concat(BppFields, prunable.bpp)
            \o Concat(ClsagFields, prunable.clsags) \o Each(Hash, prunable.pseudoOuts)

SerializedTx(tx) == Part1Fields(tx) \o Part2Fields(tx) \o Part3Fields(tx)

-----------------------------------------------------------------------------
(* Reading.  Errors of the reader are ignored: behind the end a number is     *)
(* zero and bytes stay as they were.                                           *)

Reader(fields) == [rest |-> fields, got |-> <<>>, inStep |-> TRUE]

Zero(width) == IF width \in {"varint", "byte"} THEN 0 ELSE IF width = "extra" THEN <<>> ELSE ZeroBytes

ReadField(r, width) ==
    LET fits == r.rest # <<>> /\ Head(r.rest).width = width
    IN  [rest   |-> IF fits THEN Tail(r.rest) ELSE r.rest,
         got    |-> Append(r.got, IF fits THEN Head(r.rest).value ELSE Zero(width)),
         inStep |-> r.inStep /\ (fits \/ r.rest = <<>>)]

\* for i := 1; i <= n; i++: what is left of r by n steps.
Loop(Step(_, _), r, n) ==
    LET after[i \in 0 .. n] == IF i = 0 THEN r ELSE Step(after[i - 1], i)
    IN  after[n]

\* got is what fields of these widths hold, in order.
ReadAll(r, widths) ==
    Loop(LAMBDA before, i : ReadField(before, widths[i]), [r EXCEPT !.got = <<>>], Len(widths))

Times(n, width) == [i \in 1 .. n |-> width]

\* Read something n times; got is the sequence of what was read.
ReadEach(ReadOne(_), r, n) ==
    Loop(LAMBDA before, i : LET one == ReadOne(before)
                            IN  [one EXCEPT !.got = Append(before.got, one.got)],
         [r EXCEPT !.got = <<>>], n)

ReadInput(r) ==
    LET type    == ReadAll(r, <<"byte">>)
        height  == ReadAll(type, <<"varint">>)
        counts  == ReadAll(type, <<"varint", "varint">>)
        offsets == ReadAll(counts, Times(counts.got[2], "varint"))
        image   == ReadAll(offsets, <<"hash">>)
        new     == NewInput(type.got[1])
    IN  CASE type.got[1] = Generated ->
               [height EXCEPT !.got = [new EXCEPT !.height = height.got[1]]]
          [] type.got[1] = ToKey ->
               [image EXCEPT !.got = [new EXCEPT !.offsets = offsets.got, !.image = image.got[1]]]
          [] OTHER ->
               [type EXCEPT !.got = new]

ReadOutput(r) ==
    LET all == ReadAll(r, <<"varint", "byte", "hash", "byte">>)
    IN  [all EXCEPT !.got = [target |-> all.got[3], viewTag |-> all.got[4]]]

\* Inputs and outputs are appended to what an earlier call left.
ParseTx(tx) ==
    LET head    == ReadAll(Reader(tx.raw), <<"varint", "varint", "varint">>)
        ins     == ReadEach(ReadInput, head, head.got[3])
        vouts   == ReadAll(ins, <<"varint">>)
        outs    == ReadEach(ReadOutput, vouts, vouts.got[1])
        xtra    == ReadAll(outs, <<"extra">>)
    IN  [tx EXCEPT !.unlock = head.got[2], !.vinCount = head.got[3], !.inputs = @ \o ins.got,
                   !.voutCount = vouts.got[1], !.outputs = @ \o outs.got,
                   !.extra = xtra.got[1], !.rctRaw = xtra.rest,
                   !.inStep = @ /\ xtra.inStep]

\* Bug: the mask is read whatever the type.
EcdhWidths_Masked(type) == <<"hash", "amount">>

EcdhWidths(type) == IF type \in CompactAmount THEN <<"amount">> ELSE <<"hash", "amount">>

ReadEcdh(r, type) ==
    LET all == ReadAll(r, EcdhWidths(type)) IN [all EXCEPT !.got = all.got[Len(all.got)]]

ReadBpp(r) ==
    LET head == ReadAll(r, Times(6, "hash"))
        ls   == ReadAll(head, <<"varint">>)
        l    == ReadAll(ls, Times(ls.got[1], "hash"))
        rs   == ReadAll(l, <<"varint">>)
        rr   == ReadAll(rs, Times(rs.got[1], "hash"))
    IN  [rr EXCEPT !.got = [head |-> head.got, L |-> l.got, R |-> rr.got]]

\* As many responses as the input has key offsets.
ReadClsag(r, input) ==
    LET s    == ReadAll(r, Times(Len(input.offsets), "hash"))
        rest == ReadAll(s, <<"hash", "hash">>)
    IN  [rest EXCEPT !.got = [S |-> s.got, C1 |-> rest.got[1], D |-> rest.got[2]]]

\* The loops run over len(tx.Outputs) and over VinCount.
ParseRctSig(tx) ==
    LET head  == ReadAll(Reader(tx.rctRaw), <<"varint", "varint">>)
        ecdh  == ReadEach(LAMBDA r : ReadEcdh(r, head.got[1]), head, Len(tx.outputs))
        outPk == ReadAll(ecdh, Times(Len(tx.outputs), "hash"))
        nbp   == ReadAll(outPk, <<"varint">>)
        bpps  == ReadEach(ReadBpp, nbp, nbp.got[1])
        clsags == Loop(LAMBDA before, i :
                          LET one == ReadClsag(before, tx.inputs[i])
                          IN  [one EXCEPT !.got = Append(before.got, one.got)],
                       [bpps EXCEPT !.got = <<>>], tx.vinCount)
        pseudo == ReadAll(clsags, Times(tx.vinCount, "hash"))
    IN  IF tx.rctRaw = <<>> THEN tx
        ELSE [tx EXCEPT
                !.signature = <<[type |-> head.got[1], fee |-> head.got[2],
                                 ecdhInfo |-> ecdh.got, outPk |-> outPk.got]>>,
                !.prunable  = <<[bpp |-> bpps.got, clsags |-> clsags.got,
                                 pseudoOuts |-> pseudo.got]>>,
                !.rctRaw    = pseudo.rest,
                !.inStep    = @ /\ pseudo.inStep]

-----------------------------------------------------------------------------
(* ParseTxExtra.  The last public key and the last nonce of a kind count; an   *)
(* unknown tag ends the reading; the length of additional keys is taken for a  *)
(* number of bytes.                                                            *)

ParsedExtra == [txPubKey |-> <<>>, additional |-> 0, encPID |-> <<>>, ok |-> TRUE, ended |-> FALSE]

\* Bug: additional keys are of no concern, whatever their length.
ExtraItem_AnyLength(got, item) ==
    IF got.ended THEN got
    ELSE CASE item.tag = "padding"      -> got
           [] item.tag = "pubkey"       -> [got EXCEPT !.txPubKey = <<item.value>>]
           [] item.tag = "encrypted id" -> [got EXCEPT !.encPID = <<item.value>>]
           [] item.tag = "additional"   -> [got EXCEPT !.additional = @ + item.value]
           [] OTHER                     -> [got EXCEPT !.ended = TRUE]

ExtraItem(got, item) ==
    IF got.ended THEN got
    ELSE CASE item.tag = "padding"      -> got
           [] item.tag = "pubkey"       -> [got EXCEPT !.txPubKey = <<item.value>>]
           [] item.tag = "encrypted id" -> [got EXCEPT !.encPID = <<item.value>>]
           [] item.tag = "additional"   ->
                IF item.value % 32 = 0 THEN [got EXCEPT !.additional = @ + item.value \div 32]
                                       ELSE [got EXCEPT !.ok = FALSE, !.ended = TRUE]
           [] OTHER                     -> [got EXCEPT !.ended = TRUE]

ParseTxExtra(extra) ==
    Loop(LAMBDA got, i : ExtraItem(got, extra[i]), ParsedExtra, Len(extra))
=============================================================================
