------------------------------- MODULE TxScan -------------------------------
(* The transaction builder together with a wallet that receives a transaction: *)
(* what the builder sends, or one that Monero's own software made.  The wallet *)
(* parses it with ParseTx and ParseRctSig, as often and in whatever order it   *)
(* likes, and CheckOutputs of types/tx.go looks for its money.                 *)
EXTENDS TxBuilder, TxWire

CONSTANTS
    AtomicToXmr(_), \* an amount in atomic units as a float64 of XMR
    XmrPlus(_, _),  \* the sum of two such numbers, rounded to one
    MaxCalls        \* bound of the exploration: calls of the receiver

ASSUME XmrAssumption == XmrPlus(0, 0) = 0

VARIABLES
    rx,         \* the Transaction object of the receiver
    origin,     \* history: who made the transaction, "none" until there is one
    calls       \* history: the parser's calls on rx

scanVars == <<rx, origin, calls>>

\* The extra field CalcExtra writes: a public key and a nonce with the payment id.
ExtraItems(xtra) ==
    FlattenSeq([i \in DOMAIN xtra |->
        <<[tag |-> "pubkey", value |-> xtra[i].publicKey],
          [tag |-> "encrypted id", value |-> xtra[i].paymentId]>>])

\* An input, its ring signature and a range proof: each hash is named for what it
\* is a part of.
RingInput(image) ==
    [NewInput(ToKey) EXCEPT !.offsets = [j \in 1 .. RingSize |-> j], !.image = image]

ClsagHashes(sig) == [S |-> [j \in 1 .. RingSize |-> <<sig, j>>], C1 |-> sig, D |-> sig]

BppHashes(proof) ==
    [head |-> [i \in 1 .. 6 |-> <<proof, i>>], L |-> [i \in 1 .. Rounds |-> <<proof, "L", i>>],
     R |-> [i \in 1 .. Rounds |-> <<proof, "R", i>>]]

\* The transaction the builder has made, as the fields of a Transaction.
Built(wire) ==
    [EmptyTx EXCEPT
        !.vinCount  = wire.part1.vins,
        !.inputs    = [i \in DOMAIN wire.part1.inputs |-> RingInput(wire.part1.inputs[i])],
        !.voutCount = wire.part1.vouts,
        !.outputs   = wire.part1.outputs,
        !.extra     = ExtraItems(wire.part1.extra),
        !.signature = <<[type |-> RctBpp, fee |-> wire.part2.fee,
                         ecdhInfo |-> wire.part2.ecdhInfo, outPk |-> wire.part2.outPk]>>,
        !.prunable  = <<[bpp        |-> <<BppHashes(wire.part3.bpp)>>,
                         clsags     |-> [i \in DOMAIN wire.part3.clsags |->
                                            ClsagHashes(wire.part3.clsags[i])],
                         pseudoOuts |-> wire.part3.pseudoOuts]>>]

\* a * G = public view key: holds of no subaddress, whose view key is a * D.
verifyViewKeyPair(w, address) == {ViewSecret(w)} = PubView(address)

\* Output i is addressed to the spend key of the address, seen with w's view key.
Recognises(tx, address, w, i) ==
    LET parsed     == ParseTxExtra(tx.extra)
        derivation == KeyDerivation(parsed.txPubKey[1], ViewSecret(w))
    IN  /\ parsed.ok /\ parsed.txPubKey # <<>>
        /\ tx.outputs[i].viewTag = ViewTag(derivation, i - 1)
        /\ tx.outputs[i].target = OneTimeKey(derivation, i - 1, PubSpend(address))

\* The amount in atomic units, as it is decrypted.
DecodeRctAmount(tx, w, i) ==
    DecryptAmount(KeyDerivation(ParseTxExtra(tx.extra).txPubKey[1], ViewSecret(w)), i - 1,
                  tx.signature[1].ecdhInfo[i])

\* The amount in XMR.  Without a signature, or with one of a type that hides nothing,
\* amounts are 0.
AmountOf(tx, w, i) ==
    IF tx.signature # <<>> /\ tx.signature[1].type > 0 /\ i \in DOMAIN tx.signature[1].ecdhInfo
    THEN AtomicToXmr(DecodeRctAmount(tx, w, i)) ELSE 0

\* totalAmount: numbers of XMR at some positions, added in the order of the outputs,
\* each sum rounded.
TotalXmr(amounts) ==
    LET last == Max(DOMAIN amounts)
        total[i \in 0 .. last] ==
            IF i = 0 THEN 0
            ELSE IF i \in DOMAIN amounts THEN XmrPlus(total[i - 1], amounts[i])
            ELSE total[i - 1]
    IN  total[last]

\* "no outputs found for this address" and the other errors give ok = FALSE.
CheckOutputs(tx, address, w) ==
    LET found  == {i \in DOMAIN tx.outputs : Recognises(tx, address, w, i)}
        parsed == ParseTxExtra(tx.extra)
        ok     == Decodes(address) /\ verifyViewKeyPair(w, address) /\ parsed.ok /\ found # {}
    IN  [ok        |-> ok,
         found     |-> IF ok THEN found ELSE {},
         total     |-> IF ok THEN TotalXmr([i \in found |-> AmountOf(tx, w, i)]) ELSE 0,
         paymentID |-> IF ok /\ parsed.encPID # <<>>
                       THEN DecryptShortPaymentID(parsed.txPubKey[1], ViewSecret(w), parsed.encPID[1])
                       ELSE NoPaymentId]

\* Bug: indexes counted from one.
generateBulletproofPlusMask_FromOne(tx, w, i) ==
    Hs[<<KeyDerivation(ParseTxExtra(tx.extra).txPubKey[1], ViewSecret(w)), i % MaxOutputs>>]

\* generateBulletproofPlusMask: how writeInput2 finds the mask of a coin it spends.
generateBulletproofPlusMask(tx, w, i) ==
    Hs[<<KeyDerivation(ParseTxExtra(tx.extra).txPubKey[1], ViewSecret(w)), i - 1>>]

-----------------------------------------------------------------------------
Requested == {r.address : r \in OutputRequests}
PrimaryAddresses == {a \in Requested : a.kind \in {"standard", "integrated"}}

\* What monerod and its wallet make.  The reward of a block has one output; its
\* signature is the type alone.  A payment with a subaddress among the payees has
\* a key for each output besides, counted in the extra field.
ForeignKinds == {"coinbase", "additional keys"}

ForeignFields(kind, a) ==
    LET derivation == KeyDerivation(PubView(a), TxSecret)
        paid   == [target  |-> OneTimeKey(derivation, 0, PubSpend(a)),
                   viewTag |-> ViewTag(derivation, 0)]
        other  == [target |-> OneTimeKey({TxSecret}, 1, ZeroKey), viewTag |-> 0]
        key    == [tag |-> "pubkey", value |-> {TxSecret}]
        keys   == [tag |-> "additional", value |-> 2]
        amount(i) == EncryptAmount(derivation, i, 1)
    IN  IF kind = "coinbase"
        THEN <<Varint(2), Varint(60), Varint(1), Byte(Generated), Varint(1), Varint(1)>>
                 \o OutputFields(paid) \o <<Extra(<<key>>), Varint(RctNull)>>
        ELSE SerializedTx([EmptyTx EXCEPT
                 !.inputs    = <<RingInput("other")>>,
                 !.outputs   = <<paid, other>>,
                 !.extra     = <<key, keys>>,
                 !.signature = <<[type |-> RctBpp, fee |-> 0, ecdhInfo |-> <<amount(0), amount(1)>>,
                                  outPk |-> <<Commit(1, 0), Commit(1, 0)>>]>>,
                 !.prunable  = <<[bpp |-> <<BppHashes("other")>>, clsags |-> <<ClsagHashes("other")>>,
                                  pseudoOuts |-> <<Commit(2, 0)>>]>>])

ScanInit == Init /\ rx = EmptyTx /\ origin = "none" /\ calls = <<>>

\* A step of the builder, in the documented order.
Build ==
    /\ origin = "none"
    /\ Next /\ step' # 0
    /\ UNCHANGED scanVars

\* The receiver has the bytes that were sent, or some of Monero's, of which a
\* builder that has not begun knows nothing.
Receive ==
    /\ origin = "none"
    /\ \/ /\ step = 10
          /\ rx' = [EmptyTx EXCEPT !.raw = SerializedTx(Built(sent[1]))]
          /\ origin' = "builder"
       \/ /\ step = 1
          /\ \E kind \in ForeignKinds, a \in PrimaryAddresses :
                /\ rx' = [EmptyTx EXCEPT !.raw = ForeignFields(kind, a)]
                /\ origin' = kind
    /\ UNCHANGED <<vars, calls>>

Call(name) ==
    /\ origin # "none"
    /\ Len(calls) < MaxCalls
    /\ calls' = Append(calls, name)
    /\ UNCHANGED <<vars, origin>>

CallParseTx == Call("ParseTx") /\ rx' = ParseTx(rx)

CallParseRctSig == Call("ParseRctSig") /\ rx' = ParseRctSig(rx)

ScanNext == Build \/ Receive \/ CallParseTx \/ CallParseRctSig

ScanSpec == ScanInit /\ [][ScanNext]_<<vars, scanVars>>

-----------------------------------------------------------------------------
(* Properties.                                                               *)

TxParses(n) == {i \in 1 .. n : calls[i] = "ParseTx"}
SignatureRead(n) ==     \* a call of ParseRctSig behind n calls of ParseTx
    \E i \in DOMAIN calls : calls[i] = "ParseRctSig" /\ Cardinality(TxParses(i)) >= n
ParsedOnce == calls = <<"ParseTx", "ParseRctSig">>

\* ParseTx and then ParseRctSig give back every field of what was sent, and
\* Serialize then writes the bytes that were received: CalcHash finds the hash of
\* the transaction.
ParsesWhatWasSent ==
    ParsedOnce /\ origin = "builder" =>
        /\ rx = [Built(sent[1]) EXCEPT !.raw = rx.raw]
        /\ SerializedTx(rx) = rx.raw

\* Outputs for which CheckOutputs, given the address and its view key, has the key
\* they were made with: all that were paid to a primary address, unless there is
\* exactly one subaddress among the payees; then the change only.
PaidTo(a) ==
    {i \in DOMAIN pOutputs :
        /\ PubSpend(pOutputs[i].address) = PubSpend(a)
        /\ pOutputs[i].change = "yes" \/ Cardinality(SubPayees) # 1}

\* However often a transaction is parsed, CheckOutputs finds exactly these outputs
\* and, once their signature has been read, adds up their amounts as they were
\* requested, each once and in the order of the outputs; before, it counts them as
\* nothing and reports success.  The sum is one of float64 numbers of XMR, which
\* may fall short of the exact one (0.7 and 0.1 make 0.7999999999999999).  A second
\* ParseTx before ParseRctSig, and nothing else, puts the reader out of step: there
\* are twice as many outputs as signatures of them.
ScanFindsPaid ==
    /\ rx.inStep <=> ~(SignatureRead(2) /\ origin \in {"builder", "additional keys"})
    /\ origin = "builder" /\ TxParses(Len(calls)) # {} /\ rx.inStep =>
          \A a \in PrimaryAddresses :
              LET paid == PaidTo(a)
                  scan == CheckOutputs(rx, a, a.owner)
              IN  /\ scan.ok <=> paid # {}
                  /\ scan.found = paid
                  /\ scan.total =
                        IF SignatureRead(1) /\ paid # {}
                        THEN TotalXmr([i \in paid |-> AtomicToXmr(pOutputs[i].amount)]) ELSE 0

\* What Monero makes and this code does not read: the reward of a block is found
\* and counted as nothing, and a transaction with additional keys is refused,
\* because their number is taken for a length, although one is the wallet's.  Nor
\* does Serialize write a coinbase again: it leaves out the height.
ForeignMissed ==
    ParsedOnce =>
        /\ origin = "coinbase" => SerializedTx(rx) # rx.raw
        /\ \A a \in PrimaryAddresses :
              LET scan == CheckOutputs(rx, a, a.owner)
              IN  /\ origin = "coinbase" => scan.total = 0 /\ scan.ok = (scan.found # {})
                  /\ origin = "coinbase" /\ rx.outputs[1].target.base = PubSpend(a)
                       => scan.found = {1}
                  /\ origin = "additional keys" => ~scan.ok

\* Every payee can recognise its output with its view key if and only if no payee
\* is a subaddress or there is one payee only: the code has one public key for
\* all outputs and writes no additional keys.
EveryPayeeReached ==
    origin = "builder" /\ ParsedOnce =>
        ((\A i \in PayeePositions :
              Recognises(rx, pOutputs[i].address, pOutputs[i].address.owner, i))
         <=> SubPayees = {} \/ Cardinality(PayeePositions) = 1)

\* Whoever recognises an output can spend it: the amount it decrypts and the mask
\* it derives open the commitment.
RecognisedOpens ==
    origin = "builder" /\ ParsedOnce => \A a \in Requested, i \in DOMAIN pOutputs :
        Recognises(rx, a, a.owner, i) =>
            rx.signature[1].outPk[i] =
                Commit(DecodeRctAmount(rx, a.owner, i),
                       generateBulletproofPlusMask(rx, a.owner, i))

\* A successful scan by the owner of the last payee's address reads the payment id
\* of that address, unless a subaddress payee before it changed the public key;
\* every other wallet, the sender's own included, reads a meaningless number.
PaymentIdForLastPayee ==
    origin = "builder" /\ ParsedOnce => \A a \in PrimaryAddresses :
        LET scan == CheckOutputs(rx, a, a.owner)
            meant == /\ a.owner = LastPayee.owner
                     /\ IsSubAddress(LastPayee) <=> Cardinality(SubPayees) = 1
        IN  scan.ok => scan.paymentID = IF meant THEN ExtractPaymentID(LastPayee) ELSE Garbage
=============================================================================
