------------------------------ MODULE TxBuilder ------------------------------
(* The transaction builder of go-monero: the object NewEmptyTransaction      *)
(* returns and the calls a wallet makes on it (types/tx2.go, with the         *)
(* signing it drives in types/bpp.go and types/clsag.go and the serialisation *)
(* of types/tx.go).                                                           *)
(*                                                                            *)
(* Each action is one method call.  The caller may make them in any order;    *)
(* the order the source documents (tx2.go:22-32) is followed by the history   *)
(* variable step.  A call that returns an error and changes nothing is a      *)
(* stuttering step and has no action; one that fails after it has changed     *)
(* something has an action of its own.  A panic ends the program.             *)
EXTENDS TxKeys, Integers, SequencesExt

CONSTANTS
    Coins,              \* outputs of earlier transactions the wallet may spend
    CoinValue,          \* [Coins -> Amounts], what the chain says each one holds
    CoinMask,           \* [Coins -> Scalars], the mask of its commitment
    InputRequests,      \* what the caller may pass to WriteInput
    OutputRequests,     \* what the caller may pass to WriteOutput
    Fees,               \* what the caller may pass to SetFee
    Q,                  \* order of the scalar field
    Mod,                \* 2^64 in the code: amounts are uint64
    Hs,                 \* hash of a derivation and an output index to a scalar
    MaxBppOutputs,      \* maxM of bpp.go: outputs one range proof can carry
    MaxInputRequests, MaxOutputRequests,     \* bounds of the exploration:
    MaxInputs, MaxOutputs, MaxInputScalars   \* no code corresponds to these

Amounts == 0 .. Mod - 1
Scalars == 0 .. Q - 1
Indices == 0 .. MaxOutputs - 1
Addresses == [owner : Wallets, kind : AddressKinds, pid : Nat]

\* What the caller passes to WriteInput: "coin" is the output the extra field, vout
\* and the keys are of, whose key and mask the wallet derives; "amount" is what the
\* caller claims it holds.  The txId decides only whose index daemons are asked for.
InputRequestType == [coin : Coins, amount : Amounts]
\* "change" is the map entry change_address: true, false or no entry.
OutputRequestType == [address : Addresses, amount : Amounts, change : {"yes", "no", "absent"}]

ASSUME ScalarAssumption  == Q \in Nat \ {0} /\ Mod \in Nat \ {0}
ASSUME CoinAssumption    == CoinValue \in [Coins -> Amounts] /\ CoinMask \in [Coins -> Scalars]
ASSUME RequestAssumption ==
    /\ \A r \in InputRequests : r \in InputRequestType
    /\ \A r \in OutputRequests : r \in OutputRequestType
    /\ Fees \subseteq Amounts
ASSUME HashAssumption    == Hs \in [Points \X Indices -> Scalars]
ASSUME BoundAssumption   ==
    /\ MaxBppOutputs \in Nat /\ MaxInputRequests \in Nat /\ MaxOutputRequests \in Nat
    /\ MaxInputs \in Nat /\ MaxOutputs \in Nat /\ MaxInputScalars \in Nat

VARIABLES
    pInputs, pOutputs,          \* PInputs, POutputs: the requests
    vinCount, inputs,           \* VinCount and Inputs; an input is the coin whose key it has
    hidden,                     \* history: per input, what the network's chain holds at the
                                \* secret position of the ring
    voutCount, outputs,         \* VoutCount and Outputs
    txnFee, ecdhInfo, outPk,    \* RctSignature
    blindScalars, blindAmounts, \* openings of outPk
    publicKey, extra,           \* PublicKey and Extra (<<>> until CalcExtra)
    bpp, pseudoOuts, clsags,    \* RctSigPrunable
    inputScalars,               \* InputScalars: masks of pseudo outputs
    hash, sent,                 \* Hash, and the last result of Serialize (<<>> if none)
    status,                     \* "panic" once a call has panicked
    step,                       \* history: last step of the documented order, 0 once it is left
    partial                     \* history: CalcInputs has failed after adding an input

requestVars == <<pInputs, pOutputs>>
inputVars   == <<vinCount, inputs, hidden>>
outputVars  == <<voutCount, outputs, ecdhInfo, outPk, blindScalars, blindAmounts>>
keyVars     == <<publicKey, extra>>
signVars    == <<bpp, pseudoOuts, clsags, inputScalars>>
resultVars  == <<hash, sent>>
vars == <<requestVars, inputVars, outputVars, txnFee, keyVars, signVars, resultVars,
          status, step, partial>>

Commit(amount, mask) == [amount |-> amount, mask |-> mask]
Commitments == [amount : Amounts, mask : Scalars]

SumSeq(s) == SumFunction(s)
\* The view tag is one byte of another hash of what the mask is a hash of.
ViewTag(derivation, index) == Hs[<<derivation, index>>]

AmountsOf(requests) == [i \in DOMAIN requests |-> requests[i].amount]

EmptyBpp == [made |-> FALSE, amounts |-> <<>>, masks |-> <<>>]

-----------------------------------------------------------------------------
(* The documented order.  A step that returns an error may be tried again.  *)

Follow(n) ==
    step' = IF step = n - 1 \/ (n \in {2, 3} /\ step = n) THEN n ELSE 0

Retry(n) == step' = IF step = n - 1 THEN step ELSE 0

Panic(n) == /\ status' = "panic"
            /\ Retry(n)
            /\ UNCHANGED <<requestVars, inputVars, outputVars, txnFee, keyVars, signVars,
                           resultVars, partial>>

-----------------------------------------------------------------------------
(* Serialisation.  The prefix that is signed is written from the counters,   *)
(* the one that is sent from the lengths of the slices.                      *)

\* Bug: the extra field is left out of what is signed.
PrefixHash_NoExtra ==
    [vins |-> vinCount, inputs |-> inputs, vouts |-> voutCount, outputs |-> outputs, extra |-> <<>>]

PrefixHash ==
    [vins |-> vinCount, inputs |-> inputs, vouts |-> voutCount, outputs |-> outputs, extra |-> extra]

RctSigBase == [fee |-> txnFee, ecdhInfo |-> ecdhInfo, outPk |-> outPk]

GetFullMessage(proof) == [prefix |-> PrefixHash, base |-> RctSigBase, proof |-> proof]

CalculatePart1 ==
    [vins |-> Len(inputs), inputs |-> inputs, vouts |-> Len(outputs), outputs |-> outputs,
     extra |-> extra]
CalculatePart2 == RctSigBase
CalculatePart3 == [bpp |-> bpp, clsags |-> clsags, pseudoOuts |-> pseudoOuts]

Wire == [part1 |-> CalculatePart1, part2 |-> CalculatePart2, part3 |-> CalculatePart3]

-----------------------------------------------------------------------------
Init ==
    /\ pInputs = <<>> /\ pOutputs = <<>>
    /\ vinCount = 0 /\ inputs = <<>> /\ hidden = <<>>
    /\ voutCount = 0 /\ outputs = <<>>
    /\ txnFee = 0 /\ ecdhInfo = <<>> /\ outPk = <<>>
    /\ blindScalars = <<>> /\ blindAmounts = <<>>
    /\ publicKey = ZeroKey /\ extra = <<>>
    /\ bpp = EmptyBpp /\ pseudoOuts = <<>> /\ clsags = <<>>
    /\ inputScalars = <<>>
    /\ hash = <<>> /\ sent = <<>>
    /\ status = "ok" /\ step = 1 /\ partial = FALSE

WriteInput(r) ==
    /\ Len(pInputs) < MaxInputRequests
    /\ pInputs' = Append(pInputs, r)
    /\ Follow(2)
    /\ UNCHANGED <<pOutputs, inputVars, outputVars, txnFee, keyVars, signVars, resultVars,
                   status, partial>>

WriteOutput(r) ==
    /\ Len(pOutputs) < MaxOutputRequests
    /\ pOutputs' = Append(pOutputs, r)
    /\ Follow(3)
    /\ UNCHANGED <<pInputs, inputVars, outputVars, txnFee, keyVars, signVars, resultVars,
                   status, partial>>

\* Not a step of the documented order: it leaves it.
SetFee(fee) ==
    /\ txnFee' = fee
    /\ step' = 0
    /\ UNCHANGED <<requestVars, inputVars, outputVars, keyVars, signVars, resultVars,
                   status, partial>>

\* inputSM - outputSM in uint64: the fee that makes up the difference mod 2^64.
CalcFeeDifference ==
    /\ \E fee \in Amounts :
          /\ (SumSeq(AmountsOf(pOutputs)) + fee - SumSeq(AmountsOf(pInputs))) % Mod = 0
          /\ txnFee' = fee
    /\ Follow(4)
    /\ UNCHANGED <<requestVars, inputVars, outputVars, keyVars, signVars, resultVars,
                   status, partial>>

-----------------------------------------------------------------------------
(* CalcExtra: the transaction public key and the encrypted payment id.       *)

IsPayee(r) == r.change # "yes"
PayeePositions == {i \in DOMAIN pOutputs : IsPayee(pOutputs[i])}
SubPayees == {i \in PayeePositions : IsSubAddress(pOutputs[i].address)}
LastPayee == pOutputs[CHOOSE i \in PayeePositions : \A j \in PayeePositions : j <= i].address
PayeesDecode == \A i \in PayeePositions : Decodes(pOutputs[i].address)

\* Bug: the public key is s * G whoever the payees are.
TxPublicKey_AlwaysG == {TxSecret}

\* The base point of the public key is the spend key of the LAST payee when one
\* payee is a subaddress, whichever payee that is.
TxPublicKey ==
    IF \E i \in SubPayees : SubPayees = {i} THEN Multiply(TxSecret, PubSpend(LastPayee))
                                            ELSE {TxSecret}

CalcExtra ==
    /\ PayeesDecode
    /\ PayeePositions # {}
    /\ publicKey' = TxPublicKey
    /\ extra' = << [publicKey |-> TxPublicKey,
                    paymentId |-> EncryptPaymentID(ExtractPaymentID(LastPayee),
                                                   PubView(LastPayee), TxSecret)] >>
    /\ Follow(5)
    /\ UNCHANGED <<requestVars, inputVars, outputVars, txnFee, signVars, resultVars,
                   status, partial>>

\* Without a payee the payment id is an empty slice, and EncryptPaymentID indexes it.
CalcExtraPanics == PayeePositions = {} /\ Panic(5)

-----------------------------------------------------------------------------
(* CalcInputs: writeInput2 on every request.  It asks a daemon three times   *)
(* and any request may fail; the inputs added before it stay.  The three may *)
(* be of different minds, and nothing compares what they say with the key    *)
(* and the mask, which come from the request: any output may be where the    *)
(* signer takes its own to be.  InputSelection has the three calls.          *)

\* Bug: every input is made from the first request.
AddInputs_FirstOnly(k) ==
    /\ Len(inputs) + k <= MaxInputs
    /\ inputs' = inputs \o [i \in 1 .. k |-> pInputs[1].coin]
    /\ \E shown \in [1 .. k -> Coins] : hidden' = hidden \o shown
    /\ vinCount' = vinCount + k
    /\ UNCHANGED <<requestVars, outputVars, txnFee, keyVars, signVars, resultVars, status>>

\* Bug: a call starts the slice anew but keeps the counter.
AddInputs_Restarts(k) ==
    /\ k <= MaxInputs
    /\ inputs' = [i \in 1 .. k |-> pInputs[i].coin]
    /\ hidden' \in [1 .. k -> Coins]
    /\ vinCount' = vinCount + k
    /\ UNCHANGED <<requestVars, outputVars, txnFee, keyVars, signVars, resultVars, status>>

AddInputs(k) ==
    /\ Len(inputs) + k <= MaxInputs
    /\ inputs' = inputs \o [i \in 1 .. k |-> pInputs[i].coin]
    /\ \E shown \in [1 .. k -> Coins] : hidden' = hidden \o shown
    /\ vinCount' = vinCount + k
    /\ UNCHANGED <<requestVars, outputVars, txnFee, keyVars, signVars, resultVars, status>>

CalcInputs ==
    /\ AddInputs(Len(pInputs))
    /\ Follow(6)
    /\ UNCHANGED partial

CalcInputsFails ==
    /\ \E k \in 1 .. Len(pInputs) - 1 : AddInputs(k)
    /\ Retry(6)
    /\ partial' = TRUE

\* An answer without a status or with a list missing or too short, a transaction
\* the daemon does not have, an extra field without a public key.
CalcInputsPanics == pInputs # <<>> /\ Panic(6)

-----------------------------------------------------------------------------
(* CalcOutputs: writeOutput2 on every request, at index VoutCount.           *)

\* writeOutput2 reads change_address without a check, after the address.
OutputError(r)  == ~Decodes(r.address)
OutputPanics(r) == Decodes(r.address) /\ r.change = "absent"

Writable(k) == \A i \in 1 .. k : ~OutputError(pOutputs[i]) /\ ~OutputPanics(pOutputs[i])

\* Bug: change is treated like a payment.
OutputDerivation_NoChange(r) == KeyDerivation(PubView(r.address), TxSecret)

OutputDerivation(r) ==
    IF r.change = "no" THEN KeyDerivation(PubView(r.address), TxSecret)
                       ELSE KeyDerivation(publicKey, ViewSecret(r.address.owner))

\* Bug: the index is that of the request, not of the output.
AddOutputs_FromZero(k) ==
    LET request(i)    == pOutputs[i]
        index(i)      == i - 1
        derivation(i) == OutputDerivation(request(i))
        blind(i)      == Hs[<<derivation(i), index(i)>>]
    IN  /\ Len(outputs) + k <= MaxOutputs
        /\ outputs' = outputs \o [i \in 1 .. k |->
              [target  |-> OneTimeKey(derivation(i), index(i), PubSpend(request(i).address)),
               viewTag |-> ViewTag(derivation(i), index(i))]]
        /\ ecdhInfo' = ecdhInfo \o [i \in 1 .. k |->
              EncryptAmount(derivation(i), index(i), request(i).amount)]
        /\ outPk' = outPk \o [i \in 1 .. k |-> Commit(request(i).amount, blind(i))]
        /\ blindScalars' = blindScalars \o [i \in 1 .. k |-> blind(i)]
        /\ blindAmounts' = blindAmounts \o [i \in 1 .. k |-> request(i).amount]
        /\ voutCount' = voutCount + k
        /\ UNCHANGED <<requestVars, inputVars, txnFee, keyVars, signVars, resultVars,
                       status, partial>>

AddOutputs(k) ==
    LET request(i)    == pOutputs[i]
        index(i)      == voutCount + i - 1
        derivation(i) == OutputDerivation(request(i))
        blind(i)      == Hs[<<derivation(i), index(i)>>]
    IN  /\ Len(outputs) + k <= MaxOutputs
        /\ outputs' = outputs \o [i \in 1 .. k |->
              [target  |-> OneTimeKey(derivation(i), index(i), PubSpend(request(i).address)),
               viewTag |-> ViewTag(derivation(i), index(i))]]
        /\ ecdhInfo' = ecdhInfo \o [i \in 1 .. k |->
              EncryptAmount(derivation(i), index(i), request(i).amount)]
        /\ outPk' = outPk \o [i \in 1 .. k |-> Commit(request(i).amount, blind(i))]
        /\ blindScalars' = blindScalars \o [i \in 1 .. k |-> blind(i)]
        /\ blindAmounts' = blindAmounts \o [i \in 1 .. k |-> request(i).amount]
        /\ voutCount' = voutCount + k
        /\ UNCHANGED <<requestVars, inputVars, txnFee, keyVars, signVars, resultVars,
                       status, partial>>

CalcOutputs ==
    /\ Writable(Len(pOutputs))
    /\ AddOutputs(Len(pOutputs))
    /\ Follow(7)

CalcOutputsFails ==
    /\ \E k \in 1 .. Len(pOutputs) - 1 :
          Writable(k) /\ OutputError(pOutputs[k + 1]) /\ AddOutputs(k)
    /\ Retry(7)

CalcOutputsPanics ==
    /\ \E k \in 0 .. Len(pOutputs) - 1 : Writable(k) /\ OutputPanics(pOutputs[k + 1])
    /\ Panic(7)

-----------------------------------------------------------------------------
(* SignTransaction: the range proof, the pseudo outputs, the ring signatures.*)

signBpp == [made |-> TRUE, amounts |-> blindAmounts, masks |-> blindScalars]
BppFits == Len(blindScalars) <= MaxBppOutputs

\* Bug: the last mask is random too.
calculatePseudoOuts_AllRandom(masks) ==
    /\ pseudoOuts' = [i \in DOMAIN inputs |-> Commit(pInputs[i].amount, masks[i])]
    /\ inputScalars' = inputScalars \o masks

\* Bug: the last mask is stored before the loop stores the others.
calculatePseudoOuts_LastFirst(masks) ==
    /\ SumSeq(masks) % Q = SumSeq(blindScalars) % Q
    /\ pseudoOuts' = [i \in DOMAIN inputs |-> Commit(pInputs[i].amount, masks[i])]
    /\ inputScalars' = inputScalars \o <<masks[Len(inputs)]>> \o SubSeq(masks, 1, Len(inputs) - 1)

\* All masks but the last are random, the last makes their sum that of the
\* output masks; they are appended to what an earlier signing left there.
calculatePseudoOuts(masks) ==
    /\ SumSeq(masks) % Q = SumSeq(blindScalars) % Q
    /\ pseudoOuts' = [i \in DOMAIN inputs |-> Commit(pInputs[i].amount, masks[i])]
    /\ inputScalars' = inputScalars \o masks

\* ScSub and ScAdd of reduced scalars.
ScSub(a, b) == IF a < b THEN a - b + Q ELSE a - b
ScAdd(a, b) == IF a + b < Q THEN a + b ELSE a + b - Q

\* Bug: the difference is not reduced.
signCLSAGs_NotReduced(proof, scalars, pseudo) ==
    [i \in DOMAIN inputs |->
        [message |-> GetFullMessage(proof), coin |-> inputs[i],
         z |-> CoinMask[inputs[i]] - scalars[i], pseudoOut |-> pseudo[i]]]

\* One signature per input: of the full message, with the difference z between
\* the mask of the coin and entry i of InputScalars as the second secret.
signCLSAGs(proof, scalars, pseudo) ==
    [i \in DOMAIN inputs |->
        [message |-> GetFullMessage(proof), coin |-> inputs[i],
         z |-> ScSub(CoinMask[inputs[i]], scalars[i]), pseudoOut |-> pseudo[i]]]

SignTransaction ==
    /\ BppFits
    /\ Len(inputs) \in 1 .. Len(pInputs)
    /\ Len(inputScalars) + Len(inputs) <= MaxInputScalars
    /\ bpp' = signBpp
    /\ \E masks \in [1 .. Len(inputs) -> Scalars] : calculatePseudoOuts(masks)
    /\ clsags' = signCLSAGs(bpp', inputScalars', pseudoOuts')
    /\ Follow(8)
    /\ UNCHANGED <<requestVars, inputVars, outputVars, txnFee, keyVars, resultVars,
                   status, partial>>

\* "no inputs available", after the range proof has been stored.
SignTransactionFails ==
    /\ BppFits
    /\ inputs = <<>>
    /\ bpp' = signBpp
    /\ Retry(8)
    /\ UNCHANGED <<requestVars, inputVars, outputVars, txnFee, keyVars,
                   pseudoOuts, clsags, inputScalars, resultVars, status, partial>>

\* Bug: off by one in the bound.
SignTransactionPanics_OffByOne ==
    /\ BppFits
    /\ Len(inputs) >= Len(pInputs)
    /\ Panic(8)

\* The amount of input i is read from PInputs[i].
SignTransactionPanics ==
    /\ BppFits
    /\ Len(inputs) > Len(pInputs)
    /\ Panic(8)

-----------------------------------------------------------------------------
CalcHash ==
    /\ hash' = <<Wire>>
    /\ Follow(9)
    /\ UNCHANGED <<requestVars, inputVars, outputVars, txnFee, keyVars, signVars, sent,
                   status, partial>>

Serialize ==
    /\ sent' = <<Wire>>
    /\ Follow(10)
    /\ UNCHANGED <<requestVars, inputVars, outputVars, txnFee, keyVars, signVars, hash,
                   status, partial>>

Next ==
    /\ status = "ok"
    /\ \/ \E r \in InputRequests : WriteInput(r)
       \/ \E r \in OutputRequests : WriteOutput(r)
       \/ \E fee \in Fees : SetFee(fee)
       \/ CalcFeeDifference
       \/ CalcExtra
       \/ CalcExtraPanics
       \/ CalcInputs
       \/ CalcInputsFails
       \/ CalcInputsPanics
       \/ CalcOutputs
       \/ CalcOutputsFails
       \/ CalcOutputsPanics
       \/ SignTransaction
       \/ SignTransactionFails
       \/ SignTransactionPanics
       \/ CalcHash
       \/ Serialize

Spec == Init /\ [][Next]_vars

\* The same for a caller who keeps to the documented order.
OrderedSpec == Init /\ [][Next /\ step' # 0]_vars

-----------------------------------------------------------------------------
(* What a correct transaction is.                                            *)

Funded ==
    SumSeq(AmountsOf(pInputs)) - SumSeq(AmountsOf(pOutputs)) \in Amounts
Honest == \A i \in DOMAIN pInputs : pInputs[i].amount = CoinValue[pInputs[i].coin]
DistinctCoins == \A i, j \in DOMAIN pInputs : pInputs[i].coin = pInputs[j].coin => i = j

\* The ring of every input has, where the signer takes itself to be, the output it
\* has the key of.
RingsHide == \A i \in DOMAIN inputs : hidden[i] = inputs[i]

\* The equations a verifier of the serialised transaction checks.  A ring signature
\* is of the key and the commitment that stand on the chain at the secret position.
Verifies(tx) ==
    LET coins  == tx.part1.inputs
        pseudo == tx.part3.pseudoOuts
        proof  == tx.part3.bpp
        outs   == tx.part2.outPk
        Masks(cs) == [i \in DOMAIN cs |-> cs[i].mask]
    IN  /\ coins # <<>> /\ tx.part1.vins = Len(coins) /\ tx.part1.vouts = Len(outs)
        /\ \A i, j \in DOMAIN coins : coins[i] = coins[j] => i = j
        /\ SumSeq(AmountsOf(pseudo)) = SumSeq(AmountsOf(outs)) + tx.part2.fee
        /\ SumSeq(Masks(pseudo)) % Q = SumSeq(Masks(outs)) % Q
        /\ proof.made /\ Len(outs) = Len(tx.part1.outputs)
        /\ outs = [i \in DOMAIN proof.masks |-> Commit(proof.amounts[i], proof.masks[i])]
        /\ Len(tx.part3.clsags) = Len(coins) /\ Len(pseudo) = Len(coins)
        /\ \A i \in DOMAIN coins :
              LET sig == tx.part3.clsags[i] IN
              /\ sig.message = [prefix |-> tx.part1, base |-> tx.part2, proof |-> proof]
              /\ sig.coin = coins[i] /\ sig.pseudoOut = pseudo[i]
              /\ hidden[i] = sig.coin
              /\ Commit(CoinValue[hidden[i]], CoinMask[hidden[i]])
                    = Commit(pseudo[i].amount, ScAdd(sig.z, pseudo[i].mask))

-----------------------------------------------------------------------------
(* Properties.                                                               *)

Ciphers  == [derivation : Points, index : Indices, amount : Amounts]
TxOutputs == [target : [derivation : Points, index : Indices, base : Points], viewTag : Scalars]
Extras   == [publicKey : Points, paymentId : [derivation : Points, pid : Nat]]
Proofs   == [made : BOOLEAN, amounts : Seq(Amounts), masks : Seq(Scalars)]
TxPrefixes == [vins : Nat, inputs : Seq(Coins), vouts : Nat, outputs : Seq(TxOutputs),
             extra : Seq(Extras)]
Bases    == [fee : Amounts, ecdhInfo : Seq(Ciphers), outPk : Seq(Commitments)]
Clsags   == [message : [prefix : TxPrefixes, base : Bases, proof : Proofs], coin : Coins,
             z : Scalars, pseudoOut : Commitments]
Wires    == [part1 : TxPrefixes, part2 : Bases,
             part3 : [bpp : Proofs, clsags : Seq(Clsags), pseudoOuts : Seq(Commitments)]]

\* Types of the fields of the transaction object.
TypeOK ==
    /\ pInputs \in Seq(InputRequestType) /\ pOutputs \in Seq(OutputRequestType)
    /\ vinCount \in Nat /\ inputs \in Seq(Coins) /\ hidden \in Seq(Coins)
    /\ voutCount \in Nat /\ outputs \in Seq(TxOutputs)
    /\ txnFee \in Amounts /\ ecdhInfo \in Seq(Ciphers) /\ outPk \in Seq(Commitments)
    /\ blindScalars \in Seq(Scalars) /\ blindAmounts \in Seq(Amounts)
    /\ publicKey \in Points /\ extra \in Seq(Extras)
    /\ bpp \in Proofs /\ pseudoOuts \in Seq(Commitments) /\ clsags \in Seq(Clsags)
    /\ inputScalars \in Seq(Scalars)
    /\ hash \in Seq(Wires) /\ sent \in Seq(Wires)
    /\ status \in {"ok", "panic"} /\ step \in 0 .. 10 /\ partial \in BOOLEAN

\* However the calls are ordered, repeated or interrupted, position i of every
\* per-output slice describes the same output: the commitment, its opening, the
\* encrypted amount and the one-time key were made for index i - 1 from one
\* derivation (writeOutput2 takes the index from VoutCount, the range proof and
\* the recipient count positions).
OutputsAligned ==
    /\ voutCount = Len(outputs) /\ vinCount = Len(inputs)
    /\ Len(ecdhInfo) = Len(outputs) /\ Len(outPk) = Len(outputs)
    /\ Len(blindScalars) = Len(outputs) /\ Len(blindAmounts) = Len(outputs)
    /\ \A i \in DOMAIN outputs :
          /\ outputs[i].target.index = i - 1
          /\ ecdhInfo[i] = EncryptAmount(outputs[i].target.derivation, i - 1, blindAmounts[i])
          /\ blindScalars[i] = Hs[<<outputs[i].target.derivation, i - 1>>]
          /\ outPk[i] = Commit(blindAmounts[i], blindScalars[i])

\* InputScalars only grows, and signCLSAGs reads it from the front.  As long as
\* one signing has filled it, in whatever order the other calls were made, every
\* ring signature opens its own pseudo output.
SignedOnceOpens ==
    Len(inputScalars) = Len(pseudoOuts) =>
        /\ Len(clsags) = Len(pseudoOuts)
        /\ \A i \in DOMAIN clsags :
              /\ clsags[i].pseudoOut = pseudoOuts[i]
              /\ ScAdd(clsags[i].z, pseudoOuts[i].mask) = CoinMask[clsags[i].coin]

\* A caller who keeps to the documented order, retries included, has signed
\* exactly what was requested: one input per WriteInput, one output per
\* WriteOutput, in order, with the requested amounts.
SignedAsRequested ==
    step >= 8 =>
        /\ inputs = [i \in DOMAIN pInputs |-> pInputs[i].coin]
        /\ blindAmounts = AmountsOf(pOutputs)
        /\ \A i \in DOMAIN pOutputs :
              outputs[i].target.base = PubSpend(pOutputs[i].address)

\* CalcInputs does not undo the inputs it added before a failure, so a retry adds
\* them again: a transaction that went through a partial failure can never be
\* signed, however often the step is retried.
PartialFailureIsFatal == partial => step < 8

\* The transaction that is sent carries signatures of exactly the bytes that are
\* sent (the prefix is hashed by PrefixHash and written by CalculatePart1), and
\* its hash is the hash of those bytes.
SentIsSigned ==
    step = 10 =>
        /\ sent = hash
        /\ \A i \in DOMAIN sent[1].part3.clsags :
              sent[1].part3.clsags[i].message =
                  [prefix |-> sent[1].part1, base |-> sent[1].part2, proof |-> sent[1].part3.bpp]

\* Built in the documented order, a transaction verifies if and only if its
\* requests are sound and the daemons' answers put every coin where its ring hides
\* it.  The builder checks none of these: the fee wraps round in uint64 for an
\* overdrawn wallet, claimed amounts are believed, coins need not differ, and the
\* keys a daemon returns are compared with none (SecretMemberOpens of InputSelection
\* says when the ring hides the coin).
SentVerifies ==
    step = 10 =>
        (Verifies(sent[1]) <=> Funded /\ Honest /\ DistinctCoins /\ RingsHide)

\* Where the builder panics in the documented order, and at which calls only: at
\* CalcExtra without a payee, at CalcInputs if it has anything to ask a daemon, at
\* CalcOutputs on a decodable address without change_address, and at SignTransaction
\* after a partial failure of CalcInputs.
PanicsExplained == status = "panic" =>
    \/ step = 0
    \/ step = 4 /\ PayeePositions = {}
    \/ step = 5 /\ pInputs # <<>>
    \/ step = 6 /\ \E i \in DOMAIN pOutputs : OutputPanics(pOutputs[i])
    \/ step = 7 /\ partial
=============================================================================
