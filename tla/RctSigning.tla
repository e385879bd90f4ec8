------------------------------ MODULE RctSigning ------------------------------
(* SignTransaction (types/tx2.go): the range proof over the outputs, the pseudo *)
(* outputs that balance them, and a ring signature per input over a message     *)
(* that contains the proof.  The transaction is given as the builder left it.   *)
EXTENDS Clsag, BulletproofPlus

CONSTANT Cases      \* transactions to be signed, each with what hashes and draws may give

\* A member of a ring: an output with its key and the opening of its commitment.
RingMember == [secret : Secrets, mask : Scalars, amount : Nat]

InputType ==
    [ring : Seq(RingMember), l : Nat \ {0}, secret : Secrets, mask : Scalars, amount : Nat]

ASSUME TransactionAssumption ==
    \A case \in Cases : LET t == case.tx IN
        /\ case.sample \in SampleType
        /\ \A random \in case.sample.randoms : Len(random) >= 4 /\ Len(random) >= Len(t.inputs) - 1
        /\ t.inputs \in Seq(InputType)
        /\ t.amounts \in Seq(0 .. TwoTo[N] - 1) /\ t.masks \in Seq(Scalars)

VARIABLES
    tx,             \* BlindAmounts, BlindScalars and Inputs
    progress,       \* "bpp", "clsags", "done" or "error"
    inputScalars, pseudoOuts, message, clsags

signingVars == <<tx, progress, inputScalars, pseudoOuts, message, clsags>>

OutPk == [j \in DOMAIN tx.masks |->
            CalcCommitment(IF j \in DOMAIN tx.amounts THEN tx.amounts[j] % Q ELSE 0, tx.masks[j])]
Inputs == DOMAIN tx.inputs
Image(i) == GenerateKeyImage(tx.inputs[i].secret)
DestOf(i) == [k \in DOMAIN tx.inputs[i].ring |-> PubKey(tx.inputs[i].ring[k].secret)]
MaskOf(i) == [k \in DOMAIN tx.inputs[i].ring |->
                CalcCommitment(tx.inputs[i].ring[k].amount % Q, tx.inputs[i].ring[k].mask)]

\* What is signed: the prefix, the base of the signature and the range proof.
MessageQuery(images, commitments, proof) ==
    Query("message", <<proof.r1, proof.s1, proof.d1>>,
          images \o commitments \o <<proof.A, proof.A1, proof.B>> \o proof.L \o proof.R)
-----------------------------------------------------------------------------
Init ==
    /\ \E case \in Cases : tx = case.tx /\ sample = case.sample
    /\ hashes = <<>>
    /\ amounts = tx.amounts /\ masks = tx.masks
    /\ BppInit
    /\ ClsagIdle
    /\ progress = "bpp"
    /\ inputScalars = <<>> /\ pseudoOuts = <<>> /\ message = 0 /\ clsags = <<>>

SignBpp ==
    /\ progress = "bpp"
    /\ BppNext
    /\ UNCHANGED <<sample, clsagVars, signingVars>>

SignFails ==
    /\ progress # "error"
    /\ \/ bppStage = "failed"
       \/ bppStage = "proved" /\ tx.inputs = <<>>
       \/ stage = "rejected"
    /\ progress' = "error"
    /\ clsags' = <<>>
    /\ UNCHANGED <<sample, hashes, bppVars, clsagVars, tx, inputScalars, pseudoOuts, message>>

\* Bug: the last mask is not reduced by the others.
LastMask_Sum(random) == ScSum(masks)
LastMask(random) == ScSub(ScSum(masks), ScSum([i \in Inputs \ {Len(tx.inputs)} |-> random[i]]))

\* Masks are random but the last, which makes their sum that of the outputs'.  The
\* message is hashed once for all inputs.
CalculatePseudoOuts ==
    /\ progress = "bpp" /\ bppStage = "proved" /\ tx.inputs # <<>>
    /\ \E random \in sample.randoms :
          inputScalars' = [i \in Inputs |-> IF i < Len(tx.inputs) THEN random[i] ELSE LastMask(random)]
    /\ pseudoOuts' = [i \in Inputs |-> CalcCommitment(tx.inputs[i].amount % Q, inputScalars'[i])]
    /\ LET query == MessageQuery([i \in Inputs |-> Image(i)], OutPk, Proof)
       IN  \E answer \in Answers(hashes, query) : Hash(query, answer) /\ message' = answer
    /\ progress' = "clsags"
    /\ UNCHANGED <<sample, bppVars, clsagVars, tx, clsags>>

\* proveRctCLSAGSimple: the arguments of ClsagGen for input i.
ProveRctCLSAGSimple(i) ==
    [message |-> message, P |-> DestOf(i), p |-> tx.inputs[i].secret,
     C |-> [k \in DOMAIN MaskOf(i) |-> SubKeys(MaskOf(i)[k], pseudoOuts[i])],
     z |-> ScSub(tx.inputs[i].mask, inputScalars[i]),
     nonzero |-> MaskOf(i), offset |-> pseudoOuts[i], l |-> tx.inputs[i].l, image |-> Image(i)]

SignInput ==
    /\ progress = "clsags" /\ stage = "idle"
    /\ ClsagStart(ProveRctCLSAGSimple(Len(clsags) + 1))
    /\ UNCHANGED <<sample, bppVars, signingVars>>

SignMember ==
    /\ progress = "clsags"
    /\ ClsagNext
    /\ UNCHANGED <<sample, bppVars, signingVars>>

\* The signature is kept; the loop goes on to the next input.
KeepSignature ==
    /\ progress = "clsags" /\ stage = "signed"
    /\ clsags' = Append(clsags, Signature)
    /\ stage' = "idle"
    /\ progress' = IF Len(clsags') = Len(tx.inputs) THEN "done" ELSE progress
    /\ UNCHANGED <<sample, hashes, bppVars, job, nonce, D, muP, muC, c, index, S, C1,
                   tx, inputScalars, pseudoOuts, message>>

Next == \/ SignBpp \/ SignFails \/ CalculatePseudoOuts
        \/ SignInput \/ SignMember \/ KeepSignature

vars == <<sample, hashes, bppVars, clsagVars, signingVars>>
Spec == Init /\ [][Next]_vars

-----------------------------------------------------------------------------
TypeOK ==
    /\ ClsagTypeOK /\ BppTypeOK
    /\ progress \in {"bpp", "clsags", "done", "error"}
    /\ message \in Scalars
    /\ \A q \in DOMAIN hashes : hashes[q] \in Scalars \ {0}
    /\ Len(clsags) <= Len(tx.inputs)
    /\ progress \in {"clsags", "done"} =>
          /\ inputScalars \in [Inputs -> Scalars]
          /\ pseudoOuts \in [Inputs -> Points]

\* A range proof that is finished is accepted for the commitments the transaction
\* carries, whatever their number and amounts, and however the challenges fall.
RangeProofVerifies == bppStage = "proved" => BppVerifies(OutPk, Proof)

\* A transaction whose outputs do not fit in a proof is not signed, and one whose
\* outputs do is, up to and including the limit: "sv/gamma are too large".
FitsOrFails ==
    /\ bppStage = "failed" => Len(amounts) # Len(masks) \/ Len(masks) > MaxM
    /\ bppStage \in {"prepare", "rounds", "proved"} => Len(amounts) = Len(masks) /\ Len(masks) <= MaxM

\* Input i spends an output of its ring that the signer can open.
OpensInput(i) ==
    LET in == tx.inputs[i]
    IN  /\ in.ring[in.l].secret = in.secret
        /\ in.ring[in.l].mask = in.mask
        /\ in.ring[in.l].amount % Q = in.amount % Q

InputVerifies(i) == ClsagVerifies(ProveRctCLSAGSimple(i), clsags[i])

\* The ring closes, wherever the signer sits in it, if the signer knows what its
\* member takes to be spent.
OpenedVerifies == \A i \in DOMAIN clsags : OpensInput(i) => InputVerifies(i)

\* The ring closes for the signer who opens its member, and it does not if the
\* member is another output.  With a key and a mask wrong at once the two errors
\* may cancel in so small a field.
RingCloses ==
    /\ OpenedVerifies
    /\ \A i \in DOMAIN clsags : InputVerifies(i) =>
          LET in == tx.inputs[i]
          IN  \/ OpensInput(i)
              \/ (in.ring[in.l].secret # in.secret /\ in.ring[in.l].mask # in.mask)

\* The transaction as a whole: what the pseudo outputs hold more than the outputs
\* is the fee, a multiple of H that the network reads from the transaction; the
\* message is that of the proof which is sent.
SignedVerifies ==
    progress = "done" =>
        /\ Len(clsags) = Len(tx.inputs)
        /\ LET fee == ScSub(ScSum([i \in Inputs |-> tx.inputs[i].amount]), ScSum(tx.amounts))
           IN  SumPoints(pseudoOuts) = AddPoints(SumPoints(OutPk), ScalarMult(fee, H))
        /\ Lookup(MessageQuery([i \in Inputs |-> Image(i)], OutPk, Proof)) = message
        /\ (\A i \in Inputs : OpensInput(i)) => \A i \in Inputs : InputVerifies(i)
=============================================================================
