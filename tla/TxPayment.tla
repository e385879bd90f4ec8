------------------------------ MODULE TxPayment ------------------------------
(* The builder of TxBuilder, used in the documented order, implements Payment. *)
EXTENDS TxBuilder

\* What a payment is made of, in what was signed and in what is sent: the inputs
\* and the outputs of the prefix, the amounts the range proof was made of, and
\* the fee.  An output pays whoever has the key its one-time key was made from.
Content(prefix, base, proof) ==
    [spends |-> prefix.inputs,
     pays   |-> [i \in DOMAIN prefix.outputs |->
                   [key |-> prefix.outputs[i].target.base, amount |-> proof.amounts[i]]],
     fee    |-> base.fee]

RequestedPays ==
    [i \in DOMAIN pOutputs |-> [key |-> PubSpend(pOutputs[i].address), amount |-> pOutputs[i].amount]]

SignedPayments ==
    {Content(clsags[i].message.prefix, clsags[i].message.base, clsags[i].message.proof) :
        i \in DOMAIN clsags}

SentPayments ==
    {Content(sent[i].part1, sent[i].part2, sent[i].part3.bpp) : i \in DOMAIN sent}

TotalAmount(requests) == SumSeq(AmountsOf(requests))

ToPayer == INSTANCE Payment WITH
    Spends <- InputRequestType,
    Pays   <- [key : Points, amount : Amounts],
    Total  <- TotalAmount,
    spends <- pInputs, pays <- RequestedPays,
    signed <- SignedPayments, published <- SentPayments

\* In the documented order the builder, with its failures and retries, does what a
\* Payment does: it signs once, in all inputs, the payment that was requested, and
\* sends that.
ImplementsPayment == ToPayer!Spec
=============================================================================
