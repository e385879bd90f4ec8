------------------------------- MODULE Payment -------------------------------
(* What the transaction builder promises a caller who keeps to the documented   *)
(* order (types/tx2.go:22-32): one payment of exactly what was requested, signed *)
(* once and sent as it was signed.  How keys, commitments and proofs are made,   *)
(* which calls fail and which are tried again is left to TxBuilder.              *)
EXTENDS Naturals, Integers, Sequences

CONSTANTS
    Spends,         \* [coin, amount]: a coin and what it is said to hold
    Pays,           \* [key, amount]: whom to pay and how much
    Total(_),       \* the sum of the amounts of a sequence of either
    Mod             \* amounts and the fee are below it

VARIABLES
    spends, pays,   \* what has been requested
    signed,         \* the payments signatures were made of
    published       \* the payments that were sent

vars == <<spends, pays, signed, published>>

\* The fee is what is left over.
Leftover == {fee \in 0 .. Mod - 1 : (Total(pays) + fee - Total(spends)) % Mod = 0}

ThePayment(fee) ==
    [spends |-> [i \in DOMAIN spends |-> spends[i].coin], pays |-> pays, fee |-> fee]

-----------------------------------------------------------------------------
Init == spends = <<>> /\ pays = <<>> /\ signed = {} /\ published = {}

RequestSpend ==
    /\ signed = {}
    /\ \E r \in Spends : spends' = Append(spends, r)
    /\ UNCHANGED <<pays, signed, published>>

RequestPay ==
    /\ signed = {}
    /\ \E r \in Pays : pays' = Append(pays, r)
    /\ UNCHANGED <<spends, signed, published>>

\* All inputs sign the same payment.
Sign ==
    /\ signed = {} /\ spends # <<>>
    /\ \E fee \in Leftover : signed' = {ThePayment(fee)}
    /\ UNCHANGED <<spends, pays, published>>

Publish ==
    /\ signed # {} /\ published = {}
    /\ published' = signed
    /\ UNCHANGED <<spends, pays, signed>>

Next == RequestSpend \/ RequestPay \/ Sign \/ Publish

Spec == Init /\ [][Next]_vars
=============================================================================
