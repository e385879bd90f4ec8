------------------------------- MODULE TxKeys -------------------------------
(* Addresses and key derivations of go-monero (util/crypto.go,             *)
(* util/keyimage.go), as a free algebra.                                    *)
(*                                                                          *)
(* A curve point that the transaction code handles is always a product of   *)
(* secret scalars times the base point G, so a point is the SET of the      *)
(* secrets that were multiplied into it: {} is G, {<<"tx", TxOwner>>} is    *)
(* s*G.  No derivation of the code multiplies one secret in twice, and the  *)
(* cofactor 8 occurs in every derivation, so neither needs to be recorded.  *)
(* Hashes of a derivation are injective records of what they hash.          *)

CONSTANTS
    Wallets,    \* owners of addresses, each with a view, a spend and a subaddress secret
    TxOwner     \* stands beside "tx" in the name of the transaction's secret scalar

AddressKinds == {"standard", "sub", "integrated", "bad"}

\* A payment id is a number below PidLimit; 0 stands for the eight zero bytes
\* CalcExtra uses when the address carries none.
NoPaymentId == 0

ViewSecret(w)  == <<"view", w>>
SpendSecret(w) == <<"spend", w>>
SubSecret(w)   == <<"sub", w>>
TxSecret       == <<"tx", TxOwner>>
ZeroSecret     == <<"zero", TxOwner>>

Secrets == ({"view", "spend", "sub"} \X Wallets)
              \cup {TxSecret, ZeroSecret}
Points  == SUBSET Secrets

\* The all-zero 32 bytes decode to a point of order 4, which the cofactor
\* takes to the identity whatever it is multiplied by.
ZeroKey == {ZeroSecret}

Multiply(sec, pub) == IF pub = ZeroKey THEN ZeroKey ELSE pub \cup {sec}

-----------------------------------------------------------------------------
(* DecodeAddress: the two public keys of an address.                        *)

Decodes(addr) == addr.kind # "bad"

PubSpend(addr) ==
    IF addr.kind = "sub" THEN {SubSecret(addr.owner)} ELSE {SpendSecret(addr.owner)}

\* The view key of a subaddress is a * D, that of the others a * G.
PubView(addr) ==
    IF addr.kind = "sub" THEN {ViewSecret(addr.owner), SubSecret(addr.owner)}
                         ELSE {ViewSecret(addr.owner)}

IsSubAddress(addr) == addr.kind = "sub"

ExtractPaymentID(addr) == IF addr.kind = "integrated" THEN addr.pid ELSE NoPaymentId

-----------------------------------------------------------------------------
(* GenerateKeyDerivation / SharedSecret: 8 * sec * pub.                     *)

KeyDerivation(pub, sec) == Multiply(sec, pub)

\* DerivePublicKey: Hs(derivation || index) * G + base.
OneTimeKey(derivation, index, base) ==
    [derivation |-> derivation, index |-> index, base |-> base]

\* EncryptRctAmount and DecodeRctAmount: a one-time pad keyed by the derivation
\* and the index.  The wrong key gives an unrelated number: Garbage.
CONSTANT Garbage

EncryptAmount(derivation, index, amount) ==
    [derivation |-> derivation, index |-> index, amount |-> amount]

DecryptAmount(derivation, index, cipher) ==
    IF cipher.derivation = derivation /\ cipher.index = index THEN cipher.amount ELSE Garbage

\* EncryptPaymentID and DecryptShortPaymentID: the same, keyed by the shared
\* secret alone.
EncryptPaymentID(pid, pubView, sec) ==
    [derivation |-> KeyDerivation(pubView, sec), pid |-> pid]

DecryptShortPaymentID(txPub, viewSec, cipher) ==
    IF cipher.derivation = KeyDerivation(txPub, viewSec) THEN cipher.pid ELSE Garbage
=============================================================================
