------------------------------- MODULE TxProofs -------------------------------
(* Proofs about TxBuilder and TxPayment, for every set of requests, every hash  *)
(* and every bound: of the calls in any order, then of the documented order,    *)
(* then that a builder used in this order implements Payment. After them those  *)
(* about TxScan: a transaction that was built in the documented order, sent and *)
(* parsed is the one that was built, what each wallet makes of it, and what is  *)
(* found in a transaction that Monero built.                                    *)
EXTENDS TxPayment, TxScan, DataTheorems, SequenceTheorems, WellFoundedInduction

-----------------------------------------------------------------------------
(* Sequences, scalars and keys.                                                *)

\* The difference the signer proves and the mask of the pseudo output add up to
\* the mask of the coin.
LEMMA ScSubAdd ==
    ASSUME NEW a \in Scalars, NEW b \in Scalars
    PROVE  ScSub(a, b) \in Scalars /\ ScAdd(ScSub(a, b), b) = a
BY ScalarAssumption DEF ScSub, ScAdd, Scalars

LEMMA KeysAreWellFormed ==
    ASSUME NEW addr \in Addresses
    PROVE  /\ PubSpend(addr) \in Points /\ PubView(addr) \in Points
           /\ ViewSecret(addr.owner) \in Secrets /\ TxSecret \in Secrets
           /\ ExtractPaymentID(addr) \in Nat
BY DEF Addresses, PubSpend, PubView, ViewSecret, SpendSecret, SubSecret, TxSecret, Secrets, Points,
       ExtractPaymentID, NoPaymentId

LEMMA MultiplyIsPoint ==
    ASSUME NEW sec \in Secrets, NEW pub \in Points
    PROVE  Multiply(sec, pub) \in Points
BY DEF Multiply, Points, ZeroKey

LEMMA ZeroKeyIsPoint == ZeroKey \in Points /\ {TxSecret} \in Points
BY DEF ZeroKey, ZeroSecret, TxSecret, Points, Secrets

LEMMA DerivationIsPoint ==
    ASSUME NEW r \in OutputRequestType, publicKey \in Points
    PROVE  OutputDerivation(r) \in Points
<1>1. r.address \in Addresses
  BY DEF OutputRequestType
<1> QED BY <1>1, KeysAreWellFormed, MultiplyIsPoint DEF OutputDerivation, KeyDerivation

\* What TypeOK says of the slices that loops and proofs count along.
LEMMA Lengths ==
    ASSUME TypeOK
    PROVE  /\ pInputs \in Seq(InputRequestType) /\ Len(pInputs) \in Nat
           /\ DOMAIN pInputs = 1 .. Len(pInputs)
           /\ \A i \in 1 .. Len(pInputs) : pInputs[i] \in InputRequestType
           /\ pOutputs \in Seq(OutputRequestType) /\ Len(pOutputs) \in Nat
           /\ DOMAIN pOutputs = 1 .. Len(pOutputs)
           /\ \A i \in 1 .. Len(pOutputs) : pOutputs[i] \in OutputRequestType
           /\ inputs \in Seq(Coins) /\ Len(inputs) \in Nat /\ DOMAIN inputs = 1 .. Len(inputs)
           /\ outputs \in Seq(TxOutputs) /\ Len(outputs) \in Nat
           /\ inputScalars \in Seq(Scalars) /\ step \in 0 .. 10
<1>1. /\ pInputs \in Seq(InputRequestType) /\ pOutputs \in Seq(OutputRequestType)
      /\ inputs \in Seq(Coins) /\ outputs \in Seq(TxOutputs)
      /\ inputScalars \in Seq(Scalars) /\ step \in 0 .. 10
  BY Zenon DEF TypeOK
<1>2. \A S : \A s \in Seq(S) : /\ Len(s) \in Nat /\ DOMAIN s = 1 .. Len(s)
                               /\ \A i \in 1 .. Len(s) : s[i] \in S
  OBVIOUS
<1> QED BY <1>1, <1>2, Zenon

-----------------------------------------------------------------------------
(* Calls in any order.                                                         *)

AnyOrderInv == TypeOK /\ OutputsAligned /\ SignedOnceOpens

LEMMA InitAnyOrder == Init => AnyOrderInv
<1> SUFFICES ASSUME Init PROVE AnyOrderInv
  OBVIOUS
<1>1. TypeOK
  <2>1. EmptyBpp \in Proofs
    BY DEF EmptyBpp, Proofs
  <2>2. 0 \in Amounts
    BY ScalarAssumption DEF Amounts
  <2>3. \A S : <<>> \in Seq(S)
    OBVIOUS
  <2>4. /\ pInputs \in Seq(InputRequestType) /\ pOutputs \in Seq(OutputRequestType)
        /\ inputs \in Seq(Coins) /\ hidden \in Seq(Coins) /\ outputs \in Seq(TxOutputs)
        /\ ecdhInfo \in Seq(Ciphers) /\ outPk \in Seq(Commitments)
        /\ blindScalars \in Seq(Scalars) /\ blindAmounts \in Seq(Amounts)
        /\ extra \in Seq(Extras) /\ pseudoOuts \in Seq(Commitments) /\ clsags \in Seq(Clsags)
        /\ inputScalars \in Seq(Scalars) /\ hash \in Seq(Wires) /\ sent \in Seq(Wires)
    BY <2>3, Zenon DEF Init
  <2>5. txnFee \in Amounts /\ publicKey \in Points /\ bpp \in Proofs
    BY <2>1, <2>2, ZeroKeyIsPoint, Zenon DEF Init
  <2>6. vinCount \in Nat /\ voutCount \in Nat /\ step \in 0 .. 10
    BY DEF Init
  <2>7. status \in {"ok", "panic"} /\ partial \in BOOLEAN
    BY Zenon DEF Init
  <2> QED BY <2>4, <2>5, <2>6, <2>7, Zenon DEF TypeOK
<1> QED BY <1>1 DEF Init, AnyOrderInv, OutputsAligned, SignedOnceOpens

\* What the output loop appends, field by field.
LEMMA OutputsAppended ==
    ASSUME TypeOK, OutputsAligned, NEW k \in 0 .. Len(pOutputs), AddOutputs(k)
    PROVE  /\ outputs' \in Seq(TxOutputs) /\ ecdhInfo' \in Seq(Ciphers)
           /\ outPk' \in Seq(Commitments)
           /\ blindScalars' \in Seq(Scalars) /\ blindAmounts' \in Seq(Amounts)
           /\ voutCount' \in Nat
           /\ OutputsAligned'
           /\ Len(outputs') = Len(outputs) + k
           /\ \A i \in 1 .. k :
                /\ blindAmounts'[Len(outputs) + i] = pOutputs[i].amount
                /\ outputs'[Len(outputs) + i].target.base = PubSpend(pOutputs[i].address)
<1> DEFINE index(i)      == voutCount + i - 1
           derivation(i) == OutputDerivation(pOutputs[i])
           newOutputs    == [i \in 1 .. k |->
                [target  |-> OneTimeKey(derivation(i), index(i), PubSpend(pOutputs[i].address)),
                 viewTag |-> ViewTag(derivation(i), index(i))]]
           newEcdh       == [i \in 1 .. k |->
                EncryptAmount(derivation(i), index(i), pOutputs[i].amount)]
           newPk         == [i \in 1 .. k |->
                Commit(pOutputs[i].amount, Hs[<<derivation(i), index(i)>>])]
           newScalars    == [i \in 1 .. k |-> Hs[<<derivation(i), index(i)>>]]
           newAmounts    == [i \in 1 .. k |-> pOutputs[i].amount]
<1>1. /\ Len(outputs) + k <= MaxOutputs
      /\ outputs' = outputs \o newOutputs /\ ecdhInfo' = ecdhInfo \o newEcdh
      /\ outPk' = outPk \o newPk
      /\ blindScalars' = blindScalars \o newScalars /\ blindAmounts' = blindAmounts \o newAmounts
      /\ voutCount' = voutCount + k
      /\ vinCount' = vinCount /\ inputs' = inputs
  BY Zenon DEF AddOutputs, inputVars
<1>2. k \in Nat /\ 1 .. k \subseteq DOMAIN pOutputs /\ pOutputs \in Seq(OutputRequestType)
  BY Lengths
<1>3. ASSUME NEW i \in 1 .. k
      PROVE  /\ pOutputs[i] \in OutputRequestType
             /\ derivation(i) \in Points /\ index(i) \in Indices
             /\ Hs[<<derivation(i), index(i)>>] \in Scalars
             /\ pOutputs[i].amount \in Amounts
             /\ PubSpend(pOutputs[i].address) \in Points
  <2>1. pOutputs[i] \in OutputRequestType
    BY <1>2
  <2>2. pOutputs[i].address \in Addresses /\ pOutputs[i].amount \in Amounts
    BY <2>1 DEF OutputRequestType
  <2>3. derivation(i) \in Points
    <3>1. publicKey \in Points
      BY Zenon DEF TypeOK
    <3> QED BY <2>1, <3>1, DerivationIsPoint, Zenon
  <2>4. index(i) \in Indices
    <3>1. voutCount = Len(outputs) /\ Len(outputs) \in Nat
      BY Lengths, Zenon DEF OutputsAligned
    <3>2. Len(outputs) + k <= MaxOutputs /\ k \in Nat /\ MaxOutputs \in Nat
      BY <1>1, <1>2, BoundAssumption, Zenon
    <3>3. voutCount + i - 1 \in 0 .. MaxOutputs - 1
      BY <3>1, <3>2
    <3> QED BY <3>3, Zenon DEF Indices
  <2>5. Hs[<<derivation(i), index(i)>>] \in Scalars
    BY <2>3, <2>4, HashAssumption
  <2> QED BY <2>1, <2>2, <2>3, <2>4, <2>5, KeysAreWellFormed
<1>4. newOutputs \in [1 .. k -> TxOutputs]
  BY <1>3 DEF TxOutputs, OneTimeKey, ViewTag
<1>5. newEcdh \in [1 .. k -> Ciphers]
  BY <1>3 DEF Ciphers, EncryptAmount
<1>6. newPk \in [1 .. k -> Commitments]
  BY <1>3 DEF Commitments, Commit
<1>7. newScalars \in [1 .. k -> Scalars] /\ newAmounts \in [1 .. k -> Amounts]
  BY <1>3
<1> DEFINE n == Len(outputs)
<1>8. /\ n \in Nat /\ voutCount = n /\ vinCount = Len(inputs)
      /\ outputs \in Seq(TxOutputs) /\ ecdhInfo \in Seq(Ciphers) /\ outPk \in Seq(Commitments)
      /\ blindScalars \in Seq(Scalars) /\ blindAmounts \in Seq(Amounts)
      /\ Len(ecdhInfo) = n /\ Len(outPk) = n /\ Len(blindScalars) = n /\ Len(blindAmounts) = n
  BY Lengths, Zenon DEF TypeOK, OutputsAligned
<1>9. /\ outputs' \in Seq(TxOutputs) /\ Len(outputs') = n + k
      /\ \A i \in 1 .. n + k : outputs'[i] = IF i <= n THEN outputs[i] ELSE newOutputs[i - n]
  <2>1. outputs \in Seq(TxOutputs) /\ n = Len(outputs) /\ k \in Nat
    BY <1>2, <1>8
  <2>2. outputs' = outputs \o newOutputs
    BY <1>1
  <2>3. newOutputs \in Seq(TxOutputs) /\ Len(newOutputs) = k
    <3> HIDE DEF newOutputs
    <3> QED BY <1>2, <1>4
  <2> HIDE DEF newOutputs, n
  <2>4. outputs' \in Seq(TxOutputs) /\ Len(outputs') = n + k
    <3>1. outputs \o newOutputs \in Seq(TxOutputs)
      BY <2>1, <2>3, ConcatProperties, Zenon
    <3>2. Len(outputs \o newOutputs) = n + k
      BY <2>1, <2>3
    <3> QED BY <2>2, <3>1, <3>2, Zenon
  <2>5. \A i \in 1 .. n + k : outputs'[i] = IF i <= n THEN outputs[i] ELSE newOutputs[i - n]
    BY <2>1, <2>2, <2>3
  <2> QED BY <2>4, <2>5
<1>10. /\ ecdhInfo' \in Seq(Ciphers) /\ Len(ecdhInfo') = n + k
       /\ \A i \in 1 .. n + k : ecdhInfo'[i] = IF i <= n THEN ecdhInfo[i] ELSE newEcdh[i - n]
  <2>1. ecdhInfo \in Seq(Ciphers) /\ n = Len(ecdhInfo) /\ k \in Nat
    BY <1>2, <1>8
  <2>2. ecdhInfo' = ecdhInfo \o newEcdh
    BY <1>1
  <2>3. newEcdh \in Seq(Ciphers) /\ Len(newEcdh) = k
    <3> HIDE DEF newEcdh
    <3> QED BY <1>2, <1>5
  <2> HIDE DEF newEcdh, n
  <2>4. ecdhInfo' \in Seq(Ciphers) /\ Len(ecdhInfo') = n + k
    <3>1. ecdhInfo \o newEcdh \in Seq(Ciphers)
      BY <2>1, <2>3, ConcatProperties, Zenon
    <3>2. Len(ecdhInfo \o newEcdh) = n + k
      BY <2>1, <2>3
    <3> QED BY <2>2, <3>1, <3>2, Zenon
  <2>5. \A i \in 1 .. n + k : ecdhInfo'[i] = IF i <= n THEN ecdhInfo[i] ELSE newEcdh[i - n]
    BY <2>1, <2>2, <2>3
  <2> QED BY <2>4, <2>5
<1>11. /\ outPk' \in Seq(Commitments) /\ Len(outPk') = n + k
       /\ \A i \in 1 .. n + k : outPk'[i] = IF i <= n THEN outPk[i] ELSE newPk[i - n]
  <2>1. outPk \in Seq(Commitments) /\ n = Len(outPk) /\ k \in Nat
    BY <1>2, <1>8
  <2>2. outPk' = outPk \o newPk
    BY <1>1
  <2>3. newPk \in Seq(Commitments) /\ Len(newPk) = k
    <3> HIDE DEF newPk
    <3> QED BY <1>2, <1>6
  <2> HIDE DEF newPk, n
  <2>4. outPk' \in Seq(Commitments) /\ Len(outPk') = n + k
    <3>1. outPk \o newPk \in Seq(Commitments)
      BY <2>1, <2>3, ConcatProperties, Zenon
    <3>2. Len(outPk \o newPk) = n + k
      BY <2>1, <2>3
    <3> QED BY <2>2, <3>1, <3>2, Zenon
  <2>5. \A i \in 1 .. n + k : outPk'[i] = IF i <= n THEN outPk[i] ELSE newPk[i - n]
    BY <2>1, <2>2, <2>3
  <2> QED BY <2>4, <2>5
<1>12. /\ blindScalars' \in Seq(Scalars) /\ Len(blindScalars') = n + k
       /\ \A i \in 1 .. n + k :
             blindScalars'[i] = IF i <= n THEN blindScalars[i] ELSE newScalars[i - n]
  <2>1. blindScalars \in Seq(Scalars) /\ n = Len(blindScalars) /\ k \in Nat
    BY <1>2, <1>8
  <2>2. blindScalars' = blindScalars \o newScalars
    BY <1>1
  <2>3. newScalars \in Seq(Scalars) /\ Len(newScalars) = k
    <3> HIDE DEF newScalars
    <3> QED BY <1>2, <1>7
  <2> HIDE DEF newScalars, n
  <2>4. blindScalars' \in Seq(Scalars) /\ Len(blindScalars') = n + k
    <3>1. blindScalars \o newScalars \in Seq(Scalars)
      BY <2>1, <2>3, ConcatProperties, Zenon
    <3>2. Len(blindScalars \o newScalars) = n + k
      BY <2>1, <2>3
    <3> QED BY <2>2, <3>1, <3>2, Zenon
  <2>5. \A i \in 1 .. n + k : blindScalars'[i] = IF i <= n THEN blindScalars[i] ELSE newScalars[i - n]
    BY <2>1, <2>2, <2>3
  <2> QED BY <2>4, <2>5
<1>13. /\ blindAmounts' \in Seq(Amounts) /\ Len(blindAmounts') = n + k
       /\ \A i \in 1 .. n + k :
             blindAmounts'[i] = IF i <= n THEN blindAmounts[i] ELSE newAmounts[i - n]
  <2>1. blindAmounts \in Seq(Amounts) /\ n = Len(blindAmounts) /\ k \in Nat
    BY <1>2, <1>8
  <2>2. blindAmounts' = blindAmounts \o newAmounts
    BY <1>1
  <2>3. newAmounts \in Seq(Amounts) /\ Len(newAmounts) = k
    <3> HIDE DEF newAmounts
    <3> QED BY <1>2, <1>7
  <2> HIDE DEF newAmounts, n
  <2>4. blindAmounts' \in Seq(Amounts) /\ Len(blindAmounts') = n + k
    <3>1. blindAmounts \o newAmounts \in Seq(Amounts)
      BY <2>1, <2>3, ConcatProperties, Zenon
    <3>2. Len(blindAmounts \o newAmounts) = n + k
      BY <2>1, <2>3
    <3> QED BY <2>2, <3>1, <3>2, Zenon
  <2>5. \A i \in 1 .. n + k : blindAmounts'[i] = IF i <= n THEN blindAmounts[i] ELSE newAmounts[i - n]
    BY <2>1, <2>2, <2>3
  <2> QED BY <2>4, <2>5
<1>14. \A i \in 1 .. n + k :
          /\ outputs'[i].target.index = i - 1
          /\ ecdhInfo'[i] = EncryptAmount(outputs'[i].target.derivation, i - 1, blindAmounts'[i])
          /\ blindScalars'[i] = Hs[<<outputs'[i].target.derivation, i - 1>>]
          /\ outPk'[i] = Commit(blindAmounts'[i], blindScalars'[i])
  <2> SUFFICES ASSUME NEW i \in 1 .. n + k
               PROVE  /\ outputs'[i].target.index = i - 1
                      /\ ecdhInfo'[i] = EncryptAmount(outputs'[i].target.derivation, i - 1,
                                                      blindAmounts'[i])
                      /\ blindScalars'[i] = Hs[<<outputs'[i].target.derivation, i - 1>>]
                      /\ outPk'[i] = Commit(blindAmounts'[i], blindScalars'[i])
    OBVIOUS
  <2>1. CASE i <= n
    <3>1. i \in DOMAIN outputs
      BY <1>8, <2>1
    <3>2. /\ outputs[i].target.index = i - 1
          /\ ecdhInfo[i] = EncryptAmount(outputs[i].target.derivation, i - 1, blindAmounts[i])
          /\ blindScalars[i] = Hs[<<outputs[i].target.derivation, i - 1>>]
          /\ outPk[i] = Commit(blindAmounts[i], blindScalars[i])
      BY <3>1, Zenon DEF OutputsAligned
    <3>3. /\ outputs'[i] = outputs[i] /\ ecdhInfo'[i] = ecdhInfo[i] /\ outPk'[i] = outPk[i]
          /\ blindScalars'[i] = blindScalars[i] /\ blindAmounts'[i] = blindAmounts[i]
      BY <2>1, <1>9, <1>10, <1>11, <1>12, <1>13, Zenon
    <3> QED BY <3>2, <3>3, Zenon
  <2>2. CASE ~(i <= n)
    <3>1. i - n \in 1 .. k /\ index(i - n) = i - 1
      BY <1>2, <1>8, <2>2
    <3>2. /\ outputs'[i] = newOutputs[i - n] /\ ecdhInfo'[i] = newEcdh[i - n]
          /\ outPk'[i] = newPk[i - n] /\ blindScalars'[i] = newScalars[i - n]
          /\ blindAmounts'[i] = newAmounts[i - n]
      BY <2>2, <1>9, <1>10, <1>11, <1>12, <1>13
    <3> QED BY <3>1, <3>2 DEF OneTimeKey
  <2> QED BY <2>1, <2>2
<1>15. OutputsAligned'
  <2>1. /\ voutCount' = n + k /\ vinCount' = Len(inputs') /\ Len(outputs') = n + k
        /\ Len(ecdhInfo') = n + k /\ Len(outPk') = n + k
        /\ Len(blindScalars') = n + k /\ Len(blindAmounts') = n + k
    BY <1>1, <1>8, <1>9, <1>10, <1>11, <1>12, <1>13
  <2>2. DOMAIN outputs' = 1 .. n + k
    BY <1>9
  <2> HIDE DEF n
  <2> QED BY <2>1, <2>2, <1>14, Zenon DEF OutputsAligned
<1>16. \A i \in 1 .. k : /\ blindAmounts'[n + i] = pOutputs[i].amount
                         /\ outputs'[n + i].target.base = PubSpend(pOutputs[i].address)
  <2> SUFFICES ASSUME NEW i \in 1 .. k
               PROVE  /\ blindAmounts'[n + i] = pOutputs[i].amount
                      /\ outputs'[n + i].target.base = PubSpend(pOutputs[i].address)
    OBVIOUS
  <2>1. n \in Nat /\ n + i \in 1 .. n + k /\ ~(n + i <= n) /\ n + i - n = i
    BY <1>2, <1>8
  <2>2. blindAmounts'[n + i] = newAmounts[i] /\ outputs'[n + i] = newOutputs[i]
    <3> HIDE DEF newAmounts, newOutputs, n
    <3>1. blindAmounts'[n + i] = IF n + i <= n THEN blindAmounts[n + i] ELSE newAmounts[n + i - n]
      BY <2>1, <1>13
    <3>2. outputs'[n + i] = IF n + i <= n THEN outputs[n + i] ELSE newOutputs[n + i - n]
      BY <2>1, <1>9
    <3> QED BY <2>1, <3>1, <3>2
  <2> QED BY <2>2 DEF OneTimeKey
<1>17. voutCount' \in Nat
  BY <1>1, <1>2, <1>8
<1> QED BY <1>9, <1>10, <1>11, <1>12, <1>13, <1>15, <1>16, <1>17

-----------------------------------------------------------------------------
(* The parts of TypeOK, by the groups of fields an action leaves alone.        *)

RequestTypes == pInputs \in Seq(InputRequestType) /\ pOutputs \in Seq(OutputRequestType)
InputTypes   == vinCount \in Nat /\ inputs \in Seq(Coins) /\ hidden \in Seq(Coins)
OutputTypes  == /\ voutCount \in Nat /\ outputs \in Seq(TxOutputs)
                /\ ecdhInfo \in Seq(Ciphers) /\ outPk \in Seq(Commitments)
                /\ blindScalars \in Seq(Scalars) /\ blindAmounts \in Seq(Amounts)
KeyTypes     == publicKey \in Points /\ extra \in Seq(Extras)
SignTypes    == /\ bpp \in Proofs /\ pseudoOuts \in Seq(Commitments) /\ clsags \in Seq(Clsags)
                /\ inputScalars \in Seq(Scalars)
ResultTypes  == hash \in Seq(Wires) /\ sent \in Seq(Wires)
ControlTypes == status \in {"ok", "panic"} /\ step \in 0 .. 10 /\ partial \in BOOLEAN

LEMMA TypeParts ==
    ASSUME RequestTypes', InputTypes', OutputTypes', txnFee' \in Amounts,
           KeyTypes', SignTypes', ResultTypes', ControlTypes'
    PROVE  TypeOK'
BY DEF TypeOK, RequestTypes, InputTypes, OutputTypes, KeyTypes, SignTypes, ResultTypes, ControlTypes

\* What an action leaves alone keeps its type.
LEMMA Frame ==
    ASSUME TypeOK
    PROVE  /\ UNCHANGED requestVars => RequestTypes'
           /\ UNCHANGED inputVars => InputTypes'
           /\ UNCHANGED outputVars => OutputTypes'
           /\ UNCHANGED txnFee => txnFee' \in Amounts
           /\ UNCHANGED keyVars => KeyTypes'
           /\ UNCHANGED signVars => SignTypes'
           /\ UNCHANGED resultVars => ResultTypes'
           /\ UNCHANGED status => status' \in {"ok", "panic"}
           /\ UNCHANGED partial => partial' \in BOOLEAN
<1>1. UNCHANGED requestVars => RequestTypes'
  BY DEF TypeOK, RequestTypes, requestVars
<1>2. UNCHANGED inputVars => InputTypes'
  BY DEF TypeOK, InputTypes, inputVars
<1>3. UNCHANGED outputVars => OutputTypes'
  BY DEF TypeOK, OutputTypes, outputVars
<1>4. UNCHANGED keyVars => KeyTypes'
  BY DEF TypeOK, KeyTypes, keyVars
<1>5. UNCHANGED signVars => SignTypes'
  BY DEF TypeOK, SignTypes, signVars
<1>6. UNCHANGED resultVars => ResultTypes'
  BY DEF TypeOK, ResultTypes, resultVars
<1>7. /\ UNCHANGED txnFee => txnFee' \in Amounts
      /\ UNCHANGED status => status' \in {"ok", "panic"}
      /\ UNCHANGED partial => partial' \in BOOLEAN
  BY Zenon DEF TypeOK
<1> QED BY <1>1, <1>2, <1>3, <1>4, <1>5, <1>6, <1>7

LEMMA AlignedFrame ==
    ASSUME OutputsAligned, UNCHANGED inputVars, UNCHANGED outputVars
    PROVE  OutputsAligned'
BY DEF OutputsAligned, inputVars, outputVars

LEMMA OpensFrame ==
    ASSUME SignedOnceOpens, UNCHANGED signVars
    PROVE  SignedOnceOpens'
BY DEF SignedOnceOpens, signVars

LEMMA StepTyped ==
    ASSUME TypeOK, NEW n \in 1 .. 10, Follow(n) \/ Retry(n)
    PROVE  step' \in 0 .. 10
<1>1. step \in 0 .. 10
  BY Zenon DEF TypeOK
<1>2. CASE Follow(n)
  <2>1. step' = n \/ step' = 0
    BY <1>2, Zenon DEF Follow
  <2> QED BY <2>1
<1>3. CASE Retry(n)
  <2>1. step' = step \/ step' = 0
    BY <1>3, Zenon DEF Retry
  <2> QED BY <1>1, <2>1
<1> QED BY <1>2, <1>3

\* What is hashed and what is sent.
LEMMA WireTyped ==
    ASSUME TypeOK
    PROVE  /\ Wire \in Wires
           /\ \A proof \in Proofs :
                 GetFullMessage(proof) \in [prefix : TxPrefixes, base : Bases, proof : Proofs]
<1>1. PrefixHash \in TxPrefixes
  BY DEF TypeOK, PrefixHash, TxPrefixes
<1>2. CalculatePart1 \in TxPrefixes
  <2>1. Len(inputs) \in Nat /\ Len(outputs) \in Nat
    BY Lengths
  <2> QED BY <2>1 DEF TypeOK, CalculatePart1, TxPrefixes
<1>3. RctSigBase \in Bases
  BY DEF TypeOK, RctSigBase, Bases
<1>4. CalculatePart3 \in [bpp : Proofs, clsags : Seq(Clsags), pseudoOuts : Seq(Commitments)]
  BY DEF TypeOK, CalculatePart3
<1>5. Wire \in Wires
  BY <1>2, <1>3, <1>4 DEF Wire, Wires, CalculatePart2
<1> QED BY <1>1, <1>3, <1>5 DEF GetFullMessage

\* The payee whose keys CalcExtra uses is one of the requests.
LEMMA LastPayeeTyped ==
    ASSUME TypeOK, PayeePositions # {}
    PROVE  LastPayee \in Addresses
<1> DEFINE n == Len(pOutputs)
           T == {j \in Nat : n - j \in PayeePositions}
<1>1. n \in Nat /\ PayeePositions \subseteq 1 .. n
  BY Lengths DEF PayeePositions
<1>2. T \subseteq Nat /\ T # {}
  <2>1. PICK i \in PayeePositions : TRUE
    OBVIOUS
  <2>2. n - i \in Nat /\ n - (n - i) = i
    BY <1>1, <2>1
  <2> QED BY <2>1, <2>2
<1>3. PICK x \in T : \A y \in T : ~(<<y, x>> \in OpToRel(<, Nat))
  <2> HIDE DEF T
  <2> QED BY <1>2, NatLessThanWellFounded, WFMin, Zenon
<1>4. x \in Nat /\ n - x \in PayeePositions
  BY <1>3, Zenon
<1>5. \A y \in T : x <= y
  <2> SUFFICES ASSUME NEW y \in T, ~(x <= y) PROVE FALSE
    OBVIOUS
  <2>1. x \in Nat /\ y \in Nat /\ y < x
    BY <1>2, <1>4
  <2>2. <<y, x>> \in OpToRel(<, Nat)
    BY <2>1 DEF OpToRel
  <2> QED BY <2>2, <1>3
<1>6. \A j \in PayeePositions : j <= n - x
  <2> SUFFICES ASSUME NEW j \in PayeePositions PROVE j <= n - x
    OBVIOUS
  <2>1. j \in Nat /\ x \in Nat /\ n - j \in Nat /\ n - (n - j) = j
    BY <1>1, <1>4
  <2>2. x <= n - j
    BY <2>1, <1>5
  <2> QED BY <1>1, <2>1, <2>2
<1>7. \E i \in PayeePositions : \A j \in PayeePositions : j <= i
  BY <1>4, <1>6
<1>8. (CHOOSE i \in PayeePositions : \A j \in PayeePositions : j <= i) \in PayeePositions
  BY <1>7, Zenon
<1>9. \A i \in PayeePositions : pOutputs[i].address \in Addresses
  <2>1. \A i \in 1 .. n : pOutputs[i] \in OutputRequestType
    BY Lengths, Zenon
  <2> QED BY <1>1, <2>1 DEF OutputRequestType
<1> QED BY <1>8, <1>9, Zenon DEF LastPayee

-----------------------------------------------------------------------------
(* One lemma per action that changes what AnyOrderInv speaks of.               *)

LEMMA RequestsStep ==
    ASSUME AnyOrderInv,
           \/ \E r \in InputRequests : WriteInput(r)
           \/ \E r \in OutputRequests : WriteOutput(r)
    PROVE  AnyOrderInv'
<1> USE DEF AnyOrderInv
<1>1. /\ UNCHANGED inputVars /\ UNCHANGED outputVars /\ UNCHANGED txnFee /\ UNCHANGED keyVars
      /\ UNCHANGED signVars /\ UNCHANGED resultVars /\ UNCHANGED status /\ UNCHANGED partial
      /\ (Follow(2) \/ Follow(3))
  BY Zenon DEF WriteInput, WriteOutput
<1>2. RequestTypes'
  <2>1. CASE \E r \in InputRequests : WriteInput(r)
    <3>1. PICK r \in InputRequests : WriteInput(r)
      BY <2>1
    <3>2. r \in InputRequestType /\ pInputs' = Append(pInputs, r) /\ pOutputs' = pOutputs
      BY <3>1, RequestAssumption, Zenon DEF WriteInput
    <3> QED BY <3>2, Lengths, AppendProperties DEF RequestTypes
  <2>2. CASE \E r \in OutputRequests : WriteOutput(r)
    <3>1. PICK r \in OutputRequests : WriteOutput(r)
      BY <2>2
    <3>2. r \in OutputRequestType /\ pOutputs' = Append(pOutputs, r) /\ pInputs' = pInputs
      BY <3>1, RequestAssumption, Zenon DEF WriteOutput
    <3> QED BY <3>2, Lengths, AppendProperties DEF RequestTypes
  <2> QED BY <2>1, <2>2
<1>3. step' \in 0 .. 10
  BY <1>1, StepTyped
<1>4. TypeOK'
  BY <1>1, <1>2, <1>3, Frame, TypeParts, Zenon DEF ControlTypes
<1> QED BY <1>1, <1>4, AlignedFrame, OpensFrame, Zenon

LEMMA FeeStep ==
    ASSUME AnyOrderInv, (\E fee \in Fees : SetFee(fee)) \/ CalcFeeDifference
    PROVE  AnyOrderInv'
<1> USE DEF AnyOrderInv
<1>1. /\ UNCHANGED requestVars /\ UNCHANGED inputVars /\ UNCHANGED outputVars
      /\ UNCHANGED keyVars /\ UNCHANGED signVars /\ UNCHANGED resultVars
      /\ UNCHANGED status /\ UNCHANGED partial
      /\ txnFee' \in Amounts /\ (step' = 0 \/ Follow(4))
  BY RequestAssumption, Zenon DEF SetFee, CalcFeeDifference
<1>2. step' \in 0 .. 10
  BY <1>1, StepTyped
<1>3. TypeOK'
  BY <1>1, <1>2, Frame, TypeParts, Zenon DEF ControlTypes
<1> QED BY <1>1, <1>3, AlignedFrame, OpensFrame, Zenon

LEMMA ExtraStep ==
    ASSUME AnyOrderInv, CalcExtra
    PROVE  AnyOrderInv'
<1> USE DEF AnyOrderInv
<1>1. /\ UNCHANGED requestVars /\ UNCHANGED inputVars /\ UNCHANGED outputVars
      /\ UNCHANGED txnFee /\ UNCHANGED signVars /\ UNCHANGED resultVars
      /\ UNCHANGED status /\ UNCHANGED partial /\ Follow(5)
      /\ PayeePositions # {} /\ publicKey' = TxPublicKey
  BY Zenon DEF CalcExtra
<1>2. LastPayee \in Addresses
  BY <1>1, LastPayeeTyped
<1>3. TxPublicKey \in Points
  BY <1>2, KeysAreWellFormed, MultiplyIsPoint, ZeroKeyIsPoint, Zenon DEF TxPublicKey
<1>4. EncryptPaymentID(ExtractPaymentID(LastPayee), PubView(LastPayee), TxSecret)
          \in [derivation : Points, pid : Nat]
  BY <1>2, KeysAreWellFormed, MultiplyIsPoint DEF EncryptPaymentID, KeyDerivation
<1>5. extra' \in Seq(Extras)
  <2> DEFINE e == [publicKey |-> TxPublicKey,
                   paymentId |-> EncryptPaymentID(ExtractPaymentID(LastPayee),
                                                  PubView(LastPayee), TxSecret)]
  <2>1. extra' = <<e>>
    BY Zenon DEF CalcExtra
  <2>2. e \in Extras
    BY <1>3, <1>4 DEF Extras
  <2> HIDE DEF e
  <2> QED BY <2>1, <2>2
<1>6. step' \in 0 .. 10
  BY <1>1, StepTyped
<1>7. TypeOK'
  BY <1>1, <1>3, <1>5, <1>6, Frame, TypeParts, Zenon DEF ControlTypes, KeyTypes
<1> QED BY <1>1, <1>7, AlignedFrame, OpensFrame, Zenon

\* What the input loop adds; k = 0 when there is no request.
LEMMA InputsAppended ==
    ASSUME TypeOK, OutputsAligned, NEW k \in 0 .. Len(pInputs), AddInputs(k)
    PROVE  /\ inputs' \in Seq(Coins) /\ vinCount' \in Nat /\ vinCount' = Len(inputs')
           /\ Len(inputs') = Len(inputs) + k
           /\ hidden' \in Seq(Coins)
<1> DEFINE new == [i \in 1 .. k |-> pInputs[i].coin]
<1>1. inputs' = inputs \o new /\ vinCount' = vinCount + k
  BY Zenon DEF AddInputs
<1>2. k \in Nat /\ \A i \in 1 .. k : pInputs[i].coin \in Coins
  <2>1. \A i \in 1 .. Len(pInputs) : pInputs[i] \in InputRequestType
    BY Lengths, Zenon
  <2>2. Len(pInputs) \in Nat
    BY Lengths
  <2> QED BY <2>1, <2>2 DEF InputRequestType
<1>3. new \in Seq(Coins) /\ Len(new) = k
  BY <1>2
<1>4. inputs \in Seq(Coins) /\ vinCount = Len(inputs) /\ Len(inputs) \in Nat
  BY Lengths, Zenon DEF OutputsAligned
<1> HIDE DEF new
<1>5. inputs \o new \in Seq(Coins)
  BY <1>3, <1>4, ConcatProperties, Zenon
<1>6. Len(inputs \o new) = Len(inputs) + k
  BY <1>3, <1>4, ConcatProperties, Zenon
<1>7. vinCount + k \in Nat
  BY <1>2, <1>4
<1>8. hidden' \in Seq(Coins)
  <2>1. PICK shown \in [1 .. k -> Coins] : hidden' = hidden \o shown
    BY Zenon DEF AddInputs
  <2>2. shown \in Seq(Coins)
    BY <1>2
  <2>3. hidden \in Seq(Coins)
    BY Zenon DEF TypeOK
  <2> QED BY <2>1, <2>2, <2>3, ConcatProperties, Zenon
<1> QED BY <1>1, <1>4, <1>5, <1>6, <1>7, <1>8, Zenon

LEMMA InputsStep ==
    ASSUME AnyOrderInv, CalcInputs \/ CalcInputsFails
    PROVE  AnyOrderInv'
<1> USE DEF AnyOrderInv
<1>1. PICK k \in 0 .. Len(pInputs) : AddInputs(k)
  <2>1. Len(pInputs) \in Nat
    BY Lengths
  <2>2. CASE CalcInputs
    <3>1. Len(pInputs) \in 0 .. Len(pInputs)
      BY <2>1
    <3> QED BY <2>2, <3>1, Zenon DEF CalcInputs
  <2>3. CASE CalcInputsFails
    <3>1. PICK k \in 1 .. Len(pInputs) - 1 : AddInputs(k)
      BY <2>3, Zenon DEF CalcInputsFails
    <3>2. k \in 0 .. Len(pInputs)
      BY <2>1
    <3> QED BY <3>1, <3>2, Zenon
  <2> QED BY <2>2, <2>3
<1>2. /\ UNCHANGED requestVars /\ UNCHANGED outputVars /\ UNCHANGED txnFee /\ UNCHANGED keyVars
      /\ UNCHANGED signVars /\ UNCHANGED resultVars /\ UNCHANGED status
  BY <1>1, Zenon DEF AddInputs
<1>3. /\ inputs' \in Seq(Coins) /\ vinCount' \in Nat /\ vinCount' = Len(inputs')
      /\ hidden' \in Seq(Coins)
  BY <1>1, InputsAppended
<1>4. (Follow(6) \/ Retry(6)) /\ partial' \in BOOLEAN
  BY Zenon DEF CalcInputs, CalcInputsFails, TypeOK
<1>5. step' \in 0 .. 10
  BY <1>4, StepTyped
<1>6. TypeOK'
  BY <1>2, <1>3, <1>4, <1>5, Frame, TypeParts, Zenon DEF ControlTypes, InputTypes
<1>7. OutputsAligned'
  BY <1>2, <1>3, Zenon DEF OutputsAligned, outputVars
<1> QED BY <1>2, <1>6, <1>7, OpensFrame, Zenon

LEMMA OutputsStep ==
    ASSUME AnyOrderInv, CalcOutputs \/ CalcOutputsFails
    PROVE  AnyOrderInv'
<1> USE DEF AnyOrderInv
<1>1. PICK k \in 0 .. Len(pOutputs) : AddOutputs(k)
  <2>1. Len(pOutputs) \in Nat
    BY Lengths
  <2>2. CASE CalcOutputs
    <3>1. Len(pOutputs) \in 0 .. Len(pOutputs)
      BY <2>1
    <3> QED BY <2>2, <3>1, Zenon DEF CalcOutputs
  <2>3. CASE CalcOutputsFails
    <3>1. PICK k \in 1 .. Len(pOutputs) - 1 : AddOutputs(k)
      BY <2>3, Zenon DEF CalcOutputsFails
    <3>2. k \in 0 .. Len(pOutputs)
      BY <2>1
    <3> QED BY <3>1, <3>2, Zenon
  <2> QED BY <2>2, <2>3
<1>2. /\ UNCHANGED requestVars /\ UNCHANGED inputVars /\ UNCHANGED txnFee /\ UNCHANGED keyVars
      /\ UNCHANGED signVars /\ UNCHANGED resultVars /\ UNCHANGED status /\ UNCHANGED partial
  BY <1>1, Zenon DEF AddOutputs
<1>3. OutputTypes' /\ OutputsAligned'
  BY <1>1, OutputsAppended, Zenon DEF OutputTypes
<1>4. Follow(7) \/ Retry(7)
  BY Zenon DEF CalcOutputs, CalcOutputsFails
<1>5. step' \in 0 .. 10
  BY <1>4, StepTyped
<1>6. TypeOK'
  BY <1>2, <1>3, <1>5, Frame, TypeParts, Zenon DEF ControlTypes
<1> QED BY <1>2, <1>3, <1>6, OpensFrame, Zenon

\* One signing: what calculatePseudoOuts and signCLSAGs leave.
LEMMA Signed ==
    ASSUME AnyOrderInv, SignTransaction
    PROVE  /\ bpp' \in Proofs
           /\ pseudoOuts' \in Seq(Commitments) /\ Len(pseudoOuts') = Len(inputs)
           /\ inputScalars' \in Seq(Scalars)
           /\ Len(inputScalars') = Len(inputScalars) + Len(inputs)
           /\ clsags' \in Seq(Clsags) /\ Len(clsags') = Len(inputs)
           /\ \A i \in 1 .. Len(inputs) :
                 /\ clsags'[i].pseudoOut = pseudoOuts'[i] /\ clsags'[i].coin = inputs[i]
                 /\ clsags'[i].z = ScSub(CoinMask[inputs[i]], inputScalars'[i])
                 /\ clsags'[i].message = GetFullMessage(bpp')
                 /\ inputScalars = <<>> => pseudoOuts'[i].mask = inputScalars'[i]
<1> DEFINE n == Len(inputs)
<1>1. /\ n \in 1 .. Len(pInputs) /\ bpp' = signBpp
      /\ clsags' = signCLSAGs(bpp', inputScalars', pseudoOuts')
  BY Zenon DEF SignTransaction
<1>2. PICK masks \in [1 .. n -> Scalars] : calculatePseudoOuts(masks)
  BY Zenon DEF SignTransaction
<1>3. /\ n \in Nat /\ Len(pInputs) \in Nat /\ DOMAIN inputs = 1 .. n
      /\ inputs \in Seq(Coins) /\ inputScalars \in Seq(Scalars)
      /\ \A i \in 1 .. Len(pInputs) : pInputs[i] \in InputRequestType
  BY Lengths, Zenon DEF AnyOrderInv
<1>4. /\ pseudoOuts' = [i \in 1 .. n |-> Commit(pInputs[i].amount, masks[i])]
      /\ inputScalars' = inputScalars \o masks
  BY <1>2, <1>3, Zenon DEF calculatePseudoOuts
<1>5. bpp' \in Proofs
  <2>1. blindAmounts \in Seq(Amounts) /\ blindScalars \in Seq(Scalars)
    BY Zenon DEF AnyOrderInv, TypeOK
  <2> QED BY <1>1, <2>1 DEF signBpp, Proofs
<1>6. \A i \in 1 .. n : /\ pInputs[i].amount \in Amounts /\ masks[i] \in Scalars
                        /\ inputs[i] \in Coins
  <2>1. \A i \in 1 .. n : i \in 1 .. Len(pInputs)
    BY <1>1, <1>3
  <2> QED BY <2>1, <1>2, <1>3 DEF InputRequestType
<1>7. \A i \in 1 .. n : Commit(pInputs[i].amount, masks[i]) \in Commitments
  BY <1>6 DEF Commit, Commitments
<1>8. pseudoOuts' \in Seq(Commitments) /\ Len(pseudoOuts') = n
  BY <1>3, <1>4, <1>7
<1>9. masks \in Seq(Scalars) /\ Len(masks) = n
  BY <1>2, <1>3
<1>10. inputScalars' \in Seq(Scalars) /\ Len(inputScalars') = Len(inputScalars) + n
  <2>1. inputScalars \o masks \in Seq(Scalars)
    BY <1>3, <1>9, ConcatProperties, Zenon
  <2>2. Len(inputScalars \o masks) = Len(inputScalars) + n
    <3>1. Len(inputScalars \o masks) = Len(inputScalars) + Len(masks)
      BY <1>3, <1>9, ConcatProperties, Zenon
    <3> QED BY <1>9, <3>1, Zenon
  <2> QED BY <1>4, <2>1, <2>2, Zenon
<1>11. \A i \in 1 .. n : inputScalars'[i] \in Scalars
  BY <1>3, <1>10
<1>12. /\ DOMAIN clsags' = 1 .. n
       /\ \A i \in 1 .. n : clsags'[i] =
             [message |-> GetFullMessage(bpp'), coin |-> inputs[i],
              z |-> ScSub(CoinMask[inputs[i]], inputScalars'[i]), pseudoOut |-> pseudoOuts'[i]]
  BY <1>1, <1>3, Zenon DEF signCLSAGs
<1>13. \A i \in 1 .. n : clsags'[i] \in Clsags
  <2> SUFFICES ASSUME NEW i \in 1 .. n PROVE clsags'[i] \in Clsags
    OBVIOUS
  <2>1. GetFullMessage(bpp') \in [prefix : TxPrefixes, base : Bases, proof : Proofs]
    BY <1>5, WireTyped, Zenon DEF AnyOrderInv
  <2>2. CoinMask[inputs[i]] \in Scalars
    BY <1>6, CoinAssumption
  <2>3. ScSub(CoinMask[inputs[i]], inputScalars'[i]) \in Scalars
    BY <2>2, <1>11, ScSubAdd, Zenon
  <2>4. pseudoOuts'[i] \in Commitments
    BY <1>8
  <2>5. inputs[i] \in Coins
    BY <1>6
  <2>6. clsags'[i] =
             [message |-> GetFullMessage(bpp'), coin |-> inputs[i],
              z |-> ScSub(CoinMask[inputs[i]], inputScalars'[i]), pseudoOut |-> pseudoOuts'[i]]
    BY <1>12
  <2> QED BY <2>1, <2>3, <2>4, <2>5, <2>6 DEF Clsags
<1>14. clsags' = [i \in 1 .. n |-> clsags'[i]]
  BY <1>1, <1>3, <1>12, Zenon DEF signCLSAGs
<1>15. clsags' \in Seq(Clsags) /\ Len(clsags') = n
  <2>1. clsags' \in [1 .. n -> Clsags]
    BY <1>13, <1>14, Zenon
  <2> HIDE DEF n
  <2> QED BY <1>3, <2>1
<1>16. ASSUME inputScalars = <<>>, NEW i \in 1 .. n PROVE pseudoOuts'[i].mask = inputScalars'[i]
  <2>1. inputScalars' = masks
    BY <1>4, <1>9, <1>16, ConcatEmptySeq, Zenon
  <2>2. pseudoOuts'[i] = Commit(pInputs[i].amount, masks[i])
    BY <1>4, Zenon
  <2> QED BY <2>1, <2>2 DEF Commit
<1>17. \A i \in 1 .. n :
          /\ clsags'[i].pseudoOut = pseudoOuts'[i] /\ clsags'[i].coin = inputs[i]
          /\ clsags'[i].z = ScSub(CoinMask[inputs[i]], inputScalars'[i])
          /\ clsags'[i].message = GetFullMessage(bpp')
  BY <1>12
<1> QED BY <1>5, <1>8, <1>10, <1>15, <1>16, <1>17, Zenon

LEMMA SignStep ==
    ASSUME AnyOrderInv, SignTransaction
    PROVE  AnyOrderInv'
<1> DEFINE n == Len(inputs)
<1>1. /\ UNCHANGED requestVars /\ UNCHANGED inputVars /\ UNCHANGED outputVars
      /\ UNCHANGED txnFee /\ UNCHANGED keyVars /\ UNCHANGED resultVars
      /\ UNCHANGED status /\ UNCHANGED partial /\ Follow(8)
  BY Zenon DEF SignTransaction
<1>2. SignTypes'
  BY Signed, Zenon DEF SignTypes
<1>3. step' \in 0 .. 10
  BY <1>1, StepTyped DEF AnyOrderInv
<1>4. TypeOK'
  BY <1>1, <1>2, <1>3, Frame, TypeParts, Zenon DEF AnyOrderInv, ControlTypes
<1>5. OutputsAligned'
  BY <1>1, AlignedFrame, Zenon DEF AnyOrderInv
<1>6. SignedOnceOpens'
  <2> SUFFICES ASSUME Len(inputScalars') = Len(pseudoOuts')
               PROVE  /\ Len(clsags') = Len(pseudoOuts')
                      /\ \A i \in DOMAIN clsags' :
                            /\ clsags'[i].pseudoOut = pseudoOuts'[i]
                            /\ ScAdd(clsags'[i].z, pseudoOuts'[i].mask)
                                  = CoinMask[clsags'[i].coin]
    BY Zenon DEF SignedOnceOpens
  <2>1. /\ Len(pseudoOuts') = n /\ Len(clsags') = n /\ clsags' \in Seq(Clsags)
        /\ Len(inputScalars') = Len(inputScalars) + n
    BY Signed, Zenon
  <2>2. inputs \in Seq(Coins) /\ inputScalars \in Seq(Scalars)
    BY Lengths, Zenon DEF AnyOrderInv
  <2>3. inputScalars = <<>>
    BY <2>1, <2>2
  <2>4. DOMAIN clsags' = 1 .. n
    BY <2>1, <2>2
  <2>5. ASSUME NEW i \in 1 .. n
        PROVE  /\ clsags'[i].pseudoOut = pseudoOuts'[i]
               /\ ScAdd(clsags'[i].z, pseudoOuts'[i].mask) = CoinMask[clsags'[i].coin]
    <3>1. /\ clsags'[i].pseudoOut = pseudoOuts'[i] /\ clsags'[i].coin = inputs[i]
          /\ clsags'[i].z = ScSub(CoinMask[inputs[i]], inputScalars'[i])
          /\ pseudoOuts'[i].mask = inputScalars'[i]
      BY <2>3, Signed, Zenon
    <3>2. inputScalars' \in Seq(Scalars) /\ Len(inputScalars') = n
      <4>1. inputScalars' \in Seq(Scalars)
        BY Signed, Zenon
      <4>2. Len(inputScalars) = 0
        BY <2>3
      <4>3. n \in Nat /\ Len(inputScalars') = Len(inputScalars) + n
        BY <2>1, <2>2
      <4> HIDE DEF n
      <4>4. Len(inputScalars') = n
        BY <4>2, <4>3
      <4> QED BY <4>1, <4>4, Zenon
    <3>3. inputs[i] \in Coins /\ inputScalars'[i] \in Scalars
      <4> HIDE DEF n
      <4>1. inputs \in Seq(Coins) /\ Len(inputs) = n
        BY <2>2 DEF n
      <4> QED BY <3>2, <4>1
    <3>4. CoinMask[inputs[i]] \in Scalars
      BY <3>3, CoinAssumption
    <3>5. ScAdd(ScSub(CoinMask[inputs[i]], inputScalars'[i]), inputScalars'[i])
             = CoinMask[inputs[i]]
      BY <3>3, <3>4, ScSubAdd, Zenon
    <3> QED BY <3>1, <3>5, Zenon
  <2> QED BY <2>1, <2>4, <2>5, Zenon
<1> QED BY <1>4, <1>5, <1>6 DEF AnyOrderInv

LEMMA FailedSignStep ==
    ASSUME AnyOrderInv, SignTransactionFails
    PROVE  AnyOrderInv'
<1> USE DEF AnyOrderInv
<1>1. /\ UNCHANGED requestVars /\ UNCHANGED inputVars /\ UNCHANGED outputVars
      /\ UNCHANGED txnFee /\ UNCHANGED keyVars /\ UNCHANGED resultVars
      /\ UNCHANGED status /\ UNCHANGED partial /\ Retry(8)
      /\ bpp' = signBpp /\ pseudoOuts' = pseudoOuts /\ clsags' = clsags
      /\ inputScalars' = inputScalars
  BY Zenon DEF SignTransactionFails
<1>2. signBpp \in Proofs
  <2>1. blindAmounts \in Seq(Amounts) /\ blindScalars \in Seq(Scalars)
    BY Zenon DEF TypeOK
  <2> QED BY <2>1 DEF signBpp, Proofs
<1>3. SignTypes'
  BY <1>1, <1>2, Zenon DEF SignTypes, TypeOK
<1>4. step' \in 0 .. 10
  BY <1>1, StepTyped
<1>5. TypeOK'
  BY <1>1, <1>3, <1>4, Frame, TypeParts, Zenon DEF ControlTypes
<1>6. SignedOnceOpens'
  BY <1>1, Zenon DEF SignedOnceOpens
<1> QED BY <1>1, <1>5, <1>6, AlignedFrame, Zenon

LEMMA ResultStep ==
    ASSUME AnyOrderInv, CalcHash \/ Serialize
    PROVE  AnyOrderInv'
<1> USE DEF AnyOrderInv
<1>1. /\ UNCHANGED requestVars /\ UNCHANGED inputVars /\ UNCHANGED outputVars
      /\ UNCHANGED txnFee /\ UNCHANGED keyVars /\ UNCHANGED signVars
      /\ UNCHANGED status /\ UNCHANGED partial /\ (Follow(9) \/ Follow(10))
      /\ hash' \in {hash, <<Wire>>} /\ sent' \in {sent, <<Wire>>}
  BY Zenon DEF CalcHash, Serialize
<1>2. <<Wire>> \in Seq(Wires)
  <2>1. Wire \in Wires
    BY WireTyped
  <2> QED BY <2>1
<1>3. ResultTypes'
  BY <1>1, <1>2, Zenon DEF ResultTypes, TypeOK
<1>4. step' \in 0 .. 10
  BY <1>1, StepTyped
<1>5. TypeOK'
  BY <1>1, <1>3, <1>4, Frame, TypeParts, Zenon DEF ControlTypes
<1> QED BY <1>1, <1>5, AlignedFrame, OpensFrame, Zenon

LEMMA RetryMoves ==
    ASSUME NEW n \in 2 .. 10, step \in 0 .. 10, Retry(n)
    PROVE  step' = 0 \/ (step' = step /\ step = n - 1)
<1>1. step' = IF step = n - 1 THEN step ELSE 0
  BY Zenon DEF Retry
<1> QED BY <1>1

\* A call that panics, whichever it is, changes only what says so.
AnyPanic == CalcExtraPanics \/ CalcInputsPanics \/ CalcOutputsPanics \/ SignTransactionPanics

LEMMA PanicMoves ==
    ASSUME step \in 0 .. 10, AnyPanic
    PROVE  /\ UNCHANGED requestVars /\ UNCHANGED inputVars /\ UNCHANGED outputVars
           /\ UNCHANGED txnFee /\ UNCHANGED keyVars /\ UNCHANGED signVars /\ UNCHANGED resultVars
           /\ UNCHANGED partial /\ status' = "panic"
           /\ step' = 0 \/ (step' = step /\ step \in 4 .. 7)
<1>1. PICK n \in 5 .. 8 : Panic(n)
  <2>1. 5 \in 5 .. 8 /\ 6 \in 5 .. 8 /\ 7 \in 5 .. 8 /\ 8 \in 5 .. 8
    OBVIOUS
  <2> QED BY <2>1, Zenon DEF AnyPanic, CalcExtraPanics, CalcInputsPanics, CalcOutputsPanics,
                             SignTransactionPanics
<1>2. n \in 2 .. 10 /\ (step = n - 1 => step \in 4 .. 7)
  OBVIOUS
<1>3. step' = 0 \/ (step' = step /\ step = n - 1)
  BY <1>1, <1>2, RetryMoves, Zenon DEF Panic
<1> QED BY <1>1, <1>2, <1>3, Zenon DEF Panic

LEMMA PanicStep ==
    ASSUME AnyOrderInv, AnyPanic
    PROVE  AnyOrderInv'
<1> USE DEF AnyOrderInv
<1>1. /\ UNCHANGED requestVars /\ UNCHANGED inputVars /\ UNCHANGED outputVars
      /\ UNCHANGED txnFee /\ UNCHANGED keyVars /\ UNCHANGED signVars /\ UNCHANGED resultVars
      /\ UNCHANGED partial /\ status' = "panic"
      /\ step \in 0 .. 10 /\ (step' = 0 \/ step' = step)
  BY PanicMoves, Zenon DEF TypeOK
<1>2. status' \in {"ok", "panic"} /\ step' \in 0 .. 10
  BY <1>1
<1>3. TypeOK'
  BY <1>1, <1>2, Frame, TypeParts, Zenon DEF ControlTypes
<1> QED BY <1>1, <1>3, AlignedFrame, OpensFrame, Zenon

LEMMA NextAnyOrder == AnyOrderInv /\ [Next]_vars => AnyOrderInv'
<1> SUFFICES ASSUME AnyOrderInv, [Next]_vars PROVE AnyOrderInv'
  OBVIOUS
<1>1. CASE \/ \E r \in InputRequests : WriteInput(r)
           \/ \E r \in OutputRequests : WriteOutput(r)
  BY <1>1, RequestsStep, Zenon
<1>2. CASE (\E fee \in Fees : SetFee(fee)) \/ CalcFeeDifference
  BY <1>2, FeeStep, Zenon
<1>3. CASE CalcExtra
  BY <1>3, ExtraStep, Zenon
<1>4. CASE CalcInputs \/ CalcInputsFails
  BY <1>4, InputsStep, Zenon
<1>5. CASE CalcOutputs \/ CalcOutputsFails
  BY <1>5, OutputsStep, Zenon
<1>6. CASE SignTransaction
  BY <1>6, SignStep, Zenon
<1>7. CASE SignTransactionFails
  BY <1>7, FailedSignStep, Zenon
<1>8. CASE CalcHash \/ Serialize
  BY <1>8, ResultStep, Zenon
<1>9. CASE AnyPanic
  BY <1>9, PanicStep, Zenon
<1>10. CASE UNCHANGED vars
  <2>1. /\ UNCHANGED inputVars /\ UNCHANGED outputVars /\ UNCHANGED signVars
    BY <1>10, Zenon DEF vars
  <2>2. TypeOK'
    BY <1>10 DEF AnyOrderInv, TypeOK, vars, requestVars, inputVars, outputVars, keyVars, signVars,
                 resultVars
  <2> QED BY <2>1, <2>2, AlignedFrame, OpensFrame, Zenon DEF AnyOrderInv
<1> QED BY <1>1, <1>2, <1>3, <1>4, <1>5, <1>6, <1>7, <1>8, <1>9, <1>10, Zenon DEF Next, AnyPanic

LEMMA AnyOrderInvariance == Spec => []AnyOrderInv
BY InitAnyOrder, NextAnyOrder, PTL DEF Spec

\* Whatever calls a caller makes, in whatever order, the fields of the
\* transaction object keep their types: in particular every scalar a signature
\* carries is reduced and every output index is in range.
THEOREM TypeCorrect == Spec => []TypeOK
BY AnyOrderInvariance, PTL DEF AnyOrderInv

\* Whatever calls a caller makes, the per-output slices stay aligned: position i
\* of each was computed for output index i - 1 from one derivation.
THEOREM OutputsStayAligned == Spec => []OutputsAligned
BY AnyOrderInvariance, PTL DEF AnyOrderInv

\* Whatever calls a caller makes, a transaction signed once carries ring
\* signatures that open the pseudo outputs beside them.
THEOREM OneSigningOpens == Spec => []SignedOnceOpens
BY AnyOrderInvariance, PTL DEF AnyOrderInv

-----------------------------------------------------------------------------
(* The documented order (types/tx2.go:22-32): what is true at each value of      *)
(* step.  It holds of Spec, in which a caller may leave the order at any time:   *)
(* step is 0 from then on, and nothing is claimed.                               *)

(* The inductive invariant, by what it speaks of.                              *)

\* CalcInputs is step 6: before it there are no inputs, after it there is one per
\* request, and a failure on the way leaves too many.
InputsInOrder ==
    /\ step \in 1 .. 5 /\ ~partial => inputs = <<>>
    /\ step >= 6 /\ ~partial => inputs = [i \in DOMAIN pInputs |-> pInputs[i].coin]
    /\ partial => step \notin 1 .. 4 /\ step < 8
    /\ partial /\ step = 5 => Len(inputs) >= 1
    /\ partial /\ step \in {6, 7} => Len(inputs) > Len(pInputs)

\* CalcOutputs is step 7.  One that fails leaves outputs, but then the address it
\* failed on makes every retry fail.
OutputsInOrder ==
    /\ step \in 1 .. 6 => \/ outputs = <<>>
                          \/ step = 6 /\ \E i \in DOMAIN pOutputs : OutputError(pOutputs[i])
    /\ step >= 7 => /\ blindAmounts = AmountsOf(pOutputs)
                    /\ \A i \in DOMAIN pOutputs :
                          outputs[i].target.base = PubSpend(pOutputs[i].address)

\* SignTransaction is step 8.
SignedInOrder ==
    step >= 8 => \A i \in DOMAIN clsags : clsags[i].message = GetFullMessage(bpp)

\* CalcHash and Serialize are steps 9 and 10.
ResultsInOrder ==
    /\ step >= 9 => hash = <<Wire>>
    /\ step = 10 => sent = <<Wire>>

OrderInv == InputsInOrder /\ OutputsInOrder /\ SignedInOrder /\ ResultsInOrder /\ PanicsExplained

LEMMA InitOrder == Init => OrderInv
BY DEF Init, OrderInv, InputsInOrder, OutputsInOrder, SignedInOrder, ResultsInOrder,
       PanicsExplained

-----------------------------------------------------------------------------
(* Lemmas about steps.                                                         *)

LEMMA FollowMoves ==
    ASSUME NEW n \in 2 .. 10, step \in 0 .. 10, Follow(n)
    PROVE  \/ step' = 0
           \/ step' = n /\ step = n - 1
           \/ step' = n /\ step = n /\ n \in {2, 3}
<1>1. step' = IF step = n - 1 \/ (n \in {2, 3} /\ step = n) THEN n ELSE 0
  BY Zenon DEF Follow
<1> QED BY <1>1

\* Once the order is left nothing is claimed, but for a panic.
LEMMA OutOfOrder ==
    ASSUME step' = 0
    PROVE  OrderInv'
BY DEF OrderInv, InputsInOrder, OutputsInOrder, SignedInOrder, ResultsInOrder, PanicsExplained

\* Nothing is claimed of what is signed, hashed and sent before it is.
LEMMA BeforeSigning ==
    ASSUME step' \in 1 .. 7
    PROVE  SignedInOrder' /\ ResultsInOrder'
BY DEF SignedInOrder, ResultsInOrder

LEMMA NoPanic ==
    ASSUME status' = "ok"
    PROVE  PanicsExplained'
BY DEF PanicsExplained

-----------------------------------------------------------------------------
(* One lemma per action, or per group of actions that move alike.              *)

\* WriteInput, WriteOutput, SetFee, CalcFeeDifference and CalcExtra come before
\* CalcInputs.
LEMMA EarlyOrder ==
    ASSUME AnyOrderInv, OrderInv, status = "ok",
           \/ \E r \in InputRequests : WriteInput(r)
           \/ \E r \in OutputRequests : WriteOutput(r)
           \/ \E fee \in Fees : SetFee(fee)
           \/ CalcFeeDifference
           \/ CalcExtra
    PROVE  OrderInv'
<1>1. /\ UNCHANGED inputs /\ UNCHANGED outputs /\ UNCHANGED partial /\ status' = "ok"
      /\ \/ step' = 0
         \/ Follow(2) \/ Follow(3) \/ Follow(4) \/ Follow(5)
  BY Zenon DEF WriteInput, WriteOutput, SetFee, CalcFeeDifference, CalcExtra, inputVars, outputVars
<1>2. step \in 0 .. 10
  BY Lengths DEF AnyOrderInv
<1>3. step' = 0 \/ (step \in 1 .. 4 /\ step' \in 1 .. 5)
  <2>1. CASE Follow(2)
    BY <2>1, <1>2, FollowMoves
  <2>2. CASE Follow(3)
    BY <2>2, <1>2, FollowMoves
  <2>3. CASE Follow(4)
    BY <2>3, <1>2, FollowMoves
  <2>4. CASE Follow(5)
    BY <2>4, <1>2, FollowMoves
  <2> QED BY <1>1, <2>1, <2>2, <2>3, <2>4
<1>4. CASE step \in 1 .. 4 /\ step' \in 1 .. 5
  <2>1. inputs = <<>> /\ outputs = <<>> /\ ~partial
    BY <1>4 DEF OrderInv, InputsInOrder, OutputsInOrder
  <2>2. InputsInOrder' /\ OutputsInOrder'
    BY <1>1, <1>4, <2>1 DEF InputsInOrder, OutputsInOrder
  <2>3. SignedInOrder' /\ ResultsInOrder'
    BY <1>4, BeforeSigning
  <2> QED BY <1>1, <2>2, <2>3, NoPanic DEF OrderInv
<1> QED BY <1>3, <1>4, OutOfOrder

\* What AddInputs leaves of the inputs.
LEMMA InputsAdded ==
    ASSUME TypeOK, OutputsAligned, NEW k \in 0 .. Len(pInputs), AddInputs(k)
    PROVE  /\ inputs = <<>> => inputs' = [i \in 1 .. k |-> pInputs[i].coin]
           /\ Len(inputs') = Len(inputs) + k
           /\ pInputs' = pInputs /\ pOutputs' = pOutputs /\ outputs' = outputs /\ status' = status
<1> DEFINE new == [i \in 1 .. k |-> pInputs[i].coin]
<1>1. /\ inputs' = inputs \o new
      /\ pInputs' = pInputs /\ pOutputs' = pOutputs /\ outputs' = outputs /\ status' = status
  BY Zenon DEF AddInputs, requestVars, outputVars
<1>2. k \in Nat /\ \A i \in 1 .. k : pInputs[i].coin \in Coins
  <2>1. \A i \in 1 .. Len(pInputs) : pInputs[i] \in InputRequestType
    BY Lengths
  <2>2. Len(pInputs) \in Nat
    BY Lengths
  <2> QED BY <2>1, <2>2 DEF InputRequestType
<1>3. new \in Seq(Coins)
  BY <1>2
<1>4. inputs = <<>> => inputs' = new
  <2> HIDE DEF new
  <2> QED BY <1>1, <1>3, ConcatEmptySeq, Zenon
<1>5. Len(inputs') = Len(inputs) + k
  BY InputsAppended
<1> QED BY <1>1, <1>4, <1>5

LEMMA InputsOrder ==
    ASSUME AnyOrderInv, OrderInv, status = "ok", CalcInputs
    PROVE  OrderInv'
<1>1. /\ step \in 0 .. 10 /\ Len(pInputs) \in Nat /\ Len(inputs) \in Nat
      /\ Len(pInputs) \in 0 .. Len(pInputs) /\ DOMAIN pInputs = 1 .. Len(pInputs)
      /\ TypeOK /\ OutputsAligned
  BY Lengths DEF AnyOrderInv
<1>2. AddInputs(Len(pInputs)) /\ Follow(6) /\ partial' = partial
  BY Zenon DEF CalcInputs
<1>3. /\ inputs = <<>> => inputs' = [i \in 1 .. Len(pInputs) |-> pInputs[i].coin]
      /\ Len(inputs') = Len(inputs) + Len(pInputs)
      /\ pInputs' = pInputs /\ pOutputs' = pOutputs /\ outputs' = outputs /\ status' = status
  BY <1>1, <1>2, InputsAdded, Zenon
<1>4. step' = 0 \/ (step' = 6 /\ step = 5)
  BY <1>1, <1>2, FollowMoves
<1>5. CASE step' = 6 /\ step = 5
  <2>1. outputs = <<>>
    BY <1>5 DEF OrderInv, OutputsInOrder
  <2>2. OutputsInOrder'
    BY <1>3, <1>5, <2>1 DEF OutputsInOrder
  <2>3. InputsInOrder'
    <3>1. CASE ~partial
      <4>1. inputs = <<>>
        BY <1>5, <3>1 DEF OrderInv, InputsInOrder
      <4>2. inputs' = [i \in DOMAIN pInputs' |-> pInputs'[i].coin]
        BY <1>1, <1>3, <4>1, Zenon
      <4>3. ~partial' /\ step' = 6
        BY <1>2, <1>5, <3>1, Zenon
      <4> QED BY <4>2, <4>3 DEF InputsInOrder
    <3>2. CASE partial
      <4>1. Len(inputs) >= 1
        <5>1. partial /\ step = 5
          BY <1>5, <3>2
        <5>2. InputsInOrder
          BY Zenon DEF OrderInv
        <5> QED BY <5>1, <5>2, Zenon DEF InputsInOrder
      <4>2. Len(inputs') > Len(pInputs')
        <5>1. Len(inputs') = Len(inputs) + Len(pInputs) /\ pInputs' = pInputs
          BY <1>3, Zenon
        <5> QED BY <1>1, <4>1, <5>1
      <4>3. partial' /\ step' = 6
        BY <1>2, <1>5, <3>2, Zenon
      <4> QED BY <4>2, <4>3 DEF InputsInOrder
    <3> QED BY <3>1, <3>2
  <2>4. SignedInOrder' /\ ResultsInOrder'
    BY <1>5, BeforeSigning
  <2> QED BY <1>3, <2>2, <2>3, <2>4, NoPanic DEF OrderInv
<1> QED BY <1>4, <1>5, OutOfOrder

LEMMA FailedInputsOrder ==
    ASSUME AnyOrderInv, OrderInv, status = "ok", CalcInputsFails
    PROVE  OrderInv'
<1>1. /\ step \in 0 .. 10 /\ Len(pInputs) \in Nat /\ Len(inputs) \in Nat
      /\ TypeOK /\ OutputsAligned
  BY Lengths DEF AnyOrderInv
<1>2. PICK k \in 1 .. Len(pInputs) - 1 : AddInputs(k)
  BY Zenon DEF CalcInputsFails
<1>3. Retry(6) /\ partial' = TRUE
  BY Zenon DEF CalcInputsFails
<1>4. k \in 0 .. Len(pInputs)
  BY <1>1
<1>5. /\ Len(inputs') = Len(inputs) + k
      /\ pInputs' = pInputs /\ pOutputs' = pOutputs /\ outputs' = outputs /\ status' = status
  BY <1>1, <1>2, <1>4, InputsAdded, Zenon
<1>6. step' = 0 \/ (step' = 5 /\ step = 5)
  BY <1>1, <1>3, RetryMoves
<1>7. CASE step' = 5 /\ step = 5
  <2>1. outputs = <<>>
    BY <1>7 DEF OrderInv, OutputsInOrder
  <2>2. OutputsInOrder'
    BY <1>5, <1>7, <2>1 DEF OutputsInOrder
  <2>3. Len(inputs') >= 1
    BY <1>1, <1>5
  <2>4. InputsInOrder'
    BY <1>3, <1>7, <2>3 DEF InputsInOrder
  <2>5. SignedInOrder' /\ ResultsInOrder'
    BY <1>7, BeforeSigning
  <2> QED BY <1>5, <2>2, <2>4, <2>5, NoPanic DEF OrderInv
<1> QED BY <1>6, <1>7, OutOfOrder

\* What AddOutputs leaves alone.
LEMMA OutputsFrame ==
    ASSUME NEW k, AddOutputs(k)
    PROVE  /\ pInputs' = pInputs /\ pOutputs' = pOutputs /\ inputs' = inputs
           /\ status' = status /\ partial' = partial
BY Zenon DEF AddOutputs, requestVars, inputVars

LEMMA OutputsOrder ==
    ASSUME AnyOrderInv, OrderInv, status = "ok", CalcOutputs
    PROVE  OrderInv'
<1> DEFINE n == Len(pOutputs)
<1>1. /\ step \in 0 .. 10 /\ n \in Nat /\ n \in 0 .. n /\ DOMAIN pOutputs = 1 .. n
      /\ outputs \in Seq(TxOutputs) /\ TypeOK /\ OutputsAligned
  BY Lengths DEF AnyOrderInv
<1>2. Writable(n) /\ AddOutputs(n) /\ Follow(7)
  BY Zenon DEF CalcOutputs
<1>3. /\ pInputs' = pInputs /\ pOutputs' = pOutputs /\ inputs' = inputs
      /\ status' = status /\ partial' = partial
  BY <1>2, OutputsFrame, Zenon
<1>4. /\ Len(outputs') = Len(outputs) + n /\ blindAmounts' \in Seq(Amounts) /\ OutputsAligned'
      /\ \A i \in 1 .. n : /\ blindAmounts'[Len(outputs) + i] = pOutputs[i].amount
                           /\ outputs'[Len(outputs) + i].target.base = PubSpend(pOutputs[i].address)
  BY <1>1, <1>2, OutputsAppended, Zenon
<1>5. step' = 0 \/ (step' = 7 /\ step = 6)
  BY <1>1, <1>2, FollowMoves
<1>6. CASE step' = 7 /\ step = 6
  <2>1. outputs = <<>>
    <3>1. \A i \in DOMAIN pOutputs : ~OutputError(pOutputs[i])
      BY <1>1, <1>2, Zenon DEF Writable
    <3>2. outputs = <<>> \/ \E i \in DOMAIN pOutputs : OutputError(pOutputs[i])
      <4>1. OutputsInOrder
        BY Zenon DEF OrderInv
      <4>2. step \in 1 .. 6
        BY <1>6
      <4> QED BY <4>1, <4>2, Zenon DEF OutputsInOrder
    <3> QED BY <3>1, <3>2, Zenon
  <2>2. Len(outputs) = 0 /\ Len(blindAmounts') = n
    <3>1. Len(outputs) = 0
      BY <2>1
    <3>2. Len(blindAmounts') = Len(outputs')
      BY <1>4 DEF OutputsAligned
    <3> QED BY <1>1, <1>4, <3>1, <3>2
  <2>3. \A i \in 1 .. n : /\ blindAmounts'[i] = pOutputs[i].amount
                          /\ outputs'[i].target.base = PubSpend(pOutputs[i].address)
    <3> SUFFICES ASSUME NEW i \in 1 .. n
                 PROVE  /\ blindAmounts'[i] = pOutputs[i].amount
                        /\ outputs'[i].target.base = PubSpend(pOutputs[i].address)
      OBVIOUS
    <3>1. Len(outputs) + i = i
      BY <2>2, <1>1
    <3> QED BY <1>4, <3>1, Zenon
  <2>4. blindAmounts' = AmountsOf(pOutputs)
    <3>1. blindAmounts' = [i \in 1 .. n |-> blindAmounts'[i]]
      BY <1>1, <1>4, <2>2
    <3>2. [i \in 1 .. n |-> blindAmounts'[i]] = [i \in 1 .. n |-> pOutputs[i].amount]
      BY <2>3, Zenon
    <3> QED BY <1>1, <3>1, <3>2, Zenon DEF AmountsOf
  <2>5. OutputsInOrder'
    <3>1. step' \notin 1 .. 6
      BY <1>6
    <3>2. blindAmounts' = AmountsOf(pOutputs')
      BY <1>3, <2>4, Zenon DEF AmountsOf
    <3>3. \A i \in DOMAIN pOutputs' : outputs'[i].target.base = PubSpend(pOutputs'[i].address)
      BY <1>1, <1>3, <2>3, Zenon
    <3>4. AmountsOf(pOutputs)' = AmountsOf(pOutputs')
      BY DEF AmountsOf
    <3> QED BY <3>1, <3>2, <3>3, <3>4, Zenon DEF OutputsInOrder
  <2>6. InputsInOrder'
    <3>1. InputsInOrder
      BY Zenon DEF OrderInv
    <3>2. CASE ~partial
      <4>1. inputs' = [i \in DOMAIN pInputs' |-> pInputs'[i].coin] /\ ~partial'
        BY <1>3, <1>6, <3>1, <3>2 DEF InputsInOrder
      <4> QED BY <1>6, <4>1 DEF InputsInOrder
    <3>3. CASE partial
      <4>1. Len(inputs') > Len(pInputs') /\ partial'
        BY <1>3, <1>6, <3>1, <3>3 DEF InputsInOrder
      <4> QED BY <1>6, <4>1 DEF InputsInOrder
    <3> QED BY <3>2, <3>3
  <2>7. SignedInOrder' /\ ResultsInOrder'
    BY <1>6, BeforeSigning
  <2> QED BY <1>3, <2>5, <2>6, <2>7, NoPanic DEF OrderInv
<1> QED BY <1>5, <1>6, OutOfOrder

LEMMA FailedOutputsOrder ==
    ASSUME AnyOrderInv, OrderInv, status = "ok", CalcOutputsFails
    PROVE  OrderInv'
<1>1. step \in 0 .. 10 /\ Len(pOutputs) \in Nat /\ DOMAIN pOutputs = 1 .. Len(pOutputs)
  BY Lengths DEF AnyOrderInv
<1>2. PICK k \in 1 .. Len(pOutputs) - 1 : OutputError(pOutputs[k + 1]) /\ AddOutputs(k)
  BY Zenon DEF CalcOutputsFails
<1>3. Retry(7)
  BY Zenon DEF CalcOutputsFails
<1>4. /\ pInputs' = pInputs /\ pOutputs' = pOutputs /\ inputs' = inputs
      /\ status' = status /\ partial' = partial
  BY <1>2, OutputsFrame, Zenon
<1>5. step' = 0 \/ (step' = 6 /\ step = 6)
  BY <1>1, <1>3, RetryMoves
<1>6. CASE step' = 6 /\ step = 6
  <2>1. \E i \in DOMAIN pOutputs' : OutputError(pOutputs'[i])
    <3>1. k + 1 \in DOMAIN pOutputs
      BY <1>1
    <3> QED BY <1>2, <1>4, <3>1, Zenon
  <2>2. OutputsInOrder'
    BY <1>6, <2>1 DEF OutputsInOrder, OutputError
  <2>3. InputsInOrder'
    BY <1>4, <1>6 DEF OrderInv, InputsInOrder
  <2>4. SignedInOrder' /\ ResultsInOrder'
    BY <1>6, BeforeSigning
  <2> QED BY <1>4, <2>2, <2>3, <2>4, NoPanic DEF OrderInv
<1> QED BY <1>5, <1>6, OutOfOrder

\* From step 6 on, InputsInOrder only looks at the requests, the inputs and partial.
LEMMA InputsKept ==
    ASSUME InputsInOrder, ~partial, step \in 6 .. 10, step' \in 6 .. 10,
           inputs' = inputs, pInputs' = pInputs, partial' = partial
    PROVE  InputsInOrder'
<1>1. inputs = [i \in DOMAIN pInputs |-> pInputs[i].coin]
  BY DEF InputsInOrder
<1>2. inputs' = [i \in DOMAIN pInputs' |-> pInputs'[i].coin]
  BY <1>1, Zenon
<1>3. ~partial'
  BY Zenon
<1> QED BY <1>2, <1>3 DEF InputsInOrder

\* Nor does OutputsInOrder, from step 7 on, look at more than these.
LEMMA OutputsKept ==
    ASSUME OutputsInOrder, step \in 7 .. 10, step' \in 7 .. 10,
           pOutputs' = pOutputs, outputs' = outputs, blindAmounts' = blindAmounts
    PROVE  OutputsInOrder'
<1>1. /\ blindAmounts = AmountsOf(pOutputs)
      /\ \A i \in DOMAIN pOutputs : outputs[i].target.base = PubSpend(pOutputs[i].address)
  BY DEF OutputsInOrder
<1>2. AmountsOf(pOutputs)' = AmountsOf(pOutputs)
  BY Zenon DEF AmountsOf
<1>3. /\ blindAmounts' = AmountsOf(pOutputs)'
      /\ \A i \in DOMAIN pOutputs' :
            outputs'[i].target.base = PubSpend(pOutputs'[i].address)
  BY <1>1, <1>2, Zenon
<1>4. step' \notin 1 .. 6
  OBVIOUS
<1> QED BY <1>3, <1>4, Zenon DEF OutputsInOrder

LEMMA SignOrder ==
    ASSUME AnyOrderInv, OrderInv, status = "ok", SignTransaction
    PROVE  OrderInv'
<1>1. step \in 0 .. 10 /\ Len(inputs) \in Nat /\ Len(pInputs) \in Nat
  BY Lengths DEF AnyOrderInv
<1>2. /\ Len(inputs) \in 1 .. Len(pInputs) /\ Follow(8)
      /\ UNCHANGED requestVars /\ UNCHANGED inputVars /\ UNCHANGED outputVars
      /\ UNCHANGED txnFee /\ UNCHANGED keyVars
      /\ status' = status /\ partial' = partial
  BY Zenon DEF SignTransaction
<1>3. step' = 0 \/ (step' = 8 /\ step = 7)
  BY <1>1, <1>2, FollowMoves
<1>4. CASE step' = 8 /\ step = 7
  <2>1. InputsInOrder /\ OutputsInOrder
    BY Zenon DEF OrderInv
  <2>2. ~partial
    BY <1>1, <1>2, <1>4, <2>1 DEF InputsInOrder
  <2>3. InputsInOrder'
    <3>1. inputs' = inputs /\ pInputs' = pInputs /\ partial' = partial
      BY <1>2, Zenon DEF requestVars, inputVars
    <3> QED BY <1>4, <2>1, <2>2, <3>1, InputsKept
  <2>4. OutputsInOrder'
    <3>1. pOutputs' = pOutputs /\ outputs' = outputs /\ blindAmounts' = blindAmounts
      BY <1>2, Zenon DEF requestVars, outputVars
    <3> QED BY <1>4, <2>1, <3>1, OutputsKept
  <2>5. SignedInOrder'
    <3>1. GetFullMessage(bpp)' = GetFullMessage(bpp')
      BY <1>2, Zenon DEF GetFullMessage, PrefixHash, RctSigBase, inputVars, outputVars, keyVars
    <3>2. DOMAIN clsags' = 1 .. Len(inputs)
      <4>1. clsags' \in Seq(Clsags) /\ Len(clsags') = Len(inputs)
        BY Signed, Zenon
      <4> QED BY <4>1
    <3>3. \A i \in 1 .. Len(inputs) : clsags'[i].message = GetFullMessage(bpp')
      BY Signed, Zenon
    <3> QED BY <3>1, <3>2, <3>3, Zenon DEF SignedInOrder
  <2>6. ResultsInOrder'
    BY <1>4 DEF ResultsInOrder
  <2> QED BY <1>2, <2>3, <2>4, <2>5, <2>6, NoPanic, Zenon DEF OrderInv
<1> QED BY <1>3, <1>4, OutOfOrder

LEMMA FailedSignOrder ==
    ASSUME AnyOrderInv, OrderInv, status = "ok", SignTransactionFails
    PROVE  OrderInv'
<1>1. step \in 0 .. 10 /\ Len(pInputs) \in Nat
  BY Lengths DEF AnyOrderInv
<1>2. /\ inputs = <<>> /\ Retry(8)
      /\ UNCHANGED requestVars /\ UNCHANGED inputVars /\ UNCHANGED outputVars
      /\ status' = status /\ partial' = partial
  BY Zenon DEF SignTransactionFails
<1>3. step' = 0 \/ (step' = 7 /\ step = 7)
  BY <1>1, <1>2, RetryMoves
<1>4. CASE step' = 7 /\ step = 7
  <2>1. InputsInOrder /\ OutputsInOrder
    BY Zenon DEF OrderInv
  <2>2. ~partial
    BY <1>1, <1>2, <1>4, <2>1 DEF InputsInOrder
  <2>3. InputsInOrder'
    <3>1. inputs' = inputs /\ pInputs' = pInputs /\ partial' = partial
      BY <1>2, Zenon DEF requestVars, inputVars
    <3> QED BY <1>4, <2>1, <2>2, <3>1, InputsKept
  <2>4. OutputsInOrder'
    <3>1. pOutputs' = pOutputs /\ outputs' = outputs /\ blindAmounts' = blindAmounts
      BY <1>2, Zenon DEF requestVars, outputVars
    <3> QED BY <1>4, <2>1, <3>1, OutputsKept
  <2>5. SignedInOrder' /\ ResultsInOrder'
    BY <1>4, BeforeSigning
  <2> QED BY <1>2, <2>3, <2>4, <2>5, NoPanic, Zenon DEF OrderInv
<1> QED BY <1>3, <1>4, OutOfOrder

\* CalcHash and Serialize.
LEMMA ResultOrder ==
    ASSUME AnyOrderInv, OrderInv, status = "ok", CalcHash \/ Serialize
    PROVE  OrderInv'
<1>1. step \in 0 .. 10
  BY Lengths DEF AnyOrderInv
<1>2. /\ UNCHANGED requestVars /\ UNCHANGED inputVars /\ UNCHANGED outputVars
      /\ UNCHANGED txnFee /\ UNCHANGED keyVars /\ UNCHANGED signVars
      /\ status' = status /\ partial' = partial
      /\ \/ Follow(9) /\ hash' = <<Wire>>
         \/ Follow(10) /\ hash' = hash /\ sent' = <<Wire>>
  BY Zenon DEF CalcHash, Serialize
<1>3. \/ step' = 0
      \/ step' = 9 /\ step = 8 /\ hash' = <<Wire>>
      \/ step' = 10 /\ step = 9 /\ hash' = hash /\ sent' = <<Wire>>
  <2>1. CASE Follow(9) /\ hash' = <<Wire>>
    BY <1>1, <2>1, FollowMoves
  <2>2. CASE Follow(10) /\ hash' = hash /\ sent' = <<Wire>>
    BY <1>1, <2>2, FollowMoves
  <2> QED BY <1>2, <2>1, <2>2
<1>4. CASE step' # 0
  <2>1. InputsInOrder /\ OutputsInOrder /\ SignedInOrder /\ ResultsInOrder
    BY Zenon DEF OrderInv
  <2>2. step \in 8 .. 9 /\ step' \in 9 .. 10
    BY <1>3, <1>4
  <2>3. InputsInOrder'
    <3>1. inputs' = inputs /\ pInputs' = pInputs /\ partial' = partial
      BY <1>2, Zenon DEF requestVars, inputVars
    <3>2. ~partial
      BY <2>1, <2>2 DEF InputsInOrder
    <3> QED BY <2>1, <2>2, <3>1, <3>2, InputsKept
  <2>4. OutputsInOrder'
    <3>1. pOutputs' = pOutputs /\ outputs' = outputs /\ blindAmounts' = blindAmounts
      BY <1>2, Zenon DEF requestVars, outputVars
    <3> QED BY <2>1, <2>2, <3>1, OutputsKept
  <2>5. SignedInOrder'
    <3>1. \A i \in DOMAIN clsags : clsags[i].message = GetFullMessage(bpp)
      BY <2>1, <2>2 DEF SignedInOrder
    <3>2. GetFullMessage(bpp)' = GetFullMessage(bpp)
      BY <1>2, Zenon DEF GetFullMessage, PrefixHash, RctSigBase, inputVars, outputVars, keyVars,
                         signVars
    <3>3. clsags' = clsags
      BY <1>2, Zenon DEF signVars
    <3> QED BY <3>1, <3>2, <3>3, Zenon DEF SignedInOrder
  <2>6. ResultsInOrder'
    <3>1. Wire' = Wire
      BY <1>2, Zenon DEF Wire, CalculatePart1, CalculatePart2, CalculatePart3, RctSigBase,
                         inputVars, outputVars, keyVars, signVars
    <3>2. \/ step' = 9 /\ hash' = <<Wire>>
          \/ step' = 10 /\ step = 9 /\ hash' = hash /\ sent' = <<Wire>>
      BY <1>3, <1>4, Zenon
    <3>3. step = 9 => hash = <<Wire>>
      BY <2>1 DEF ResultsInOrder
    <3>4. hash' = <<Wire>> /\ (step' = 10 => sent' = <<Wire>>)
      BY <3>2, <3>3
    <3> QED BY <3>1, <3>4, Zenon DEF ResultsInOrder
  <2> QED BY <1>2, <2>3, <2>4, <2>5, <2>6, NoPanic, Zenon DEF OrderInv
<1> QED BY <1>4, OutOfOrder

\* A step that changes nothing but the status.
LEMMA Unmoved ==
    ASSUME OrderInv, PanicsExplained',
           UNCHANGED <<requestVars, inputVars, outputVars, txnFee, keyVars, signVars,
                       resultVars, step, partial>>
    PROVE  OrderInv'
<1> USE DEF requestVars, inputVars, outputVars, keyVars, signVars, resultVars
<1>1. InputsInOrder'
  BY Zenon DEF OrderInv, InputsInOrder
<1>2. OutputsInOrder'
  BY Zenon DEF OrderInv, OutputsInOrder, OutputError, AmountsOf
<1>3. SignedInOrder'
  BY Zenon DEF OrderInv, SignedInOrder, GetFullMessage, PrefixHash, RctSigBase
<1>4. ResultsInOrder'
  BY Zenon DEF OrderInv, ResultsInOrder, Wire, CalculatePart1, CalculatePart2, CalculatePart3,
               RctSigBase
<1> QED BY <1>1, <1>2, <1>3, <1>4, Zenon DEF OrderInv

\* In the documented order each call panics in its place, and SignTransaction only
\* with too many inputs, which a partial failure leaves.
LEMMA PanicOrder ==
    ASSUME AnyOrderInv, OrderInv, status = "ok", AnyPanic
    PROVE  OrderInv'
<1>1. /\ step \in 0 .. 10 /\ Len(pInputs) \in Nat /\ Len(pOutputs) \in Nat
      /\ DOMAIN pInputs = 1 .. Len(pInputs) /\ DOMAIN pOutputs = 1 .. Len(pOutputs)
  BY Lengths DEF AnyOrderInv
<1>2. /\ UNCHANGED requestVars /\ UNCHANGED inputVars /\ UNCHANGED outputVars
      /\ UNCHANGED txnFee /\ UNCHANGED keyVars /\ UNCHANGED signVars /\ UNCHANGED resultVars
      /\ UNCHANGED partial /\ (step' = 0 \/ step' = step)
  BY <1>1, PanicMoves, Zenon
<1>3. pInputs' = pInputs /\ pOutputs' = pOutputs /\ PayeePositions' = PayeePositions
  BY <1>2, Zenon DEF requestVars, PayeePositions
<1>4. ASSUME step' # 0 PROVE PanicsExplained'
  <2>1. ASSUME NEW n \in 5 .. 8, Panic(n) PROVE step' = step /\ step = n - 1
    <3>1. n \in 2 .. 10
      OBVIOUS
    <3> QED BY <1>1, <1>4, <2>1, <3>1, RetryMoves, Zenon DEF Panic
  <2>2. CASE CalcExtraPanics
    <3>1. PayeePositions = {} /\ Panic(5)
      BY <2>2, Zenon DEF CalcExtraPanics
    <3>2. step' = 4
      BY <2>1, <3>1
    <3> QED BY <1>3, <3>1, <3>2, Zenon DEF PanicsExplained
  <2>3. CASE CalcInputsPanics
    <3>1. pInputs # <<>> /\ Panic(6)
      BY <2>3, Zenon DEF CalcInputsPanics
    <3>2. step' = 5
      BY <2>1, <3>1
    <3> QED BY <1>3, <3>1, <3>2, Zenon DEF PanicsExplained
  <2>4. CASE CalcOutputsPanics
    <3>1. PICK k \in 0 .. Len(pOutputs) - 1 : OutputPanics(pOutputs[k + 1])
      BY <2>4, Zenon DEF CalcOutputsPanics
    <3>2. k + 1 \in DOMAIN pOutputs
      BY <1>1
    <3>3. Panic(7)
      BY <2>4, Zenon DEF CalcOutputsPanics
    <3>4. step' = 6
      BY <2>1, <3>3
    <3> QED BY <1>3, <3>1, <3>2, <3>4, Zenon DEF PanicsExplained, OutputPanics
  <2>5. CASE SignTransactionPanics
    <3>1. Len(inputs) > Len(pInputs) /\ Panic(8)
      BY <2>5, Zenon DEF SignTransactionPanics
    <3>2. step' = 7 /\ step = 7
      BY <2>1, <3>1
    <3>3. ASSUME ~partial PROVE FALSE
      <4>1. inputs = [i \in 1 .. Len(pInputs) |-> pInputs[i].coin]
        BY <1>1, <3>2, <3>3 DEF OrderInv, InputsInOrder
      <4>2. Len(inputs) = Len(pInputs)
        BY <1>1, <4>1
      <4> QED BY <1>1, <3>1, <4>2
    <3> QED BY <1>2, <3>2, <3>3, Zenon DEF PanicsExplained
  <2> QED BY <2>2, <2>3, <2>4, <2>5, Zenon DEF AnyPanic
<1>5. CASE step' = step /\ step' # 0
  BY <1>2, <1>4, <1>5, Unmoved, Zenon
<1> QED BY <1>2, <1>5, OutOfOrder, Zenon

LEMMA NextOrder == AnyOrderInv /\ OrderInv /\ [Next]_vars => OrderInv'
<1> SUFFICES ASSUME AnyOrderInv, OrderInv, [Next]_vars PROVE OrderInv'
  OBVIOUS
<1>1. CASE UNCHANGED vars
  <2>1. PanicsExplained'
    BY <1>1, Zenon DEF OrderInv, PanicsExplained, OutputPanics, PayeePositions, vars, requestVars
  <2> QED BY <1>1, <2>1, Unmoved, Zenon DEF vars
<1>2. CASE Next
  <2>1. status = "ok"
    BY <1>2, Zenon DEF Next
  <2>2. CASE \/ \E r \in InputRequests : WriteInput(r)
             \/ \E r \in OutputRequests : WriteOutput(r)
             \/ \E fee \in Fees : SetFee(fee)
             \/ CalcFeeDifference
             \/ CalcExtra
    BY <2>1, <2>2, EarlyOrder, Zenon
  <2>3. CASE CalcInputs
    BY <2>1, <2>3, InputsOrder, Zenon
  <2>4. CASE CalcInputsFails
    BY <2>1, <2>4, FailedInputsOrder, Zenon
  <2>5. CASE CalcOutputs
    BY <2>1, <2>5, OutputsOrder, Zenon
  <2>6. CASE CalcOutputsFails
    BY <2>1, <2>6, FailedOutputsOrder, Zenon
  <2>7. CASE SignTransaction
    BY <2>1, <2>7, SignOrder, Zenon
  <2>8. CASE SignTransactionFails
    BY <2>1, <2>8, FailedSignOrder, Zenon
  <2>9. CASE CalcHash \/ Serialize
    BY <2>1, <2>9, ResultOrder, Zenon
  <2>10. CASE AnyPanic
    BY <2>1, <2>10, PanicOrder, Zenon
  <2> QED BY <1>2, <2>2, <2>3, <2>4, <2>5, <2>6, <2>7, <2>8, <2>9, <2>10, Zenon DEF Next, AnyPanic
<1> QED BY <1>1, <1>2

LEMMA OrderInvariance == Spec => [](AnyOrderInv /\ OrderInv)
<1>1. Init => AnyOrderInv /\ OrderInv
  BY InitAnyOrder, InitOrder
<1>2. AnyOrderInv /\ OrderInv /\ [Next]_vars => AnyOrderInv' /\ OrderInv'
  BY NextAnyOrder, NextOrder
<1> QED BY <1>1, <1>2, PTL DEF Spec

-----------------------------------------------------------------------------
(* What it means to a caller who keeps to the documented order.                *)

\* Whatever is requested and however often a step is retried, what is signed is
\* one input per WriteInput and one output per WriteOutput, in order, with the
\* requested amounts.
THEOREM SignsWhatWasRequested == Spec => []SignedAsRequested
<1>1. AnyOrderInv /\ OrderInv => SignedAsRequested
  <2> SUFFICES ASSUME AnyOrderInv, OrderInv, step >= 8 PROVE SignedAsRequested
    BY DEF SignedAsRequested
  <2>1. step \in 0 .. 10 /\ InputsInOrder /\ OutputsInOrder
    BY Lengths DEF AnyOrderInv, OrderInv
  <2>2. ~partial /\ step >= 6 /\ step >= 7
    BY <2>1 DEF InputsInOrder
  <2> QED BY <2>1, <2>2, Zenon DEF InputsInOrder, OutputsInOrder, SignedAsRequested
<1> QED BY <1>1, OrderInvariance, PTL

\* A transaction whose CalcInputs failed after adding an input is never signed.
THEOREM PartialFailureStaysFatal == Spec => []PartialFailureIsFatal
<1>1. OrderInv => PartialFailureIsFatal
  BY DEF OrderInv, InputsInOrder, PartialFailureIsFatal
<1> QED BY <1>1, OrderInvariance, PTL

\* Every ring signature of the transaction that is sent is over the bytes that
\* are sent, though two functions write the prefix, and the hash is theirs.
THEOREM SendsWhatWasSigned == Spec => []SentIsSigned
<1>1. AnyOrderInv /\ OrderInv => SentIsSigned
  <2> SUFFICES ASSUME AnyOrderInv, OrderInv, step = 10
               PROVE  /\ sent = hash
                      /\ \A i \in DOMAIN sent[1].part3.clsags :
                            sent[1].part3.clsags[i].message =
                              [prefix |-> sent[1].part1, base |-> sent[1].part2,
                               proof |-> sent[1].part3.bpp]
    BY Zenon DEF SentIsSigned
  <2>1. sent = <<Wire>> /\ hash = <<Wire>>
    BY DEF OrderInv, ResultsInOrder
  <2>2. \A i \in DOMAIN clsags : clsags[i].message = GetFullMessage(bpp)
    BY DEF OrderInv, SignedInOrder
  <2>3. CalculatePart1 = PrefixHash
    BY Zenon DEF AnyOrderInv, OutputsAligned, CalculatePart1, PrefixHash
  <2>4. /\ sent[1] = Wire /\ Wire.part1 = CalculatePart1 /\ Wire.part2 = RctSigBase
        /\ Wire.part3.clsags = clsags /\ Wire.part3.bpp = bpp
    BY <2>1 DEF Wire, CalculatePart2, CalculatePart3
  <2> QED BY <2>1, <2>2, <2>3, <2>4, Zenon DEF GetFullMessage
<1> QED BY <1>1, OrderInvariance, PTL

\* A panic in the documented order comes from one of four calls: CalcExtra without a
\* payee, CalcInputs when it asks daemons, CalcOutputs on a request without
\* change_address, SignTransaction after a partial failure.
THEOREM PanicsAreExplained == Spec => []PanicsExplained
<1>1. OrderInv => PanicsExplained
  BY DEF OrderInv
<1> QED BY <1>1, OrderInvariance, PTL

-----------------------------------------------------------------------------
(* The builder of TxBuilder, used in the documented order, implements Payment,   *)
(* for any wallets, requests, failures and retries.                             *)

\* What the refinement needs beyond the invariants of the documented order: when
\* there are signatures and something sent, and that the fee is what is left.
FeeLeft == (SumSeq(AmountsOf(pOutputs)) + txnFee - SumSeq(AmountsOf(pInputs))) % Mod = 0

PaymentInv ==
    /\ step \in 1 .. 7 => clsags = <<>>
    /\ step \in 8 .. 10 => clsags # <<>>
    /\ step \in 1 .. 9 => sent = <<>>
    /\ step \in 4 .. 10 => FeeLeft

\* What is signed, once it is.
Signing == Content(PrefixHash, RctSigBase, bpp)

\* A step that neither requests, signs nor sends.
Quiet ==
    /\ UNCHANGED <<pInputs, pOutputs, txnFee, clsags, sent>>
    /\ \/ step' = step
       \/ step \in 4 .. 7 /\ step' \in 4 .. 7
       \/ step = 8 /\ step' = 9

\* The steps of a caller who keeps to the documented order.
OrderedMove ==
    \/ \E r \in InputRequests :
          /\ pInputs' = Append(pInputs, r) /\ UNCHANGED <<pOutputs, clsags, sent>>
          /\ step \in 1 .. 2 /\ step' = 2
    \/ \E r \in OutputRequests :
          /\ pOutputs' = Append(pOutputs, r) /\ UNCHANGED <<pInputs, clsags, sent>>
          /\ step \in 2 .. 3 /\ step' = 3
    \/ UNCHANGED <<pInputs, pOutputs, clsags, sent>> /\ FeeLeft' /\ step = 3 /\ step' = 4
    \/ Quiet
    \/ SignTransaction /\ step = 7 /\ step' = 8
    \/ UNCHANGED <<pInputs, pOutputs, txnFee, clsags>> /\ sent' = <<Wire>> /\ step = 9 /\ step' = 10

-----------------------------------------------------------------------------
LEMMA OrderedMoves ==
    ASSUME AnyOrderInv, Next, step # 0, step' # 0
    PROVE  OrderedMove
<1>1. step \in 0 .. 10
  BY Lengths DEF AnyOrderInv
<1>2. ASSUME NEW r \in InputRequests, WriteInput(r) PROVE OrderedMove
  <2>1. /\ pInputs' = Append(pInputs, r) /\ UNCHANGED <<pOutputs, clsags, sent>> /\ Follow(2)
    BY <1>2, Zenon DEF WriteInput, signVars, resultVars
  <2>2. step \in 1 .. 2 /\ step' = 2
    BY <1>1, <2>1, FollowMoves
  <2> QED BY <2>1, <2>2, Zenon DEF OrderedMove
<1>3. ASSUME NEW r \in OutputRequests, WriteOutput(r) PROVE OrderedMove
  <2>1. /\ pOutputs' = Append(pOutputs, r) /\ UNCHANGED <<pInputs, clsags, sent>> /\ Follow(3)
    BY <1>3, Zenon DEF WriteOutput, signVars, resultVars
  <2>2. step \in 2 .. 3 /\ step' = 3
    BY <1>1, <2>1, FollowMoves
  <2> QED BY <2>1, <2>2, Zenon DEF OrderedMove
<1>4. ASSUME NEW fee \in Fees, SetFee(fee) PROVE OrderedMove
  BY <1>4, Zenon DEF SetFee
<1>5. CASE CalcFeeDifference
  <2>1. UNCHANGED <<pInputs, pOutputs, clsags, sent>> /\ Follow(4)
    BY <1>5, Zenon DEF CalcFeeDifference, requestVars, signVars, resultVars
  <2>2. (SumSeq(AmountsOf(pOutputs)) + txnFee' - SumSeq(AmountsOf(pInputs))) % Mod = 0
    BY <1>5, Zenon DEF CalcFeeDifference
  <2>3. FeeLeft'
    BY <2>1, <2>2, Zenon DEF FeeLeft, AmountsOf
  <2>4. step = 3 /\ step' = 4
    BY <1>1, <2>1, FollowMoves
  <2> QED BY <2>1, <2>3, <2>4, Zenon DEF OrderedMove
<1>6. CASE CalcExtra
  <2>1. UNCHANGED <<pInputs, pOutputs, txnFee, clsags, sent>> /\ Follow(5)
    BY <1>6, Zenon DEF CalcExtra, requestVars, signVars, resultVars
  <2>2. step \in 4 .. 7 /\ step' \in 4 .. 7
    BY <1>1, <2>1, FollowMoves
  <2> QED BY <2>1, <2>2, Zenon DEF OrderedMove, Quiet
<1>7. CASE CalcInputs \/ CalcInputsFails
  <2>1. UNCHANGED <<pInputs, pOutputs, txnFee, clsags, sent>> /\ (Follow(6) \/ Retry(6))
    BY <1>7, Zenon DEF CalcInputs, CalcInputsFails, AddInputs, requestVars, signVars, resultVars
  <2>2. step \in 4 .. 7 /\ step' \in 4 .. 7
    BY <1>1, <2>1, FollowMoves, RetryMoves
  <2> QED BY <2>1, <2>2, Zenon DEF OrderedMove, Quiet
<1>8. CASE CalcOutputs \/ CalcOutputsFails
  <2>1. UNCHANGED <<pInputs, pOutputs, txnFee, clsags, sent>> /\ (Follow(7) \/ Retry(7))
    BY <1>8, Zenon DEF CalcOutputs, CalcOutputsFails, AddOutputs, requestVars, signVars, resultVars
  <2>2. step \in 4 .. 7 /\ step' \in 4 .. 7
    BY <1>1, <2>1, FollowMoves, RetryMoves
  <2> QED BY <2>1, <2>2, Zenon DEF OrderedMove, Quiet
<1>9. CASE SignTransaction
  <2>1. Follow(8)
    BY <1>9, Zenon DEF SignTransaction
  <2>2. step = 7 /\ step' = 8
    BY <1>1, <2>1, FollowMoves
  <2> QED BY <1>9, <2>2, Zenon DEF OrderedMove
<1>10. CASE SignTransactionFails
  <2>1. UNCHANGED <<pInputs, pOutputs, txnFee, clsags, sent>> /\ Retry(8)
    BY <1>10, Zenon DEF SignTransactionFails, requestVars, resultVars
  <2>2. step \in 4 .. 7 /\ step' \in 4 .. 7
    BY <1>1, <2>1, RetryMoves
  <2> QED BY <2>1, <2>2, Zenon DEF OrderedMove, Quiet
<1>11. CASE CalcHash
  <2>1. UNCHANGED <<pInputs, pOutputs, txnFee, clsags, sent>> /\ Follow(9)
    BY <1>11, Zenon DEF CalcHash, requestVars, signVars
  <2>2. step = 8 /\ step' = 9
    BY <1>1, <2>1, FollowMoves
  <2> QED BY <2>1, <2>2, Zenon DEF OrderedMove, Quiet
<1>12. CASE Serialize
  <2>1. UNCHANGED <<pInputs, pOutputs, txnFee, clsags>> /\ sent' = <<Wire>> /\ Follow(10)
    BY <1>12, Zenon DEF Serialize, requestVars, signVars
  <2>2. step = 9 /\ step' = 10
    BY <1>1, <2>1, FollowMoves
  <2> QED BY <2>1, <2>2, Zenon DEF OrderedMove
<1>13. CASE AnyPanic
  BY <1>1, <1>13, PanicMoves, Zenon DEF requestVars, signVars, resultVars, OrderedMove, Quiet
<1> QED BY <1>2, <1>3, <1>4, <1>5, <1>6, <1>7, <1>8, <1>9, <1>10, <1>11, <1>12, <1>13, Zenon
        DEF Next, AnyPanic

LEMMA SignaturesMade ==
    ASSUME AnyOrderInv, SignTransaction
    PROVE  /\ clsags' \in Seq(Clsags) /\ clsags' # <<>> /\ DOMAIN clsags' = 1 .. Len(inputs)
           /\ \A i \in DOMAIN clsags' : clsags'[i].message = GetFullMessage(bpp')
           /\ 1 \in DOMAIN clsags'
<1>1. Len(inputs) \in 1 .. Len(pInputs) /\ Len(pInputs) \in Nat
  BY Lengths, Zenon DEF SignTransaction, AnyOrderInv
<1>2. /\ clsags' \in Seq(Clsags) /\ Len(clsags') = Len(inputs)
      /\ \A i \in 1 .. Len(inputs) : clsags'[i].message = GetFullMessage(bpp')
  BY Signed, Zenon
<1>3. DOMAIN clsags' = 1 .. Len(inputs) /\ clsags' # <<>>
  BY <1>1, <1>2
<1>4. 1 \in 1 .. Len(inputs)
  BY <1>1
<1> QED BY <1>2, <1>3, <1>4, Zenon

LEMMA SignFrame ==
    ASSUME SignTransaction
    PROVE  /\ UNCHANGED <<pInputs, pOutputs, txnFee, sent, inputs, outputs, blindAmounts>>
           /\ PrefixHash' = PrefixHash /\ RctSigBase' = RctSigBase
           /\ bpp' = signBpp
BY Zenon DEF SignTransaction, requestVars, inputVars, outputVars, keyVars, resultVars,
             PrefixHash, RctSigBase

\* FeeLeft only looks at the requests and the fee.
LEMMA FeeKept ==
    ASSUME UNCHANGED <<pInputs, pOutputs, txnFee>>
    PROVE  FeeLeft' <=> FeeLeft
BY Zenon DEF FeeLeft, AmountsOf

LEMMA InitPayment == Init => PaymentInv
BY DEF Init, PaymentInv

LEMMA NextPayment ==
    ASSUME AnyOrderInv, PaymentInv, OrderedMove
    PROVE  PaymentInv'
<1>1. step \in 0 .. 10
  BY Lengths DEF AnyOrderInv
<1>2. CASE UNCHANGED <<clsags, sent>> /\ step \in 1 .. 3 /\ step' \in 2 .. 3
  BY <1>2 DEF PaymentInv
<1>3. CASE UNCHANGED <<clsags, sent>> /\ FeeLeft' /\ step = 3 /\ step' = 4
  BY <1>3 DEF PaymentInv
<1>4. CASE Quiet
  <2>1. UNCHANGED <<clsags, sent>> /\ (FeeLeft' <=> FeeLeft)
    BY <1>4, FeeKept DEF Quiet
  <2>2. CASE step' = step
    BY <2>1, <2>2 DEF PaymentInv
  <2>3. CASE step \in 4 .. 7 /\ step' \in 4 .. 7
    BY <2>1, <2>3 DEF PaymentInv
  <2>4. CASE step = 8 /\ step' = 9
    BY <2>1, <2>4 DEF PaymentInv
  <2> QED BY <1>4, <2>2, <2>3, <2>4 DEF Quiet
<1>5. CASE SignTransaction /\ step = 7 /\ step' = 8
  <2>1. sent' = sent /\ clsags' # <<>> /\ (FeeLeft' <=> FeeLeft)
    BY <1>5, SignFrame, SignaturesMade, FeeKept, Zenon
  <2> QED BY <1>5, <2>1 DEF PaymentInv
<1>6. CASE UNCHANGED <<pInputs, pOutputs, txnFee, clsags>> /\ step = 9 /\ step' = 10
  <2>1. clsags' = clsags /\ (FeeLeft' <=> FeeLeft)
    BY <1>6, FeeKept, Zenon
  <2> QED BY <1>6, <2>1 DEF PaymentInv
<1>7. \/ UNCHANGED <<clsags, sent>> /\ step \in 1 .. 3 /\ step' \in 2 .. 3
      \/ UNCHANGED <<clsags, sent>> /\ FeeLeft' /\ step = 3 /\ step' = 4
      \/ Quiet
      \/ SignTransaction /\ step = 7 /\ step' = 8
      \/ UNCHANGED <<pInputs, pOutputs, txnFee, clsags>> /\ step = 9 /\ step' = 10
  <2>1. /\ step \in 1 .. 2 /\ step' = 2 => step \in 1 .. 3 /\ step' \in 2 .. 3
        /\ step \in 2 .. 3 /\ step' = 3 => step \in 1 .. 3 /\ step' \in 2 .. 3
    OBVIOUS
  <2> QED BY <2>1, Zenon DEF OrderedMove
<1> QED BY <1>2, <1>3, <1>4, <1>5, <1>6, <1>7

-----------------------------------------------------------------------------
(* What the moves are to a Payment.                                           *)

\* What was requested of the builder is what was requested of the payment.
LEMMA PaysType ==
    ASSUME TypeOK
    PROVE  RequestedPays \in Seq([key : Points, amount : Amounts])
<1>1. /\ Len(pOutputs) \in Nat /\ DOMAIN pOutputs = 1 .. Len(pOutputs)
      /\ \A i \in 1 .. Len(pOutputs) : pOutputs[i] \in OutputRequestType
  BY Lengths, Zenon
<1>2. \A r \in OutputRequestType :
        [key |-> PubSpend(r.address), amount |-> r.amount] \in [key : Points, amount : Amounts]
  BY KeysAreWellFormed DEF OutputRequestType
<1> DEFINE pay(i) == [key |-> PubSpend(pOutputs[i].address), amount |-> pOutputs[i].amount]
<1>3. \A i \in 1 .. Len(pOutputs) : pay(i) \in [key : Points, amount : Amounts]
  BY <1>1, <1>2
<1>4. RequestedPays = [i \in 1 .. Len(pOutputs) |-> pay(i)]
  BY <1>1 DEF RequestedPays
<1> HIDE DEF pay
<1> QED BY <1>1, <1>3, <1>4

LEMMA AppendElements ==
    ASSUME NEW S, NEW s \in Seq(S), NEW e \in S
    PROVE  /\ Append(s, e) \in Seq(S) /\ Len(Append(s, e)) = Len(s) + 1
           /\ DOMAIN Append(s, e) = 1 .. Len(s) + 1
           /\ Append(s, e)[Len(s) + 1] = e
           /\ \A i \in 1 .. Len(s) : Append(s, e)[i] = s[i]
OBVIOUS

LEMMA SameElements ==
    ASSUME NEW S, NEW n \in Nat, NEW s \in Seq(S), NEW t,
           Len(s) = n, t = [i \in 1 .. n |-> t[i]],
           \A i \in 1 .. n : t[i] = s[i]
    PROVE  t = s
OBVIOUS

LEMMA OneMorePay ==
    ASSUME TypeOK, NEW r \in OutputRequests, pOutputs' = Append(pOutputs, r)
    PROVE  /\ RequestedPays' =
                 Append(RequestedPays, [key |-> PubSpend(r.address), amount |-> r.amount])
           /\ [key |-> PubSpend(r.address), amount |-> r.amount] \in [key : Points, amount : Amounts]
<1> DEFINE n == Len(pOutputs)
           new == [key |-> PubSpend(r.address), amount |-> r.amount]
<1>1. /\ n \in Nat /\ DOMAIN pOutputs = 1 .. n /\ pOutputs \in Seq(OutputRequestType)
      /\ r \in OutputRequestType
  BY Lengths, RequestAssumption
<1>2. new \in [key : Points, amount : Amounts]
  BY <1>1, KeysAreWellFormed DEF OutputRequestType
<1>3. /\ DOMAIN pOutputs' = 1 .. n + 1 /\ pOutputs'[n + 1] = r
      /\ \A i \in 1 .. n : pOutputs'[i] = pOutputs[i]
  BY <1>1
<1>4. RequestedPays' = [i \in 1 .. n + 1 |->
        [key |-> PubSpend(pOutputs'[i].address), amount |-> pOutputs'[i].amount]]
  BY <1>3 DEF RequestedPays
<1>5. /\ RequestedPays \in Seq([key : Points, amount : Amounts]) /\ Len(RequestedPays) = n
      /\ \A i \in 1 .. n : RequestedPays[i] =
            [key |-> PubSpend(pOutputs[i].address), amount |-> pOutputs[i].amount]
  BY <1>1, PaysType DEF RequestedPays
<1>6. /\ DOMAIN RequestedPays' = 1 .. n + 1 /\ RequestedPays'[n + 1] = new
      /\ \A i \in 1 .. n : RequestedPays'[i] = RequestedPays[i]
  <2>1. \A i \in 1 .. n : i \in 1 .. n + 1
    BY <1>1
  <2>2. n + 1 \in 1 .. n + 1
    BY <1>1
  <2>3. \A i \in 1 .. n : RequestedPays'[i] = RequestedPays[i]
    BY <1>3, <1>4, <1>5, <2>1
  <2> QED BY <1>3, <1>4, <2>2, <2>3
<1>7. RequestedPays' = [i \in 1 .. n + 1 |-> RequestedPays'[i]]
  BY <1>4
<1> HIDE DEF new
<1>8. RequestedPays' = Append(RequestedPays, new)
  <2> DEFINE longer == Append(RequestedPays, new)
  <2>1. /\ longer \in Seq([key : Points, amount : Amounts]) /\ Len(longer) = n + 1
        /\ longer[n + 1] = new /\ \A i \in 1 .. n : longer[i] = RequestedPays[i]
    BY <1>2, <1>5, AppendElements
  <2> HIDE DEF longer
  <2>2. \A i \in 1 .. n + 1 : RequestedPays'[i] = longer[i]
    <3> SUFFICES ASSUME NEW i \in 1 .. n + 1 PROVE RequestedPays'[i] = longer[i]
      OBVIOUS
    <3>1. i = n + 1 \/ i \in 1 .. n
      BY <1>1
    <3> QED BY <1>6, <2>1, <3>1
  <2>3. RequestedPays' = longer
    BY <1>1, <1>7, <2>1, <2>2, SameElements
  <2> QED BY <2>3 DEF longer
<1> QED BY <1>2, <1>8 DEF new

\* All signatures are of one payment, and so is what is sent.
LEMMA OneSigned ==
    ASSUME AnyOrderInv, OrderInv, step \in 8 .. 10, clsags # <<>>
    PROVE  SignedPayments = {Signing}
<1>1. \A i \in DOMAIN clsags : clsags[i].message = GetFullMessage(bpp)
  BY DEF OrderInv, SignedInOrder
<1>2. \A i \in DOMAIN clsags :
        Content(clsags[i].message.prefix, clsags[i].message.base, clsags[i].message.proof) = Signing
  BY <1>1 DEF GetFullMessage, Signing
<1>3. DOMAIN clsags # {}
  <2>1. clsags \in Seq(Clsags)
    BY Zenon DEF AnyOrderInv, TypeOK
  <2>2. Len(clsags) # 0 /\ Len(clsags) \in Nat /\ DOMAIN clsags = 1 .. Len(clsags)
    BY <2>1, EmptySeq, LenProperties, Zenon
  <2> QED BY <2>2
<1> HIDE DEF Signing
<1> QED BY <1>2, <1>3, Zenon DEF SignedPayments

LEMMA SentIsOne ==
    ASSUME AnyOrderInv, sent' = <<Wire>>
    PROVE  SentPayments' = {Signing}
<1>1. CalculatePart1 = PrefixHash
  BY Zenon DEF AnyOrderInv, OutputsAligned, CalculatePart1, PrefixHash
<1>2. Content(Wire.part1, Wire.part2, Wire.part3.bpp) = Signing
  <2>1. Wire.part1 = PrefixHash /\ Wire.part2 = RctSigBase /\ Wire.part3.bpp = bpp
    BY <1>1 DEF Wire, CalculatePart2, CalculatePart3
  <2> QED BY <2>1, Zenon DEF Signing
<1>3. DOMAIN sent' = {1} /\ sent'[1] = Wire
  OBVIOUS
<1> HIDE DEF Signing
<1> QED BY <1>2, <1>3, Zenon DEF SentPayments

\* It is the payment that was requested.
LEMMA SignedIsRequested ==
    ASSUME AnyOrderInv, OrderInv, PaymentInv, SignTransaction, step = 7, step' = 8
    PROVE  /\ SignedPayments' = {ToPayer!ThePayment(txnFee)}
           /\ txnFee \in ToPayer!Leftover /\ pInputs # <<>>
<1>1. /\ Len(pInputs) \in Nat /\ Len(inputs) \in Nat /\ DOMAIN pInputs = 1 .. Len(pInputs)
      /\ DOMAIN pOutputs = 1 .. Len(pOutputs) /\ Len(pOutputs) \in Nat
      /\ outputs \in Seq(TxOutputs) /\ DOMAIN outputs = 1 .. Len(outputs)
  BY Lengths DEF AnyOrderInv
<1>2. Len(inputs) \in 1 .. Len(pInputs)
  BY Zenon DEF SignTransaction
<1>3. ~partial /\ inputs = [i \in DOMAIN pInputs |-> pInputs[i].coin]
  <2>1. InputsInOrder
    BY DEF OrderInv
  <2>2. ~partial
    BY <1>1, <1>2, <2>1 DEF InputsInOrder
  <2> QED BY <2>1, <2>2 DEF InputsInOrder
<1>4. /\ blindAmounts = AmountsOf(pOutputs)
      /\ \A i \in DOMAIN pOutputs : outputs[i].target.base = PubSpend(pOutputs[i].address)
  BY DEF OrderInv, OutputsInOrder
<1>5. DOMAIN outputs = DOMAIN pOutputs
  <2>1. Len(blindAmounts) = Len(outputs)
    BY DEF AnyOrderInv, OutputsAligned
  <2>2. Len(blindAmounts) = Len(pOutputs)
    BY <1>1, <1>4 DEF AmountsOf
  <2> QED BY <1>1, <2>1, <2>2
<1>6. /\ PrefixHash' = PrefixHash /\ RctSigBase' = RctSigBase
      /\ bpp' = signBpp /\ pInputs' = pInputs /\ pOutputs' = pOutputs
  BY SignFrame, Zenon
<1>7. \A i \in DOMAIN clsags' : clsags'[i].message = GetFullMessage(bpp)'
  <2>1. GetFullMessage(bpp)' = GetFullMessage(bpp')
    BY <1>6, Zenon DEF GetFullMessage
  <2> QED BY <2>1, SignaturesMade, Zenon
<1> DEFINE made == Content(PrefixHash, RctSigBase, signBpp)
<1>8. \A i \in DOMAIN clsags' :
        Content(clsags'[i].message.prefix, clsags'[i].message.base, clsags'[i].message.proof) = made
  <2>1. /\ GetFullMessage(bpp)'.prefix = PrefixHash /\ GetFullMessage(bpp)'.base = RctSigBase
        /\ GetFullMessage(bpp)'.proof = signBpp
    BY <1>6 DEF GetFullMessage
  <2> QED BY <1>7, <2>1, Zenon
<1>9. made = ToPayer!ThePayment(txnFee)
  <2>1. PrefixHash.inputs = [i \in DOMAIN pInputs |-> pInputs[i].coin]
    BY <1>3 DEF PrefixHash
  <2>2. [i \in DOMAIN PrefixHash.outputs |->
           [key |-> PrefixHash.outputs[i].target.base, amount |-> signBpp.amounts[i]]]
        = RequestedPays
    <3>1. \A i \in DOMAIN pOutputs : blindAmounts[i] = pOutputs[i].amount
      BY <1>4 DEF AmountsOf
    <3>2. PrefixHash.outputs = outputs /\ signBpp.amounts = blindAmounts
      BY DEF PrefixHash, signBpp
    <3> QED BY <1>4, <1>5, <3>1, <3>2 DEF RequestedPays
  <2>3. RctSigBase.fee = txnFee
    BY DEF RctSigBase
  <2> HIDE DEF made
  <2> QED BY <2>1, <2>2, <2>3, Zenon DEF made, Content, ToPayer!ThePayment
<1>10. SignedPayments' = {made}
  <2> HIDE DEF made
  <2>1. DOMAIN clsags' # {}
    BY SignaturesMade
  <2> QED BY <1>8, <2>1, Zenon DEF SignedPayments
<1>11. txnFee \in ToPayer!Leftover
  <2>1. txnFee \in 0 .. Mod - 1
    BY DEF AnyOrderInv, TypeOK, Amounts
  <2>2. FeeLeft
    BY DEF PaymentInv
  <2>3. TotalAmount(RequestedPays) = SumSeq(AmountsOf(pOutputs))
    <3>1. DOMAIN RequestedPays = DOMAIN pOutputs
          /\ \A i \in DOMAIN pOutputs : RequestedPays[i].amount = pOutputs[i].amount
      BY DEF RequestedPays
    <3>2. AmountsOf(RequestedPays) = AmountsOf(pOutputs)
      BY <3>1 DEF AmountsOf
    <3> QED BY <3>2, Zenon DEF TotalAmount
  <2>4. (TotalAmount(RequestedPays) + txnFee - TotalAmount(pInputs)) % Mod = 0
    BY <2>2, <2>3, Zenon DEF FeeLeft, TotalAmount
  <2> QED BY <2>1, <2>4, Zenon DEF ToPayer!Leftover
<1>12. pInputs # <<>>
  BY <1>1, <1>2
<1> QED BY <1>9, <1>10, <1>11, <1>12, Zenon

-----------------------------------------------------------------------------
\* Nothing is requested, signed or sent at first.
LEMMA InitRefines == Init => ToPayer!Init
<1> SUFFICES ASSUME Init PROVE ToPayer!Init
  OBVIOUS
<1>1. pInputs = <<>> /\ pOutputs = <<>> /\ clsags = <<>> /\ sent = <<>>
  BY DEF Init
<1>2. RequestedPays = <<>> /\ SignedPayments = {} /\ SentPayments = {}
  BY <1>1 DEF RequestedPays, SignedPayments, SentPayments
<1> QED BY <1>1, <1>2 DEF ToPayer!Init

\* Each move is a step of a Payment, or none.
LEMMA MoveRefines ==
    ASSUME AnyOrderInv, OrderInv, PaymentInv, OrderedMove
    PROVE  [ToPayer!Next]_ToPayer!vars
<1> USE DEF ToPayer!vars
<1>1. ASSUME NEW r \in InputRequests, pInputs' = Append(pInputs, r),
             UNCHANGED <<pOutputs, clsags, sent>>, step \in 1 .. 2
      PROVE  ToPayer!RequestSpend
  <2>1. SignedPayments = {}
    BY <1>1 DEF PaymentInv, SignedPayments
  <2>2. UNCHANGED <<RequestedPays, SignedPayments, SentPayments>>
    BY <1>1, Zenon DEF RequestedPays, SignedPayments, SentPayments
  <2>3. r \in InputRequestType
    BY RequestAssumption
  <2> QED BY <1>1, <2>1, <2>2, <2>3, Zenon DEF ToPayer!RequestSpend
<1>2. ASSUME NEW r \in OutputRequests, pOutputs' = Append(pOutputs, r),
             UNCHANGED <<pInputs, clsags, sent>>, step \in 2 .. 3
      PROVE  ToPayer!RequestPay
  <2>1. SignedPayments = {}
    BY <1>2 DEF PaymentInv, SignedPayments
  <2>2. UNCHANGED <<SignedPayments, SentPayments>>
    BY <1>2, Zenon DEF SignedPayments, SentPayments
  <2>3. \E pay \in [key : Points, amount : Amounts] : RequestedPays' = Append(RequestedPays, pay)
    BY <1>2, OneMorePay, Zenon DEF AnyOrderInv
  <2> QED BY <1>2, <2>1, <2>2, <2>3, Zenon DEF ToPayer!RequestPay
<1>3. ASSUME UNCHANGED <<pInputs, pOutputs, clsags, sent>>
      PROVE  UNCHANGED ToPayer!vars
  BY <1>3, Zenon DEF RequestedPays, SignedPayments, SentPayments
<1>4. ASSUME SignTransaction, step = 7, step' = 8 PROVE ToPayer!Sign
  <2>1. /\ SignedPayments' = {ToPayer!ThePayment(txnFee)}
        /\ txnFee \in ToPayer!Leftover /\ pInputs # <<>>
    BY <1>4, SignedIsRequested, Zenon
  <2>2. SignedPayments = {}
    BY <1>4 DEF PaymentInv, SignedPayments
  <2>3. UNCHANGED <<pInputs, RequestedPays, SentPayments>>
    BY <1>4, SignFrame, Zenon DEF RequestedPays, SentPayments
  <2> QED BY <2>1, <2>2, <2>3, Zenon DEF ToPayer!Sign
<1>5. ASSUME UNCHANGED <<pInputs, pOutputs, txnFee, clsags>>, sent' = <<Wire>>, step = 9
      PROVE  ToPayer!Publish
  <2>1. clsags # <<>> /\ sent = <<>>
    BY <1>5 DEF PaymentInv
  <2>2. SignedPayments = {Signing}
    BY <1>5, <2>1, OneSigned
  <2>3. SentPayments' = {Signing}
    BY <1>5, SentIsOne, Zenon
  <2>4. SentPayments = {}
    BY <2>1 DEF SentPayments
  <2>5. UNCHANGED <<pInputs, RequestedPays, SignedPayments>>
    BY <1>5, Zenon DEF RequestedPays, SignedPayments
  <2> QED BY <2>2, <2>3, <2>4, <2>5, Zenon DEF ToPayer!Publish
<1> QED BY <1>1, <1>2, <1>3, <1>4, <1>5, Zenon DEF OrderedMove, Quiet, ToPayer!Next

\* In the documented order, whatever fails and is tried again, the builder makes
\* the payment a caller requested, signs it once and sends it as it was signed.
THEOREM BuilderImplementsPayment == OrderedSpec => ImplementsPayment
<1> DEFINE Inv == AnyOrderInv /\ OrderInv /\ PaymentInv /\ step # 0
<1>1. Init => Inv
  BY InitAnyOrder, InitOrder, InitPayment DEF Init
<1>2. Inv /\ [Next /\ step' # 0]_vars => Inv' /\ [ToPayer!Next]_ToPayer!vars
  <2> SUFFICES ASSUME Inv, [Next /\ step' # 0]_vars
               PROVE  Inv' /\ [ToPayer!Next]_ToPayer!vars
    OBVIOUS
  <2>1. OrderedMove /\ step' # 0
    <3>1. CASE Next /\ step' # 0
      BY <3>1, OrderedMoves
    <3>2. CASE UNCHANGED vars
      BY <3>2, Zenon DEF vars, requestVars, signVars, resultVars, OrderedMove, Quiet
    <3> QED BY <3>1, <3>2
  <2>2. AnyOrderInv' /\ OrderInv'
    BY NextAnyOrder, NextOrder
  <2> QED BY <2>1, <2>2, NextPayment, MoveRefines
<1>3. Init => ToPayer!Init
  BY InitRefines
<1> QED BY <1>1, <1>2, <1>3, PTL DEF OrderedSpec, ImplementsPayment, ToPayer!Spec

-----------------------------------------------------------------------------
(* What a transaction that is sent looks like to a verifier.                  *)

MasksOf(commitments) == [i \in DOMAIN commitments |-> commitments[i].mask]

\* What one signing leaves, as far as the verifier's equations look at it.
OpensBalance ==
    /\ inputs # <<>> /\ bpp = signBpp
    /\ Len(inputScalars) = Len(inputs)
    /\ Len(pseudoOuts) = Len(inputs) /\ Len(clsags) = Len(inputs)
    /\ \A i \in DOMAIN inputs : /\ pseudoOuts[i].amount = pInputs[i].amount
                                /\ clsags[i].coin = inputs[i]
    /\ SumSeq(MasksOf(pseudoOuts)) % Q = SumSeq(blindScalars) % Q

BalanceInv ==
    /\ step \in 1 .. 7 => inputScalars = <<>>
    /\ step \in 8 .. 10 => OpensBalance

openVars == <<pInputs, inputs, blindAmounts, blindScalars, bpp, pseudoOuts, clsags, inputScalars>>

\* No step of the documented order but signing disturbs what one signing leaves.
LEMMA BalanceMoves ==
    ASSUME AnyOrderInv, Next, step' # 0
    PROVE  \/ step \in 1 .. 7 /\ step' \in 1 .. 7 /\ inputScalars' = inputScalars
           \/ step \in 7 .. 10 /\ step' = step /\ UNCHANGED openVars
           \/ step \in 8 .. 9 /\ step' = step + 1 /\ UNCHANGED openVars
           \/ step = 7 /\ step' = 8 /\ SignTransaction
<1> DEFINE Goal == \/ step \in 1 .. 7 /\ step' \in 1 .. 7 /\ inputScalars' = inputScalars
                   \/ step \in 7 .. 10 /\ step' = step /\ UNCHANGED openVars
                   \/ step \in 8 .. 9 /\ step' = step + 1 /\ UNCHANGED openVars
                   \/ step = 7 /\ step' = 8 /\ SignTransaction
<1>1. step \in 0 .. 10
  BY Lengths DEF AnyOrderInv
<1>2. ASSUME inputScalars' = inputScalars,
             \E n \in 2 .. 7 : Follow(n) \/ Retry(n)
      PROVE  Goal
  BY <1>1, <1>2, FollowMoves, RetryMoves
<1>3. ASSUME NEW r \in InputRequests, WriteInput(r) PROVE Goal
  <2>1. inputScalars' = inputScalars /\ Follow(2)
    BY <1>3, Zenon DEF WriteInput, signVars
  <2> QED BY <1>2, <2>1
<1>4. ASSUME NEW r \in OutputRequests, WriteOutput(r) PROVE Goal
  <2>1. inputScalars' = inputScalars /\ Follow(3)
    BY <1>4, Zenon DEF WriteOutput, signVars
  <2> QED BY <1>2, <2>1
<1>5. ASSUME NEW fee \in Fees, SetFee(fee) PROVE Goal
  BY <1>5, Zenon DEF SetFee
<1>6. CASE CalcFeeDifference
  <2>1. inputScalars' = inputScalars /\ Follow(4)
    BY <1>6, Zenon DEF CalcFeeDifference, signVars
  <2> QED BY <1>2, <2>1
<1>7. CASE CalcExtra
  <2>1. inputScalars' = inputScalars /\ Follow(5)
    BY <1>7, Zenon DEF CalcExtra, signVars
  <2> QED BY <1>2, <2>1
<1>8. CASE CalcInputs \/ CalcInputsFails
  <2>1. inputScalars' = inputScalars /\ (Follow(6) \/ Retry(6))
    BY <1>8, Zenon DEF CalcInputs, CalcInputsFails, AddInputs, signVars
  <2> QED BY <1>2, <2>1
<1>9. CASE CalcOutputs \/ CalcOutputsFails
  <2>1. inputScalars' = inputScalars /\ (Follow(7) \/ Retry(7))
    BY <1>9, Zenon DEF CalcOutputs, CalcOutputsFails, AddOutputs, signVars
  <2> QED BY <1>2, <2>1
<1>10. CASE SignTransaction
  <2>1. Follow(8)
    BY <1>10, Zenon DEF SignTransaction
  <2>2. step = 7 /\ step' = 8
    BY <1>1, <2>1, FollowMoves
  <2> QED BY <1>10, <2>2
<1>11. CASE SignTransactionFails
  <2>1. inputScalars' = inputScalars /\ Retry(8)
    BY <1>11, Zenon DEF SignTransactionFails
  <2>2. step = 7 /\ step' = 7
    BY <1>1, <2>1, RetryMoves
  <2> QED BY <2>1, <2>2
<1>12. CASE CalcHash
  <2>1. UNCHANGED openVars /\ Follow(9)
    BY <1>12, Zenon DEF CalcHash, openVars, requestVars, inputVars, outputVars, signVars
  <2>2. step = 8 /\ step' = 9
    BY <1>1, <2>1, FollowMoves
  <2> QED BY <2>1, <2>2
<1>13. CASE Serialize
  <2>1. UNCHANGED openVars /\ Follow(10)
    BY <1>13, Zenon DEF Serialize, openVars, requestVars, inputVars, outputVars, signVars
  <2>2. step = 9 /\ step' = 10
    BY <1>1, <2>1, FollowMoves
  <2> QED BY <2>1, <2>2
<1>14. CASE AnyPanic
  <2>1. UNCHANGED openVars /\ step' = step
    BY <1>1, <1>14, PanicMoves, Zenon DEF openVars, requestVars, inputVars, outputVars, signVars
  <2>2. inputScalars' = inputScalars
    BY <2>1, Zenon DEF openVars
  <2>3. step \in 1 .. 7 \/ step \in 7 .. 10
    BY <1>1, <2>1
  <2> QED BY <2>1, <2>2, <2>3
<1> QED BY <1>3, <1>4, <1>5, <1>6, <1>7, <1>8, <1>9, <1>10, <1>11, <1>12, <1>13, <1>14, Zenon
        DEF Next, AnyPanic

\* The masks of the pseudo outputs are those the signing chose, and these have the
\* sum of the output masks.
LEMMA SigningBalances ==
    ASSUME AnyOrderInv, SignTransaction, inputScalars = <<>>
    PROVE  OpensBalance'
<1> DEFINE n == Len(inputs)
<1>1. n \in 1 .. Len(pInputs) /\ bpp' = signBpp /\ UNCHANGED <<requestVars, inputVars, outputVars>>
  BY Zenon DEF SignTransaction
<1>2. PICK masks \in [1 .. n -> Scalars] : calculatePseudoOuts(masks)
  BY Zenon DEF SignTransaction
<1>3. n \in Nat /\ DOMAIN inputs = 1 .. n /\ Len(pInputs) \in Nat /\ inputScalars \in Seq(Scalars)
  BY Lengths, Zenon DEF AnyOrderInv
<1>4. /\ pseudoOuts' = [i \in 1 .. n |-> Commit(pInputs[i].amount, masks[i])]
      /\ SumSeq(masks) % Q = SumSeq(blindScalars) % Q
  BY <1>2, <1>3, Zenon DEF calculatePseudoOuts
<1>5. MasksOf(pseudoOuts') = masks
  <2>1. MasksOf(pseudoOuts') = [i \in 1 .. n |-> masks[i]]
    BY <1>4 DEF MasksOf, Commit
  <2> QED BY <1>2, <2>1
<1>6. \A i \in 1 .. n : pseudoOuts'[i].amount = pInputs[i].amount
  BY <1>4 DEF Commit
<1>7. /\ UNCHANGED <<pInputs, inputs, blindAmounts, blindScalars>> /\ signBpp' = signBpp
  BY <1>1, Zenon DEF requestVars, inputVars, outputVars, signBpp
<1>8. /\ Len(pseudoOuts') = n /\ Len(clsags') = n /\ \A i \in 1 .. n : clsags'[i].coin = inputs[i]
      /\ Len(inputScalars') = Len(inputScalars) + n
  BY Signed, Zenon
<1>9. Len(inputScalars') = n
  BY <1>3, <1>8
<1>10. inputs # <<>>
  BY <1>1, <1>3
<1> QED BY <1>1, <1>3, <1>4, <1>5, <1>6, <1>7, <1>8, <1>9, <1>10, Zenon DEF OpensBalance, MasksOf

LEMMA InitBalance == Init => BalanceInv
BY DEF Init, BalanceInv

LEMMA NextBalance == AnyOrderInv /\ BalanceInv /\ [Next]_vars => BalanceInv'
<1> SUFFICES ASSUME AnyOrderInv, BalanceInv, [Next]_vars PROVE BalanceInv'
  OBVIOUS
<1>1. CASE step' = 0
  BY <1>1 DEF BalanceInv
<1>2. ASSUME UNCHANGED openVars PROVE OpensBalance' = OpensBalance /\ inputScalars' = inputScalars
  BY <1>2, Zenon DEF openVars, OpensBalance, signBpp, MasksOf
<1>3. CASE UNCHANGED vars
  <2>1. UNCHANGED openVars /\ step' = step
    BY <1>3, Zenon DEF vars, openVars, requestVars, inputVars, outputVars, signVars
  <2> QED BY <1>2, <2>1, Zenon DEF BalanceInv
<1>4. CASE Next /\ step' # 0
  <2>1. CASE step \in 1 .. 7 /\ step' \in 1 .. 7 /\ inputScalars' = inputScalars
    BY <2>1 DEF BalanceInv
  <2>2. CASE step \in 7 .. 10 /\ step' = step /\ UNCHANGED openVars
    BY <1>2, <2>2 DEF BalanceInv
  <2>3. CASE step \in 8 .. 9 /\ step' = step + 1 /\ UNCHANGED openVars
    BY <1>2, <2>3 DEF BalanceInv
  <2>4. CASE step = 7 /\ step' = 8 /\ SignTransaction
    <3>1. inputScalars = <<>>
      BY <2>4 DEF BalanceInv
    <3>2. OpensBalance'
      BY <2>4, <3>1, SigningBalances
    <3> QED BY <2>4, <3>2 DEF BalanceInv
  <2> QED BY <1>4, <2>1, <2>2, <2>3, <2>4, BalanceMoves
<1> QED BY <1>1, <1>3, <1>4

\* Every entry of a sequence of requests is added up to an integer.
LEMMA SumTyped ==
    ASSUME TypeOK
    PROVE  SumSeq(AmountsOf(pInputs)) \in Int /\ SumSeq(AmountsOf(pOutputs)) \in Int
<1>1. ASSUME NEW n \in Nat, NEW s \in [1 .. n -> Int] PROVE SumSeq(s) \in Int
  <2>1. IsFiniteSet(1 .. n)
    BY FS_Interval
  <2> QED BY <2>1, SumIsInt DEF SumSeq
<1>2. /\ Len(pInputs) \in Nat /\ DOMAIN pInputs = 1 .. Len(pInputs)
      /\ \A i \in 1 .. Len(pInputs) : pInputs[i] \in InputRequestType
      /\ Len(pOutputs) \in Nat /\ DOMAIN pOutputs = 1 .. Len(pOutputs)
      /\ \A i \in 1 .. Len(pOutputs) : pOutputs[i] \in OutputRequestType
  BY Lengths
<1>3. Amounts \subseteq Int
  BY ScalarAssumption DEF Amounts
<1>4. AmountsOf(pInputs) \in [1 .. Len(pInputs) -> Int]
  BY <1>2, <1>3 DEF AmountsOf, InputRequestType
<1>5. AmountsOf(pOutputs) \in [1 .. Len(pOutputs) -> Int]
  BY <1>2, <1>3 DEF AmountsOf, OutputRequestType
<1> QED BY <1>1, <1>2, <1>4, <1>5

\* What is left is the fee, mod the width of an amount: exactly the fee if what is
\* left is an amount.
LEMMA FeeIsLeft ==
    ASSUME NEW a \in Int, NEW b \in Int, NEW fee \in Amounts, (b + fee - a) % Mod = 0
    PROVE  a = b + fee <=> a - b \in Amounts
<1>1. CASE a = b + fee
  <2>1. a - b = fee
    BY <1>1, ScalarAssumption DEF Amounts
  <2> QED BY <1>1, <2>1
<1>2. CASE a - b \in Amounts
  <2> DEFINE m == Mod
             d == b + (fee - a)
  <2>1. m \in Nat \ {0} /\ fee \in 0 .. m - 1 /\ a - b \in 0 .. m - 1
    BY <1>2, ScalarAssumption DEF Amounts
  <2>2. d \in Int /\ d > -m /\ d < m /\ d % m = 0
    BY <2>1
  <2> HIDE DEF d, m
  <2>3. d = 0
    <3>1. PICK q \in Int : d = m * q
      BY <2>1, <2>2
    <3>2. q >= 1 => m * q >= m
      BY <2>1
    <3>3. q <= -1 => m * q <= -m
      BY <2>1
    <3>4. q = 0 => m * q = 0
      BY <2>1
    <3> QED BY <2>1, <2>2, <3>1, <3>2, <3>3, <3>4
  <2> QED BY <1>2, <2>1, <2>3 DEF d
<1> QED BY <1>1, <1>2

\* Entry by entry, what is sent has the amounts and the masks of what it was made of.
LEMMA EntriesSent ==
    ASSUME AnyOrderInv, OrderInv, OpensBalance, step = 10
    PROVE  /\ DOMAIN inputs = DOMAIN pInputs /\ DOMAIN inputs = 1 .. Len(inputs)
           /\ \A i \in DOMAIN inputs : inputs[i] = pInputs[i].coin
           /\ AmountsOf(pseudoOuts) = AmountsOf(pInputs)
           /\ AmountsOf(outPk) = AmountsOf(pOutputs)
           /\ MasksOf(outPk) = blindScalars
           /\ outPk = [i \in DOMAIN blindScalars |-> Commit(blindAmounts[i], blindScalars[i])]
<1>1. /\ Len(pInputs) \in Nat /\ DOMAIN pInputs = 1 .. Len(pInputs)
      /\ Len(inputs) \in Nat /\ DOMAIN inputs = 1 .. Len(inputs) /\ Len(outputs) \in Nat
  BY Lengths DEF AnyOrderInv
<1>2. inputs = [i \in DOMAIN pInputs |-> pInputs[i].coin] /\ blindAmounts = AmountsOf(pOutputs)
  BY DEF OrderInv, InputsInOrder, OutputsInOrder
<1>3. DOMAIN inputs = DOMAIN pInputs /\ \A i \in DOMAIN inputs : inputs[i] = pInputs[i].coin
  BY <1>2
<1>4. pseudoOuts \in Seq(Commitments) /\ outPk \in Seq(Commitments) /\ outputs \in Seq(TxOutputs)
      /\ blindScalars \in Seq(Scalars) /\ blindAmounts \in Seq(Amounts)
  BY Zenon DEF AnyOrderInv, TypeOK
<1>5. AmountsOf(pseudoOuts) = AmountsOf(pInputs)
  <2>1. DOMAIN pseudoOuts = DOMAIN inputs
    BY <1>1, <1>4 DEF OpensBalance
  <2>2. \A i \in DOMAIN inputs : pseudoOuts[i].amount = pInputs[i].amount
    BY Zenon DEF OpensBalance
  <2> QED BY <1>3, <2>1, <2>2 DEF AmountsOf
<1>6. /\ Len(outPk) = Len(outputs) /\ Len(blindScalars) = Len(outputs) /\ Len(blindAmounts) = Len(outputs)
      /\ \A i \in DOMAIN outputs : outPk[i] = Commit(blindAmounts[i], blindScalars[i])
  BY Zenon DEF AnyOrderInv, OutputsAligned
<1>7. /\ DOMAIN outputs = 1 .. Len(outputs) /\ DOMAIN outPk = 1 .. Len(outputs)
      /\ DOMAIN blindScalars = 1 .. Len(outputs) /\ DOMAIN blindAmounts = 1 .. Len(outputs)
      /\ outPk = [i \in 1 .. Len(outputs) |-> outPk[i]]
      /\ blindScalars = [i \in 1 .. Len(outputs) |-> blindScalars[i]]
      /\ blindAmounts = [i \in 1 .. Len(outputs) |-> blindAmounts[i]]
  BY <1>4, <1>6
<1>8. \A i \in 1 .. Len(outputs) : outPk[i].amount = blindAmounts[i] /\ outPk[i].mask = blindScalars[i]
  BY <1>6, <1>7 DEF Commit
<1>9. AmountsOf(outPk) = blindAmounts /\ MasksOf(outPk) = blindScalars
  BY <1>7, <1>8 DEF AmountsOf, MasksOf
<1>10. outPk = [i \in DOMAIN blindScalars |-> Commit(blindAmounts[i], blindScalars[i])]
  BY <1>6, <1>7
<1> QED BY <1>1, <1>2, <1>3, <1>5, <1>9, <1>10

\* The equations of Verifies, for what is sent.
LEMMA SentEquations ==
    ASSUME AnyOrderInv, OrderInv, OpensBalance, FeeLeft, step = 10
    PROVE  Verifies(sent[1]) <=> Funded /\ Honest /\ DistinctCoins /\ RingsHide
<1> DEFINE Masks(cs) == [i \in DOMAIN cs |-> cs[i].mask]
           t == sent[1]
<1>1. /\ t.part1 = PrefixHash /\ t.part2 = RctSigBase /\ t.part3.clsags = clsags
      /\ t.part3.pseudoOuts = pseudoOuts /\ t.part3.bpp = bpp
  <2>1. sent = <<Wire>>
    BY DEF OrderInv, ResultsInOrder
  <2>2. CalculatePart1 = PrefixHash
    BY Zenon DEF AnyOrderInv, OutputsAligned, CalculatePart1, PrefixHash
  <2> QED BY <2>1, <2>2 DEF Wire, CalculatePart2, CalculatePart3
<1>2. /\ PrefixHash.inputs = inputs /\ PrefixHash.vins = vinCount /\ PrefixHash.vouts = voutCount
      /\ PrefixHash.outputs = outputs /\ RctSigBase.outPk = outPk /\ RctSigBase.fee = txnFee
  BY DEF PrefixHash, RctSigBase
<1>3. /\ vinCount = Len(inputs) /\ voutCount = Len(outputs) /\ Len(outPk) = Len(outputs)
  BY Zenon DEF AnyOrderInv, OutputsAligned
<1>4. bpp.made /\ bpp.amounts = blindAmounts /\ bpp.masks = blindScalars
  BY DEF OpensBalance, signBpp
<1>5. SumSeq(AmountsOf(pseudoOuts)) = SumSeq(AmountsOf(outPk)) + txnFee <=> Funded
  <2> DEFINE a == SumSeq(AmountsOf(pInputs))
             b == SumSeq(AmountsOf(pOutputs))
  <2>1. a \in Int /\ b \in Int /\ txnFee \in Amounts /\ (b + txnFee - a) % Mod = 0
    BY SumTyped DEF AnyOrderInv, FeeLeft, TypeOK
  <2>2. a = b + txnFee <=> a - b \in Amounts
    <3> HIDE DEF a, b
    <3> QED BY <2>1, FeeIsLeft, Zenon
  <2> QED BY <2>2, EntriesSent, Zenon DEF Funded
<1>6. SumSeq(Masks(pseudoOuts)) % Q = SumSeq(Masks(outPk)) % Q
  <2>1. Masks(pseudoOuts) = MasksOf(pseudoOuts) /\ Masks(outPk) = blindScalars
    BY EntriesSent, Zenon DEF MasksOf
  <2>2. SumSeq(MasksOf(pseudoOuts)) % Q = SumSeq(blindScalars) % Q
    BY Zenon DEF OpensBalance
  <2> HIDE DEF Masks
  <2> QED BY <2>1, <2>2, Zenon
<1>7. (\A i, j \in DOMAIN inputs : inputs[i] = inputs[j] => i = j) <=> DistinctCoins
  BY EntriesSent, Zenon DEF DistinctCoins
<1>8. ASSUME NEW i \in DOMAIN inputs
      PROVE  /\ clsags[i].message = [prefix |-> PrefixHash, base |-> RctSigBase, proof |-> bpp]
             /\ clsags[i].coin = inputs[i] /\ clsags[i].pseudoOut = pseudoOuts[i]
             /\ hidden[i] = clsags[i].coin
                  /\ Commit(CoinValue[hidden[i]], CoinMask[hidden[i]])
                       = Commit(pseudoOuts[i].amount, ScAdd(clsags[i].z, pseudoOuts[i].mask))
                <=> hidden[i] = inputs[i] /\ pInputs[i].amount = CoinValue[pInputs[i].coin]
  <2>1. DOMAIN clsags = DOMAIN inputs
    <3>1. clsags \in Seq(Clsags) /\ Len(clsags) = Len(inputs)
      BY Zenon DEF AnyOrderInv, TypeOK, OpensBalance
    <3>2. DOMAIN clsags = 1 .. Len(clsags)
      BY <3>1
    <3> QED BY <3>1, <3>2, EntriesSent, Zenon
  <2>2. clsags[i].message = [prefix |-> PrefixHash, base |-> RctSigBase, proof |-> bpp]
    <3>1. step >= 8
      OBVIOUS
    <3> QED BY <2>1, <3>1, Zenon DEF OrderInv, SignedInOrder, GetFullMessage
  <2>3. /\ clsags[i].pseudoOut = pseudoOuts[i]
        /\ ScAdd(clsags[i].z, pseudoOuts[i].mask) = CoinMask[clsags[i].coin]
    BY <2>1, Zenon DEF AnyOrderInv, SignedOnceOpens, OpensBalance
  <2>4. clsags[i].coin = inputs[i] /\ pseudoOuts[i].amount = pInputs[i].amount
    BY Zenon DEF OpensBalance
  <2>5. inputs[i] = pInputs[i].coin
    BY EntriesSent
  <2>6. Commit(CoinValue[inputs[i]], CoinMask[inputs[i]])
             = Commit(pseudoOuts[i].amount, ScAdd(clsags[i].z, pseudoOuts[i].mask))
        <=> pInputs[i].amount = CoinValue[pInputs[i].coin]
    BY <2>3, <2>4, <2>5 DEF Commit
  <2>7. ASSUME hidden[i] = inputs[i]
        PROVE  /\ CoinValue[hidden[i]] = CoinValue[inputs[i]]
               /\ CoinMask[hidden[i]] = CoinMask[inputs[i]]
    BY <2>7
  <2> QED BY <2>2, <2>3, <2>4, <2>6, <2>7, Zenon
<1>9. Honest <=> \A i \in DOMAIN inputs : pInputs[i].amount = CoinValue[pInputs[i].coin]
  BY EntriesSent, Zenon DEF Honest
<1>10. /\ inputs # <<>> /\ Len(clsags) = Len(inputs) /\ Len(pseudoOuts) = Len(inputs)
       /\ outPk = [i \in DOMAIN bpp.masks |-> Commit(bpp.amounts[i], bpp.masks[i])]
  BY <1>4, EntriesSent, Zenon DEF OpensBalance
<1> HIDE DEF t
<1>11. Verifies(t) <=>
          /\ inputs # <<>> /\ vinCount = Len(inputs) /\ voutCount = Len(outPk)
          /\ \A i, j \in DOMAIN inputs : inputs[i] = inputs[j] => i = j
          /\ SumSeq(AmountsOf(pseudoOuts)) = SumSeq(AmountsOf(outPk)) + txnFee
          /\ SumSeq(Masks(pseudoOuts)) % Q = SumSeq(Masks(outPk)) % Q
          /\ bpp.made /\ Len(outPk) = Len(outputs)
          /\ outPk = [i \in DOMAIN bpp.masks |-> Commit(bpp.amounts[i], bpp.masks[i])]
          /\ Len(clsags) = Len(inputs) /\ Len(pseudoOuts) = Len(inputs)
          /\ \A i \in DOMAIN inputs :
                /\ clsags[i].message = [prefix |-> PrefixHash, base |-> RctSigBase, proof |-> bpp]
                /\ clsags[i].coin = inputs[i] /\ clsags[i].pseudoOut = pseudoOuts[i]
                /\ hidden[i] = clsags[i].coin
                /\ Commit(CoinValue[hidden[i]], CoinMask[hidden[i]])
                     = Commit(pseudoOuts[i].amount, ScAdd(clsags[i].z, pseudoOuts[i].mask))
  BY <1>1, <1>2, ZenonT(40) DEF Verifies
<1> HIDE DEF Masks
<1>12. voutCount = Len(outPk)
  BY <1>3, Zenon
<1>13. Honest /\ RingsHide
          <=> \A i \in DOMAIN inputs :
                  hidden[i] = inputs[i] /\ pInputs[i].amount = CoinValue[pInputs[i].coin]
  BY <1>9, Zenon DEF RingsHide
<1>14. Verifies(t) <=> Funded /\ (Honest /\ RingsHide) /\ DistinctCoins
  BY <1>3, <1>4, <1>5, <1>6, <1>7, <1>8, <1>10, <1>11, <1>12, <1>13, Zenon
<1> QED BY <1>14, Zenon DEF t

\* In the documented order, for any wallets, requests, failures and retries and
\* whatever the daemons showed, what is sent satisfies every equation of a verifier
\* if and only if the requests were funded, claimed the amounts the coins hold, and
\* named no coin twice, and the network's chain holds each coin where its ring hides
\* it (writeInput2, calculatePseudoOuts, signCLSAGs, CalcFeeDifference).
THEOREM SentIsValid == Spec => []SentVerifies
<1> DEFINE Inv == AnyOrderInv /\ OrderInv /\ BalanceInv /\ PaymentInv
<1>1. Init => Inv
  BY InitAnyOrder, InitOrder, InitBalance, InitPayment
<1>2. Inv /\ [Next]_vars => Inv'
  <2> SUFFICES ASSUME Inv, [Next]_vars PROVE Inv'
    OBVIOUS
  <2>1. AnyOrderInv' /\ OrderInv' /\ BalanceInv'
    BY NextAnyOrder, NextOrder, NextBalance
  <2>2. PaymentInv'
    <3>1. CASE step' = 0
      BY <3>1 DEF PaymentInv
    <3>2. CASE step' # 0 /\ step # 0
      <4>1. OrderedMove
        <5>1. CASE Next
          BY <3>2, <5>1, OrderedMoves
        <5>2. CASE UNCHANGED vars
          BY <5>2, Zenon DEF vars, requestVars, signVars, resultVars, OrderedMove, Quiet
        <5> QED BY <5>1, <5>2
      <4> QED BY <4>1, NextPayment
    <3>3. CASE step = 0 /\ step' # 0
      <4>1. CASE UNCHANGED vars
        BY <3>3, <4>1, Zenon DEF vars
      <4>2. CASE Next
        BY <3>3, <4>2, BalanceMoves
      <4> QED BY <4>1, <4>2
    <3> QED BY <3>1, <3>2, <3>3
  <2> QED BY <2>1, <2>2
<1>3. Inv => SentVerifies
  <2> SUFFICES ASSUME Inv, step = 10
               PROVE  Verifies(sent[1]) <=> Funded /\ Honest /\ DistinctCoins /\ RingsHide
    BY Zenon DEF SentVerifies
  <2>1. OpensBalance /\ FeeLeft
    BY DEF BalanceInv, PaymentInv
  <2> QED BY <2>1, SentEquations
<1> QED BY <1>1, <1>2, <1>3, PTL DEF Spec

-----------------------------------------------------------------------------
(* Reading fields.                                                             *)

LEMMA FlattenPeels ==
    ASSUME NEW n \in Nat, NEW rows, Tuple(rows, n), \A i \in 1 .. n : IsSeq(rows[i])
    PROVE  \E t : Peels(t, rows, n) /\ t[0] = FlattenSeq(rows)
<1>1. Len(rows) = n
  BY TupleIs
<1>2. CASE n = 0
  <2>1. FlattenSeq(rows) = rows /\ rows = <<>>
    <3>1. rows = <<>>
      BY <1>2 DEF Tuple
    <3>2. FlattenSeq(rows) = rows
      BY <1>1, <1>2 DEF FlattenSeq
    <3> QED BY <3>1, <3>2
  <2> DEFINE t == [k \in 0 .. 0 |-> rows]
  <2>2. t[0] = rows /\ (\A k \in 0 .. 0 : k = 0) /\ \A k \in 1 .. 0 : FALSE
    OBVIOUS
  <2> HIDE DEF t
  <2>3. Peels(t, rows, 0)
    BY <2>1, <2>2, SmallSeqs, Zenon DEF Peels
  <2> QED BY <1>2, <2>1, <2>2, <2>3
<1>3. CASE n # 0
  <2> DEFINE s == CHOOSE s : AreFlat(s, rows, n)
  <2>1. AreFlat(s, rows, n)
    <3>1. n - 1 \in Nat /\ (n - 1) + 1 = n
      BY <1>3
    <3> QED BY <3>1, FlatExists
  <2>2. FlattenSeq(rows) = s[n]
    <3>1. FlattenSeq(rows) = IF Len(rows) = 0 THEN rows
                             ELSE (CHOOSE u : AreFlat(u, rows, Len(rows)))[Len(rows)]
      BY Zenon DEF FlattenSeq, AreFlat, FlattenStep
    <3> QED BY <1>1, <1>3, <3>1
  <2> HIDE DEF s
  <2> QED BY <1>3, <2>1, <2>2, FlatPeels
<1> QED BY <1>2, <1>3

\* A reader in step, and what it has got when it has read k fields of s.
R(rest, got) == [rest |-> rest, got |-> got, inStep |-> TRUE]
Values(s, k) == [j \in 1 .. k |-> s[j].value]

LEMMA AppendMore ==
    ASSUME NEW k \in Nat, NEW t
    PROVE  Append([j \in 1 .. k |-> t[j]], t[k + 1]) = [j \in 1 .. k + 1 |-> t[j]]
<1> DEFINE s == [j \in 1 .. k |-> t[j]]
           e == t[k + 1]
           S == {t[j] : j \in 1 .. k + 1}
           u == [j \in 1 .. k + 1 |-> t[j]]
<1>1. /\ s \in Seq(S) /\ Len(s) = k /\ e \in S /\ u \in Seq(S) /\ Len(u) = k + 1
      /\ u[k + 1] = e /\ \A i \in 1 .. k : s[i] = u[i]
  <2>1. Tuple(s, k) /\ Tuple(u, k + 1)
    BY DEF Tuple
  <2>2. Len(s) = k /\ Len(u) = k + 1 /\ s \in Seq({s[i] : i \in 1 .. k}) /\ u \in Seq({u[i] : i \in 1 .. k + 1})
    <3> HIDE DEF s, u
    <3>1. k + 1 \in Nat
      OBVIOUS
    <3> QED BY <2>1, <3>1, TupleIs
  <2>3. {s[i] : i \in 1 .. k} \subseteq S /\ {u[i] : i \in 1 .. k + 1} \subseteq S
    OBVIOUS
  <2>4. s \in Seq(S) /\ u \in Seq(S)
    <3> HIDE DEF s, u, S
    <3> QED BY <2>2, <2>3, SeqMonotonic
  <2>5. e \in S /\ u[k + 1] = e /\ \A i \in 1 .. k : s[i] = u[i]
    OBVIOUS
  <2> QED BY <2>2, <2>4, <2>5
<1> HIDE DEF s, e, S, u
<1>2. /\ Append(s, e) \in Seq(S) /\ Len(Append(s, e)) = k + 1
      /\ Append(s, e)[k + 1] = e /\ \A i \in 1 .. k : Append(s, e)[i] = s[i]
  BY <1>1, AppendProperties
<1>3. \A i \in 1 .. k + 1 : Append(s, e)[i] = u[i]
  <2>1. \A i \in 1 .. k + 1 : i \in 1 .. k \/ i = k + 1
    OBVIOUS
  <2> HIDE DEF s, e, u
  <2> QED BY <1>1, <1>2, <2>1, Zenon
<1>4. Append(s, e) = u
  BY <1>1, <1>2, <1>3, SeqEqual
<1> QED BY <1>4 DEF s, e, u

LEMMA FieldRead ==
    ASSUME NEW s, IsSeq(s), NEW k \in 0 .. Len(s) - 1
    PROVE  ReadField(R(Suffix(s, k), Values(s, k)), s[k + 1].width) = R(Suffix(s, k + 1), Values(s, k + 1))
<1> DEFINE v == [j \in 1 .. Len(s) |-> s[j].value]
           z == Suffix(s, k)
<1>1. Len(s) \in Nat
  BY SeqLen
<1>2. k \in Nat /\ k + 1 \in 1 .. Len(s)
  BY <1>1
<1>3. Values(s, k) = [j \in 1 .. k |-> v[j]] /\ Values(s, k + 1) = [j \in 1 .. k + 1 |-> v[j]]
  BY <1>1, <1>2 DEF Values
<1>4. v[k + 1] = s[k + 1].value
  BY <1>2
<1>5. Append(Values(s, k), s[k + 1].value) = Values(s, k + 1)
  <2>1. Append([j \in 1 .. k |-> v[j]], v[k + 1]) = [j \in 1 .. k + 1 |-> v[j]]
    <3> HIDE DEF v
    <3> QED BY <1>2, AppendMore, Zenon
  <2> HIDE DEF v
  <2> QED BY <1>3, <1>4, <2>1, Zenon
<1>6. z # <<>> /\ Head(z) = s[k + 1] /\ Tail(z) = Suffix(s, k + 1)
  BY SuffixIs, Zenon
<1> HIDE DEF v, z
<1> DEFINE w == s[k + 1].width
           x == s[k + 1].value
           g == Values(s, k)
<1>7. Head(z).width = w /\ Head(z).value = x
  BY <1>6, Zenon
<1>8. ReadField(R(z, g), w) = [rest |-> Tail(z), got |-> Append(g, x), inStep |-> TRUE]
  <2> HIDE DEF w, x, g
  <2>1. R(z, g).rest = z /\ R(z, g).got = g /\ R(z, g).inStep = TRUE
    BY DEF R
  <2> QED BY <1>6, <1>7, <2>1, Zenon DEF ReadField
<1> QED BY <1>5, <1>6, <1>8, Zenon DEF R, z

\* What a loop of Read and its result are, for the loops that follow.
ReadStep(f, r, w, i) == IF i = 0 THEN r ELSE ReadField(f[i - 1], w[i])
Reads(f, r, w, n) == f = [i \in 0 .. n |-> ReadStep(f, r, w, i)]

Widths(s) == [j \in 1 .. Len(s) |-> s[j].width]

LEMMA NewGot ==
    ASSUME NEW s, NEW g, NEW h
    PROVE  [R(s, g) EXCEPT !.got = h] = R(s, h)
<1>1. ASSUME NEW i
      PROVE  [[rest |-> s, got |-> g, inStep |-> i] EXCEPT !.got = h] = [rest |-> s, got |-> h, inStep |-> i]
  OBVIOUS
<1> QED BY <1>1, Zenon DEF R

\* Fields of the widths they were written with are read, and nothing else.
LEMMA AllRead ==
    ASSUME NEW a, IsSeq(a), NEW b, IsSeq(b), NEW g
    PROVE  ReadAll(R(a \o b, g), Widths(a)) = R(b, Values(a, Len(a)))
<1> DEFINE s == a \o b
           w == Widths(a)
           n == Len(a)
           r == R(s, <<>>)
           x == [k \in 0 .. n |-> R(Suffix(s, k), Values(s, k))]
           f == CHOOSE f : Reads(f, r, w, n)
<1>1. /\ n \in Nat /\ IsSeq(s) /\ Len(s) = n + Len(b) /\ Len(b) \in Nat
      /\ \A i \in 1 .. n : s[i] = a[i] /\ w[i] = a[i].width
  <2>1. n \in Nat /\ Len(b) \in Nat /\ IsSeq(s) /\ Len(s) = n + Len(b)
    BY SeqLen, ConcatIs
  <2>2. \A i \in 1 .. n : s[i] = a[i]
    <3>1. \A i \in 1 .. n : i \in 1 .. n + Len(b) /\ i <= n
      BY <2>1
    <3> QED BY <3>1, ConcatIs
  <2> QED BY <2>1, <2>2 DEF Widths
<1>2. Len(w) = n
  <2>1. Tuple(w, n)
    BY DEF Tuple, Widths
  <2> HIDE DEF w
  <2> QED BY <1>1, <2>1, TupleIs
<1>3. ReadAll(R(s, g), w) = f[n]
  <2>1. [R(s, g) EXCEPT !.got = <<>>] = r
    BY NewGot, Zenon
  <2> HIDE DEF r, w, s, n
  <2>2. ReadAll(R(s, g), w) = (CHOOSE q : Reads(q, r, w, Len(w)))[Len(w)]
    BY <2>1, Zenon DEF ReadAll, Loop, Reads, ReadStep
  <2> QED BY <1>2, <2>2, Zenon
<1>4. ASSUME NEW i \in 1 .. n PROVE ReadField(x[i - 1], w[i]) = x[i]
  <2> DEFINE k == i - 1
  <2>1. k \in 0 .. Len(s) - 1 /\ k + 1 = i /\ k \in 0 .. n /\ i \in 0 .. n
    BY <1>1
  <2>2. x[k] = R(Suffix(s, k), Values(s, k)) /\ x[i] = R(Suffix(s, i), Values(s, i))
    <3> HIDE DEF k, s, n
    <3> QED BY <2>1
  <2>3. w[i] = s[i].width
    BY <1>1
  <2> HIDE DEF x, k, w, s, n
  <2>4. ReadField(R(Suffix(s, k), Values(s, k)), s[k + 1].width) = R(Suffix(s, k + 1), Values(s, k + 1))
    BY <1>1, <2>1, FieldRead
  <2>5. ReadField(x[k], w[i]) = x[i]
    BY <2>1, <2>2, <2>3, <2>4, Zenon
  <2> QED BY <2>5 DEF k
<1>5. x[0] = r
  <2>1. Suffix(s, 0) = s
    BY <1>1, SuffixIs
  <2>2. Values(s, 0) = <<>>
    BY DEF Values
  <2>3. 0 \in 0 .. n
    BY <1>1
  <2> HIDE DEF s, n
  <2> QED BY <2>1, <2>2, <2>3
<1>6. Reads(x, r, w, n)
  <2>1. \A i \in 0 .. n : i = 0 \/ i \in 1 .. n
    BY <1>1
  <2>2. \A i \in 0 .. n : x[i] = ReadStep(x, r, w, i)
    <3> HIDE DEF x, r, w, n
    <3> QED BY <1>4, <1>5, <2>1 DEF ReadStep
  <2>3. x = [i \in 0 .. n |-> x[i]]
    OBVIOUS
  <2> HIDE DEF x, r, w, n
  <2> QED BY <2>2, <2>3, Zenon DEF Reads
<1>7. Reads(f, r, w, n)
  <2> HIDE DEF x, r, w, n
  <2> QED BY <1>6, Zenon
<1>8. f[n] = x[n]
  <2> HIDE DEF f, x, r, w, n
  <2>1. \A i \in 0 .. n : f[i] = ReadStep(f, r, w, i)
    <3>1. \A q : Reads(q, r, w, n) => \A i \in 0 .. n : q[i] = ReadStep(q, r, w, i)
      BY Zenon DEF Reads
    <3> QED BY <1>7, <3>1, Zenon
  <2>2. 0 \in 0 .. n /\ \A i \in 1 .. n : i \in 0 .. n /\ i # 0
    BY <1>1
  <2>3. f[0] = x[0]
    BY <1>5, <2>1, <2>2, Zenon DEF ReadStep
  <2>4. ASSUME NEW i \in 1 .. n, f[i - 1] = x[i - 1] PROVE f[i] = x[i]
    BY <1>4, <2>1, <2>2, <2>4, Zenon DEF ReadStep
  <2> QED BY <1>1, <2>3, <2>4, SameLoops, Zenon
<1>9. x[n] = R(b, Values(a, n))
  <2>1. n \in 0 .. n
    BY <1>1
  <2>2. Suffix(s, n) = b
    BY SuffixOfConcat
  <2>3. Values(s, n) = Values(a, n)
    BY <1>1 DEF Values
  <2> HIDE DEF s, n
  <2> QED BY <2>1, <2>2, <2>3
<1> QED BY <1>3, <1>8, <1>9, Zenon

\* Fields of one width.
Fields(w, v) == [i \in DOMAIN v |-> [width |-> w, value |-> v[i]]]

LEMMA EachRead ==
    ASSUME NEW w, NEW v, IsSeq(v), NEW b, IsSeq(b), NEW g
    PROVE  IsSeq(Fields(w, v)) /\ ReadAll(R(Fields(w, v) \o b, g), Times(Len(v), w)) = R(b, v)
<1> DEFINE a == Fields(w, v)
           n == Len(v)
<1>1. n \in Nat /\ DOMAIN v = 1 .. n /\ v = [i \in 1 .. n |-> v[i]]
  BY SeqLen, SeqIsTuple DEF Tuple
<1>2. a = [i \in 1 .. n |-> [width |-> w, value |-> v[i]]]
  BY <1>1, Zenon DEF Fields
<1> HIDE DEF a
<1>3. IsSeq(a) /\ Len(a) = n
  <2>1. Tuple(a, n)
    BY <1>2 DEF Tuple
  <2> HIDE DEF n
  <2> QED BY <1>1, <2>1, TupleIsSeq
<1>4. \A i \in 1 .. n : a[i].width = w /\ a[i].value = v[i]
  BY <1>2
<1>5. Widths(a) = Times(n, w)
  <2> HIDE DEF n
  <2> QED BY <1>3, <1>4 DEF Widths, Times
<1>6. Values(a, n) = v
  <2> HIDE DEF n
  <2> QED BY <1>1, <1>4 DEF Values
<1>7. ReadAll(R(a \o b, g), Widths(a)) = R(b, Values(a, Len(a)))
  BY <1>3, AllRead, Zenon
<1> HIDE DEF n
<1>8. ReadAll(R(a \o b, g), Times(n, w)) = R(b, v)
  BY <1>3, <1>5, <1>6, <1>7, Zenon
<1> QED BY <1>3, <1>8, Zenon DEF a, n

\* One to four fields, of whatever widths.
Field(w, x) == [width |-> w, value |-> x]

LEMMA FieldIs == \A w, x : Field(w, x).width = w /\ Field(w, x).value = x
BY DEF Field

Reads1(b, g, p, w) ==
    ReadAll(R(<<Field(p, w)>> \o b, g), <<p>>) = R(b, <<w>>)

LEMMA Read1 ==
    ASSUME NEW b, IsSeq(b), NEW g, NEW p, NEW w
    PROVE  Reads1(b, g, p, w)
<1> DEFINE a == <<Field(p, w)>>
<1>1. IsSeq(a) /\ Len(a) = 1
  BY SmallSeqs
<1>2. Widths(a) = <<p>>
  BY FieldIs, SMTT(60) DEF Widths
<1>3. Values(a, 1) = <<w>>
  BY FieldIs, SMTT(60) DEF Values
<1> HIDE DEF a
<1>4. ReadAll(R(a \o b, g), Widths(a)) = R(b, Values(a, Len(a)))
  BY <1>1, AllRead, Zenon
<1> QED BY <1>1, <1>2, <1>3, <1>4, Zenon DEF a, Reads1

Reads2(b, g, p, w, q, x) ==
    ReadAll(R(<<Field(p, w), Field(q, x)>> \o b, g), <<p, q>>) = R(b, <<w, x>>)

LEMMA Read2 ==
    ASSUME NEW b, IsSeq(b), NEW g, NEW p, NEW q, NEW w, NEW x
    PROVE  Reads2(b, g, p, w, q, x)
<1> DEFINE a == <<Field(p, w), Field(q, x)>>
<1>1. IsSeq(a) /\ Len(a) = 2
  BY SmallSeqs
<1>2. Widths(a) = <<p, q>>
  BY FieldIs, SMTT(60) DEF Widths
<1>3. Values(a, 2) = <<w, x>>
  BY FieldIs, SMTT(60) DEF Values
<1> HIDE DEF a
<1>4. ReadAll(R(a \o b, g), Widths(a)) = R(b, Values(a, Len(a)))
  BY <1>1, AllRead, Zenon
<1> QED BY <1>1, <1>2, <1>3, <1>4, Zenon DEF a, Reads2

Reads3(b, g, p, w, q, x, s, y) ==
    ReadAll(R(<<Field(p, w), Field(q, x), Field(s, y)>> \o b, g), <<p, q, s>>) = R(b, <<w, x, y>>)

LEMMA Read3 ==
    ASSUME NEW b, IsSeq(b), NEW g, NEW p, NEW q, NEW s, NEW w, NEW x, NEW y
    PROVE  Reads3(b, g, p, w, q, x, s, y)
<1> DEFINE a == <<Field(p, w), Field(q, x), Field(s, y)>>
<1>1. IsSeq(a) /\ Len(a) = 3
  BY SmallSeqs
<1>2. Widths(a) = <<p, q, s>>
  BY FieldIs, SMTT(60) DEF Widths
<1>3. Values(a, 3) = <<w, x, y>>
  BY FieldIs, SMTT(60) DEF Values
<1> HIDE DEF a
<1>4. ReadAll(R(a \o b, g), Widths(a)) = R(b, Values(a, Len(a)))
  BY <1>1, AllRead, Zenon
<1> QED BY <1>1, <1>2, <1>3, <1>4, Zenon DEF a, Reads3

Reads4(b, g, p, w, q, x, s, y, t, z) ==
    ReadAll(R(<<Field(p, w), Field(q, x), Field(s, y), Field(t, z)>> \o b, g), <<p, q, s, t>>) = R(b, <<w, x, y, z>>)

LEMMA Read4 ==
    ASSUME NEW b, IsSeq(b), NEW g, NEW p, NEW q, NEW s, NEW t, NEW w, NEW x, NEW y, NEW z
    PROVE  Reads4(b, g, p, w, q, x, s, y, t, z)
<1> DEFINE a == <<Field(p, w), Field(q, x), Field(s, y), Field(t, z)>>
<1>1. IsSeq(a) /\ Len(a) = 4
  BY SmallSeqs
<1>2. Widths(a) = <<p, q, s, t>>
  BY FieldIs, SMTT(60) DEF Widths
<1>3. Values(a, 4) = <<w, x, y, z>>
  BY FieldIs, SMTT(60) DEF Values
<1> HIDE DEF a
<1>4. ReadAll(R(a \o b, g), Widths(a)) = R(b, Values(a, Len(a)))
  BY <1>1, AllRead, Zenon
<1> QED BY <1>1, <1>2, <1>3, <1>4, Zenon DEF a, Reads4

\* The readers of one thing, and the loops over them.
Item(kind, par, r, i) ==
    IF kind = "input" THEN ReadInput(r)
    ELSE IF kind = "output" THEN ReadOutput(r)
    ELSE IF kind = "ecdh" THEN ReadEcdh(r, par)
    ELSE IF kind = "bpp" THEN ReadBpp(r)
    ELSE ReadClsag(r, par[i])

OneMore(before, one) == [one EXCEPT !.got = Append(before.got, one.got)]

ItemStep(f, kind, par, r, i) ==
    IF i = 0 THEN r ELSE OneMore(f[i - 1], Item(kind, par, f[i - 1], i))
AreItems(f, kind, par, r, n) == f = [i \in 0 .. n |-> ItemStep(f, kind, par, r, i)]

\* Row i is read as v[i], whatever comes behind it.
ItemsFit(kind, par, rows, v, n) ==
    /\ Tuple(rows, n) /\ Tuple(v, n)
    /\ \A i \in 1 .. n : IsSeq(rows[i])
    /\ \A i \in 1 .. n : \A c, g : IsSeq(c) => Item(kind, par, R(rows[i] \o c, g), i) = R(c, v[i])

ItemsGive(kind, par, r, n, result) ==
    /\ \E f : AreItems(f, kind, par, r, n)
    /\ \A f : AreItems(f, kind, par, r, n) => f[n] = result

LEMMA ItemsRead ==
    ASSUME NEW kind, NEW par, NEW n \in Nat, NEW rows, NEW v, ItemsFit(kind, par, rows, v, n),
           NEW b, IsSeq(b), NEW r, r = R(FlattenSeq(rows) \o b, <<>>)
    PROVE  ItemsGive(kind, par, r, n, R(b, v))
<1> USE DEF ItemsFit
<1>1. PICK t : Peels(t, rows, n) /\ t[0] = FlattenSeq(rows)
  BY FlattenPeels
<1> DEFINE p(k) == [j \in 1 .. k |-> v[j]]
           x == [k \in 0 .. n |-> R(t[k] \o b, p(k))]
<1>2. \A k \in 0 .. n : x[k] = R(t[k] \o b, p(k))
  <2> HIDE DEF p
  <2> QED OBVIOUS
<1>3. x[0] = r
  <2>1. p(0) = <<>>
    OBVIOUS
  <2>2. 0 \in 0 .. n
    OBVIOUS
  <2> HIDE DEF p, x
  <2> QED BY <1>1, <1>2, <2>1, <2>2, Zenon
<1>4. ASSUME NEW i \in 1 .. n PROVE x[i] = ItemStep(x, kind, par, r, i)
  <2> DEFINE k == i - 1
             c == t[i] \o b
  <2>1. k \in 0 .. n /\ i \in 0 .. n /\ i # 0 /\ k \in Nat /\ k + 1 = i
    OBVIOUS
  <2>2. IsSeq(t[i]) /\ IsSeq(rows[i]) /\ t[k] = rows[i] \o t[i]
    BY <1>1, <2>1, Zenon DEF Peels
  <2>3. IsSeq(c) /\ t[k] \o b = rows[i] \o c
    <3>1. IsSeq(c)
      BY <2>2, ConcatIs, Zenon
    <3>2. Same3(rows[i], t[i], b)
      BY <2>2, Brackets3, Zenon
    <3> QED BY <2>2, <3>1, <3>2, Zenon DEF Same3
  <2>4. Append(p(k), v[i]) = p(i)
    <3>1. Append([j \in 1 .. k |-> v[j]], v[k + 1]) = [j \in 1 .. k + 1 |-> v[j]]
      <4> HIDE DEF k
      <4> QED BY <2>1, AppendMore, Zenon
    <3> HIDE DEF k
    <3> QED BY <2>1, <3>1, Zenon
  <2> HIDE DEF p, x, c
  <2>5. x[k] = R(rows[i] \o c, p(k))
    BY <1>2, <2>1, <2>3, Zenon
  <2>6. Item(kind, par, x[k], i) = R(c, v[i])
    BY <2>3, <2>5, Zenon
  <2>7. OneMore(x[k], Item(kind, par, x[k], i)) = R(c, p(i))
    <3>1. x[k].got = p(k) /\ R(c, v[i]).got = v[i]
      BY <2>5 DEF R
    <3>2. [R(c, v[i]) EXCEPT !.got = p(i)] = R(c, p(i))
      BY NewGot, Zenon
    <3> HIDE DEF k
    <3> QED BY <2>4, <2>6, <3>1, <3>2, Zenon DEF OneMore
  <2>8. x[i] = R(c, p(i))
    BY <1>2, <2>1, Zenon DEF c
  <2> QED BY <2>1, <2>7, <2>8, Zenon DEF ItemStep
<1>5. AreItems(x, kind, par, r, n)
  <2>1. \A i \in 0 .. n : i = 0 \/ i \in 1 .. n
    OBVIOUS
  <2>2. x = [i \in 0 .. n |-> x[i]]
    OBVIOUS
  <2> HIDE DEF x
  <2>3. \A i \in 0 .. n : x[i] = ItemStep(x, kind, par, r, i)
    BY <1>3, <1>4, <2>1, Zenon DEF ItemStep
  <2> QED BY <2>2, <2>3, Zenon DEF AreItems
<1>6. ASSUME NEW f, AreItems(f, kind, par, r, n) PROVE f[n] = R(b, v)
  <2> HIDE DEF x
  <2>1. \A i \in 0 .. n : f[i] = ItemStep(f, kind, par, r, i)
    BY <1>6, Zenon DEF AreItems
  <2>2. \A i \in 1 .. n : i \in 0 .. n /\ i # 0
    OBVIOUS
  <2>3. f[0] = x[0]
    <3>1. 0 \in 0 .. n
      OBVIOUS
    <3> QED BY <1>3, <2>1, <3>1, Zenon DEF ItemStep
  <2>4. ASSUME NEW i \in 1 .. n, f[i - 1] = x[i - 1] PROVE f[i] = x[i]
    BY <1>4, <2>1, <2>2, <2>4, Zenon DEF ItemStep
  <2>5. f[n] = x[n]
    BY <2>3, <2>4, SameLoops, Zenon
  <2>6. x[n] = R(b, v)
    <3>1. n \in 0 .. n
      OBVIOUS
    <3>2. t[n] = <<>> /\ <<>> \o b = b
      BY <1>1, ConcatIs, SmallSeqs, Zenon DEF Peels
    <3>3. p(n) = v
      BY Zenon DEF Tuple
    <3> HIDE DEF p
    <3> QED BY <1>2, <3>1, <3>2, <3>3, Zenon
  <2> QED BY <2>5, <2>6, Zenon
<1> QED
  <2> HIDE DEF x, p
  <2> QED BY <1>5, <1>6, Zenon DEF ItemsGive

-----------------------------------------------------------------------------
(* What is written of one thing is read as that thing.                         *)

InputOf(offsets, image) == [type |-> ToKey, height |-> 0, offsets |-> offsets, image |-> image]

LEMMA InputRead ==
    ASSUME NEW o, IsSeq(o), NEW m, NEW c, IsSeq(c), NEW g
    PROVE  /\ IsSeq(InputFields(InputOf(o, m)))
           /\ ReadInput(R(InputFields(InputOf(o, m)) \o c, g)) = R(c, InputOf(o, m))
<1> DEFINE x == InputOf(o, m)
           a1 == <<Field("byte", ToKey)>>
           a2 == <<Field("varint", 0), Field("varint", Len(o))>>
           a3 == Each(Varint, o)
           a4 == <<Field("hash", m)>>
           w3 == a4 \o c
           w2 == a3 \o w3
           w1 == a2 \o w2
           type == ReadAll(R(a1 \o w1, g), <<"byte">>)
           counts == ReadAll(type, <<"varint", "varint">>)
           offsets == ReadAll(counts, Times(counts.got[2], "varint"))
           image == ReadAll(offsets, <<"hash">>)
<1>1. a3 = Fields("varint", o)
  BY Zenon DEF Each, Varint, Fields
<1>2. IsSeq(a1) /\ IsSeq(a2) /\ IsSeq(a4)
  BY SmallSeqs, Zenon
<1>3. IsSeq(a3)
  BY <1>1, EachRead, SmallSeqs, Zenon
<1>4. IsSeq(w3) /\ IsSeq(w2) /\ IsSeq(w1)
  <2>1. IsSeq(w3)
    BY <1>2, ConcatIs, Zenon
  <2>2. IsSeq(w2)
    BY <1>3, <2>1, ConcatIs, Zenon
  <2>3. IsSeq(w1)
    BY <1>2, <2>2, ConcatIs, Zenon
  <2> QED BY <2>1, <2>2, <2>3
<1>5. InputFields(x) = a1 \o ((a2 \o a3) \o a4)
  <2>1. x.type = ToKey /\ x.offsets = o /\ x.image = m
    BY DEF InputOf
  <2> HIDE DEF x
  <2> QED BY <2>1, Zenon DEF InputFields, Byte, Varint, Hash, Field
<1>6. IsSeq(InputFields(x)) /\ InputFields(x) \o c = a1 \o w1
  <2> DEFINE q == (a2 \o a3) \o a4
  <2>1. IsSeq(a2 \o a3)
    BY <1>2, <1>3, ConcatIs, Zenon
  <2>2. IsSeq(q) /\ IsSeq(a1 \o q)
    <3>1. IsSeq(q)
      BY <1>2, <2>1, ConcatIs, Zenon
    <3> HIDE DEF q
    <3> QED BY <1>2, <3>1, ConcatIs, Zenon
  <2>3. q \o c = w1
    <3> HIDE DEF a2, a3, a4
    <3>1. Same4(a2, a3, a4, c)
      BY <1>2, <1>3, Brackets4, Zenon
    <3> QED BY <3>1, Zenon DEF Same4
  <2>4. Same3(a1, q, c)
    <3> HIDE DEF q, a1
    <3> QED BY <1>2, <2>2, Brackets3, Zenon
  <2> HIDE DEF x, a1, w1
  <2>5. (a1 \o q) \o c = a1 \o (q \o c)
    BY <2>4, Zenon DEF Same3
  <2> QED BY <1>5, <2>2, <2>3, <2>5, Zenon
<1>7. type = R(w1, <<ToKey>>)
  <2> HIDE DEF w1
  <2>1. Reads1(w1, g, "byte", ToKey)
    BY <1>4, Read1, Zenon
  <2> QED BY <2>1, Zenon DEF Reads1
<1>8. counts = R(w2, <<0, Len(o)>>)
  <2> HIDE DEF w2, type
  <2>1. Reads2(w2, <<ToKey>>, "varint", 0, "varint", Len(o))
    BY <1>4, Read2, Zenon
  <2> QED BY <1>7, <2>1, Zenon DEF Reads2
<1>9. offsets = R(w3, o)
  <2>1. counts.got[2] = Len(o)
    <3> HIDE DEF counts, w2
    <3> QED BY <1>8 DEF R
  <2> HIDE DEF w3, counts
  <2> QED BY <1>1, <1>4, <1>8, <2>1, EachRead, Zenon
<1>10. image = R(c, <<m>>)
  <2> HIDE DEF offsets
  <2>1. Reads1(c, o, "hash", m)
    BY Read1, Zenon
  <2> QED BY <1>9, <2>1, Zenon DEF Reads1
<1>11. type.got[1] = ToKey /\ ToKey # Generated /\ offsets.got = o /\ image.got[1] = m
  <2> HIDE DEF w1, w3, type, offsets, image
  <2> QED BY <1>7, <1>9, <1>10 DEF R, ToKey, Generated
<1>12. [[NewInput(ToKey) EXCEPT !.offsets = o] EXCEPT !.image = m] = x
  <2>1. ASSUME NEW t, NEW h, NEW p, NEW z
        PROVE  [[type |-> t, height |-> h, offsets |-> p, image |-> z] EXCEPT !.offsets = o]
                 = [type |-> t, height |-> h, offsets |-> o, image |-> z]
    OBVIOUS
  <2>2. ASSUME NEW t, NEW h, NEW z
        PROVE  [[type |-> t, height |-> h, offsets |-> o, image |-> z] EXCEPT !.image = m]
                 = [type |-> t, height |-> h, offsets |-> o, image |-> m]
    OBVIOUS
  <2>3. [NewInput(ToKey) EXCEPT !.offsets = o]
          = [type |-> ToKey, height |-> 0, offsets |-> o, image |-> ZeroBytes]
    BY <2>1, Zenon DEF NewInput
  <2>4. [[type |-> ToKey, height |-> 0, offsets |-> o, image |-> ZeroBytes] EXCEPT !.image = m]
          = InputOf(o, m)
    BY <2>2, Zenon DEF InputOf
  <2> QED BY <2>3, <2>4, Zenon
<1>13. ReadInput(R(a1 \o w1, g)) = [image EXCEPT !.got = x]
  <2> HIDE DEF a1, w1, x
  <2>1. ReadInput(R(a1 \o w1, g)) =
          LET height == ReadAll(type, <<"varint">>)
              new    == NewInput(type.got[1])
          IN  CASE type.got[1] = Generated ->
                     [height EXCEPT !.got = [new EXCEPT !.height = height.got[1]]]
                [] type.got[1] = ToKey ->
                     [image EXCEPT !.got = [[new EXCEPT !.offsets = offsets.got] EXCEPT !.image = image.got[1]]]
                [] OTHER ->
                     [type EXCEPT !.got = new]
    BY Zenon DEF ReadInput
  <2> HIDE DEF type, counts, offsets, image
  <2> QED BY <1>11, <1>12, <2>1, Zenon
<1> HIDE DEF x, a1, w1, image
<1>14. [image EXCEPT !.got = x] = R(c, x)
  BY <1>10, NewGot, Zenon
<1> QED BY <1>6, <1>13, <1>14, Zenon DEF x

OutputOf(target, viewTag) == [target |-> target, viewTag |-> viewTag]

LEMMA OutputRead ==
    ASSUME NEW k, NEW v, NEW c, IsSeq(c), NEW g
    PROVE  /\ IsSeq(OutputFields(OutputOf(k, v)))
           /\ ReadOutput(R(OutputFields(OutputOf(k, v)) \o c, g)) = R(c, OutputOf(k, v))
<1> DEFINE x == OutputOf(k, v)
           a == <<Field("varint", 0), Field("byte", 3), Field("hash", k), Field("byte", v)>>
           all == ReadAll(R(a \o c, g), <<"varint", "byte", "hash", "byte">>)
<1>1. OutputFields(x) = a
  <2>1. x.target = k /\ x.viewTag = v
    BY DEF OutputOf
  <2> HIDE DEF x
  <2> QED BY <2>1, Zenon DEF OutputFields, Byte, Varint, Hash, Field
<1>2. all = R(c, <<0, 3, k, v>>)
  <2>1. Reads4(c, g, "varint", 0, "byte", 3, "hash", k, "byte", v)
    BY Read4, Zenon
  <2> QED BY <2>1, Zenon DEF Reads4
<1>3. all.got[3] = k /\ all.got[4] = v
  <2> HIDE DEF all
  <2> QED BY <1>2 DEF R
<1>4. ReadOutput(R(a \o c, g)) = [all EXCEPT !.got = [target |-> all.got[3], viewTag |-> all.got[4]]]
  BY Zenon DEF ReadOutput
<1> HIDE DEF all
<1>5. ReadOutput(R(a \o c, g)) = [all EXCEPT !.got = x]
  BY <1>3, <1>4, Zenon DEF OutputOf
<1>6. IsSeq(a)
  BY SmallSeqs, Zenon
<1> HIDE DEF x, a
<1>7. [all EXCEPT !.got = x] = R(c, x)
  BY <1>2, NewGot, Zenon
<1> QED BY <1>1, <1>5, <1>6, <1>7, Zenon DEF x

LEMMA EcdhRead ==
    ASSUME NEW e, NEW c, IsSeq(c), NEW g
    PROVE  /\ IsSeq(EcdhFields(RctBpp, e))
           /\ ReadEcdh(R(EcdhFields(RctBpp, e) \o c, g), RctBpp) = R(c, e)
<1> DEFINE a == <<Field("amount", e)>>
           all == ReadAll(R(a \o c, g), EcdhWidths(RctBpp))
<1>1. RctBpp \in CompactAmount
  BY DEF RctBpp, CompactAmount
<1>2. EcdhFields(RctBpp, e) = a /\ EcdhWidths(RctBpp) = <<"amount">>
  BY <1>1, Zenon DEF EcdhFields, EcdhWidths, Amount8, Field
<1>3. all = R(c, <<e>>)
  <2>1. Reads1(c, g, "amount", e)
    BY Read1, Zenon
  <2> QED BY <1>2, <2>1, Zenon DEF Reads1
<1>4. all.got[Len(all.got)] = e
  <2> HIDE DEF all
  <2> QED BY <1>3 DEF R
<1>5. ReadEcdh(R(a \o c, g), RctBpp) = [all EXCEPT !.got = all.got[Len(all.got)]]
  BY Zenon DEF ReadEcdh
<1>6. IsSeq(a)
  BY SmallSeqs, Zenon
<1> HIDE DEF a, all
<1>7. [all EXCEPT !.got = e] = R(c, e)
  BY <1>3, NewGot, Zenon
<1> QED BY <1>2, <1>4, <1>5, <1>6, <1>7, Zenon

LEMMA HashesAre ==
    ASSUME NEW s
    PROVE  Each(Hash, s) = Fields("hash", s)
BY Zenon DEF Each, Hash, Fields

ClsagOf(s, c1, d) == [S |-> s, C1 |-> c1, D |-> d]
ClsagReads(v, input, c, g) ==
    IsSeq(ClsagFields(v)) /\ ReadClsag(R(ClsagFields(v) \o c, g), input) = R(c, v)

LEMMA ClsagRead ==
    ASSUME NEW s, IsSeq(s), NEW c1, NEW d, NEW c, IsSeq(c), NEW g, NEW input,
           Len(input.offsets) = Len(s)
    PROVE  ClsagReads(ClsagOf(s, c1, d), input, c, g)
<1> DEFINE x == ClsagOf(s, c1, d)
           a1 == Fields("hash", s)
           a2 == <<Field("hash", c1), Field("hash", d)>>
           w1 == a2 \o c
           q == ReadAll(R(a1 \o w1, g), Times(Len(s), "hash"))
           rest == ReadAll(q, <<"hash", "hash">>)
<1>1. ClsagFields(x) = a1 \o a2
  <2>1. x.S = s /\ x.C1 = c1 /\ x.D = d
    BY DEF ClsagOf
  <2> HIDE DEF x
  <2>2. ClsagFields(x) = Each(Hash, s) \o <<Hash(c1), Hash(d)>>
    BY <2>1, Zenon DEF ClsagFields
  <2> QED BY <2>2, HashesAre, Zenon DEF Hash, Field
<1>2. IsSeq(a1) /\ IsSeq(a2)
  BY EachRead, SmallSeqs, Zenon
<1>3. IsSeq(ClsagFields(x)) /\ IsSeq(w1) /\ ClsagFields(x) \o c = a1 \o w1
  <2> HIDE DEF x, a1, a2
  <2>1. IsSeq(a1 \o a2) /\ IsSeq(w1)
    BY <1>2, ConcatIs, Zenon
  <2>2. Same3(a1, a2, c)
    BY <1>2, Brackets3, Zenon
  <2> QED BY <1>1, <2>1, <2>2, Zenon DEF Same3
<1>4. q = R(w1, s)
  <2> HIDE DEF w1
  <2> QED BY <1>3, EachRead, Zenon
<1>5. rest = R(c, <<c1, d>>)
  <2>1. Reads2(c, s, "hash", c1, "hash", d)
    BY Read2, Zenon
  <2> HIDE DEF q
  <2> QED BY <1>4, <2>1, Zenon DEF Reads2
<1>6. q.got = s /\ rest.got[1] = c1 /\ rest.got[2] = d
  <2> HIDE DEF q, rest, w1
  <2> QED BY <1>4, <1>5 DEF R
<1>7. ReadClsag(R(a1 \o w1, g), input) = [rest EXCEPT !.got = [S |-> q.got, C1 |-> rest.got[1], D |-> rest.got[2]]]
  <2> HIDE DEF a1, w1
  <2> QED BY Zenon DEF ReadClsag
<1> HIDE DEF a1, w1, q, rest
<1>8. ReadClsag(R(a1 \o w1, g), input) = [rest EXCEPT !.got = x]
  BY <1>6, <1>7, Zenon DEF ClsagOf
<1> HIDE DEF x
<1>9. [rest EXCEPT !.got = x] = R(c, x)
  BY <1>5, NewGot, Zenon
<1> QED BY <1>3, <1>8, <1>9, Zenon DEF x, ClsagReads

BppOf(h, l, r) == [head |-> h, L |-> l, R |-> r]
Six(s) == IsSeq(s) /\ Len(s) = 6
BppReads(v, c, g) == IsSeq(BppFields(v)) /\ ReadBpp(R(BppFields(v) \o c, g)) = R(c, v)

LEMMA BppRead ==
    ASSUME NEW h, Six(h), NEW l, IsSeq(l), NEW r, IsSeq(r), NEW c, IsSeq(c), NEW g
    PROVE  BppReads(BppOf(h, l, r), c, g)
<1> DEFINE x == BppOf(h, l, r)
           a1 == Fields("hash", h)
           a2 == <<Field("varint", Len(l))>>
           a3 == Fields("hash", l)
           a4 == <<Field("varint", Len(r))>>
           a5 == Fields("hash", r)
           w4 == a5 \o c
           w3 == a4 \o w4
           w2 == a3 \o w3
           w1 == a2 \o w2
           head == ReadAll(R(a1 \o w1, g), Times(6, "hash"))
           ls == ReadAll(head, <<"varint">>)
           lq == ReadAll(ls, Times(ls.got[1], "hash"))
           rs == ReadAll(lq, <<"varint">>)
           rq == ReadAll(rs, Times(rs.got[1], "hash"))
<1> USE DEF Six
<1>1. BppFields(x) = (((a1 \o a2) \o a3) \o a4) \o a5
  <2>1. x.head = h /\ x.L = l /\ x.R = r
    BY DEF BppOf
  <2> HIDE DEF x
  <2>2. BppFields(x) = (((Each(Hash, h) \o <<Varint(Len(l))>>) \o Each(Hash, l)) \o <<Varint(Len(r))>>)
                           \o Each(Hash, r)
    BY <2>1, Zenon DEF BppFields
  <2>3. Each(Hash, h) = a1 /\ Each(Hash, l) = a3 /\ Each(Hash, r) = a5
    BY HashesAre, Zenon
  <2> HIDE DEF a1, a3, a5
  <2> QED BY <2>2, <2>3, Zenon DEF Varint, Field
<1>2. IsSeq(a1) /\ IsSeq(a2) /\ IsSeq(a3) /\ IsSeq(a4) /\ IsSeq(a5)
  BY EachRead, SmallSeqs, Zenon
<1>3. IsSeq(BppFields(x)) /\ BppFields(x) \o c = a1 \o w1
  <2> HIDE DEF x, a1, a2, a3, a4, a5
  <2>1. IsSeq(((a1 \o a2) \o a3) \o a4)
    BY <1>2, ConcatIs, Zenon
  <2>2. IsSeq((((a1 \o a2) \o a3) \o a4) \o a5)
    BY <1>2, <2>1, ConcatIs, Zenon
  <2>3. Same6(a1, a2, a3, a4, a5, c)
    BY <1>2, Brackets6, Zenon
  <2> QED BY <1>1, <2>2, <2>3, Zenon DEF Same6
<1>4. IsSeq(w4) /\ IsSeq(w3) /\ IsSeq(w2) /\ IsSeq(w1)
  <2> HIDE DEF a1, a2, a3, a4, a5
  <2>1. IsSeq(w4)
    BY <1>2, ConcatIs, Zenon
  <2>2. IsSeq(w3)
    BY <1>2, <2>1, ConcatIs, Zenon
  <2>3. IsSeq(w2)
    BY <1>2, <2>2, ConcatIs, Zenon
  <2>4. IsSeq(w1)
    BY <1>2, <2>3, ConcatIs, Zenon
  <2> QED BY <2>1, <2>2, <2>3, <2>4
<1>5. head = R(w1, h)
  <2> HIDE DEF w1
  <2>1. ReadAll(R(Fields("hash", h) \o w1, g), Times(Len(h), "hash")) = R(w1, h)
    BY <1>4, EachRead, Zenon
  <2> QED BY <2>1, Zenon
<1>6. ls = R(w2, <<Len(l)>>)
  <2> HIDE DEF w2, head
  <2>1. Reads1(w2, h, "varint", Len(l))
    BY <1>4, Read1, Zenon
  <2> QED BY <1>5, <2>1, Zenon DEF Reads1
<1>7. lq = R(w3, l)
  <2>1. ls.got[1] = Len(l)
    <3> HIDE DEF ls, w2
    <3> QED BY <1>6 DEF R
  <2> HIDE DEF w3, ls
  <2>2. ReadAll(R(Fields("hash", l) \o w3, <<Len(l)>>), Times(Len(l), "hash")) = R(w3, l)
    BY <1>4, EachRead, Zenon
  <2> QED BY <1>6, <2>1, <2>2, Zenon
<1>8. rs = R(w4, <<Len(r)>>)
  <2> HIDE DEF w4, lq
  <2>1. Reads1(w4, l, "varint", Len(r))
    BY <1>4, Read1, Zenon
  <2> QED BY <1>7, <2>1, Zenon DEF Reads1
<1>9. rq = R(c, r)
  <2>1. rs.got[1] = Len(r)
    <3> HIDE DEF rs, w4
    <3> QED BY <1>8 DEF R
  <2> HIDE DEF rs
  <2>2. ReadAll(R(Fields("hash", r) \o c, <<Len(r)>>), Times(Len(r), "hash")) = R(c, r)
    BY EachRead, Zenon
  <2> QED BY <1>8, <2>1, <2>2, Zenon
<1>10. head.got = h /\ lq.got = l /\ rq.got = r
  <2> HIDE DEF head, lq, rq, w1, w3
  <2> QED BY <1>5, <1>7, <1>9 DEF R
<1>11. ReadBpp(R(a1 \o w1, g)) = [rq EXCEPT !.got = [head |-> head.got, L |-> lq.got, R |-> rq.got]]
  <2> HIDE DEF a1, w1
  <2> QED BY Zenon DEF ReadBpp
<1> HIDE DEF a1, w1, head, lq, rq
<1>12. ReadBpp(R(a1 \o w1, g)) = [rq EXCEPT !.got = x]
  BY <1>10, <1>11, Zenon DEF BppOf
<1> HIDE DEF x
<1>13. [rq EXCEPT !.got = x] = R(c, x)
  BY <1>9, NewGot, Zenon
<1> QED BY <1>3, <1>12, <1>13, Zenon DEF x, BppReads

-----------------------------------------------------------------------------
(* The loops over inputs, outputs and signatures.                              *)

LEMMA FlatIsSeq ==
    ASSUME NEW n \in Nat, NEW rows, Tuple(rows, n), \A i \in 1 .. n : IsSeq(rows[i])
    PROVE  IsSeq(FlattenSeq(rows))
<1>1. PICK t : Peels(t, rows, n) /\ t[0] = FlattenSeq(rows)
  BY FlattenPeels
<1>2. 0 \in 0 .. n
  OBVIOUS
<1> QED BY <1>1, <1>2, Zenon DEF Peels

InputStep(f, r, i) == IF i = 0 THEN r ELSE OneMore(f[i - 1], ReadInput(f[i - 1]))
AreInputs(f, r, n) == f = [i \in 0 .. n |-> InputStep(f, r, i)]

LEMMA InputsRead ==
    ASSUME NEW n \in Nat, NEW v, Tuple(v, n),
           \A i \in 1 .. n : \E o, m : IsSeq(o) /\ v[i] = InputOf(o, m),
           NEW b, IsSeq(b), NEW g
    PROVE  /\ IsSeq(Concat(InputFields, v))
           /\ ReadEach(ReadInput, R(Concat(InputFields, v) \o b, g), n) = R(b, v)
<1> DEFINE rows == [i \in 1 .. n |-> InputFields(v[i])]
           r == R(FlattenSeq(rows) \o b, <<>>)
<1>1. Concat(InputFields, v) = FlattenSeq(rows)
  <2>1. DOMAIN v = 1 .. n
    BY TupleIs, Zenon
  <2> QED BY <2>1, Zenon DEF Concat
<1>2. \A i \in 1 .. n : rows[i] = InputFields(v[i])
  OBVIOUS
<1>3. ItemsFit("input", <<>>, rows, v, n)
  <2>1. Tuple(rows, n)
    BY DEF Tuple
  <2> HIDE DEF rows
  <2>2. ASSUME NEW i \in 1 .. n
        PROVE  IsSeq(rows[i]) /\ \A c, h : IsSeq(c) => Item("input", <<>>, R(rows[i] \o c, h), i) = R(c, v[i])
    <3>1. PICK o, m : IsSeq(o) /\ v[i] = InputOf(o, m)
      OBVIOUS
    <3>2. rows[i] = InputFields(v[i])
      BY <1>2
    <3>3. IsSeq(rows[i])
      BY <3>1, <3>2, InputRead, SmallSeqs, Zenon
    <3>4. ASSUME NEW c, NEW h, IsSeq(c)
          PROVE  Item("input", <<>>, R(rows[i] \o c, h), i) = R(c, v[i])
      <4>1. ReadInput(R(InputFields(InputOf(o, m)) \o c, h)) = R(c, InputOf(o, m))
        BY <3>1, <3>4, InputRead, Zenon
      <4> QED BY <3>1, <3>2, <4>1, Zenon DEF Item
    <3> QED BY <3>3, <3>4, Zenon
  <2> QED BY <2>1, <2>2, Zenon DEF ItemsFit
<1>4. IsSeq(FlattenSeq(rows))
  <2> HIDE DEF rows
  <2> QED BY <1>3, FlatIsSeq, Zenon DEF ItemsFit
<1> HIDE DEF rows, r
<1>5. r = R(FlattenSeq(rows) \o b, <<>>)
  BY DEF r
<1>6. ItemsGive("input", <<>>, r, n, R(b, v))
  BY <1>3, <1>5, ItemsRead, Zenon
<1>7. ASSUME NEW f PROVE AreInputs(f, r, n) <=> AreItems(f, "input", <<>>, r, n)
  <2>1. \A i : InputStep(f, r, i) = ItemStep(f, "input", <<>>, r, i)
    BY Zenon DEF InputStep, ItemStep, Item
  <2>2. [i \in 0 .. n |-> InputStep(f, r, i)] = [i \in 0 .. n |-> ItemStep(f, "input", <<>>, r, i)]
    BY <2>1
  <2> QED BY <2>2, Zenon DEF AreInputs, AreItems
<1>8. (CHOOSE f : AreInputs(f, r, n))[n] = R(b, v)
  BY <1>6, <1>7, Zenon DEF ItemsGive
<1>9. ReadEach(ReadInput, R(FlattenSeq(rows) \o b, g), n) = (CHOOSE f : AreInputs(f, r, n))[n]
  <2> DEFINE w == R(FlattenSeq(rows) \o b, g)
  <2>1. [w EXCEPT !.got = <<>>] = r
    BY <1>5, NewGot, Zenon
  <2> HIDE DEF w
  <2>2. ReadEach(ReadInput, w, n) = (CHOOSE f : AreInputs(f, [w EXCEPT !.got = <<>>], n))[n]
    BY Zenon DEF ReadEach, Loop, AreInputs, InputStep, OneMore
  <2> QED BY <2>1, <2>2, Zenon DEF w
<1> QED BY <1>1, <1>4, <1>8, <1>9, Zenon

OutputStep(f, r, i) == IF i = 0 THEN r ELSE OneMore(f[i - 1], ReadOutput(f[i - 1]))
AreOutputs(f, r, n) == f = [i \in 0 .. n |-> OutputStep(f, r, i)]

LEMMA OutputsRead ==
    ASSUME NEW n \in Nat, NEW v, Tuple(v, n),
           \A i \in 1 .. n : \E k, t : v[i] = OutputOf(k, t),
           NEW b, IsSeq(b), NEW g
    PROVE  /\ IsSeq(Concat(OutputFields, v))
           /\ ReadEach(ReadOutput, R(Concat(OutputFields, v) \o b, g), n) = R(b, v)
<1> DEFINE rows == [i \in 1 .. n |-> OutputFields(v[i])]
           r == R(FlattenSeq(rows) \o b, <<>>)
<1>1. Concat(OutputFields, v) = FlattenSeq(rows)
  <2>1. DOMAIN v = 1 .. n
    BY TupleIs, Zenon
  <2> QED BY <2>1, Zenon DEF Concat
<1>2. \A i \in 1 .. n : rows[i] = OutputFields(v[i])
  OBVIOUS
<1>3. ItemsFit("output", <<>>, rows, v, n)
  <2>1. Tuple(rows, n)
    BY DEF Tuple
  <2> HIDE DEF rows
  <2>2. ASSUME NEW i \in 1 .. n
        PROVE  IsSeq(rows[i]) /\ \A c, h : IsSeq(c) => Item("output", <<>>, R(rows[i] \o c, h), i) = R(c, v[i])
    <3>1. PICK k, t : v[i] = OutputOf(k, t)
      OBVIOUS
    <3>2. rows[i] = OutputFields(v[i])
      BY <1>2
    <3>3. IsSeq(rows[i])
      BY <3>1, <3>2, OutputRead, SmallSeqs, Zenon
    <3>4. ASSUME NEW c, NEW h, IsSeq(c)
          PROVE  Item("output", <<>>, R(rows[i] \o c, h), i) = R(c, v[i])
      <4>1. ReadOutput(R(OutputFields(OutputOf(k, t)) \o c, h)) = R(c, OutputOf(k, t))
        BY <3>4, OutputRead, Zenon
      <4> QED BY <3>1, <3>2, <4>1, Zenon DEF Item
    <3> QED BY <3>3, <3>4, Zenon
  <2> QED BY <2>1, <2>2, Zenon DEF ItemsFit
<1>4. IsSeq(FlattenSeq(rows))
  <2> HIDE DEF rows
  <2> QED BY <1>3, FlatIsSeq, Zenon DEF ItemsFit
<1> HIDE DEF rows, r
<1>5. r = R(FlattenSeq(rows) \o b, <<>>)
  BY DEF r
<1>6. ItemsGive("output", <<>>, r, n, R(b, v))
  BY <1>3, <1>5, ItemsRead, Zenon
<1>7. ASSUME NEW f PROVE AreOutputs(f, r, n) <=> AreItems(f, "output", <<>>, r, n)
  <2>1. \A i : OutputStep(f, r, i) = ItemStep(f, "output", <<>>, r, i)
    BY Zenon DEF OutputStep, ItemStep, Item
  <2>2. [i \in 0 .. n |-> OutputStep(f, r, i)] = [i \in 0 .. n |-> ItemStep(f, "output", <<>>, r, i)]
    BY <2>1
  <2> QED BY <2>2, Zenon DEF AreOutputs, AreItems
<1>8. (CHOOSE f : AreOutputs(f, r, n))[n] = R(b, v)
  BY <1>6, <1>7, Zenon DEF ItemsGive
<1>9. ReadEach(ReadOutput, R(FlattenSeq(rows) \o b, g), n) = (CHOOSE f : AreOutputs(f, r, n))[n]
  <2> DEFINE w == R(FlattenSeq(rows) \o b, g)
  <2>1. [w EXCEPT !.got = <<>>] = r
    BY <1>5, NewGot, Zenon
  <2> HIDE DEF w
  <2>2. ReadEach(ReadOutput, w, n) = (CHOOSE f : AreOutputs(f, [w EXCEPT !.got = <<>>], n))[n]
    BY Zenon DEF ReadEach, Loop, AreOutputs, OutputStep, OneMore
  <2> QED BY <2>1, <2>2, Zenon DEF w
<1> QED BY <1>1, <1>4, <1>8, <1>9, Zenon

BppStep(f, r, i) == IF i = 0 THEN r ELSE OneMore(f[i - 1], ReadBpp(f[i - 1]))
AreBpps(f, r, n) == f = [i \in 0 .. n |-> BppStep(f, r, i)]

LEMMA BppsRead ==
    ASSUME NEW n \in Nat, NEW v, Tuple(v, n),
           \A i \in 1 .. n : \E x, y, z : Six(x) /\ IsSeq(y) /\ IsSeq(z) /\ v[i] = BppOf(x, y, z),
           NEW b, IsSeq(b), NEW g
    PROVE  /\ IsSeq(Concat(BppFields, v))
           /\ ReadEach(ReadBpp, R(Concat(BppFields, v) \o b, g), n) = R(b, v)
<1> DEFINE rows == [i \in 1 .. n |-> BppFields(v[i])]
           r == R(FlattenSeq(rows) \o b, <<>>)
<1>1. Concat(BppFields, v) = FlattenSeq(rows)
  <2>1. DOMAIN v = 1 .. n
    BY TupleIs, Zenon
  <2> QED BY <2>1, Zenon DEF Concat
<1>2. \A i \in 1 .. n : rows[i] = BppFields(v[i])
  OBVIOUS
<1>3. ItemsFit("bpp", <<>>, rows, v, n)
  <2>1. Tuple(rows, n)
    BY DEF Tuple
  <2> HIDE DEF rows
  <2>2. ASSUME NEW i \in 1 .. n
        PROVE  IsSeq(rows[i]) /\ \A c, h : IsSeq(c) => Item("bpp", <<>>, R(rows[i] \o c, h), i) = R(c, v[i])
    <3>1. PICK x, y, z : Six(x) /\ IsSeq(y) /\ IsSeq(z) /\ v[i] = BppOf(x, y, z)
      OBVIOUS
    <3>2. rows[i] = BppFields(v[i])
      BY <1>2
    <3>3. IsSeq(rows[i])
      <4>1. BppReads(BppOf(x, y, z), <<>>, <<>>)
        BY <3>1, BppRead, SmallSeqs, Zenon
      <4> QED BY <3>1, <3>2, <4>1, Zenon DEF BppReads
    <3>4. ASSUME NEW c, NEW h, IsSeq(c)
          PROVE  Item("bpp", <<>>, R(rows[i] \o c, h), i) = R(c, v[i])
      <4>1. BppReads(BppOf(x, y, z), c, h)
        BY <3>1, <3>4, BppRead, Zenon
      <4> QED BY <3>1, <3>2, <4>1, Zenon DEF Item, BppReads
    <3> QED BY <3>3, <3>4, Zenon
  <2> QED BY <2>1, <2>2, Zenon DEF ItemsFit
<1>4. IsSeq(FlattenSeq(rows))
  <2> HIDE DEF rows
  <2> QED BY <1>3, FlatIsSeq, Zenon DEF ItemsFit
<1> HIDE DEF rows, r
<1>5. r = R(FlattenSeq(rows) \o b, <<>>)
  BY DEF r
<1>6. ItemsGive("bpp", <<>>, r, n, R(b, v))
  BY <1>3, <1>5, ItemsRead, Zenon
<1>7. ASSUME NEW f PROVE AreBpps(f, r, n) <=> AreItems(f, "bpp", <<>>, r, n)
  <2>1. \A i : BppStep(f, r, i) = ItemStep(f, "bpp", <<>>, r, i)
    BY Zenon DEF BppStep, ItemStep, Item
  <2>2. [i \in 0 .. n |-> BppStep(f, r, i)] = [i \in 0 .. n |-> ItemStep(f, "bpp", <<>>, r, i)]
    BY <2>1
  <2> QED BY <2>2, Zenon DEF AreBpps, AreItems
<1>8. (CHOOSE f : AreBpps(f, r, n))[n] = R(b, v)
  BY <1>6, <1>7, Zenon DEF ItemsGive
<1>9. ReadEach(ReadBpp, R(FlattenSeq(rows) \o b, g), n) = (CHOOSE f : AreBpps(f, r, n))[n]
  <2> DEFINE w == R(FlattenSeq(rows) \o b, g)
  <2>1. [w EXCEPT !.got = <<>>] = r
    BY <1>5, NewGot, Zenon
  <2> HIDE DEF w
  <2>2. ReadEach(ReadBpp, w, n) = (CHOOSE f : AreBpps(f, [w EXCEPT !.got = <<>>], n))[n]
    BY Zenon DEF ReadEach, Loop, AreBpps, BppStep, OneMore
  <2> QED BY <2>1, <2>2, Zenon DEF w
<1> QED BY <1>1, <1>4, <1>8, <1>9, Zenon

EcdhsFields(type, v) == Concat(LAMBDA ecdh : EcdhFields(type, ecdh), v)
ReadEcdhs(r, type, n) == ReadEach(LAMBDA q : ReadEcdh(q, type), r, n)

EcdhStep(f, type, r, i) == IF i = 0 THEN r ELSE OneMore(f[i - 1], ReadEcdh(f[i - 1], type))
AreEcdhs(f, type, r, n) == f = [i \in 0 .. n |-> EcdhStep(f, type, r, i)]

LEMMA EcdhsRead ==
    ASSUME NEW n \in Nat, NEW v, Tuple(v, n), NEW b, IsSeq(b), NEW g
    PROVE  /\ IsSeq(EcdhsFields(RctBpp, v))
           /\ ReadEcdhs(R(EcdhsFields(RctBpp, v) \o b, g), RctBpp, n) = R(b, v)
<1> DEFINE rows == [i \in 1 .. n |-> EcdhFields(RctBpp, v[i])]
           r == R(FlattenSeq(rows) \o b, <<>>)
<1>1. EcdhsFields(RctBpp, v) = FlattenSeq(rows)
  <2>1. DOMAIN v = 1 .. n
    BY TupleIs, Zenon
  <2> QED BY <2>1, Zenon DEF Concat, EcdhsFields
<1>2. \A i \in 1 .. n : rows[i] = EcdhFields(RctBpp, v[i])
  OBVIOUS
<1>3. ItemsFit("ecdh", RctBpp, rows, v, n)
  <2>1. Tuple(rows, n)
    BY DEF Tuple
  <2> HIDE DEF rows
  <2>2. ASSUME NEW i \in 1 .. n
        PROVE  IsSeq(rows[i]) /\ \A c, h : IsSeq(c) => Item("ecdh", RctBpp, R(rows[i] \o c, h), i) = R(c, v[i])
    <3>1. rows[i] = EcdhFields(RctBpp, v[i])
      BY <1>2
    <3>2. IsSeq(rows[i])
      BY <3>1, EcdhRead, SmallSeqs, Zenon
    <3>3. ASSUME NEW c, NEW h, IsSeq(c)
          PROVE  Item("ecdh", RctBpp, R(rows[i] \o c, h), i) = R(c, v[i])
      <4>1. ReadEcdh(R(EcdhFields(RctBpp, v[i]) \o c, h), RctBpp) = R(c, v[i])
        BY <3>3, EcdhRead, Zenon
      <4> QED BY <3>1, <4>1, Zenon DEF Item
    <3> QED BY <3>2, <3>3, Zenon
  <2> QED BY <2>1, <2>2, Zenon DEF ItemsFit
<1>4. IsSeq(FlattenSeq(rows))
  <2> HIDE DEF rows
  <2> QED BY <1>3, FlatIsSeq, Zenon DEF ItemsFit
<1> HIDE DEF rows, r
<1>5. r = R(FlattenSeq(rows) \o b, <<>>)
  BY DEF r
<1>6. ItemsGive("ecdh", RctBpp, r, n, R(b, v))
  BY <1>3, <1>5, ItemsRead, Zenon
<1>7. ASSUME NEW f PROVE AreEcdhs(f, RctBpp, r, n) <=> AreItems(f, "ecdh", RctBpp, r, n)
  <2>1. \A i : EcdhStep(f, RctBpp, r, i) = ItemStep(f, "ecdh", RctBpp, r, i)
    BY Zenon DEF EcdhStep, ItemStep, Item
  <2>2. [i \in 0 .. n |-> EcdhStep(f, RctBpp, r, i)] = [i \in 0 .. n |-> ItemStep(f, "ecdh", RctBpp, r, i)]
    BY <2>1
  <2> QED BY <2>2, Zenon DEF AreEcdhs, AreItems
<1>8. (CHOOSE f : AreEcdhs(f, RctBpp, r, n))[n] = R(b, v)
  BY <1>6, <1>7, Zenon DEF ItemsGive
<1>9. ReadEcdhs(R(FlattenSeq(rows) \o b, g), RctBpp, n) = (CHOOSE f : AreEcdhs(f, RctBpp, r, n))[n]
  <2> DEFINE w == R(FlattenSeq(rows) \o b, g)
  <2>1. [w EXCEPT !.got = <<>>] = r
    BY <1>5, NewGot, Zenon
  <2> HIDE DEF w
  <2>2. ReadEcdhs(w, RctBpp, n) = (CHOOSE f : AreEcdhs(f, RctBpp, [w EXCEPT !.got = <<>>], n))[n]
    BY Zenon DEF ReadEcdhs, ReadEach, Loop, AreEcdhs, EcdhStep, OneMore
  <2> QED BY <2>1, <2>2, Zenon DEF w
<1> QED BY <1>1, <1>4, <1>8, <1>9, Zenon

ReadClsags(r, ins, n) ==
    Loop(LAMBDA before, i : LET one == ReadClsag(before, ins[i])
                            IN  [one EXCEPT !.got = Append(before.got, one.got)],
         [r EXCEPT !.got = <<>>], n)

ClsagStep(f, ins, r, i) == IF i = 0 THEN r ELSE OneMore(f[i - 1], ReadClsag(f[i - 1], ins[i]))
AreClsags(f, ins, r, n) == f = [i \in 0 .. n |-> ClsagStep(f, ins, r, i)]

\* As many responses as the input has key offsets.
ClsagsFit(n, v, ins) ==
    /\ Tuple(v, n)
    /\ \A i \in 1 .. n : \E s, x, y : /\ IsSeq(s) /\ v[i] = ClsagOf(s, x, y)
                                      /\ Len(ins[i].offsets) = Len(s)

ClsagsGive(n, v, ins, b, g) ==
    /\ IsSeq(Concat(ClsagFields, v))
    /\ ReadClsags(R(Concat(ClsagFields, v) \o b, g), ins, n) = R(b, v)

LEMMA ClsagsRead ==
    ASSUME NEW n \in Nat, NEW v, NEW ins, ClsagsFit(n, v, ins), NEW b, IsSeq(b), NEW g
    PROVE  ClsagsGive(n, v, ins, b, g)
<1> DEFINE rows == [i \in 1 .. n |-> ClsagFields(v[i])]
           r == R(FlattenSeq(rows) \o b, <<>>)
<1> USE DEF ClsagsFit
<1>1. Concat(ClsagFields, v) = FlattenSeq(rows)
  <2>1. DOMAIN v = 1 .. n
    BY TupleIs, Zenon
  <2> QED BY <2>1, Zenon DEF Concat
<1>2. \A i \in 1 .. n : rows[i] = ClsagFields(v[i])
  OBVIOUS
<1>3. ItemsFit("clsag", ins, rows, v, n)
  <2>1. Tuple(rows, n)
    BY DEF Tuple
  <2> HIDE DEF rows
  <2>2. ASSUME NEW i \in 1 .. n
        PROVE  IsSeq(rows[i]) /\ \A c, h : IsSeq(c) => Item("clsag", ins, R(rows[i] \o c, h), i) = R(c, v[i])
    <3>1. PICK s, x, y : IsSeq(s) /\ v[i] = ClsagOf(s, x, y) /\ Len(ins[i].offsets) = Len(s)
      OBVIOUS
    <3>2. rows[i] = ClsagFields(v[i])
      BY <1>2
    <3>3. IsSeq(rows[i])
      <4>1. ClsagReads(ClsagOf(s, x, y), ins[i], <<>>, <<>>)
        BY <3>1, ClsagRead, SmallSeqs, Zenon
      <4> QED BY <3>1, <3>2, <4>1, Zenon DEF ClsagReads
    <3>4. ASSUME NEW c, NEW h, IsSeq(c)
          PROVE  Item("clsag", ins, R(rows[i] \o c, h), i) = R(c, v[i])
      <4>1. ClsagReads(ClsagOf(s, x, y), ins[i], c, h)
        BY <3>1, <3>4, ClsagRead, Zenon
      <4> QED BY <3>1, <3>2, <4>1, Zenon DEF Item, ClsagReads
    <3> QED BY <3>3, <3>4, Zenon
  <2> QED BY <2>1, <2>2, Zenon DEF ItemsFit
<1>4. IsSeq(FlattenSeq(rows))
  <2> HIDE DEF rows
  <2> QED BY <1>3, FlatIsSeq, Zenon DEF ItemsFit
<1> HIDE DEF rows, r
<1>5. r = R(FlattenSeq(rows) \o b, <<>>)
  BY DEF r
<1>6. ItemsGive("clsag", ins, r, n, R(b, v))
  BY <1>3, <1>5, ItemsRead, Zenon
<1>7. ASSUME NEW f PROVE AreClsags(f, ins, r, n) <=> AreItems(f, "clsag", ins, r, n)
  <2>1. \A i : ClsagStep(f, ins, r, i) = ItemStep(f, "clsag", ins, r, i)
    BY Zenon DEF ClsagStep, ItemStep, Item
  <2>2. [i \in 0 .. n |-> ClsagStep(f, ins, r, i)] = [i \in 0 .. n |-> ItemStep(f, "clsag", ins, r, i)]
    BY <2>1
  <2> QED BY <2>2, Zenon DEF AreClsags, AreItems
<1>8. (CHOOSE f : AreClsags(f, ins, r, n))[n] = R(b, v)
  BY <1>6, <1>7, Zenon DEF ItemsGive
<1>9. ReadClsags(R(FlattenSeq(rows) \o b, g), ins, n) = (CHOOSE f : AreClsags(f, ins, r, n))[n]
  <2> DEFINE w == R(FlattenSeq(rows) \o b, g)
  <2>1. [w EXCEPT !.got = <<>>] = r
    BY <1>5, NewGot, Zenon
  <2> HIDE DEF w
  <2>2. ReadClsags(w, ins, n) = (CHOOSE f : AreClsags(f, ins, [w EXCEPT !.got = <<>>], n))[n]
    BY Zenon DEF ReadClsags, Loop, AreClsags, ClsagStep, OneMore
  <2> QED BY <2>1, <2>2, Zenon DEF w
<1> QED BY <1>1, <1>4, <1>8, <1>9, Zenon DEF ClsagsGive

-----------------------------------------------------------------------------
(* ParseTx and ParseRctSig undo Serialize.                                     *)

TxOf(u, nv, i, no, o, x, raw, rct, s, p, ok) ==
    [unlock |-> u, vinCount |-> nv, inputs |-> i, voutCount |-> no, outputs |-> o, extra |-> x,
     raw |-> raw, rctRaw |-> rct, signature |-> s, prunable |-> p, inStep |-> ok]

\* n inputs and m outputs, as a wire has them.
InputsFit(n, i) == Tuple(i, n) /\ \A j \in 1 .. n : \E o, k : IsSeq(o) /\ i[j] = InputOf(o, k)
OutputsFit(m, o) == Tuple(o, m) /\ \A j \in 1 .. m : \E k, t : o[j] = OutputOf(k, t)

PrefixOf(u, n, i, m, o, x) ==
    ((((<<Field("varint", 2), Field("varint", u), Field("varint", n)>> \o Concat(InputFields, i))
        \o <<Field("varint", m)>>) \o Concat(OutputFields, o)) \o <<Field("extra", x)>>)

PrefixWritten(u, nv, n, i, no, m, o, x, raw, rct, s, p, ok) ==
    Part1Fields(TxOf(u, nv, i, no, o, x, raw, rct, s, p, ok)) = PrefixOf(u, n, i, m, o, x)

LEMMA PrefixFields ==
    ASSUME NEW n \in Nat, NEW m \in Nat, NEW u, NEW i, NEW o, NEW x, NEW raw, NEW rct, NEW s, NEW p,
           NEW ok, NEW nv, NEW no, Len(i) = n, Len(o) = m
    PROVE  PrefixWritten(u, nv, n, i, no, m, o, x, raw, rct, s, p, ok)
<1> DEFINE t == TxOf(u, nv, i, no, o, x, raw, rct, s, p, ok)
<1>1. t.unlock = u /\ t.inputs = i /\ t.outputs = o /\ t.extra = x
  BY DEF TxOf
<1> HIDE DEF t
<1>2. Part1Fields(t) = PrefixOf(u, n, i, m, o, x)
  BY <1>1, Zenon DEF Part1Fields, PrefixOf, Varint, Extra, Field
<1> QED BY <1>2, Zenon DEF t, PrefixWritten

-----------------------------------------------------------------------------
(* Transactions, field by field.                                               *)

FieldsAre(u, n, i, m, o, x, raw, w, s, p, t, tx) ==
    /\ tx.unlock = u /\ tx.vinCount = n /\ tx.inputs = i /\ tx.voutCount = m /\ tx.outputs = o
    /\ tx.extra = x /\ tx.raw = raw /\ tx.rctRaw = w /\ tx.signature = s /\ tx.prunable = p
    /\ tx.inStep = t

LEMMA TxParts ==
    ASSUME NEW u, NEW n, NEW i, NEW m, NEW o, NEW x, NEW raw, NEW w, NEW s, NEW p, NEW t
    PROVE  FieldsAre(u, n, i, m, o, x, raw, w, s, p, t, TxOf(u, n, i, m, o, x, raw, w, s, p, t))
BY DEF FieldsAre, TxOf

IsTx(tx) ==
    tx = TxOf(tx.unlock, tx.vinCount, tx.inputs, tx.voutCount, tx.outputs, tx.extra, tx.raw,
              tx.rctRaw, tx.signature, tx.prunable, tx.inStep)

\* Setting the fields that ParseTx sets.
ParsedSets(u, n, i, m, o, x, raw, w, s, p, t, u1, n1, i1, m1, o1, x1, w1, t1) ==
    [TxOf(u, n, i, m, o, x, raw, w, s, p, t) EXCEPT
         !.unlock = u1, !.vinCount = n1, !.inputs = i1, !.voutCount = m1, !.outputs = o1, !.extra = x1, !.rctRaw = w1, !.inStep = t1]
      = TxOf(u1, n1, i1, m1, o1, x1, raw, w1, s, p, t1)

LEMMA ParsedSet ==
    ASSUME NEW u, NEW n, NEW i, NEW m, NEW o, NEW x, NEW raw, NEW w, NEW s, NEW p, NEW t, NEW u1, NEW n1, NEW i1, NEW m1, NEW o1, NEW x1, NEW w1, NEW t1
    PROVE  ParsedSets(u, n, i, m, o, x, raw, w, s, p, t, u1, n1, i1, m1, o1, x1, w1, t1)
<1> DEFINE y0 == TxOf(u, n, i, m, o, x, raw, w, s, p, t)
           y1 == TxOf(u1, n, i, m, o, x, raw, w, s, p, t)
           y2 == TxOf(u1, n1, i, m, o, x, raw, w, s, p, t)
           y3 == TxOf(u1, n1, i1, m, o, x, raw, w, s, p, t)
           y4 == TxOf(u1, n1, i1, m1, o, x, raw, w, s, p, t)
           y5 == TxOf(u1, n1, i1, m1, o1, x, raw, w, s, p, t)
           y6 == TxOf(u1, n1, i1, m1, o1, x1, raw, w, s, p, t)
           y7 == TxOf(u1, n1, i1, m1, o1, x1, raw, w1, s, p, t)
           y8 == TxOf(u1, n1, i1, m1, o1, x1, raw, w1, s, p, t1)
<1>1. [y0 EXCEPT !.unlock = u1] = y1
  BY DEF TxOf
<1>2. [y1 EXCEPT !.vinCount = n1] = y2
  BY DEF TxOf
<1>3. [y2 EXCEPT !.inputs = i1] = y3
  BY DEF TxOf
<1>4. [y3 EXCEPT !.voutCount = m1] = y4
  BY DEF TxOf
<1>5. [y4 EXCEPT !.outputs = o1] = y5
  BY DEF TxOf
<1>6. [y5 EXCEPT !.extra = x1] = y6
  BY DEF TxOf
<1>7. [y6 EXCEPT !.rctRaw = w1] = y7
  BY DEF TxOf
<1>8. [y7 EXCEPT !.inStep = t1] = y8
  BY DEF TxOf
<1> HIDE DEF y0, y1, y2, y3, y4, y5, y6, y7, y8
<1>9. [y0 EXCEPT !.unlock = u1, !.vinCount = n1] = y2
  BY <1>1, <1>2, Zenon
<1>10. [y0 EXCEPT !.unlock = u1, !.vinCount = n1, !.inputs = i1] = y3
  BY <1>9, <1>3, Zenon
<1>11. [y0 EXCEPT !.unlock = u1, !.vinCount = n1, !.inputs = i1, !.voutCount = m1] = y4
  BY <1>10, <1>4, Zenon
<1>12. [y0 EXCEPT !.unlock = u1, !.vinCount = n1, !.inputs = i1, !.voutCount = m1, !.outputs = o1] = y5
  BY <1>11, <1>5, Zenon
<1>13. [y0 EXCEPT !.unlock = u1, !.vinCount = n1, !.inputs = i1, !.voutCount = m1, !.outputs = o1, !.extra = x1] = y6
  BY <1>12, <1>6, Zenon
<1>14. [y0 EXCEPT !.unlock = u1, !.vinCount = n1, !.inputs = i1, !.voutCount = m1, !.outputs = o1, !.extra = x1, !.rctRaw = w1] = y7
  BY <1>13, <1>7, Zenon
<1>15. [y0 EXCEPT !.unlock = u1, !.vinCount = n1, !.inputs = i1, !.voutCount = m1, !.outputs = o1, !.extra = x1, !.rctRaw = w1, !.inStep = t1] = y8
  BY <1>14, <1>8, Zenon
<1> QED BY <1>15, Zenon DEF y0, y8, ParsedSets

\* Setting the fields that ParseRctSig sets.
SignedSets(u, n, i, m, o, x, raw, w, s, p, t, s1, p1, w1, t1) ==
    [TxOf(u, n, i, m, o, x, raw, w, s, p, t) EXCEPT
         !.signature = s1, !.prunable = p1, !.rctRaw = w1, !.inStep = t1]
      = TxOf(u, n, i, m, o, x, raw, w1, s1, p1, t1)

LEMMA SignedSet ==
    ASSUME NEW u, NEW n, NEW i, NEW m, NEW o, NEW x, NEW raw, NEW w, NEW s, NEW p, NEW t, NEW s1, NEW p1, NEW w1, NEW t1
    PROVE  SignedSets(u, n, i, m, o, x, raw, w, s, p, t, s1, p1, w1, t1)
<1> DEFINE y0 == TxOf(u, n, i, m, o, x, raw, w, s, p, t)
           y1 == TxOf(u, n, i, m, o, x, raw, w, s1, p, t)
           y2 == TxOf(u, n, i, m, o, x, raw, w, s1, p1, t)
           y3 == TxOf(u, n, i, m, o, x, raw, w1, s1, p1, t)
           y4 == TxOf(u, n, i, m, o, x, raw, w1, s1, p1, t1)
<1>1. [y0 EXCEPT !.signature = s1] = y1
  BY DEF TxOf
<1>2. [y1 EXCEPT !.prunable = p1] = y2
  BY DEF TxOf
<1>3. [y2 EXCEPT !.rctRaw = w1] = y3
  BY DEF TxOf
<1>4. [y3 EXCEPT !.inStep = t1] = y4
  BY DEF TxOf
<1> HIDE DEF y0, y1, y2, y3, y4
<1>5. [y0 EXCEPT !.signature = s1, !.prunable = p1] = y2
  BY <1>1, <1>2, Zenon
<1>6. [y0 EXCEPT !.signature = s1, !.prunable = p1, !.rctRaw = w1] = y3
  BY <1>5, <1>3, Zenon
<1>7. [y0 EXCEPT !.signature = s1, !.prunable = p1, !.rctRaw = w1, !.inStep = t1] = y4
  BY <1>6, <1>4, Zenon
<1> QED BY <1>7, Zenon DEF y0, y4, SignedSets

-----------------------------------------------------------------------------
(* ParseTx, stage by stage: it reads the bytes alone.                          *)

TxHead(raw) == ReadAll(Reader(raw), <<"varint", "varint", "varint">>)
TxIns(raw) == ReadEach(ReadInput, TxHead(raw), TxHead(raw).got[3])
TxVouts(raw) == ReadAll(TxIns(raw), <<"varint">>)
TxOuts(raw) == ReadEach(ReadOutput, TxVouts(raw), TxVouts(raw).got[1])
TxExtra(raw) == ReadAll(TxOuts(raw), <<"extra">>)

ParseStages(tx) ==
    ParseTx(tx) =
        [tx EXCEPT !.unlock = TxHead(tx.raw).got[2], !.vinCount = TxHead(tx.raw).got[3],
                   !.inputs = tx.inputs \o TxIns(tx.raw).got,
                   !.voutCount = TxVouts(tx.raw).got[1],
                   !.outputs = tx.outputs \o TxOuts(tx.raw).got,
                   !.extra = TxExtra(tx.raw).got[1], !.rctRaw = TxExtra(tx.raw).rest,
                   !.inStep = tx.inStep /\ TxExtra(tx.raw).inStep]

LEMMA InParseStages == \A tx : ParseStages(tx)
BY Zenon DEF ParseStages, ParseTx, TxHead, TxIns, TxVouts, TxOuts, TxExtra

\* What the bytes hold: the prefix, in step, and w behind it.
TxReads(raw, u, n, i, m, o, x, w) ==
    /\ TxHead(raw).got[2] = u /\ TxHead(raw).got[3] = n /\ TxIns(raw).got = i
    /\ TxVouts(raw).got[1] = m /\ TxOuts(raw).got = o
    /\ TxExtra(raw).got[1] = x /\ TxExtra(raw).rest = w /\ TxExtra(raw).inStep = TRUE

\* Whatever was parsed before.
ParsesAs(raw, u, n, i, m, o, x, w) ==
    \A u0, n0, i0, m0, o0, x0, w0, s, p : \A t \in BOOLEAN :
        ParseTx(TxOf(u0, n0, i0, m0, o0, x0, raw, w0, s, p, t))
          = TxOf(u, n, i0 \o i, m, o0 \o o, x, raw, w, s, p, t)

LEMMA ReadsParse ==
    ASSUME NEW raw, NEW u, NEW n, NEW i, NEW m, NEW o, NEW x, NEW w, TxReads(raw, u, n, i, m, o, x, w)
    PROVE  ParsesAs(raw, u, n, i, m, o, x, w)
<1> SUFFICES ASSUME NEW u0, NEW n0, NEW i0, NEW m0, NEW o0, NEW x0, NEW w0, NEW s, NEW p, NEW t \in BOOLEAN
             PROVE  ParseTx(TxOf(u0, n0, i0, m0, o0, x0, raw, w0, s, p, t))
                      = TxOf(u, n, i0 \o i, m, o0 \o o, x, raw, w, s, p, t)
  BY Zenon DEF ParsesAs
<1> DEFINE tx == TxOf(u0, n0, i0, m0, o0, x0, raw, w0, s, p, t)
<1>1. FieldsAre(u0, n0, i0, m0, o0, x0, raw, w0, s, p, t, tx)
  BY TxParts, Zenon
<1>2. (t /\ TRUE) = t
  OBVIOUS
<1>3. ParsedSets(u0, n0, i0, m0, o0, x0, raw, w0, s, p, t, u, n, i0 \o i, m, o0 \o o, x, w, t)
  BY ParsedSet, Zenon
<1>4. [tx EXCEPT !.unlock = u, !.vinCount = n, !.inputs = i0 \o i, !.voutCount = m,
                 !.outputs = o0 \o o, !.extra = x, !.rctRaw = w, !.inStep = t]
        = TxOf(u, n, i0 \o i, m, o0 \o o, x, raw, w, s, p, t)
  BY <1>3, Zenon DEF ParsedSets
<1> HIDE DEF tx
<1>5. ParseTx(tx) = [tx EXCEPT !.unlock = u, !.vinCount = n, !.inputs = i0 \o i, !.voutCount = m,
                               !.outputs = o0 \o o, !.extra = x, !.rctRaw = w, !.inStep = t]
  <2>1. ParseStages(tx)
    BY InParseStages, Zenon
  <2>2. tx.raw = raw /\ tx.inputs = i0 /\ tx.outputs = o0 /\ tx.inStep = t
    BY <1>1, Zenon DEF FieldsAre
  <2> QED BY <1>2, <2>1, <2>2, Zenon DEF ParseStages, TxReads
<1> QED BY <1>4, <1>5, Zenon DEF tx

\* A prefix with these fields for its inputs and its outputs.
Assembled(u, n, a2, m, a4, x) ==
    ((((<<Field("varint", 2), Field("varint", u), Field("varint", n)>> \o a2)
        \o <<Field("varint", m)>>) \o a4) \o <<Field("extra", x)>>)

InputsAre(a, n, i) ==
    IsSeq(a) /\ \A c, g : IsSeq(c) => ReadEach(ReadInput, R(a \o c, g), n) = R(c, i)
OutputsAre(a, m, o) ==
    IsSeq(a) /\ \A c, g : IsSeq(c) => ReadEach(ReadOutput, R(a \o c, g), m) = R(c, o)

AssembledReads(u, n, a2, i, m, a4, o, x, w) ==
    /\ IsSeq(Assembled(u, n, a2, m, a4, x))
    /\ TxReads(Assembled(u, n, a2, m, a4, x) \o w, u, n, i, m, o, x, w)

LEMMA AssembledRead ==
    ASSUME NEW n, NEW m, NEW u, NEW i, NEW o, NEW x, NEW w, IsSeq(w),
           NEW a2, NEW a4, InputsAre(a2, n, i), OutputsAre(a4, m, o)
    PROVE  AssembledReads(u, n, a2, i, m, a4, o, x, w)
<1> DEFINE a1 == <<Field("varint", 2), Field("varint", u), Field("varint", n)>>
           a3 == <<Field("varint", m)>>
           a5 == <<Field("extra", x)>>
           w4 == a5 \o w
           w3 == a4 \o w4
           w2 == a3 \o w3
           w1 == a2 \o w2
           raw == Assembled(u, n, a2, m, a4, x) \o w
           head == TxHead(raw)
           ins == TxIns(raw)
           vouts == TxVouts(raw)
           outs == TxOuts(raw)
           xtra == TxExtra(raw)
<1>1. IsSeq(a1) /\ IsSeq(a2) /\ IsSeq(a3) /\ IsSeq(a4) /\ IsSeq(a5)
  BY SmallSeqs, Zenon DEF InputsAre, OutputsAre
<1>2. IsSeq(Assembled(u, n, a2, m, a4, x)) /\ raw = a1 \o w1
  <2>1. Assembled(u, n, a2, m, a4, x) = (((a1 \o a2) \o a3) \o a4) \o a5
    BY Zenon DEF Assembled
  <2> HIDE DEF a1, a3, a5
  <2>2. IsSeq(((a1 \o a2) \o a3) \o a4)
    BY <1>1, ConcatIs, Zenon
  <2>3. IsSeq((((a1 \o a2) \o a3) \o a4) \o a5)
    BY <1>1, <2>2, ConcatIs, Zenon
  <2>4. Same6(a1, a2, a3, a4, a5, w)
    BY <1>1, Brackets6, Zenon
  <2> QED BY <2>1, <2>3, <2>4, Zenon DEF Same6
<1>3. IsSeq(w4) /\ IsSeq(w3) /\ IsSeq(w2) /\ IsSeq(w1)
  <2> HIDE DEF a1, a3, a5
  <2>1. IsSeq(w4)
    BY <1>1, ConcatIs, Zenon
  <2>2. IsSeq(w3)
    BY <1>1, <2>1, ConcatIs, Zenon
  <2>3. IsSeq(w2)
    BY <1>1, <2>2, ConcatIs, Zenon
  <2>4. IsSeq(w1)
    BY <1>1, <2>3, ConcatIs, Zenon
  <2> QED BY <2>1, <2>2, <2>3, <2>4
<1>4. /\ head = ReadAll(Reader(raw), <<"varint", "varint", "varint">>)
      /\ ins = ReadEach(ReadInput, head, head.got[3]) /\ vouts = ReadAll(ins, <<"varint">>)
      /\ outs = ReadEach(ReadOutput, vouts, vouts.got[1]) /\ xtra = ReadAll(outs, <<"extra">>)
  BY Zenon DEF TxHead, TxIns, TxVouts, TxOuts, TxExtra
<1> HIDE DEF head, ins, vouts, outs, xtra
<1>5. head = R(w1, <<2, u, n>>)
  <2> HIDE DEF w1, raw
  <2>1. Reads3(w1, <<>>, "varint", 2, "varint", u, "varint", n)
    BY <1>3, Read3, Zenon
  <2>2. Reader(raw) = R(a1 \o w1, <<>>)
    BY <1>2, Zenon DEF Reader, R
  <2> QED BY <1>4, <2>1, <2>2, Zenon DEF Reads3
<1>6. ins = R(w2, i)
  <2>1. head.got[3] = n
    <3> HIDE DEF w1
    <3> QED BY <1>5 DEF R
  <2> HIDE DEF w2
  <2>2. ReadEach(ReadInput, R(a2 \o w2, <<2, u, n>>), n) = R(w2, i)
    BY <1>3, Zenon DEF InputsAre
  <2> QED BY <1>4, <1>5, <2>1, <2>2, Zenon
<1>7. vouts = R(w3, <<m>>)
  <2> HIDE DEF w3
  <2>1. Reads1(w3, i, "varint", m)
    BY <1>3, Read1, Zenon
  <2> QED BY <1>4, <1>6, <2>1, Zenon DEF Reads1
<1>8. outs = R(w4, o)
  <2>1. vouts.got[1] = m
    <3> HIDE DEF w3
    <3> QED BY <1>7 DEF R
  <2> HIDE DEF w4
  <2>2. ReadEach(ReadOutput, R(a4 \o w4, <<m>>), m) = R(w4, o)
    BY <1>3, Zenon DEF OutputsAre
  <2> QED BY <1>4, <1>7, <2>1, <2>2, Zenon
<1>9. xtra = R(w, <<x>>)
  <2>1. Reads1(w, o, "extra", x)
    BY Read1, Zenon
  <2> QED BY <1>4, <1>8, <2>1, Zenon DEF Reads1
<1>10. /\ head.got[2] = u /\ head.got[3] = n /\ ins.got = i /\ vouts.got[1] = m /\ outs.got = o
       /\ xtra.got[1] = x /\ xtra.rest = w /\ xtra.inStep = TRUE
  <2> HIDE DEF w1, w2, w3, w4
  <2> QED BY <1>5, <1>6, <1>7, <1>8, <1>9 DEF R
<1> HIDE DEF raw
<1>11. TxReads(raw, u, n, i, m, o, x, w)
  BY <1>10, Zenon DEF TxReads, head, ins, vouts, outs, xtra
<1> QED BY <1>2, <1>11, Zenon DEF AssembledReads, raw

PrefixIsRead(u, n, i, m, o, x, w) ==
    /\ IsSeq(PrefixOf(u, n, i, m, o, x))
    /\ TxReads(PrefixOf(u, n, i, m, o, x) \o w, u, n, i, m, o, x, w)

LEMMA PrefixReads ==
    ASSUME NEW n \in Nat, NEW m \in Nat, NEW u, NEW i, NEW o, NEW x, NEW w, IsSeq(w),
           InputsFit(n, i), OutputsFit(m, o)
    PROVE  PrefixIsRead(u, n, i, m, o, x, w)
<1> DEFINE a2 == Concat(InputFields, i)
           a4 == Concat(OutputFields, o)
<1>1. InputsAre(a2, n, i)
  BY InputsRead, SmallSeqs, Zenon DEF InputsFit, InputsAre
<1>2. OutputsAre(a4, m, o)
  BY OutputsRead, SmallSeqs, Zenon DEF OutputsFit, OutputsAre
<1>3. PrefixOf(u, n, i, m, o, x) = Assembled(u, n, a2, m, a4, x)
  BY Zenon DEF PrefixOf, Assembled
<1> HIDE DEF a2, a4
<1>4. AssembledReads(u, n, a2, i, m, a4, o, x, w)
  BY <1>1, <1>2, AssembledRead, Zenon
<1> QED BY <1>3, <1>4, Zenon DEF PrefixIsRead, AssembledReads

PrefixParses(u, n, i, m, o, x, w) ==
    /\ IsSeq(PrefixOf(u, n, i, m, o, x))
    /\ ParseTx(TxOf(0, 0, <<>>, 0, <<>>, <<>>, PrefixOf(u, n, i, m, o, x) \o w,
                    <<>>, <<>>, <<>>, TRUE))
         = TxOf(u, n, i, m, o, x, PrefixOf(u, n, i, m, o, x) \o w, w, <<>>, <<>>, TRUE)

LEMMA PrefixParsed ==
    ASSUME NEW n \in Nat, NEW m \in Nat, NEW u, NEW i, NEW o, NEW x, NEW w, IsSeq(w),
           InputsFit(n, i), OutputsFit(m, o)
    PROVE  PrefixParses(u, n, i, m, o, x, w)
<1> DEFINE raw == PrefixOf(u, n, i, m, o, x) \o w
           z == 0
           e == <<>>
           b == TRUE
<1>1. IsSeq(PrefixOf(u, n, i, m, o, x)) /\ TxReads(raw, u, n, i, m, o, x, w)
  BY PrefixReads, Zenon DEF PrefixIsRead
<1>2. e \o i = i /\ e \o o = o
  <2>1. IsSeq(i) /\ IsSeq(o)
    BY TupleIsSeq, Zenon DEF InputsFit, OutputsFit
  <2> QED BY <2>1, ConcatIs, SmallSeqs, Zenon
<1>3. b \in BOOLEAN
  OBVIOUS
<1> HIDE DEF raw, z, e, b
<1>4. ParsesAs(raw, u, n, i, m, o, x, w)
  BY <1>1, ReadsParse, Zenon
<1>5. \A t \in BOOLEAN : ParseTx(TxOf(z, z, e, z, e, e, raw, e, e, e, t))
                           = TxOf(u, n, e \o i, m, e \o o, x, raw, w, e, e, t)
  BY <1>4 DEF ParsesAs
<1>6. ParseTx(TxOf(z, z, e, z, e, e, raw, e, e, e, b)) = TxOf(u, n, i, m, o, x, raw, w, e, e, b)
  BY <1>2, <1>3, <1>5, Zenon
<1> QED BY <1>1, <1>6, Zenon DEF PrefixParses, raw, z, e, b

SigOf(fee, e, k) == [type |-> RctBpp, fee |-> fee, ecdhInfo |-> e, outPk |-> k]
PrunableOf(b, c, q) == [bpp |-> b, clsags |-> c, pseudoOuts |-> q]

BaseOf(fee, e, k) ==
    (<<Field("varint", RctBpp), Field("varint", fee)>> \o EcdhsFields(RctBpp, e)) \o Fields("hash", k)
ProofsOf(b, c, q) ==
    ((<<Field("varint", 1)>> \o Concat(BppFields, b)) \o Concat(ClsagFields, c)) \o Fields("hash", q)

LEMMA BaseFields ==
    ASSUME NEW t, NEW fee, NEW e, NEW k, NEW b, NEW c, NEW q,
           t.signature[1] = SigOf(fee, e, k), t.prunable[1] = PrunableOf(b, c, q)
    PROVE  Part2Fields(t) = BaseOf(fee, e, k) /\ Part3Fields(t) = ProofsOf(b, c, q)
<1> DEFINE sig == t.signature[1]
           prunable == t.prunable[1]
<1>1. sig.type = RctBpp /\ sig.fee = fee /\ sig.ecdhInfo = e /\ sig.outPk = k
  <2> HIDE DEF sig
  <2>1. sig = SigOf(fee, e, k)
    BY Zenon DEF sig
  <2> QED BY <2>1 DEF SigOf
<1>2. prunable.bpp = b /\ prunable.clsags = c /\ prunable.pseudoOuts = q
  <2> HIDE DEF prunable
  <2>1. prunable = PrunableOf(b, c, q)
    BY Zenon DEF prunable
  <2> QED BY <2>1 DEF PrunableOf
<1>3. Part2Fields(t) = (<<Varint(sig.type), Varint(sig.fee)>> \o EcdhsFields(sig.type, sig.ecdhInfo))
                           \o Each(Hash, sig.outPk)
  BY Zenon DEF Part2Fields, EcdhsFields
<1>4. Part3Fields(t) = ((<<Varint(1)>> \o Concat(BppFields, prunable.bpp)) \o Concat(ClsagFields, prunable.clsags))
                           \o Each(Hash, prunable.pseudoOuts)
  BY Zenon DEF Part3Fields
<1>5. Each(Hash, k) = Fields("hash", k) /\ Each(Hash, q) = Fields("hash", q)
  BY HashesAre, Zenon
<1> HIDE DEF sig, prunable
<1>6. Part2Fields(t) = BaseOf(fee, e, k)
  BY <1>1, <1>3, <1>5, Zenon DEF BaseOf, Varint, Field
<1>7. Part3Fields(t) = ProofsOf(b, c, q)
  BY <1>2, <1>4, <1>5, Zenon DEF ProofsOf, Varint, Field
<1> QED BY <1>6, <1>7

\* Signatures of m outputs and of the inputs i, as a wire has them.
SignaturesFit(n, i, m, e, k, b, c, q) ==
    /\ Tuple(e, m) /\ Tuple(k, m) /\ Tuple(b, 1) /\ Tuple(q, n) /\ ClsagsFit(n, c, i)
    /\ \A j \in 1 .. 1 : \E x, y, z : Six(x) /\ IsSeq(y) /\ IsSeq(z) /\ b[j] = BppOf(x, y, z)

SignaturesParse(n, m, u, i, o, x, raw, fee, e, k, b, c, q) ==
    /\ IsSeq(BaseOf(fee, e, k)) /\ IsSeq(ProofsOf(b, c, q))
    /\ ParseRctSig(TxOf(u, n, i, m, o, x, raw, BaseOf(fee, e, k) \o ProofsOf(b, c, q),
                        <<>>, <<>>, TRUE))
         = TxOf(u, n, i, m, o, x, raw, <<>>, <<SigOf(fee, e, k)>>, <<PrunableOf(b, c, q)>>, TRUE)

LEMMA SignaturesParsed ==
    ASSUME NEW n \in Nat, NEW m \in Nat, NEW u, NEW i, NEW o, NEW x, NEW raw, Len(o) = m,
           NEW fee, NEW e, NEW k, NEW b, NEW c, NEW q, SignaturesFit(n, i, m, e, k, b, c, q)
    PROVE  SignaturesParse(n, m, u, i, o, x, raw, fee, e, k, b, c, q)
<1> DEFINE a1 == <<Field("varint", RctBpp), Field("varint", fee)>>
           a2 == EcdhsFields(RctBpp, e)
           a3 == Fields("hash", k)
           b1 == <<Field("varint", 1)>>
           b2 == Concat(BppFields, b)
           b3 == Concat(ClsagFields, c)
           b4 == Fields("hash", q)
           w6 == b3 \o b4
           w5 == b2 \o w6
           w3 == b1 \o w5
           w2 == a3 \o w3
           w1 == a2 \o w2
           rct == BaseOf(fee, e, k) \o ProofsOf(b, c, q)
           tx == TxOf(u, n, i, m, o, x, raw, rct, <<>>, <<>>, TRUE)
           head == ReadAll(Reader(tx.rctRaw), <<"varint", "varint">>)
           ecdh == ReadEcdhs(head, head.got[1], Len(tx.outputs))
           outpk == ReadAll(ecdh, Times(Len(tx.outputs), "hash"))
           nbp == ReadAll(outpk, <<"varint">>)
           bpps == ReadEach(ReadBpp, nbp, nbp.got[1])
           clsag == ReadClsags(bpps, tx.inputs, tx.vinCount)
           pseudo == ReadAll(clsag, Times(tx.vinCount, "hash"))
<1>1. /\ IsSeq(a1) /\ IsSeq(a2) /\ IsSeq(a3) /\ IsSeq(b1) /\ IsSeq(b2) /\ IsSeq(b3) /\ IsSeq(b4)
      /\ IsSeq(k) /\ IsSeq(q) /\ Len(k) = m /\ Len(q) = n /\ 1 \in Nat
  <2>1. IsSeq(k) /\ IsSeq(q) /\ Len(k) = m /\ Len(q) = n
    BY TupleIsSeq, Zenon DEF SignaturesFit
  <2>2. IsSeq(a2)
    BY EcdhsRead, SmallSeqs, Zenon DEF SignaturesFit
  <2>3. IsSeq(b2)
    <3>1. 1 \in Nat
      OBVIOUS
    <3> QED BY <3>1, BppsRead, SmallSeqs, Zenon DEF SignaturesFit
  <2>4. IsSeq(b3)
    <3>1. ClsagsGive(n, c, i, <<>>, <<>>)
      BY ClsagsRead, SmallSeqs, Zenon DEF SignaturesFit
    <3> QED BY <3>1, Zenon DEF ClsagsGive
  <2>5. IsSeq(a3) /\ IsSeq(b4)
    BY <2>1, EachRead, SmallSeqs, Zenon
  <2>6. 1 \in Nat
    OBVIOUS
  <2> QED BY <2>1, <2>2, <2>3, <2>4, <2>5, <2>6, SmallSeqs, Zenon
<1>2. IsSeq(w6) /\ IsSeq(w5) /\ IsSeq(w3) /\ IsSeq(w2) /\ IsSeq(w1)
  <2> HIDE DEF a1, a2, a3, b1, b2, b3, b4
  <2>1. IsSeq(w6)
    BY <1>1, ConcatIs, Zenon
  <2>2. IsSeq(w5)
    BY <1>1, <2>1, ConcatIs, Zenon
  <2>3. IsSeq(w3)
    BY <1>1, <2>2, ConcatIs, Zenon
  <2>4. IsSeq(w2)
    BY <1>1, <2>3, ConcatIs, Zenon
  <2>5. IsSeq(w1)
    BY <1>1, <2>4, ConcatIs, Zenon
  <2> QED BY <2>1, <2>2, <2>3, <2>4, <2>5
<1>3. IsSeq(BaseOf(fee, e, k)) /\ IsSeq(ProofsOf(b, c, q)) /\ rct = a1 \o w1
  <2>1. BaseOf(fee, e, k) = (a1 \o a2) \o a3 /\ ProofsOf(b, c, q) = ((b1 \o b2) \o b3) \o b4
    BY Zenon DEF BaseOf, ProofsOf
  <2> HIDE DEF a1, a2, a3, b1, b2, b3, b4
  <2>2. IsSeq(a1 \o a2) /\ IsSeq(b1 \o b2)
    BY <1>1, ConcatIs, Zenon
  <2>3. IsSeq((a1 \o a2) \o a3) /\ IsSeq((b1 \o b2) \o b3)
    BY <1>1, <2>2, ConcatIs, Zenon
  <2>4. IsSeq(((b1 \o b2) \o b3) \o b4)
    BY <1>1, <2>3, ConcatIs, Zenon
  <2>5. ((b1 \o b2) \o b3) \o b4 = w3
    <3>1. Same4(b1, b2, b3, b4)
      BY <1>1, Brackets4, Zenon
    <3> QED BY <3>1, Zenon DEF Same4
  <2>6. ((a1 \o a2) \o a3) \o w3 = a1 \o w1
    <3> HIDE DEF w3
    <3>1. Same4(a1, a2, a3, w3)
      BY <1>1, <1>2, Brackets4, Zenon
    <3> QED BY <3>1, Zenon DEF Same4
  <2> HIDE DEF w1, w3
  <2> QED BY <2>1, <2>3, <2>4, <2>5, <2>6, Zenon
<1>4. tx.rctRaw = rct /\ tx.inputs = i /\ tx.vinCount = n /\ tx.outputs = o /\ tx.inStep = TRUE
  <2> HIDE DEF rct
  <2> QED BY DEF TxOf
<1>5. head = R(w1, <<RctBpp, fee>>)
  <2> HIDE DEF w1, tx
  <2>1. Reads2(w1, <<>>, "varint", RctBpp, "varint", fee)
    BY <1>2, Read2, Zenon
  <2>2. Reader(tx.rctRaw) = R(a1 \o w1, <<>>)
    BY <1>3, <1>4, Zenon DEF Reader, R
  <2> QED BY <2>1, <2>2, Zenon DEF Reads2
<1>6. ecdh = R(w2, e)
  <2>1. head.got[1] = RctBpp
    <3> HIDE DEF head, w1
    <3> QED BY <1>5 DEF R
  <2> HIDE DEF head, w2, tx
  <2>2. ReadEcdhs(R(a2 \o w2, <<RctBpp, fee>>), RctBpp, m) = R(w2, e)
    BY <1>2, EcdhsRead, Zenon DEF SignaturesFit
  <2> QED BY <1>4, <1>5, <2>1, <2>2, Zenon
<1>7. outpk = R(w3, k)
  <2> HIDE DEF ecdh, w3, tx
  <2>1. ReadAll(R(Fields("hash", k) \o w3, e), Times(Len(k), "hash")) = R(w3, k)
    BY <1>1, <1>2, EachRead, Zenon
  <2> QED BY <1>1, <1>4, <1>6, <2>1, Zenon
<1>8. nbp = R(w5, <<1>>)
  <2> HIDE DEF outpk, w5
  <2>1. Reads1(w5, k, "varint", 1)
    BY <1>2, Read1, Zenon
  <2> QED BY <1>7, <2>1, Zenon DEF Reads1
<1>9. bpps = R(w6, b)
  <2>1. nbp.got[1] = 1
    <3> HIDE DEF nbp, w5
    <3> QED BY <1>8 DEF R
  <2> HIDE DEF nbp, w6
  <2>2. ReadEach(ReadBpp, R(b2 \o w6, <<1>>), 1) = R(w6, b)
    BY <1>1, <1>2, BppsRead, Zenon DEF SignaturesFit
  <2> QED BY <1>8, <2>1, <2>2, Zenon
<1>10. clsag = R(b4, c)
  <2> HIDE DEF bpps, tx, b4
  <2>1. ReadClsags(R(b3 \o b4, b), i, n) = R(b4, c)
    <3>1. IsSeq(b4) /\ ClsagsFit(n, c, i)
      BY <1>1, Zenon DEF SignaturesFit
    <3>2. ClsagsGive(n, c, i, b4, b)
      BY <3>1, ClsagsRead, Zenon
    <3> QED BY <3>2, Zenon DEF ClsagsGive
  <2> QED BY <1>4, <1>9, <2>1, Zenon
<1>11. pseudo = R(<<>>, q)
  <2> HIDE DEF clsag, tx
  <2>1. ReadAll(R(Fields("hash", q) \o <<>>, c), Times(Len(q), "hash")) = R(<<>>, q)
    BY <1>1, EachRead, SmallSeqs, Zenon
  <2>2. Fields("hash", q) \o <<>> = b4
    BY <1>1, ConcatIs, SmallSeqs, Zenon
  <2> QED BY <1>1, <1>4, <1>10, <2>1, <2>2, Zenon
<1>12. /\ head.got[1] = RctBpp /\ head.got[2] = fee /\ ecdh.got = e /\ outpk.got = k /\ bpps.got = b
       /\ clsag.got = c /\ pseudo.got = q /\ pseudo.rest = <<>> /\ pseudo.inStep = TRUE
  <2> HIDE DEF head, ecdh, outpk, bpps, clsag, pseudo, w1, w2, w3, w6, b4
  <2> QED BY <1>5, <1>6, <1>7, <1>9, <1>10, <1>11 DEF R
<1>13. tx.rctRaw # <<>>
  <2>1. Len(a1) = 2
    OBVIOUS
  <2>2. Len(a1 \o w1) = Len(a1) + Len(w1) /\ Len(w1) \in Nat
    <3> HIDE DEF a1, w1
    <3> QED BY <1>1, <1>2, ConcatIs, SeqLen, Zenon
  <2> HIDE DEF a1, w1, tx, rct
  <2>3. Len(a1 \o w1) # 0
    BY <2>1, <2>2
  <2>4. Len(<<>>) = 0
    OBVIOUS
  <2> QED BY <1>3, <1>4, <2>3, <2>4, Zenon
<1>14. ParseRctSig(tx) =
         IF tx.rctRaw = <<>> THEN tx
         ELSE [tx EXCEPT
                 !.signature = <<[type |-> head.got[1], fee |-> head.got[2],
                                  ecdhInfo |-> ecdh.got, outPk |-> outpk.got]>>,
                 !.prunable  = <<[bpp |-> bpps.got, clsags |-> clsag.got, pseudoOuts |-> pseudo.got]>>,
                 !.rctRaw    = pseudo.rest,
                 !.inStep    = tx.inStep /\ pseudo.inStep]
  <2> HIDE DEF tx
  <2> QED BY Zenon DEF ParseRctSig, ReadEcdhs, ReadClsags
<1>15. ParseRctSig(tx) =
         [tx EXCEPT !.signature = <<SigOf(fee, e, k)>>, !.prunable = <<PrunableOf(b, c, q)>>,
                    !.rctRaw = <<>>, !.inStep = TRUE]
  <2> HIDE DEF tx, head, ecdh, outpk, bpps, clsag, pseudo
  <2>1. (tx.inStep /\ pseudo.inStep) = TRUE
    BY <1>4, <1>12
  <2> QED BY <1>12, <1>13, <1>14, <2>1, Zenon DEF SigOf, PrunableOf
<1>16. SignedSets(u, n, i, m, o, x, raw, rct, <<>>, <<>>, TRUE, <<SigOf(fee, e, k)>>,
                  <<PrunableOf(b, c, q)>>, <<>>, TRUE)
  BY SignedSet, Zenon
<1> HIDE DEF rct
<1>17. ParseRctSig(tx) = TxOf(u, n, i, m, o, x, raw, <<>>, <<SigOf(fee, e, k)>>, <<PrunableOf(b, c, q)>>, TRUE)
  BY <1>15, <1>16, Zenon DEF SignedSets
<1> QED BY <1>3, <1>17, Zenon DEF rct, SignaturesParse

-----------------------------------------------------------------------------
(* Readers at the end of a wire, and readers out of step: they stay so,        *)
(* whatever is read, and the number of a loop is a number.                     *)

Numbered(s) == IsSeq(s) /\ \A j \in 1 .. Len(s) : s[j].width = "varint" => s[j].value \in Nat

LEMMA NumberedTail ==
    ASSUME NEW s, Numbered(s), s # <<>>
    PROVE  Numbered(Tail(s)) /\ (Head(s).width = "varint" => Head(s).value \in Nat)
<1>1. PICK S : s \in Seq(S)
  BY DEF Numbered, IsSeq
<1>2. /\ Tail(s) \in Seq(S) /\ Len(Tail(s)) = Len(s) - 1 /\ Len(s) \in Nat \ {0}
      /\ \A j \in 1 .. Len(s) - 1 : Tail(s)[j] = s[j + 1]
      /\ Head(s) = s[1]
  BY <1>1, HeadTailProperties, EmptySeq, LenProperties
<1>3. IsSeq(Tail(s))
  BY <1>2 DEF IsSeq
<1>4. ASSUME NEW j \in 1 .. Len(Tail(s)), Tail(s)[j].width = "varint" PROVE Tail(s)[j].value \in Nat
  <2>1. j + 1 \in 1 .. Len(s) /\ Tail(s)[j] = s[j + 1]
    BY <1>2
  <2> QED BY <1>4, <2>1 DEF Numbered
<1>5. 1 \in 1 .. Len(s)
  BY <1>2
<1> QED BY <1>2, <1>3, <1>4, <1>5 DEF Numbered

IsReader(r) == r = [rest |-> r.rest, got |-> r.got, inStep |-> r.inStep]

\* At the end, or out of step.
Stays(end, r) ==
    /\ IsReader(r) /\ Numbered(r.rest)
    /\ end => r.rest = <<>>
    /\ r.inStep = end

GotSets(end, r, g) == Stays(end, [r EXCEPT !.got = g]) /\ [r EXCEPT !.got = g].got = g

LEMMA GotSet ==
    ASSUME NEW end, NEW r, Stays(end, r), NEW g
    PROVE  GotSets(end, r, g)
<1> DEFINE rest == r.rest
           s == r.inStep
           old == r.got
           q == [r EXCEPT !.got = g]
<1>1. r = [rest |-> rest, got |-> old, inStep |-> s]
  BY Zenon DEF Stays, IsReader
<1>2. Numbered(rest) /\ (end => rest = <<>>) /\ s = end
  BY Zenon DEF Stays
<1>3. \A a, b, c : [[rest |-> a, got |-> b, inStep |-> c] EXCEPT !.got = g] = [rest |-> a, got |-> g, inStep |-> c]
  OBVIOUS
<1> HIDE DEF rest, s, old
<1>4. q = [rest |-> rest, got |-> g, inStep |-> s]
  BY <1>1, <1>3, Zenon
<1> HIDE DEF q
<1>5. q.rest = rest /\ q.got = g /\ q.inStep = s
  BY <1>4
<1>6. IsReader(q)
  BY <1>4, <1>5, Zenon DEF IsReader
<1>7. Stays(end, q)
  BY <1>2, <1>5, <1>6, Zenon DEF Stays
<1> QED BY <1>5, <1>7, Zenon DEF q, GotSets

FieldStays(end, r, w) ==
    /\ Stays(end, ReadField(r, w))
    /\ \E v : /\ ReadField(r, w).got = Append(r.got, v) /\ (w = "varint" => v \in Nat)
              /\ end => v = Zero(w)

LEMMA FieldKeeps ==
    ASSUME NEW end \in BOOLEAN, NEW r, Stays(end, r), NEW w
    PROVE  FieldStays(end, r, w)
<1> DEFINE fits == r.rest # <<>> /\ Head(r.rest).width = w
           rest == IF fits THEN Tail(r.rest) ELSE r.rest
           v == IF fits THEN Head(r.rest).value ELSE Zero(w)
           s == r.inStep /\ (fits \/ r.rest = <<>>)
           q == ReadField(r, w)
<1>1. Numbered(r.rest) /\ (end => r.rest = <<>>) /\ r.inStep = end
  BY Zenon DEF Stays
<1>2. q = [rest |-> rest, got |-> Append(r.got, v), inStep |-> s]
  BY Zenon DEF ReadField
<1>3. q.rest = rest /\ q.got = Append(r.got, v) /\ q.inStep = s
  <2> HIDE DEF q, rest, v, s
  <2> QED BY <1>2
<1>4. Numbered(rest) /\ (end => rest = <<>>) /\ s = end
  <2>1. CASE fits
    <3>1. Numbered(Tail(r.rest)) /\ ~end
      BY <1>1, <2>1, NumberedTail, Zenon
    <3> QED BY <1>1, <2>1, <3>1, Zenon
  <2>2. CASE ~fits
    <3>1. rest = r.rest
      BY <2>2, Zenon
    <3>2. s = end
      BY <1>1, <2>2, Zenon
    <3> QED BY <1>1, <3>1, <3>2, Zenon
  <2> QED BY <2>1, <2>2
<1>5. (w = "varint" => v \in Nat) /\ (end => v = Zero(w))
  <2>1. CASE fits
    <3>1. Head(r.rest).width = "varint" => Head(r.rest).value \in Nat
      BY <1>1, <2>1, NumberedTail, Zenon
    <3> QED BY <1>1, <2>1, <3>1, Zenon
  <2>2. CASE ~fits
    <3>1. Zero("varint") \in Nat
      BY DEF Zero
    <3> QED BY <2>2, <3>1, Zenon
  <2> QED BY <2>1, <2>2
<1> HIDE DEF q, rest, v, s
<1>6. IsReader(q)
  BY <1>2, <1>3, Zenon DEF IsReader
<1> QED BY <1>3, <1>4, <1>5, <1>6, Zenon DEF Stays, FieldStays, q

\* The steps of ReadAll, whatever is read.
AllReads(f, r, w, result) ==
    /\ f[0] = [r EXCEPT !.got = <<>>] /\ f[Len(w)] = result
    /\ \A i \in 1 .. Len(w) : f[i] = ReadField(f[i - 1], w[i])

LEMMA ReadsExist ==
    ASSUME NEW r, NEW w, NEW n \in Nat
    PROVE  \E f : Reads(f, r, w, n)
<1> DEFINE T == {k \in Nat : \E f : Reads(f, r, w, k)}
<1>1. 0 \in T
  <2> DEFINE f == [i \in 0 .. 0 |-> r]
  <2>1. f = [i \in 0 .. 0 |-> ReadStep(f, r, w, i)]
    <3>1. \A i \in 0 .. 0 : i = 0
      OBVIOUS
    <3>2. \A i \in 0 .. 0 : ReadStep(f, r, w, i) = r
      <4> HIDE DEF f
      <4> QED BY <3>1, Zenon DEF ReadStep
    <3> QED BY <3>2, Zenon
  <2> HIDE DEF f
  <2> QED BY <2>1, Zenon DEF Reads
<1>2. ASSUME NEW k \in T PROVE k + 1 \in T
  <2>1. PICK f : Reads(f, r, w, k)
    OBVIOUS
  <2>2. \A i \in 0 .. k : f[i] = ReadStep(f, r, w, i)
    BY <2>1, Zenon DEF Reads
  <2> DEFINE last == ReadField(f[k], w[k + 1])
             g == [i \in 0 .. k + 1 |-> IF i <= k THEN f[i] ELSE last]
  <2>3. /\ \A i \in 0 .. k : g[i] = f[i]
        /\ g[k + 1] = last
    <3> HIDE DEF last
    <3> QED OBVIOUS
  <2>4. ASSUME NEW i \in 0 .. k + 1 PROVE g[i] = ReadStep(g, r, w, i)
    <3> HIDE DEF g, last
    <3>1. CASE i = 0
      <4>1. 0 \in 0 .. k
        OBVIOUS
      <4> QED BY <2>2, <2>3, <3>1, <4>1, Zenon DEF ReadStep
    <3>2. CASE i # 0 /\ i <= k
      <4>1. i \in 0 .. k /\ i - 1 \in 0 .. k
        BY <3>2
      <4> QED BY <2>2, <2>3, <3>2, <4>1, Zenon DEF ReadStep
    <3>3. CASE i = k + 1
      <4>1. k \in 0 .. k /\ (k + 1) - 1 = k /\ k + 1 # 0
        OBVIOUS
      <4> QED BY <2>3, <3>3, <4>1, Zenon DEF ReadStep, last
    <3>4. i <= k \/ i = k + 1
      OBVIOUS
    <3> QED BY <3>1, <3>2, <3>3, <3>4, Zenon
  <2>5. g = [i \in 0 .. k + 1 |-> g[i]]
    <3> HIDE DEF last
    <3> QED OBVIOUS
  <2> HIDE DEF g
  <2>6. Reads(g, r, w, k + 1)
    BY <2>4, <2>5, Zenon DEF Reads
  <2> QED BY <2>6
<1> HIDE DEF T
<1>3. T \in SUBSET Nat
  BY DEF T
<1>4. T = Nat
  BY <1>1, <1>2, <1>3, Induct
<1> QED BY <1>4 DEF T

LEMMA ReadAllIs ==
    ASSUME NEW r, NEW w, Len(w) \in Nat
    PROVE  \E f : AllReads(f, r, w, ReadAll(r, w))
<1> DEFINE n == Len(w)
           r0 == [r EXCEPT !.got = <<>>]
           f == CHOOSE q : Reads(q, r0, w, n)
<1>1. ReadAll(r, w) = f[n]
  <2> HIDE DEF n
  <2>1. ReadAll(r, w) = (CHOOSE q : Reads(q, r0, w, Len(w)))[Len(w)]
    BY Zenon DEF ReadAll, Loop, Reads, ReadStep
  <2> QED BY <2>1, Zenon DEF n
<1>2. Reads(f, r0, w, n)
  <2> HIDE DEF n, r0
  <2>1. \E q : Reads(q, r0, w, n)
    BY ReadsExist, Zenon DEF n
  <2> QED BY <2>1, Zenon
<1> HIDE DEF f, r0
<1>3. \A i \in 0 .. n : f[i] = ReadStep(f, r0, w, i)
  <2> HIDE DEF n
  <2>1. \A q : Reads(q, r0, w, n) => \A i \in 0 .. n : q[i] = ReadStep(q, r0, w, i)
    BY Zenon DEF Reads
  <2> QED BY <1>2, <2>1, Zenon
<1>4. 0 \in 0 .. n /\ \A i \in 1 .. n : i \in 0 .. n /\ i # 0
  OBVIOUS
<1>5. f[0] = r0 /\ \A i \in 1 .. n : f[i] = ReadField(f[i - 1], w[i])
  BY <1>3, <1>4, Zenon DEF ReadStep
<1> QED BY <1>1, <1>5, Zenon DEF AllReads, r0

LEMMA AppendIsSeq ==
    ASSUME NEW s, IsSeq(s), NEW x
    PROVE  IsSeq(Append(s, x)) /\ Append(s, x) # <<>>
<1>1. PICK S : s \in Seq(S)
  BY DEF IsSeq
<1>2. s \in Seq(S \cup {x}) /\ x \in S \cup {x}
  BY <1>1, SeqMonotonic
<1>3. Append(s, x) \in Seq(S \cup {x}) /\ Append(s, x) # <<>>
  BY <1>2, AppendProperties
<1> QED BY <1>3, Zenon DEF IsSeq

LEMMA AllKeeps ==
    ASSUME NEW end \in BOOLEAN, NEW r, Stays(end, r), NEW w, Len(w) \in Nat
    PROVE  Stays(end, ReadAll(r, w)) /\ IsSeq(ReadAll(r, w).got)
<1>1. PICK f : AllReads(f, r, w, ReadAll(r, w))
  BY ReadAllIs
<1> DEFINE n == Len(w)
           T == {k \in Nat : k <= n => Stays(end, f[k]) /\ IsSeq(f[k].got)}
<1>2. 0 \in T
  <2>1. GotSets(end, r, <<>>)
    BY GotSet, Zenon
  <2>2. Stays(end, f[0]) /\ IsSeq(f[0].got)
    BY <1>1, <2>1, SmallSeqs, Zenon DEF AllReads, GotSets
  <2> QED BY <2>2
<1>3. ASSUME NEW k \in T PROVE k + 1 \in T
  <2> SUFFICES ASSUME k + 1 <= n PROVE Stays(end, f[k + 1]) /\ IsSeq(f[k + 1].got)
    OBVIOUS
  <2>1. Stays(end, f[k]) /\ IsSeq(f[k].got) /\ k + 1 \in 1 .. n /\ (k + 1) - 1 = k
    OBVIOUS
  <2>2. f[k + 1] = ReadField(f[k], w[k + 1])
    <3> HIDE DEF T
    <3> QED BY <1>1, <2>1, Zenon DEF AllReads
  <2>3. Stays(end, ReadField(f[k], w[k + 1])) /\ IsSeq(ReadField(f[k], w[k + 1]).got)
    <3> HIDE DEF T
    <3>1. FieldStays(end, f[k], w[k + 1])
      BY <2>1, FieldKeeps, Zenon
    <3> QED BY <2>1, <3>1, AppendIsSeq, Zenon DEF FieldStays
  <2> QED BY <2>2, <2>3, Zenon
<1>4. T = Nat
  <2>1. T \in SUBSET Nat
    OBVIOUS
  <2> HIDE DEF T
  <2> QED BY <1>2, <1>3, <2>1, Induct
<1>5. Stays(end, f[n]) /\ IsSeq(f[n].got)
  BY <1>4
<1> QED BY <1>1, <1>5, Zenon DEF AllReads, n

\* One number, and the first of two.
LEMMA OneKeeps ==
    ASSUME NEW end \in BOOLEAN, NEW r, Stays(end, r)
    PROVE  Stays(end, ReadAll(r, <<"varint">>)) /\ ReadAll(r, <<"varint">>).got[1] \in Nat
<1> DEFINE w == <<"varint">>
<1>1. Len(w) = 1 /\ w[1] = "varint" /\ 1 \in 1 .. 1 /\ 1 - 1 = 0 /\ 1 \in Nat
  OBVIOUS
<1> HIDE DEF w
<1>2. PICK f : AllReads(f, r, w, ReadAll(r, w))
  BY <1>1, ReadAllIs
<1>3. f[0] = [r EXCEPT !.got = <<>>] /\ ReadAll(r, w) = ReadField(f[0], "varint")
  BY <1>1, <1>2, Zenon DEF AllReads
<1>4. Stays(end, f[0]) /\ f[0].got = <<>>
  <2>1. GotSets(end, r, <<>>)
    BY GotSet, Zenon
  <2> QED BY <1>3, <2>1, Zenon DEF GotSets
<1>5. PICK v : ReadAll(r, w).got = Append(<<>>, v) /\ v \in Nat
  <2>1. FieldStays(end, f[0], "varint")
    BY <1>4, FieldKeeps, Zenon
  <2> QED BY <1>3, <1>4, <2>1, Zenon DEF FieldStays
<1>6. Append(<<>>, v)[1] = v
  OBVIOUS
<1>7. ReadAll(r, w).got[1] \in Nat
  BY <1>5, <1>6, Zenon
<1>8. Stays(end, ReadAll(r, w))
  BY <1>1, AllKeeps, Zenon
<1> QED BY <1>7, <1>8 DEF w

-----------------------------------------------------------------------------
(* The readers of one thing keep a reader at the end, or out of step, so.      *)

LEMMA TimesLen ==
    ASSUME NEW n \in Nat, NEW w
    PROVE  Len(Times(n, w)) \in Nat
<1>1. Tuple(Times(n, w), n)
  BY DEF Times, Tuple
<1> QED BY <1>1, TupleIsSeq, Zenon

\* What has been read can be written again.
Shape(kind, v) ==
    /\ kind = "clsag" => IsSeq(v.S)
    /\ kind = "bpp" => IsSeq(v.head) /\ IsSeq(v.L) /\ IsSeq(v.R)

ItemStays(end, kind, par, r, i) ==
    Stays(end, Item(kind, par, r, i)) /\ Shape(kind, Item(kind, par, r, i).got)

LEMMA EcdhStays ==
    ASSUME NEW end \in BOOLEAN, NEW r, Stays(end, r), NEW type, NEW i
    PROVE  ItemStays(end, "ecdh", type, r, i)
<1> DEFINE all == ReadAll(r, EcdhWidths(type))
           g == all.got[Len(all.got)]
<1>1. Len(EcdhWidths(type)) \in Nat
  BY DEF EcdhWidths
<1>2. Stays(end, all)
  BY <1>1, AllKeeps, Zenon
<1>3. ReadEcdh(r, type) = [all EXCEPT !.got = g]
  BY Zenon DEF ReadEcdh
<1> HIDE DEF all, g
<1>4. GotSets(end, all, g)
  BY <1>2, GotSet, Zenon
<1>5. Item("ecdh", type, r, i) = ReadEcdh(r, type)
  BY Zenon DEF Item
<1>6. \A v : Shape("ecdh", v)
  BY DEF Shape
<1> QED BY <1>3, <1>4, <1>5, <1>6, Zenon DEF GotSets, ItemStays

LEMMA ClsagStays ==
    ASSUME NEW end \in BOOLEAN, NEW r, Stays(end, r), NEW ins, NEW i, Len(ins[i].offsets) \in Nat
    PROVE  ItemStays(end, "clsag", ins, r, i)
<1> DEFINE s == ReadAll(r, Times(Len(ins[i].offsets), "hash"))
           rest == ReadAll(s, <<"hash", "hash">>)
           g == [S |-> s.got, C1 |-> rest.got[1], D |-> rest.got[2]]
<1>1. Len(Times(Len(ins[i].offsets), "hash")) \in Nat /\ Len(<<"hash", "hash">>) \in Nat
  <2>1. Len(<<"hash", "hash">>) \in Nat
    OBVIOUS
  <2> QED BY <2>1, TimesLen, Zenon
<1>2. Stays(end, s) /\ IsSeq(s.got)
  BY <1>1, AllKeeps, Zenon
<1>3. Stays(end, rest)
  <2> HIDE DEF s
  <2> QED BY <1>1, <1>2, AllKeeps, Zenon
<1>4. ReadClsag(r, ins[i]) = [rest EXCEPT !.got = g]
  BY Zenon DEF ReadClsag
<1>5. Shape("clsag", g)
  <2> HIDE DEF s, rest
  <2>1. g.S = s.got
    OBVIOUS
  <2> HIDE DEF g
  <2> QED BY <1>2, <2>1, Zenon DEF Shape
<1> HIDE DEF s, rest, g
<1>6. GotSets(end, rest, g)
  BY <1>3, GotSet, Zenon
<1>7. Item("clsag", ins, r, i) = ReadClsag(r, ins[i])
  BY Zenon DEF Item
<1> QED BY <1>4, <1>5, <1>6, <1>7, Zenon DEF GotSets, ItemStays

LEMMA BppStays ==
    ASSUME NEW end \in BOOLEAN, NEW r, Stays(end, r), NEW par, NEW i
    PROVE  ItemStays(end, "bpp", par, r, i)
<1> DEFINE head == ReadAll(r, Times(6, "hash"))
           ls == ReadAll(head, <<"varint">>)
           l == ReadAll(ls, Times(ls.got[1], "hash"))
           rs == ReadAll(l, <<"varint">>)
           rr == ReadAll(rs, Times(rs.got[1], "hash"))
           g == [head |-> head.got, L |-> l.got, R |-> rr.got]
<1>1. Stays(end, head) /\ IsSeq(head.got)
  <2>1. 6 \in Nat
    OBVIOUS
  <2>2. Len(Times(6, "hash")) \in Nat
    BY <2>1, TimesLen, Zenon
  <2> QED BY <2>2, AllKeeps, Zenon
<1>2. Stays(end, ls) /\ ls.got[1] \in Nat
  <2> HIDE DEF head
  <2> QED BY <1>1, OneKeeps, Zenon
<1>3. Stays(end, l) /\ IsSeq(l.got)
  <2> HIDE DEF ls
  <2>1. Len(Times(ls.got[1], "hash")) \in Nat
    BY <1>2, TimesLen, Zenon
  <2> QED BY <1>2, <2>1, AllKeeps, Zenon
<1>4. Stays(end, rs) /\ rs.got[1] \in Nat
  <2> HIDE DEF l
  <2> QED BY <1>3, OneKeeps, Zenon
<1>5. Stays(end, rr) /\ IsSeq(rr.got)
  <2> HIDE DEF rs
  <2>1. Len(Times(rs.got[1], "hash")) \in Nat
    BY <1>4, TimesLen, Zenon
  <2> QED BY <1>4, <2>1, AllKeeps, Zenon
<1>6. ReadBpp(r) = [rr EXCEPT !.got = g]
  BY Zenon DEF ReadBpp
<1>7. Shape("bpp", g)
  <2> HIDE DEF head, l, rr
  <2>1. g.head = head.got /\ g.L = l.got /\ g.R = rr.got
    OBVIOUS
  <2> HIDE DEF g
  <2> QED BY <1>1, <1>3, <1>5, <2>1, Zenon DEF Shape
<1> HIDE DEF head, l, rr, g
<1>8. GotSets(end, rr, g)
  BY <1>5, GotSet, Zenon
<1>9. Item("bpp", par, r, i) = ReadBpp(r)
  BY Zenon DEF Item
<1> QED BY <1>6, <1>7, <1>8, <1>9, Zenon DEF GotSets, ItemStays

\* The loops over them.
LEMMA ItemsExist ==
    ASSUME NEW kind, NEW par, NEW r, NEW n \in Nat
    PROVE  \E f : AreItems(f, kind, par, r, n)
<1> DEFINE T == {k \in Nat : \E f : AreItems(f, kind, par, r, k)}
<1>1. 0 \in T
  <2> DEFINE f == [i \in 0 .. 0 |-> r]
  <2>1. f = [i \in 0 .. 0 |-> ItemStep(f, kind, par, r, i)]
    <3>1. \A i \in 0 .. 0 : i = 0
      OBVIOUS
    <3>2. \A i \in 0 .. 0 : ItemStep(f, kind, par, r, i) = r
      <4> HIDE DEF f
      <4> QED BY <3>1, Zenon DEF ItemStep
    <3> QED BY <3>2, Zenon
  <2> HIDE DEF f
  <2> QED BY <2>1, Zenon DEF AreItems
<1>2. ASSUME NEW k \in T PROVE k + 1 \in T
  <2>1. PICK f : AreItems(f, kind, par, r, k)
    OBVIOUS
  <2>2. \A i \in 0 .. k : f[i] = ItemStep(f, kind, par, r, i)
    BY <2>1, Zenon DEF AreItems
  <2> DEFINE last == OneMore(f[k], Item(kind, par, f[k], k + 1))
             g == [i \in 0 .. k + 1 |-> IF i <= k THEN f[i] ELSE last]
  <2>3. /\ \A i \in 0 .. k : g[i] = f[i]
        /\ g[k + 1] = last
    <3> HIDE DEF last
    <3> QED OBVIOUS
  <2>4. ASSUME NEW i \in 0 .. k + 1 PROVE g[i] = ItemStep(g, kind, par, r, i)
    <3> HIDE DEF g, last
    <3>1. CASE i = 0
      <4>1. 0 \in 0 .. k
        OBVIOUS
      <4> QED BY <2>2, <2>3, <3>1, <4>1, Zenon DEF ItemStep
    <3>2. CASE i # 0 /\ i <= k
      <4>1. i \in 0 .. k /\ i - 1 \in 0 .. k
        BY <3>2
      <4> QED BY <2>2, <2>3, <3>2, <4>1, Zenon DEF ItemStep
    <3>3. CASE i = k + 1
      <4>1. k \in 0 .. k /\ (k + 1) - 1 = k /\ k + 1 # 0
        OBVIOUS
      <4> QED BY <2>3, <3>3, <4>1, Zenon DEF ItemStep, last
    <3>4. i <= k \/ i = k + 1
      OBVIOUS
    <3> QED BY <3>1, <3>2, <3>3, <3>4, Zenon
  <2>5. g = [i \in 0 .. k + 1 |-> g[i]]
    <3> HIDE DEF last
    <3> QED OBVIOUS
  <2> HIDE DEF g
  <2>6. AreItems(g, kind, par, r, k + 1)
    BY <2>4, <2>5, Zenon DEF AreItems
  <2> QED BY <2>6
<1> HIDE DEF T
<1>3. T \in SUBSET Nat
  BY DEF T
<1>4. T = Nat
  BY <1>1, <1>2, <1>3, Induct
<1> QED BY <1>4 DEF T

\* A sequence of things that can be written again.
Got(kind, s) == IsSeq(s) /\ \A j \in 1 .. Len(s) : Shape(kind, s[j])

LEMMA GotMore ==
    ASSUME NEW kind, NEW s, Got(kind, s), NEW v, Shape(kind, v)
    PROVE  Got(kind, Append(s, v))
<1>1. PICK S : s \in Seq(S)
  BY DEF Got, IsSeq
<1>2. s \in Seq(S \cup {v}) /\ v \in S \cup {v}
  BY <1>1, SeqMonotonic
<1>3. /\ Len(Append(s, v)) = Len(s) + 1 /\ Len(s) \in Nat
      /\ Append(s, v)[Len(s) + 1] = v /\ \A j \in 1 .. Len(s) : Append(s, v)[j] = s[j]
  BY <1>2, AppendElements, LenProperties
<1>4. ASSUME NEW j \in 1 .. Len(Append(s, v)) PROVE Shape(kind, Append(s, v)[j])
  <2>1. j \in 1 .. Len(s) \/ j = Len(s) + 1
    BY <1>3
  <2> QED BY <1>3, <2>1, Zenon DEF Got
<1> QED BY <1>4, AppendIsSeq, Zenon DEF Got

AllItemsStay(end, kind, par, n) ==
    \A i \in 1 .. n : \A r : Stays(end, r) => ItemStays(end, kind, par, r, i)

Kept(end, kind, r) == Stays(end, r) /\ Got(kind, r.got)

LEMMA OneMoreKept ==
    ASSUME NEW end \in BOOLEAN, NEW kind, NEW r, Kept(end, kind, r), NEW one, Stays(end, one),
           Shape(kind, one.got)
    PROVE  Kept(end, kind, OneMore(r, one))
<1> DEFINE g == Append(r.got, one.got)
<1>1. Got(kind, g)
  BY GotMore, Zenon DEF Kept
<1> HIDE DEF g
<1>2. GotSets(end, one, g)
  BY GotSet, Zenon
<1> QED BY <1>1, <1>2, Zenon DEF GotSets, OneMore, Kept, g

LEMMA ItemsStay ==
    ASSUME NEW end \in BOOLEAN, NEW kind, NEW par, NEW n \in Nat, AllItemsStay(end, kind, par, n),
           NEW r, Kept(end, kind, r), NEW f, AreItems(f, kind, par, r, n)
    PROVE  Kept(end, kind, f[n])
<1> DEFINE T == {k \in Nat : k <= n => Kept(end, kind, f[k])}
<1>1. \A i \in 0 .. n : f[i] = ItemStep(f, kind, par, r, i)
  BY Zenon DEF AreItems
<1>2. 0 \in T
  <2>1. 0 \in 0 .. n
    OBVIOUS
  <2>2. f[0] = r
    BY <1>1, <2>1, Zenon DEF ItemStep
  <2> QED BY <2>2
<1>3. ASSUME NEW k \in T PROVE k + 1 \in T
  <2> SUFFICES ASSUME k + 1 <= n PROVE Kept(end, kind, f[k + 1])
    OBVIOUS
  <2>1. /\ Kept(end, kind, f[k]) /\ k + 1 \in 0 .. n /\ k + 1 \in 1 .. n /\ k + 1 # 0
        /\ (k + 1) - 1 = k
    OBVIOUS
  <2> HIDE DEF T
  <2>2. f[k + 1] = OneMore(f[k], Item(kind, par, f[k], k + 1))
    BY <1>1, <2>1, Zenon DEF ItemStep
  <2>3. ItemStays(end, kind, par, f[k], k + 1)
    BY <2>1, Zenon DEF AllItemsStay, Kept
  <2> QED BY <2>1, <2>2, <2>3, OneMoreKept, Zenon DEF ItemStays
<1>4. T = Nat
  <2>1. T \in SUBSET Nat
    OBVIOUS
  <2> HIDE DEF T
  <2> QED BY <1>2, <1>3, <2>1, Induct
<1> QED BY <1>4

LEMMA EmptyGot == \A kind : Got(kind, <<>>)
<1>1. IsSeq(<<>>) /\ Len(<<>>) = 0 /\ \A j : ~(j \in 1 .. 0)
  BY SmallSeqs
<1> QED BY <1>1, Zenon DEF Got

LEMMA EcdhsStay ==
    ASSUME NEW end \in BOOLEAN, NEW r, Stays(end, r), NEW type, NEW n \in Nat
    PROVE  Kept(end, "ecdh", ReadEcdhs(r, type, n))
<1> DEFINE r0 == [r EXCEPT !.got = <<>>]
<1>1. Kept(end, "ecdh", r0)
  <2>1. GotSets(end, r, <<>>)
    BY GotSet, Zenon
  <2> QED BY <2>1, EmptyGot, Zenon DEF GotSets, Kept
<1>2. AllItemsStay(end, "ecdh", type, n)
  BY EcdhStays, Zenon DEF AllItemsStay
<1>3. ReadEcdhs(r, type, n) = (CHOOSE f : AreEcdhs(f, type, r0, n))[n]
  BY Zenon DEF ReadEcdhs, ReadEach, Loop, AreEcdhs, EcdhStep, OneMore
<1> HIDE DEF r0
<1>4. ASSUME NEW f PROVE AreEcdhs(f, type, r0, n) <=> AreItems(f, "ecdh", type, r0, n)
  <2>1. \A i : EcdhStep(f, type, r0, i) = ItemStep(f, "ecdh", type, r0, i)
    BY Zenon DEF EcdhStep, ItemStep, Item
  <2>2. [i \in 0 .. n |-> EcdhStep(f, type, r0, i)] = [i \in 0 .. n |-> ItemStep(f, "ecdh", type, r0, i)]
    BY <2>1
  <2> QED BY <2>2, Zenon DEF AreEcdhs, AreItems
<1>5. \E f : AreItems(f, "ecdh", type, r0, n)
  BY ItemsExist, Zenon
<1>6. \A f : AreItems(f, "ecdh", type, r0, n) => Kept(end, "ecdh", f[n])
  BY <1>1, <1>2, ItemsStay, Zenon
<1> QED BY <1>3, <1>4, <1>5, <1>6, Zenon

LEMMA BppsStay ==
    ASSUME NEW end \in BOOLEAN, NEW r, Stays(end, r), NEW n \in Nat
    PROVE  Kept(end, "bpp", ReadEach(ReadBpp, r, n))
<1> DEFINE r0 == [r EXCEPT !.got = <<>>]
<1>1. Kept(end, "bpp", r0)
  <2>1. GotSets(end, r, <<>>)
    BY GotSet, Zenon
  <2> QED BY <2>1, EmptyGot, Zenon DEF GotSets, Kept
<1>2. AllItemsStay(end, "bpp", <<>>, n)
  BY BppStays, Zenon DEF AllItemsStay
<1>3. ReadEach(ReadBpp, r, n) = (CHOOSE f : AreBpps(f, r0, n))[n]
  BY Zenon DEF ReadEach, Loop, AreBpps, BppStep, OneMore
<1> HIDE DEF r0
<1>4. ASSUME NEW f PROVE AreBpps(f, r0, n) <=> AreItems(f, "bpp", <<>>, r0, n)
  <2>1. \A i : BppStep(f, r0, i) = ItemStep(f, "bpp", <<>>, r0, i)
    BY Zenon DEF BppStep, ItemStep, Item
  <2>2. [i \in 0 .. n |-> BppStep(f, r0, i)] = [i \in 0 .. n |-> ItemStep(f, "bpp", <<>>, r0, i)]
    BY <2>1
  <2> QED BY <2>2, Zenon DEF AreBpps, AreItems
<1>5. \E f : AreItems(f, "bpp", <<>>, r0, n)
  BY ItemsExist, Zenon
<1>6. \A f : AreItems(f, "bpp", <<>>, r0, n) => Kept(end, "bpp", f[n])
  BY <1>1, <1>2, ItemsStay, Zenon
<1> QED BY <1>3, <1>4, <1>5, <1>6, Zenon

OffsetsCounted(ins, n) == \A j \in 1 .. n : Len(ins[j].offsets) \in Nat

LEMMA ClsagsStay ==
    ASSUME NEW end \in BOOLEAN, NEW r, Stays(end, r), NEW n \in Nat, NEW ins, OffsetsCounted(ins, n)
    PROVE  Kept(end, "clsag", ReadClsags(r, ins, n))
<1> DEFINE r0 == [r EXCEPT !.got = <<>>]
<1>1. Kept(end, "clsag", r0)
  <2>1. GotSets(end, r, <<>>)
    BY GotSet, Zenon
  <2> QED BY <2>1, EmptyGot, Zenon DEF GotSets, Kept
<1>2. AllItemsStay(end, "clsag", ins, n)
  BY ClsagStays, Zenon DEF AllItemsStay, OffsetsCounted
<1>3. ReadClsags(r, ins, n) = (CHOOSE f : AreClsags(f, ins, r0, n))[n]
  BY Zenon DEF ReadClsags, Loop, AreClsags, ClsagStep, OneMore
<1> HIDE DEF r0
<1>4. ASSUME NEW f PROVE AreClsags(f, ins, r0, n) <=> AreItems(f, "clsag", ins, r0, n)
  <2>1. \A i : ClsagStep(f, ins, r0, i) = ItemStep(f, "clsag", ins, r0, i)
    BY Zenon DEF ClsagStep, ItemStep, Item
  <2>2. [i \in 0 .. n |-> ClsagStep(f, ins, r0, i)] = [i \in 0 .. n |-> ItemStep(f, "clsag", ins, r0, i)]
    BY <2>1
  <2> QED BY <2>2, Zenon DEF AreClsags, AreItems
<1>5. \E f : AreItems(f, "clsag", ins, r0, n)
  BY ItemsExist, Zenon
<1>6. \A f : AreItems(f, "clsag", ins, r0, n) => Kept(end, "clsag", f[n])
  BY <1>1, <1>2, ItemsStay, Zenon
<1> QED BY <1>3, <1>4, <1>5, <1>6, Zenon

-----------------------------------------------------------------------------
(* ParseRctSig, stage by stage.                                                *)

RctHead(raw) == ReadAll(Reader(raw), <<"varint", "varint">>)
RctEcdh(raw, m) == ReadEcdhs(RctHead(raw), RctHead(raw).got[1], m)
RctOutPk(e, m) == ReadAll(e, Times(m, "hash"))
RctCount(e, m) == ReadAll(RctOutPk(e, m), <<"varint">>)
RctBpps(e, m) == ReadEach(ReadBpp, RctCount(e, m), RctCount(e, m).got[1])
RctClsags(e, m, ins, n) == ReadClsags(RctBpps(e, m), ins, n)
RctPseudo(e, m, ins, n) == ReadAll(RctClsags(e, m, ins, n), Times(n, "hash"))

RctSigned(raw, m) ==
    LET head == RctHead(raw)
        e    == RctEcdh(raw, m)
    IN  [type |-> head.got[1], fee |-> head.got[2], ecdhInfo |-> e.got, outPk |-> RctOutPk(e, m).got]
RctProved(e, m, ins, n) ==
    [bpp |-> RctBpps(e, m).got, clsags |-> RctClsags(e, m, ins, n).got,
     pseudoOuts |-> RctPseudo(e, m, ins, n).got]

Stages(tx) ==
    LET m == Len(tx.outputs)
        e == RctEcdh(tx.rctRaw, m)
        pseudo == RctPseudo(e, m, tx.inputs, tx.vinCount)
    IN  ParseRctSig(tx) = IF tx.rctRaw = <<>> THEN tx
                          ELSE [tx EXCEPT !.signature = <<RctSigned(tx.rctRaw, m)>>,
                                          !.prunable  = <<RctProved(e, m, tx.inputs, tx.vinCount)>>,
                                          !.rctRaw    = pseudo.rest,
                                          !.inStep    = tx.inStep /\ pseudo.inStep]

LEMMA InStages == \A tx : Stages(tx)
BY Zenon DEF Stages, ParseRctSig, RctHead, RctEcdh, RctOutPk, RctCount, RctBpps, RctClsags,
             RctPseudo, RctSigned, RctProved, ReadEcdhs, ReadClsags

\* Behind the amounts.
TailStays(end, e, m, ins, n) ==
    /\ Stays(end, RctPseudo(e, m, ins, n)) /\ IsSeq(RctOutPk(e, m).got)
    /\ Got("bpp", RctBpps(e, m).got) /\ Got("clsag", RctClsags(e, m, ins, n).got)
    /\ IsSeq(RctPseudo(e, m, ins, n).got)

LEMMA TailKeeps ==
    ASSUME NEW end \in BOOLEAN, NEW e, Stays(end, e), NEW m \in Nat, NEW n \in Nat, NEW ins,
           OffsetsCounted(ins, n)
    PROVE  TailStays(end, e, m, ins, n)
<1>1. Stays(end, RctOutPk(e, m)) /\ IsSeq(RctOutPk(e, m).got)
  BY TimesLen, AllKeeps, Zenon DEF RctOutPk
<1>2. Stays(end, RctCount(e, m)) /\ RctCount(e, m).got[1] \in Nat
  BY <1>1, OneKeeps, Zenon DEF RctCount
<1>3. Kept(end, "bpp", RctBpps(e, m))
  BY <1>2, BppsStay, Zenon DEF RctBpps
<1>4. Kept(end, "clsag", RctClsags(e, m, ins, n))
  BY <1>3, ClsagsStay, Zenon DEF RctClsags, Kept
<1>5. Stays(end, RctPseudo(e, m, ins, n)) /\ IsSeq(RctPseudo(e, m, ins, n).got)
  BY <1>4, TimesLen, AllKeeps, Zenon DEF RctPseudo, Kept
<1> QED BY <1>1, <1>3, <1>4, <1>5, Zenon DEF TailStays, Kept

\* Out of step once, out of step for ever.
LEMMA StaysOutOfStep ==
    ASSUME NEW tx, IsTx(tx), tx.inStep = FALSE
    PROVE  /\ IsTx(ParseTx(tx)) /\ ParseTx(tx).inStep = FALSE
           /\ IsTx(ParseRctSig(tx)) /\ ParseRctSig(tx).inStep = FALSE
<1> DEFINE u == tx.unlock
           n == tx.vinCount
           i == tx.inputs
           m == tx.voutCount
           o == tx.outputs
           x == tx.extra
           raw == tx.raw
           w == tx.rctRaw
           s == tx.signature
           p == tx.prunable
<1>1. tx = TxOf(u, n, i, m, o, x, raw, w, s, p, FALSE)
  BY Zenon DEF IsTx
<1>2. ASSUME NEW u1, NEW n1, NEW i1, NEW m1, NEW o1, NEW x1, NEW w1, NEW s1, NEW p1, NEW y,
             y = TxOf(u1, n1, i1, m1, o1, x1, raw, w1, s1, p1, FALSE)
      PROVE  IsTx(y) /\ y.inStep = FALSE
  <2>1. FieldsAre(u1, n1, i1, m1, o1, x1, raw, w1, s1, p1, FALSE, y)
    BY <1>2, TxParts, Zenon
  <2> QED BY <1>2, <2>1, Zenon DEF FieldsAre, IsTx
<1>3. \E u1, n1, i1, m1, o1, x1, w1 :
         ParseTx(tx) = TxOf(u1, n1, i1, m1, o1, x1, raw, w1, s, p, FALSE)
  <2> DEFINE u1 == TxHead(tx.raw).got[2]
             n1 == TxHead(tx.raw).got[3]
             i1 == tx.inputs \o TxIns(tx.raw).got
             m1 == TxVouts(tx.raw).got[1]
             o1 == tx.outputs \o TxOuts(tx.raw).got
             x1 == TxExtra(tx.raw).got[1]
             w1 == TxExtra(tx.raw).rest
  <2>1. ParseTx(tx) = [tx EXCEPT !.unlock = u1, !.vinCount = n1, !.inputs = i1, !.voutCount = m1,
                                 !.outputs = o1, !.extra = x1, !.rctRaw = w1, !.inStep = FALSE]
    <3>1. ParseStages(tx)
      BY InParseStages, Zenon
    <3>2. (tx.inStep /\ TxExtra(tx.raw).inStep) = FALSE
      OBVIOUS
    <3> QED BY <3>1, <3>2, Zenon DEF ParseStages
  <2> HIDE DEF u, n, i, m, o, x, raw, w, s, p, u1, n1, i1, m1, o1, x1, w1
  <2>2. ParsedSets(u, n, i, m, o, x, raw, w, s, p, FALSE, u1, n1, i1, m1, o1, x1, w1, FALSE)
    BY ParsedSet, Zenon
  <2>3. ParseTx(tx) = TxOf(u1, n1, i1, m1, o1, x1, raw, w1, s, p, FALSE)
    BY <1>1, <2>1, <2>2, Zenon DEF ParsedSets
  <2> QED BY <2>3, Zenon
<1>4. \E w1, s1, p1 : ParseRctSig(tx) = TxOf(u, n, i, m, o, x, raw, w1, s1, p1, FALSE)
  <2> DEFINE e == RctEcdh(tx.rctRaw, Len(tx.outputs))
             w1 == RctPseudo(e, Len(tx.outputs), tx.inputs, tx.vinCount).rest
             s1 == <<RctSigned(tx.rctRaw, Len(tx.outputs))>>
             p1 == <<RctProved(e, Len(tx.outputs), tx.inputs, tx.vinCount)>>
             b == tx.rctRaw = <<>>
  <2>1. ParseRctSig(tx) = IF b THEN tx
                          ELSE [tx EXCEPT !.signature = s1, !.prunable = p1, !.rctRaw = w1, !.inStep = FALSE]
    <3>1. Stages(tx)
      BY InStages, Zenon
    <3>2. (tx.inStep /\ RctPseudo(e, Len(tx.outputs), tx.inputs, tx.vinCount).inStep) = FALSE
      OBVIOUS
    <3> QED BY <3>1, <3>2, Zenon DEF Stages
  <2> HIDE DEF u, n, i, m, o, x, raw, w, s, p, w1, s1, p1, b
  <2>2. SignedSets(u, n, i, m, o, x, raw, w, s, p, FALSE, s1, p1, w1, FALSE)
    BY SignedSet, Zenon
  <2> QED BY <1>1, <2>1, <2>2, Zenon DEF SignedSets
<1> HIDE DEF u, n, i, m, o, x, raw, w, s, p
<1> QED BY <1>2, <1>3, <1>4, Zenon

-----------------------------------------------------------------------------
(* What the builder leaves for the receiver: the key, the extra field and the  *)
(* derivation of each output.                                                  *)

\* CalcExtra is step 5 ...
KeyMade ==
    /\ PayeePositions # {}
    /\ publicKey = TxPublicKey
    /\ extra = <<[publicKey |-> TxPublicKey,
                  paymentId |-> EncryptPaymentID(ExtractPaymentID(LastPayee), PubView(LastPayee),
                                                 TxSecret)]>>

\* ... and CalcOutputs step 7.
OutputsMade ==
    \A i \in DOMAIN pOutputs :
        /\ pOutputs[i].change # "absent"
        /\ outputs[i].target.derivation = OutputDerivation(pOutputs[i])
        /\ outputs[i].viewTag = ViewTag(OutputDerivation(pOutputs[i]), i - 1)

KeyInv == (step \in 5 .. 10 => KeyMade) /\ (step \in 7 .. 10 => OutputsMade)

keyMadeVars == <<pOutputs, publicKey, extra>>

LEMMA InitKey == Init => KeyInv
BY DEF Init, KeyInv

\* The steps of the documented order, by what they do to the key and the outputs.
KeyMove ==
    \/ step' \in 1 .. 4
    \/ CalcExtra /\ step' = 5
    \/ step \in 5 .. 6 /\ step' \in 5 .. 6 /\ UNCHANGED keyMadeVars
    \/ CalcOutputs /\ step = 6 /\ step' = 7
    \/ step \in 7 .. 10 /\ step' \in 7 .. 10 /\ UNCHANGED keyMadeVars /\ UNCHANGED outputs

LEMMA KeyMoves ==
    ASSUME AnyOrderInv, Next, step' # 0
    PROVE  KeyMove
<1>1. step \in 0 .. 10
  BY Lengths DEF AnyOrderInv
<1>2. ASSUME NEW n \in 2 .. 4, Follow(n) PROVE KeyMove
  <2>1. step' \in 1 .. 4
    BY <1>1, <1>2, FollowMoves
  <2> QED BY <2>1, Zenon DEF KeyMove
<1>3. ASSUME NEW r \in InputRequests, WriteInput(r) PROVE KeyMove
  BY <1>2, <1>3 DEF WriteInput
<1>4. ASSUME NEW r \in OutputRequests, WriteOutput(r) PROVE KeyMove
  BY <1>2, <1>4 DEF WriteOutput
<1>5. ASSUME NEW fee \in Fees, SetFee(fee) PROVE KeyMove
  BY <1>5, Zenon DEF SetFee
<1>6. CASE CalcFeeDifference
  BY <1>2, <1>6 DEF CalcFeeDifference
<1>7. CASE CalcExtra
  <2>1. Follow(5)
    BY <1>7, Zenon DEF CalcExtra
  <2>2. step' = 5
    BY <1>1, <2>1, FollowMoves
  <2> QED BY <1>7, <2>2, Zenon DEF KeyMove
<1>8. CASE CalcInputs \/ CalcInputsFails
  <2>1. UNCHANGED keyMadeVars /\ (Follow(6) \/ Retry(6))
    BY <1>8, Zenon DEF CalcInputs, CalcInputsFails, AddInputs, keyMadeVars, requestVars, keyVars
  <2>2. step \in 5 .. 6 /\ step' \in 5 .. 6
    BY <1>1, <2>1, FollowMoves, RetryMoves
  <2> QED BY <2>1, <2>2, Zenon DEF KeyMove
<1>9. CASE CalcOutputs
  <2>1. Follow(7)
    BY <1>9, Zenon DEF CalcOutputs
  <2>2. step = 6 /\ step' = 7
    BY <1>1, <2>1, FollowMoves
  <2> QED BY <1>9, <2>2, Zenon DEF KeyMove
<1>10. CASE CalcOutputsFails
  <2>1. UNCHANGED keyMadeVars /\ Retry(7)
    BY <1>10, Zenon DEF CalcOutputsFails, AddOutputs, keyMadeVars, requestVars, keyVars
  <2>2. step \in 5 .. 6 /\ step' \in 5 .. 6
    BY <1>1, <2>1, RetryMoves
  <2> QED BY <2>1, <2>2, Zenon DEF KeyMove
<1>11. CASE SignTransaction \/ SignTransactionFails \/ CalcHash \/ Serialize
  <2>1. /\ UNCHANGED keyMadeVars /\ UNCHANGED outputs
        /\ Follow(8) \/ Retry(8) \/ Follow(9) \/ Follow(10)
    BY <1>11, Zenon DEF SignTransaction, SignTransactionFails, CalcHash, Serialize, keyMadeVars,
                        requestVars, keyVars, outputVars
  <2>2. step \in 7 .. 10 /\ step' \in 7 .. 10
    BY <1>1, <2>1, FollowMoves, RetryMoves
  <2> QED BY <2>1, <2>2, Zenon DEF KeyMove
<1>12. CASE AnyPanic
  <2>1. UNCHANGED keyMadeVars /\ UNCHANGED outputs /\ step' = step
    BY <1>1, <1>12, PanicMoves, Zenon DEF keyMadeVars, requestVars, keyVars, outputVars
  <2>2. \/ step' \in 1 .. 4
        \/ step \in 5 .. 6 /\ step' \in 5 .. 6
        \/ step \in 7 .. 10 /\ step' \in 7 .. 10
    BY <1>1, <2>1
  <2> QED BY <2>1, <2>2, Zenon DEF KeyMove
<1> QED BY <1>3, <1>4, <1>5, <1>6, <1>7, <1>8, <1>9, <1>10, <1>11, <1>12, Zenon
        DEF Next, AnyPanic

\* The loop of CalcOutputs, in the documented order, starts at the first output.
LEMMA OutputsAreMade ==
    ASSUME AnyOrderInv, OrderInv, CalcOutputs, step = 6
    PROVE  UNCHANGED keyMadeVars /\ OutputsMade'
<1> DEFINE n == Len(pOutputs)
           made(i) == [target  |-> OneTimeKey(OutputDerivation(pOutputs[i]), voutCount + i - 1,
                                              PubSpend(pOutputs[i].address)),
                       viewTag |-> ViewTag(OutputDerivation(pOutputs[i]), voutCount + i - 1)]
<1>1. n \in Nat /\ DOMAIN pOutputs = 1 .. n /\ voutCount = Len(outputs)
  BY Lengths DEF AnyOrderInv, OutputsAligned
<1>2. Writable(n) /\ AddOutputs(n)
  BY Zenon DEF CalcOutputs
<1>3. UNCHANGED keyMadeVars /\ outputs' = outputs \o [i \in 1 .. n |-> made(i)]
  BY <1>2, Zenon DEF AddOutputs, keyMadeVars, requestVars, keyVars
<1>4. outputs = <<>>
  <2>1. \A i \in DOMAIN pOutputs : ~OutputError(pOutputs[i])
    BY <1>1, <1>2, Zenon DEF Writable
  <2>2. OutputsInOrder /\ step \in 1 .. 6
    BY DEF OrderInv
  <2> QED BY <2>1, <2>2, Zenon DEF OutputsInOrder
<1>5. voutCount = 0
  BY <1>1, <1>4
<1> HIDE DEF made
<1>6. \A i \in 1 .. n : outputs'[i] = made(i)
  BY <1>1, <1>3, <1>4
<1>7. ASSUME NEW i \in 1 .. n
      PROVE  /\ pOutputs[i].change # "absent"
             /\ outputs'[i].target.derivation = OutputDerivation(pOutputs[i])
             /\ outputs'[i].viewTag = ViewTag(OutputDerivation(pOutputs[i]), i - 1)
  <2>1. pOutputs[i].change # "absent"
    BY <1>2, Zenon DEF Writable, OutputError, OutputPanics
  <2>2. outputs'[i] = made(i) /\ voutCount + i - 1 = i - 1
    BY <1>5, <1>6
  <2>3. made(i).target.derivation = OutputDerivation(pOutputs[i])
    BY DEF made, OneTimeKey
  <2>4. made(i).viewTag = ViewTag(OutputDerivation(pOutputs[i]), voutCount + i - 1)
    BY DEF made
  <2> QED BY <2>1, <2>2, <2>3, <2>4
<1>8. pOutputs' = pOutputs /\ publicKey' = publicKey
  BY <1>3, Zenon DEF keyMadeVars
<1> QED BY <1>1, <1>3, <1>7, <1>8, Zenon DEF OutputsMade, OutputDerivation

LEMMA NextKey == AnyOrderInv /\ OrderInv /\ KeyInv /\ [Next]_vars => KeyInv'
<1> SUFFICES ASSUME AnyOrderInv, OrderInv, KeyInv, [Next]_vars PROVE KeyInv'
  OBVIOUS
<1>1. CASE step' = 0
  BY <1>1 DEF KeyInv
<1>2. ASSUME UNCHANGED keyMadeVars PROVE KeyMade' <=> KeyMade
  BY <1>2, Zenon DEF keyMadeVars, KeyMade, PayeePositions, TxPublicKey, SubPayees, LastPayee
<1>3. ASSUME UNCHANGED keyMadeVars, UNCHANGED outputs PROVE OutputsMade' <=> OutputsMade
  BY <1>3, Zenon DEF keyMadeVars, OutputsMade, OutputDerivation
<1>4. CASE UNCHANGED vars
  <2>1. UNCHANGED keyMadeVars /\ UNCHANGED outputs /\ step' = step
    BY <1>4, Zenon DEF vars, keyMadeVars, requestVars, keyVars, outputVars
  <2> QED BY <1>2, <1>3, <2>1, Zenon DEF KeyInv
<1>5. CASE Next /\ step' # 0
  <2>1. CASE step' \in 1 .. 4
    BY <2>1 DEF KeyInv
  <2>2. CASE CalcExtra /\ step' = 5
    <3>1. /\ PayeePositions # {} /\ pOutputs' = pOutputs /\ publicKey' = TxPublicKey
          /\ extra' = <<[publicKey |-> TxPublicKey,
                         paymentId |-> EncryptPaymentID(ExtractPaymentID(LastPayee),
                                                        PubView(LastPayee), TxSecret)]>>
      BY <2>2, Zenon DEF CalcExtra, requestVars
    <3>2. PayeePositions' = PayeePositions /\ TxPublicKey' = TxPublicKey /\ LastPayee' = LastPayee
      <4>1. pOutputs' = pOutputs
        BY <3>1
      <4>2. PayeePositions' = PayeePositions
        BY <4>1, Zenon DEF PayeePositions
      <4>3. LastPayee' = LastPayee
        BY <4>1, <4>2, Zenon DEF LastPayee
      <4>4. SubPayees' = SubPayees
        BY <4>1, <4>2, Zenon DEF SubPayees
      <4> QED BY <4>2, <4>3, <4>4, Zenon DEF TxPublicKey
    <3>3. KeyMade'
      BY <3>1, <3>2, Zenon DEF KeyMade
    <3> QED BY <2>2, <3>3 DEF KeyInv
  <2>3. CASE step \in 5 .. 6 /\ step' \in 5 .. 6 /\ UNCHANGED keyMadeVars
    <3>1. step \in 5 .. 10 /\ step' \notin 7 .. 10
      BY <2>3
    <3> QED BY <1>2, <2>3, <3>1, Zenon DEF KeyInv
  <2>4. CASE CalcOutputs /\ step = 6 /\ step' = 7
    <3>1. step \in 5 .. 10
      BY <2>4
    <3>2. UNCHANGED keyMadeVars /\ OutputsMade'
      BY <2>4, OutputsAreMade, Zenon
    <3> QED BY <1>2, <3>1, <3>2, Zenon DEF KeyInv
  <2>5. CASE step \in 7 .. 10 /\ step' \in 7 .. 10 /\ UNCHANGED keyMadeVars /\ UNCHANGED outputs
    <3>1. step \in 5 .. 10
      BY <2>5
    <3> QED BY <1>2, <1>3, <2>5, <3>1, Zenon DEF KeyInv
  <2>6. KeyMove
    BY <1>5, KeyMoves
  <2> QED BY <2>1, <2>2, <2>3, <2>4, <2>5, <2>6, Zenon DEF KeyMove
<1> QED BY <1>1, <1>4, <1>5

-----------------------------------------------------------------------------
(* What the receiver has, call by call.                                        *)

BuilderInv == AnyOrderInv /\ OrderInv /\ BalanceInv /\ KeyInv

\* What the receiver of a transaction that was sent starts from.
Arrived == [EmptyTx EXCEPT !.raw = SerializedTx(Built(sent[1]))]

ParserCalls == {"ParseTx", "ParseRctSig"}

ReceiverInv ==
    /\ calls \in Seq(ParserCalls)
    /\ origin = "none" => calls = <<>>
    /\ origin = "builder" =>
          /\ step = 10
          /\ calls = <<>> => rx = Arrived
          /\ calls = <<"ParseTx">> => rx = ParseTx(Arrived)
          /\ calls = <<"ParseTx", "ParseRctSig">> => rx = ParseRctSig(ParseTx(Arrived))

ScanInv == BuilderInv /\ ReceiverInv

LEMMA InitScan == ScanInit => ScanInv
<1> SUFFICES ASSUME ScanInit PROVE ScanInv
  OBVIOUS
<1>1. BuilderInv
  BY InitAnyOrder, InitOrder, InitBalance, InitKey DEF ScanInit, BuilderInv
<1>2. calls = <<>> /\ origin = "none"
  BY DEF ScanInit
<1>3. ReceiverInv
  BY <1>2 DEF ReceiverInv
<1> QED BY <1>1, <1>3 DEF ScanInv

LEMMA LastCall ==
    ASSUME NEW S, NEW s \in Seq(S), NEW x \in S, NEW a, NEW b
    PROVE  /\ Append(s, x) # <<>> /\ Append(s, x) \in Seq(S)
           /\ Append(s, x) = <<a>> => s = <<>> /\ x = a
           /\ Append(s, x) = <<a, b>> => s = <<a>> /\ x = b
<1>1. /\ Append(s, x) \in Seq(S) /\ Len(Append(s, x)) = Len(s) + 1 /\ Len(s) \in Nat
      /\ Append(s, x)[Len(s) + 1] = x /\ \A i \in 1 .. Len(s) : Append(s, x)[i] = s[i]
  BY AppendElements, LenProperties
<1>2. Len(<<>>) = 0 /\ Len(<<a>>) = 1 /\ Len(<<a, b>>) = 2 /\ <<a>>[1] = a /\ <<a, b>>[1] = a /\ <<a, b>>[2] = b
  OBVIOUS
<1>3. Append(s, x) # <<>>
  BY <1>1, <1>2
<1>4. ASSUME Append(s, x) = <<a>> PROVE s = <<>> /\ x = a
  <2>1. Len(s) = 0
    BY <1>1, <1>2, <1>4
  <2> QED BY <1>1, <1>2, <1>4, <2>1
<1>5. ASSUME Append(s, x) = <<a, b>> PROVE s = <<a>> /\ x = b
  <2>1. Len(s) = 1
    <3>1. Len(Append(s, x)) = 2
      BY <1>2, <1>5, Zenon
    <3>2. Len(s) + 1 = 2 /\ Len(s) \in Nat
      BY <1>1, <3>1, Zenon
    <3>3. \A k \in Nat : k + 1 = 2 => k = 1
      OBVIOUS
    <3> QED BY <3>2, <3>3, Zenon
  <2>2. x = b /\ s[1] = a
    BY <1>1, <1>2, <1>5, <2>1
  <2> QED BY <2>1, <2>2
<1> QED BY <1>1, <1>3, <1>4, <1>5

LEMMA NextBuilder == BuilderInv /\ [ScanNext]_<<vars, scanVars>> => BuilderInv'
<1> SUFFICES ASSUME BuilderInv, [ScanNext]_<<vars, scanVars>> PROVE BuilderInv'
  OBVIOUS
<1>1. [Next]_vars
  BY Zenon DEF ScanNext, Build, Receive, CallParseTx, CallParseRctSig, Call
<1>2. AnyOrderInv /\ OrderInv /\ BalanceInv /\ KeyInv
  BY DEF BuilderInv
<1> QED BY <1>1, <1>2, NextAnyOrder, NextOrder, NextBalance, NextKey DEF BuilderInv

LEMMA NextReceiver == ReceiverInv /\ [ScanNext]_<<vars, scanVars>> => ReceiverInv'
<1> SUFFICES ASSUME ReceiverInv, [ScanNext]_<<vars, scanVars>> PROVE ReceiverInv'
  OBVIOUS
<1>1. ASSUME UNCHANGED vars PROVE step' = step /\ Arrived' = Arrived
  BY <1>1, Zenon DEF vars, resultVars, Arrived
<1>2. CASE Build
  <2>1. origin' = "none" /\ calls' = calls /\ origin = "none"
    BY <1>2, Zenon DEF Build, scanVars
  <2> QED BY <2>1 DEF ReceiverInv
<1>3. CASE Receive
  <2>1. UNCHANGED vars /\ calls' = calls /\ calls = <<>> /\ calls \in Seq(ParserCalls) /\ origin' # "none"
    BY <1>3 DEF Receive, ReceiverInv, ForeignKinds
  <2>2. origin' = "builder" => step = 10 /\ rx' = Arrived
    BY <1>3 DEF Receive, ForeignKinds, Arrived
  <2>3. <<>> # <<"ParseTx">> /\ <<>> # <<"ParseTx", "ParseRctSig">>
    OBVIOUS
  <2> QED BY <1>1, <2>1, <2>2, <2>3, Zenon DEF ReceiverInv
<1>4. ASSUME NEW name \in ParserCalls, Call(name),
             \/ name = "ParseTx" /\ rx' = ParseTx(rx)
             \/ name = "ParseRctSig" /\ rx' = ParseRctSig(rx)
      PROVE  ReceiverInv'
  <2>1. calls' = Append(calls, name) /\ UNCHANGED vars /\ origin' = origin /\ origin # "none"
    BY <1>4, Zenon DEF Call
  <2>2. calls \in Seq(ParserCalls) /\ "ParseTx" # "ParseRctSig"
    BY DEF ReceiverInv
  <2>3. /\ calls' # <<>> /\ calls' \in Seq(ParserCalls)
        /\ calls' = <<"ParseTx">> => calls = <<>> /\ name = "ParseTx"
        /\ calls' = <<"ParseTx", "ParseRctSig">> => calls = <<"ParseTx">> /\ name = "ParseRctSig"
    BY <2>1, <2>2, LastCall
  <2>4. step' = step /\ Arrived' = Arrived
    BY <1>1, <2>1, Zenon
  <2>5. ASSUME origin = "builder", calls' = <<"ParseTx">> PROVE rx' = ParseTx(Arrived)
    <3>1. rx = Arrived /\ rx' = ParseTx(rx)
      BY <1>4, <2>2, <2>3, <2>5, Zenon DEF ReceiverInv
    <3> QED BY <3>1, Zenon
  <2>6. ASSUME origin = "builder", calls' = <<"ParseTx", "ParseRctSig">>
        PROVE  rx' = ParseRctSig(ParseTx(Arrived))
    <3>1. rx = ParseTx(Arrived) /\ rx' = ParseRctSig(rx)
      BY <1>4, <2>2, <2>3, <2>6, Zenon DEF ReceiverInv
    <3> QED BY <3>1, Zenon
  <2> QED BY <2>1, <2>3, <2>4, <2>5, <2>6, Zenon DEF ReceiverInv
<1>5. CASE CallParseTx \/ CallParseRctSig
  <2>1. "ParseTx" \in ParserCalls /\ "ParseRctSig" \in ParserCalls
    BY Zenon DEF ParserCalls
  <2> QED BY <1>4, <1>5, <2>1, Zenon DEF CallParseTx, CallParseRctSig
<1>6. CASE UNCHANGED <<vars, scanVars>>
  <2>1. UNCHANGED vars /\ UNCHANGED <<rx, origin, calls>>
    BY <1>6, Zenon DEF scanVars
  <2> QED BY <1>1, <2>1, Zenon DEF ReceiverInv
<1> QED BY <1>2, <1>3, <1>5, <1>6, Zenon DEF ScanNext

LEMMA ScanInvariance == ScanSpec => []ScanInv
<1>1. ScanInv /\ [ScanNext]_<<vars, scanVars>> => ScanInv'
  BY NextBuilder, NextReceiver DEF ScanInv
<1> QED BY InitScan, <1>1, PTL DEF ScanSpec

\* Setting the fields that a builder fills.
Fills(n, i, m, o, x, s, p, z, e, t) ==
    [TxOf(z, z, e, z, e, e, e, e, e, e, t) EXCEPT
         !.vinCount = n, !.inputs = i, !.voutCount = m, !.outputs = o, !.extra = x,
         !.signature = s, !.prunable = p]
      = TxOf(z, n, i, m, o, x, e, e, s, p, t)

LEMMA Filled ==
    ASSUME NEW n, NEW i, NEW m, NEW o, NEW x, NEW s, NEW p, NEW z, NEW e, NEW t
    PROVE  Fills(n, i, m, o, x, s, p, z, e, t)
<1> DEFINE y0 == TxOf(z, z, e, z, e, e, e, e, e, e, t)
           y1 == TxOf(z, n, e, z, e, e, e, e, e, e, t)
           y2 == TxOf(z, n, i, z, e, e, e, e, e, e, t)
           y3 == TxOf(z, n, i, m, e, e, e, e, e, e, t)
           y4 == TxOf(z, n, i, m, o, e, e, e, e, e, t)
           y5 == TxOf(z, n, i, m, o, x, e, e, e, e, t)
           y6 == TxOf(z, n, i, m, o, x, e, e, s, e, t)
           y7 == TxOf(z, n, i, m, o, x, e, e, s, p, t)
<1>1. [y0 EXCEPT !.vinCount = n] = y1
  BY DEF TxOf
<1>2. [y1 EXCEPT !.inputs = i] = y2
  BY DEF TxOf
<1>3. [y2 EXCEPT !.voutCount = m] = y3
  BY DEF TxOf
<1>4. [y3 EXCEPT !.outputs = o] = y4
  BY DEF TxOf
<1>5. [y4 EXCEPT !.extra = x] = y5
  BY DEF TxOf
<1>6. [y5 EXCEPT !.signature = s] = y6
  BY DEF TxOf
<1>7. [y6 EXCEPT !.prunable = p] = y7
  BY DEF TxOf
<1> HIDE DEF y0, y1, y2, y3, y4, y5, y6, y7
<1>8. [y0 EXCEPT !.vinCount = n, !.inputs = i] = y2
  BY <1>2, <1>1, Zenon
<1>9. [y0 EXCEPT !.vinCount = n, !.inputs = i, !.voutCount = m] = y3
  BY <1>3, <1>8, Zenon
<1>10. [y0 EXCEPT !.vinCount = n, !.inputs = i, !.voutCount = m, !.outputs = o] = y4
  BY <1>4, <1>9, Zenon
<1>11. [y0 EXCEPT !.vinCount = n, !.inputs = i, !.voutCount = m, !.outputs = o, !.extra = x] = y5
  BY <1>5, <1>10, Zenon
<1>12. [y0 EXCEPT !.vinCount = n, !.inputs = i, !.voutCount = m, !.outputs = o, !.extra = x, !.signature = s] = y6
  BY <1>6, <1>11, Zenon
<1>13. [y0 EXCEPT !.vinCount = n, !.inputs = i, !.voutCount = m, !.outputs = o, !.extra = x, !.signature = s, !.prunable = p] = y7
  BY <1>7, <1>12, Zenon
<1> QED BY <1>13, Zenon DEF y0, y7, Fills


\* Setting one field: the bytes, and what RingInput fills in.
RawSets(u, nv, i, no, o, x, raw, rct, s, p, ok, new) ==
    [TxOf(u, nv, i, no, o, x, raw, rct, s, p, ok) EXCEPT !.raw = new]
      = TxOf(u, nv, i, no, o, x, new, rct, s, p, ok)

LEMMA RawSet ==
    \A u, nv, i, no, o, x, raw, rct, s, p, ok, new :
        RawSets(u, nv, i, no, o, x, raw, rct, s, p, ok, new)
BY DEF RawSets, TxOf

InputSets(t, h, e, z, o, k) ==
    [[type |-> t, height |-> h, offsets |-> e, image |-> z] EXCEPT !.offsets = o, !.image = k]
      = [type |-> t, height |-> h, offsets |-> o, image |-> k]

RingOf(s) == [i \in DOMAIN s |-> RingInput(s[i])]
SignedOf(s) == [i \in DOMAIN s |-> ClsagHashes(s[i])]

\* The transaction of the builder, with these bytes.
BuilderTx(raw) ==
    TxOf(0, Len(inputs), RingOf(inputs), Len(outputs), outputs, ExtraItems(extra), raw, <<>>,
         <<SigOf(txnFee, ecdhInfo, outPk)>>,
         <<PrunableOf(<<BppHashes(bpp)>>, SignedOf(clsags), pseudoOuts)>>, TRUE)

LEMMA BuiltIs ==
    ASSUME sent = <<Wire>>
    PROVE  Built(sent[1]) = BuilderTx(<<>>)
<1> DEFINE w == sent[1]
           s == <<SigOf(txnFee, ecdhInfo, outPk)>>
           p == <<PrunableOf(<<BppHashes(bpp)>>, SignedOf(clsags), pseudoOuts)>>
<1>1. w = Wire
  OBVIOUS
<1>2. /\ w.part1 = CalculatePart1 /\ w.part2 = RctSigBase /\ w.part3 = CalculatePart3
  BY <1>1 DEF Wire, CalculatePart2
<1> HIDE DEF w
<1>3. /\ w.part1.vins = Len(inputs) /\ w.part1.inputs = inputs /\ w.part1.vouts = Len(outputs)
      /\ w.part1.outputs = outputs /\ w.part1.extra = extra
  BY <1>2 DEF CalculatePart1
<1>4. w.part2.fee = txnFee /\ w.part2.ecdhInfo = ecdhInfo /\ w.part2.outPk = outPk
  BY <1>2 DEF RctSigBase
<1>5. w.part3.bpp = bpp /\ w.part3.clsags = clsags /\ w.part3.pseudoOuts = pseudoOuts
  BY <1>2 DEF CalculatePart3
<1>6. EmptyTx = TxOf(0, 0, <<>>, 0, <<>>, <<>>, <<>>, <<>>, <<>>, <<>>, TRUE)
  BY Zenon DEF EmptyTx, TxOf
<1>7. Built(w) = [EmptyTx EXCEPT !.vinCount = Len(inputs), !.inputs = RingOf(inputs),
                      !.voutCount = Len(outputs), !.outputs = outputs, !.extra = ExtraItems(extra),
                      !.signature = s, !.prunable = p]
  <2> HIDE DEF p, s
  <2>1. s = <<[type |-> RctBpp, fee |-> w.part2.fee,
               ecdhInfo |-> w.part2.ecdhInfo, outPk |-> w.part2.outPk]>>
    BY <1>4, Zenon DEF s, SigOf
  <2>2. p = <<[bpp |-> <<BppHashes(w.part3.bpp)>>,
               clsags |-> [i \in DOMAIN w.part3.clsags |-> ClsagHashes(w.part3.clsags[i])],
               pseudoOuts |-> w.part3.pseudoOuts]>>
    BY <1>5, Zenon DEF p, PrunableOf, SignedOf
  <2>3. RingOf(inputs) = [i \in DOMAIN w.part1.inputs |-> RingInput(w.part1.inputs[i])]
    BY <1>3, Zenon DEF RingOf
  <2> QED BY <1>3, <2>1, <2>2, <2>3, Zenon DEF Built
<1> HIDE DEF s, p
<1>8. Fills(Len(inputs), RingOf(inputs), Len(outputs), outputs, ExtraItems(extra), s, p, 0, <<>>, TRUE)
  BY Filled, Zenon
<1> QED BY <1>6, <1>7, <1>8, Zenon DEF Fills, BuilderTx, s, p, w

LEMMA ArrivedIs ==
    /\ \A raw : [EmptyTx EXCEPT !.raw = raw]
                  = TxOf(0, 0, <<>>, 0, <<>>, <<>>, raw, <<>>, <<>>, <<>>, TRUE)
    /\ \A a, raw : [BuilderTx(a) EXCEPT !.raw = raw] = BuilderTx(raw)
<1>1. EmptyTx = TxOf(0, 0, <<>>, 0, <<>>, <<>>, <<>>, <<>>, <<>>, <<>>, TRUE)
  BY Zenon DEF EmptyTx, TxOf
<1>2. ASSUME NEW raw
      PROVE  [EmptyTx EXCEPT !.raw = raw] = TxOf(0, 0, <<>>, 0, <<>>, <<>>, raw, <<>>, <<>>, <<>>, TRUE)
  <2>1. RawSets(0, 0, <<>>, 0, <<>>, <<>>, <<>>, <<>>, <<>>, <<>>, TRUE, raw)
    BY RawSet, Zenon
  <2> QED BY <1>1, <2>1, Zenon DEF RawSets
<1>3. ASSUME NEW a, NEW raw PROVE [BuilderTx(a) EXCEPT !.raw = raw] = BuilderTx(raw)
  <2> DEFINE n == Len(inputs)
             i == RingOf(inputs)
             m == Len(outputs)
             x == ExtraItems(extra)
             s == <<SigOf(txnFee, ecdhInfo, outPk)>>
             p == <<PrunableOf(<<BppHashes(bpp)>>, SignedOf(clsags), pseudoOuts)>>
  <2> HIDE DEF n, i, m, x, s, p
  <2>1. RawSets(0, n, i, m, outputs, x, a, <<>>, s, p, TRUE, raw)
    BY RawSet, Zenon
  <2> QED BY <2>1, Zenon DEF RawSets, BuilderTx, n, i, m, x, s, p
<1> QED BY <1>2, <1>3, Zenon

\* The parts of a wire that the builder's sequences give.
LEMMA PartsAre ==
    /\ \A image : RingInput(image) = InputOf([j \in 1 .. RingSize |-> j], image)
    /\ \A sig : ClsagHashes(sig) = ClsagOf([j \in 1 .. RingSize |-> <<sig, j>>], sig, sig)
    /\ \A proof : BppHashes(proof) = BppOf([i \in 1 .. 6 |-> <<proof, i>>],
                                           [i \in 1 .. Rounds |-> <<proof, "L", i>>],
                                           [i \in 1 .. Rounds |-> <<proof, "R", i>>])
<1>1. ASSUME NEW t, NEW h, NEW e, NEW z, NEW o, NEW k PROVE InputSets(t, h, e, z, o, k)
  <2>1. [[type |-> t, height |-> h, offsets |-> e, image |-> z] EXCEPT !.offsets = o]
          = [type |-> t, height |-> h, offsets |-> o, image |-> z]
    OBVIOUS
  <2>2. [[type |-> t, height |-> h, offsets |-> o, image |-> z] EXCEPT !.image = k]
          = [type |-> t, height |-> h, offsets |-> o, image |-> k]
    OBVIOUS
  <2> QED BY <2>1, <2>2, Zenon DEF InputSets
<1>2. ASSUME NEW image PROVE RingInput(image) = InputOf([j \in 1 .. RingSize |-> j], image)
  <2>1. InputSets(ToKey, 0, <<>>, ZeroBytes, [j \in 1 .. RingSize |-> j], image)
    BY <1>1, Zenon
  <2> QED BY <2>1, Zenon DEF InputSets, RingInput, NewInput, InputOf
<1> QED BY <1>2, Zenon DEF ClsagHashes, ClsagOf, BppHashes, BppOf

\* What the builder sends is of the form that the parser reads.
LEMMA BuilderFits ==
    ASSUME BuilderInv, step = 10
    PROVE  /\ sent = <<Wire>> /\ Len(inputs) \in Nat /\ Len(outputs) \in Nat
           /\ InputsFit(Len(inputs), RingOf(inputs)) /\ OutputsFit(Len(outputs), outputs)
           /\ SignaturesFit(Len(inputs), RingOf(inputs), Len(outputs), ecdhInfo, outPk,
                            <<BppHashes(bpp)>>, SignedOf(clsags), pseudoOuts)
           /\ Len(RingOf(inputs)) = Len(inputs)
<1> DEFINE n == Len(inputs)
           m == Len(outputs)
           s0 == [j \in 1 .. RingSize |-> j]
<1>1. TypeOK /\ OutputsAligned /\ OrderInv /\ OpensBalance
  <2>1. step \in 8 .. 10
    OBVIOUS
  <2> QED BY <2>1 DEF BuilderInv, AnyOrderInv, BalanceInv
<1>2. /\ n \in Nat /\ m \in Nat /\ DOMAIN inputs = 1 .. n /\ outputs \in Seq(TxOutputs)
      /\ ecdhInfo \in Seq(Ciphers) /\ outPk \in Seq(Commitments) /\ pseudoOuts \in Seq(Commitments)
      /\ clsags \in Seq(Clsags)
  BY <1>1, Lengths, Zenon DEF TypeOK
<1>3. /\ Len(ecdhInfo) = m /\ Len(outPk) = m /\ Len(pseudoOuts) = n /\ Len(clsags) = n
  BY <1>1, Zenon DEF OutputsAligned, OpensBalance
<1>4. Tuple(outputs, m) /\ Tuple(ecdhInfo, m) /\ Tuple(outPk, m) /\ Tuple(pseudoOuts, n)
  <2>1. IsSeq(outputs) /\ IsSeq(ecdhInfo) /\ IsSeq(outPk) /\ IsSeq(pseudoOuts)
    BY <1>2, Zenon DEF IsSeq
  <2> QED BY <1>3, <2>1, SeqIsTuple, Zenon
<1>5. DOMAIN outputs = 1 .. m /\ DOMAIN clsags = 1 .. n /\ \A j \in 1 .. m : outputs[j] \in TxOutputs
  BY <1>2, <1>3
<1>6. RingOf(inputs) = [i \in 1 .. n |-> RingInput(inputs[i])]
  BY <1>2, Zenon DEF RingOf
<1>7. SignedOf(clsags) = [i \in 1 .. n |-> ClsagHashes(clsags[i])]
  BY <1>5, Zenon DEF SignedOf
<1>8. RingSize \in Nat /\ Rounds \in Nat
  BY WireAssumption
<1>9. /\ IsSeq(s0) /\ Len(s0) = RingSize
      /\ \A sig : /\ IsSeq([j \in 1 .. RingSize |-> <<sig, j>>])
                  /\ Len([j \in 1 .. RingSize |-> <<sig, j>>]) = RingSize
  <2>1. Tuple(s0, RingSize)
    BY DEF Tuple
  <2>2. \A sig : Tuple([j \in 1 .. RingSize |-> <<sig, j>>], RingSize)
    BY DEF Tuple
  <2> HIDE DEF s0
  <2> QED BY <1>8, <2>1, <2>2, TupleIsSeq, Zenon
<1>10. InputsFit(n, RingOf(inputs)) /\ Len(RingOf(inputs)) = n
  <2>1. Tuple(RingOf(inputs), n)
    BY <1>6 DEF Tuple
  <2>2. ASSUME NEW j \in 1 .. n
        PROVE  \E o, k : IsSeq(o) /\ RingOf(inputs)[j] = InputOf(o, k)
    <3>1. RingOf(inputs)[j] = RingInput(inputs[j])
      BY <1>6, Zenon
    <3>2. RingInput(inputs[j]) = InputOf(s0, inputs[j])
      BY PartsAre, Zenon
    <3> HIDE DEF s0
    <3> QED BY <1>9, <3>1, <3>2, Zenon
  <2> QED BY <1>2, <2>1, <2>2, TupleIsSeq, Zenon DEF InputsFit
<1>11. OutputsFit(m, outputs)
  <2>1. ASSUME NEW j \in 1 .. m PROVE \E k, t : outputs[j] = OutputOf(k, t)
    <3>1. outputs[j] = OutputOf(outputs[j].target, outputs[j].viewTag)
      BY <1>5 DEF TxOutputs, OutputOf
    <3> QED BY <3>1, Zenon
  <2> QED BY <1>4, <2>1, Zenon DEF OutputsFit
<1>12. ClsagsFit(n, SignedOf(clsags), RingOf(inputs))
  <2>1. Tuple(SignedOf(clsags), n)
    BY <1>7 DEF Tuple
  <2>2. ASSUME NEW i \in 1 .. n
        PROVE  \E s, x, y : /\ IsSeq(s) /\ SignedOf(clsags)[i] = ClsagOf(s, x, y)
                            /\ Len(RingOf(inputs)[i].offsets) = Len(s)
    <3> DEFINE s == [j \in 1 .. RingSize |-> <<clsags[i], j>>]
    <3>1. SignedOf(clsags)[i] = ClsagOf(s, clsags[i], clsags[i])
      BY <1>7, PartsAre, Zenon
    <3>2. IsSeq(s) /\ Len(s) = RingSize
      BY <1>9, Zenon
    <3>3. RingOf(inputs)[i] = InputOf(s0, inputs[i])
      BY <1>6, PartsAre, Zenon
    <3>4. RingOf(inputs)[i].offsets = s0
      <4> HIDE DEF s0
      <4> QED BY <3>3 DEF InputOf
    <3> HIDE DEF s, s0
    <3> QED BY <1>9, <3>1, <3>2, <3>4, Zenon
  <2> QED BY <2>1, <2>2, Zenon DEF ClsagsFit
<1>13. ASSUME NEW j \in 1 .. 1
       PROVE  \E x, y, z : Six(x) /\ IsSeq(y) /\ IsSeq(z) /\ <<BppHashes(bpp)>>[j] = BppOf(x, y, z)
  <2> DEFINE x == [i \in 1 .. 6 |-> <<bpp, i>>]
             y == [i \in 1 .. Rounds |-> <<bpp, "L", i>>]
             z == [i \in 1 .. Rounds |-> <<bpp, "R", i>>]
  <2>1. BppHashes(bpp) = BppOf(x, y, z)
    BY PartsAre, Zenon
  <2>2. Tuple(x, 6) /\ Tuple(y, Rounds) /\ Tuple(z, Rounds) /\ 6 \in Nat
    BY DEF Tuple
  <2> HIDE DEF x, y, z
  <2>3. Six(x) /\ IsSeq(y) /\ IsSeq(z)
    BY <1>8, <2>2, TupleIsSeq, Zenon DEF Six
  <2>4. <<BppHashes(bpp)>>[j] = BppHashes(bpp)
    OBVIOUS
  <2> QED BY <2>1, <2>3, <2>4, Zenon
<1>14. Tuple(<<BppHashes(bpp)>>, 1)
  BY TupleCases, Zenon
<1>15. sent = <<Wire>>
  BY <1>1 DEF OrderInv, ResultsInOrder
<1> HIDE DEF n, m
<1> QED BY <1>2, <1>4, <1>10, <1>11, <1>12, <1>13, <1>14, <1>15, Zenon DEF SignaturesFit, n, m

BuilderRaw == SerializedTx(Built(sent[1]))

\* What follows the prefix of the builder's transaction, and all of it.
BuilderRct ==
    BaseOf(txnFee, ecdhInfo, outPk) \o ProofsOf(<<BppHashes(bpp)>>, SignedOf(clsags), pseudoOuts)
BuilderWire ==
    PrefixOf(0, Len(inputs), RingOf(inputs), Len(outputs), outputs, ExtraItems(extra)) \o BuilderRct

LEMMA WireIs ==
    ASSUME BuilderInv, step = 10
    PROVE  /\ BuilderRaw = BuilderWire /\ IsSeq(BuilderRct)
           /\ \A raw : SerializedTx(BuilderTx(raw)) = BuilderRaw
<1> DEFINE n == Len(inputs)
           m == Len(outputs)
           i == RingOf(inputs)
           x == ExtraItems(extra)
           sig == SigOf(txnFee, ecdhInfo, outPk)
           b == <<BppHashes(bpp)>>
           c == SignedOf(clsags)
           prunable == PrunableOf(b, c, pseudoOuts)
           p1 == PrefixOf(0, n, i, m, outputs, x)
           p2 == BaseOf(txnFee, ecdhInfo, outPk)
           p3 == ProofsOf(b, c, pseudoOuts)
           raw1 == BuilderRaw
<1>1. /\ sent = <<Wire>> /\ n \in Nat /\ m \in Nat /\ InputsFit(n, i) /\ OutputsFit(m, outputs)
      /\ SignaturesFit(n, i, m, ecdhInfo, outPk, b, c, pseudoOuts) /\ Len(i) = n
  BY BuilderFits
<1> HIDE DEF n, m, i, x, b, c, raw1
<1>2. ASSUME NEW raw PROVE SerializedTx(BuilderTx(raw)) = (p1 \o p2) \o p3
  <2> DEFINE t == BuilderTx(raw)
             s == <<sig>>
             p == <<prunable>>
  <2>1. t = TxOf(0, n, i, m, outputs, x, raw, <<>>, s, p, TRUE)
    BY Zenon DEF BuilderTx, n, i, m, x, b, c
  <2>2. Part1Fields(t) = p1
    <3> HIDE DEF t, s, p, p1
    <3>1. Part1Fields(TxOf(0, n, i, m, outputs, x, raw, <<>>, s, p, TRUE)) = PrefixOf(0, n, i, m, outputs, x)
      <4>1. PrefixWritten(0, n, n, i, m, m, outputs, x, raw, <<>>, s, p, TRUE)
        BY <1>1, PrefixFields, Zenon DEF m
      <4> QED BY <4>1, Zenon DEF PrefixWritten
    <3> QED BY <2>1, <3>1, Zenon DEF p1
  <2>3. t.signature[1] = sig /\ t.prunable[1] = prunable
    <3>1. s[1] = sig /\ p[1] = prunable
      <4> HIDE DEF sig, prunable
      <4> QED OBVIOUS
    <3> HIDE DEF t, s, p, sig, prunable
    <3>2. t.signature = s /\ t.prunable = p
      BY <2>1 DEF TxOf
    <3> QED BY <3>1, <3>2, Zenon
  <2>4. Part2Fields(t) = p2 /\ Part3Fields(t) = p3
    <3> HIDE DEF t
    <3> QED BY <2>3, BaseFields, Zenon
  <2> HIDE DEF t
  <2>5. SerializedTx(t) = (p1 \o p2) \o p3
    BY <2>2, <2>4, Zenon DEF SerializedTx
  <2> QED BY <2>5, Zenon DEF t
<1>3. raw1 = (p1 \o p2) \o p3
  <2>1. Built(sent[1]) = BuilderTx(<<>>)
    BY <1>1, BuiltIs, Zenon
  <2> QED BY <1>2, <2>1, Zenon DEF raw1, BuilderRaw
<1>4. IsSeq(p1) /\ IsSeq(p2) /\ IsSeq(p3)
  <2>1. IsSeq(<<>>)
    BY SmallSeqs
  <2>2. IsSeq(p1)
    BY <1>1, <2>1, PrefixParsed, Zenon DEF PrefixParses
  <2>3. IsSeq(p2) /\ IsSeq(p3)
    <3>1. SignaturesParse(n, m, 0, i, outputs, x, raw1, txnFee, ecdhInfo, outPk, b, c, pseudoOuts)
      BY <1>1, SignaturesParsed, Zenon DEF m
    <3> QED BY <3>1, Zenon DEF SignaturesParse
  <2> QED BY <2>2, <2>3
<1>5. IsSeq(p2 \o p3) /\ raw1 = p1 \o (p2 \o p3)
  <2> HIDE DEF p1, p2, p3
  <2>1. IsSeq(p2 \o p3)
    BY <1>4, ConcatIs, Zenon
  <2>2. Same3(p1, p2, p3)
    BY <1>4, Brackets3, Zenon
  <2> QED BY <1>3, <2>1, <2>2, Zenon DEF Same3
<1>6. BuilderRct = p2 \o p3 /\ BuilderWire = p1 \o (p2 \o p3)
  BY Zenon DEF BuilderRct, BuilderWire, n, m, i, x, b, c
<1>7. \A raw : SerializedTx(BuilderTx(raw)) = raw1
  <2> HIDE DEF p1, p2, p3
  <2> QED BY <1>2, <1>3, Zenon
<1> HIDE DEF p1, p2, p3
<1> QED BY <1>5, <1>6, <1>7, Zenon DEF raw1

\* Once parsed, the receiver's transaction is the builder's, with the bytes it came as.
LEMMA Received ==
    ASSUME BuilderInv, step = 10
    PROVE  /\ ParseRctSig(ParseTx(Arrived)) = BuilderTx(SerializedTx(Built(sent[1])))
           /\ \A raw : SerializedTx(BuilderTx(raw)) = SerializedTx(Built(sent[1]))
<1> DEFINE n == Len(inputs)
           m == Len(outputs)
           i == RingOf(inputs)
           x == ExtraItems(extra)
           sig == SigOf(txnFee, ecdhInfo, outPk)
           b == <<BppHashes(bpp)>>
           c == SignedOf(clsags)
           prunable == PrunableOf(b, c, pseudoOuts)
           p1 == PrefixOf(0, n, i, m, outputs, x)
           p2 == BaseOf(txnFee, ecdhInfo, outPk)
           p3 == ProofsOf(b, c, pseudoOuts)
           raw1 == BuilderRaw
<1>1. /\ n \in Nat /\ m \in Nat /\ InputsFit(n, i) /\ OutputsFit(m, outputs)
      /\ SignaturesFit(n, i, m, ecdhInfo, outPk, b, c, pseudoOuts) /\ Len(i) = n
  BY BuilderFits
<1>2. /\ IsSeq(p2 \o p3) /\ raw1 = p1 \o (p2 \o p3) /\ \A raw : SerializedTx(BuilderTx(raw)) = raw1
  BY WireIs, Zenon DEF BuilderRct, BuilderWire
<1> HIDE DEF n, m, i, x, b, c, raw1
<1>3. Arrived = TxOf(0, 0, <<>>, 0, <<>>, <<>>, raw1, <<>>, <<>>, <<>>, TRUE)
  BY ArrivedIs, Zenon DEF Arrived, raw1, BuilderRaw
<1>4. ParseTx(Arrived) = TxOf(0, n, i, m, outputs, x, raw1, p2 \o p3, <<>>, <<>>, TRUE)
  <2> DEFINE w == p2 \o p3
  <2>1. IsSeq(w) /\ raw1 = p1 \o w
    BY <1>2
  <2> HIDE DEF w
  <2>2. ParseTx(TxOf(0, 0, <<>>, 0, <<>>, <<>>, p1 \o w, <<>>, <<>>, <<>>, TRUE))
          = TxOf(0, n, i, m, outputs, x, p1 \o w, w, <<>>, <<>>, TRUE)
    <3>1. PrefixParses(0, n, i, m, outputs, x, w)
      BY <1>1, <2>1, PrefixParsed, Zenon
    <3> QED BY <3>1, Zenon DEF PrefixParses
  <2> HIDE DEF p1, p2, p3
  <2>3. ParseTx(Arrived) = TxOf(0, n, i, m, outputs, x, raw1, w, <<>>, <<>>, TRUE)
    BY <1>3, <2>1, <2>2, Zenon
  <2> QED BY <2>3, Zenon DEF w
<1>5. ParseRctSig(ParseTx(Arrived)) = TxOf(0, n, i, m, outputs, x, raw1, <<>>, <<sig>>, <<prunable>>, TRUE)
  <2>1. ParseRctSig(TxOf(0, n, i, m, outputs, x, raw1, p2 \o p3, <<>>, <<>>, TRUE))
          = TxOf(0, n, i, m, outputs, x, raw1, <<>>, <<sig>>, <<prunable>>, TRUE)
    <3>1. SignaturesParse(n, m, 0, i, outputs, x, raw1, txnFee, ecdhInfo, outPk, b, c, pseudoOuts)
      BY <1>1, SignaturesParsed, Zenon DEF m
    <3> QED BY <3>1, Zenon DEF SignaturesParse
  <2> HIDE DEF p1, p2, p3, sig, prunable
  <2> QED BY <1>4, <2>1, Zenon
<1>6. ParseRctSig(ParseTx(Arrived)) = BuilderTx(raw1)
  BY <1>5, Zenon DEF BuilderTx, n, i, m, x, b, c
<1> QED BY <1>2, <1>6, Zenon DEF raw1, BuilderRaw

\* What the receiver has after ParseTx and ParseRctSig, in each state of the scan.
LEMMA ParsedIs ==
    ASSUME ScanInv, ParsedOnce, origin = "builder"
    PROVE  /\ step = 10 /\ rx = BuilderTx(rx.raw)
           /\ rx = [Built(sent[1]) EXCEPT !.raw = rx.raw] /\ SerializedTx(rx) = rx.raw
<1> DEFINE raw == SerializedTx(Built(sent[1]))
<1>1. BuilderInv /\ step = 10 /\ rx = ParseRctSig(ParseTx(Arrived))
  BY Zenon DEF ScanInv, ReceiverInv, ParsedOnce
<1>2. rx = BuilderTx(raw)
  BY <1>1, Received, Zenon
<1>3. SerializedTx(BuilderTx(raw)) = raw
  BY <1>1, Received, Zenon
<1>4. Built(sent[1]) = BuilderTx(<<>>)
  BY <1>1, BuilderFits, BuiltIs, Zenon
<1> HIDE DEF raw
<1>5. rx.raw = raw
  BY <1>2 DEF BuilderTx, TxOf
<1>6. [Built(sent[1]) EXCEPT !.raw = rx.raw] = BuilderTx(rx.raw)
  BY <1>4, ArrivedIs, Zenon
<1> QED BY <1>1, <1>2, <1>3, <1>5, <1>6, Zenon

\* ParseTx and ParseRctSig, called once each, give the receiver every field of
\* whatever the builder sent, whatever the requests, and Serialize then writes the
\* bytes that were received.
THEOREM ParsersInvertSerialize == ScanSpec => []ParsesWhatWasSent
<1>1. ScanInv => ParsesWhatWasSent
  BY ParsedIs, Zenon DEF ParsesWhatWasSent
<1> QED BY <1>1, ScanInvariance, PTL

-----------------------------------------------------------------------------
(* The extra field that CalcExtra writes.                                      *)

ExtraItemStep(f, x, i) == IF i = 0 THEN ParsedExtra ELSE ExtraItem(f[i - 1], x[i])
AreExtraItems(f, x, n) == f = [i \in 0 .. n |-> ExtraItemStep(f, x, i)]

\* The public key and the nonce are read as such.
ExtraReads(xtra, key, id) ==
    LET parsed == ParseTxExtra(ExtraItems(xtra))
    IN  parsed.ok /\ parsed.txPubKey = <<key>> /\ parsed.encPID = <<id>>

LEMMA ExtraRead ==
    ASSUME NEW key, NEW id
    PROVE  ExtraReads(<<[publicKey |-> key, paymentId |-> id]>>, key, id)
<1> DEFINE xtra == <<[publicKey |-> key, paymentId |-> id]>>
           first == [tag |-> "pubkey", value |-> key]
           second == [tag |-> "encrypted id", value |-> id]
           x == <<first, second>>
           y1 == [ParsedExtra EXCEPT !.txPubKey = <<key>>]
           y2 == [y1 EXCEPT !.encPID = <<id>>]
<1>1. ExtraItems(xtra) = x
  <2> DEFINE row(i) == <<[tag |-> "pubkey", value |-> xtra[i].publicKey],
                         [tag |-> "encrypted id", value |-> xtra[i].paymentId]>>
             rows == [i \in DOMAIN xtra |-> row(i)]
  <2>1. DOMAIN xtra = 1 .. 1 /\ xtra[1].publicKey = key /\ xtra[1].paymentId = id
    OBVIOUS
  <2>2. row(1) = x
    <3> HIDE DEF xtra
    <3> QED BY <2>1, Zenon
  <2>3. ExtraItems(xtra) = FlattenSeq(rows)
    <3> HIDE DEF xtra
    <3> QED BY Zenon DEF ExtraItems
  <2> HIDE DEF row, x, xtra
  <2>4. Tuple(rows, 1) /\ rows[1] = x /\ \A i \in 1 .. 1 : i = 1
    BY <2>1, <2>2 DEF Tuple
  <2> HIDE DEF rows
  <2>5. IsSeq(x)
    BY SmallSeqs, Zenon DEF x
  <2>6. PICK t : Peels(t, rows, 1) /\ t[0] = FlattenSeq(rows)
    <3>1. 1 \in Nat /\ \A i \in 1 .. 1 : IsSeq(rows[i])
      BY <2>4, <2>5
    <3> QED BY <2>4, <3>1, FlattenPeels, Zenon
  <2>7. t[0] = x \o t[1] /\ t[1] = <<>>
    <3>1. 1 \in 1 .. 1 /\ 1 - 1 = 0
      OBVIOUS
    <3> QED BY <2>4, <2>6, <3>1, Zenon DEF Peels
  <2>8. x \o <<>> = x
    BY <2>5, ConcatIs, SmallSeqs, Zenon
  <2> QED BY <2>3, <2>6, <2>7, <2>8, Zenon
<1>2. ExtraItem(ParsedExtra, first) = y1
  BY Zenon DEF ExtraItem, ParsedExtra
<1>3. ExtraItem(y1, second) = y2
  <2>1. y1.ended = FALSE
    BY DEF ParsedExtra
  <2> HIDE DEF y1
  <2> QED BY <2>1, Zenon DEF ExtraItem
<1>4. x[1] = first /\ x[2] = second /\ Len(x) = 2
  BY Zenon
<1> HIDE DEF x, first, second, y1, y2
<1>5. ParseTxExtra(x) = (CHOOSE f : AreExtraItems(f, x, 2))[2]
  BY <1>4, Zenon DEF ParseTxExtra, Loop, AreExtraItems, ExtraItemStep
<1>6. \E f : AreExtraItems(f, x, 2)
  <2> DEFINE f == [i \in 0 .. 2 |-> IF i = 0 THEN ParsedExtra ELSE IF i = 1 THEN y1 ELSE y2]
  <2>1. f[0] = ParsedExtra /\ f[1] = y1 /\ f[2] = y2 /\ f = [i \in 0 .. 2 |-> f[i]]
    OBVIOUS
  <2> HIDE DEF f
  <2>2. ASSUME NEW i \in 0 .. 2 PROVE f[i] = ExtraItemStep(f, x, i)
    <3>1. CASE i = 0
      BY <2>1, <3>1 DEF ExtraItemStep
    <3>2. CASE i = 1
      BY <1>2, <1>4, <2>1, <3>2 DEF ExtraItemStep
    <3>3. CASE i = 2
      BY <1>3, <1>4, <2>1, <3>3 DEF ExtraItemStep
    <3> QED BY <3>1, <3>2, <3>3
  <2>3. f = [i \in 0 .. 2 |-> ExtraItemStep(f, x, i)]
    BY <2>1, <2>2, Zenon
  <2> QED BY <2>3, Zenon DEF AreExtraItems
<1>7. ASSUME NEW f, AreExtraItems(f, x, 2) PROVE f[2] = y2
  <2>1. f[0] = ParsedExtra
    BY <1>7 DEF AreExtraItems, ExtraItemStep
  <2>2. f[1] = ExtraItem(f[0], x[1]) /\ f[2] = ExtraItem(f[1], x[2])
    BY <1>7 DEF AreExtraItems, ExtraItemStep
  <2> QED BY <1>2, <1>3, <1>4, <2>1, <2>2, Zenon
<1>8. ParseTxExtra(ExtraItems(xtra)) = y2
  BY <1>1, <1>5, <1>6, <1>7, Zenon
<1>9. y2.ok /\ y2.txPubKey = <<key>> /\ y2.encPID = <<id>>
  BY DEF y1, y2, ParsedExtra
<1> HIDE DEF xtra
<1>10. ExtraReads(xtra, key, id)
  BY <1>8, <1>9, Zenon DEF ExtraReads
<1> QED BY <1>10, Zenon DEF xtra

-----------------------------------------------------------------------------
(* Who recognises what: the algebra of keys.                                   *)

\* The public key of the transaction, by whether one payee alone is a subaddress.
OneSub == \E i \in SubPayees : SubPayees = {i}
TxKey(one, last) == IF one THEN Multiply(TxSecret, PubSpend(last)) ELSE {TxSecret}

\* The wallet w derives from the public key what the sender derived for x.
SameDerivation(one, last, w, x) ==
    KeyDerivation(TxKey(one, last), ViewSecret(w)) = KeyDerivation(PubView(x), TxSecret)

LEMMA KeysAgree ==
    ASSUME NEW one \in BOOLEAN, NEW last, NEW w, NEW x
    PROVE  SameDerivation(one, last, w, x)
             <=> /\ w = x.owner
                 /\ IF one THEN IsSubAddress(x) /\ IsSubAddress(last) /\ x.owner = last.owner
                           ELSE ~IsSubAddress(x)
<1> DEFINE u == x.owner
           l == last.owner
           vw == ViewSecret(w)
           vu == ViewSecret(u)
           su == SubSecret(u)
           sl == SubSecret(l)
           pl == SpendSecret(l)
           t == TxSecret
           z == ZeroSecret
<1>1. /\ vw = vu <=> w = u
      /\ su = sl <=> u = l
      /\ vw # su /\ vw # sl /\ vw # pl /\ vu # sl /\ vu # su /\ vu # pl /\ pl # su
      /\ vw # t /\ vu # t /\ su # t /\ sl # t /\ pl # t /\ t # z /\ vw # z /\ vu # z
  BY DEF ViewSecret, SubSecret, SpendSecret, TxSecret, ZeroSecret
<1>2. /\ PubView(x) = IF IsSubAddress(x) THEN {vu, su} ELSE {vu}
      /\ PubSpend(last) = IF IsSubAddress(last) THEN {sl} ELSE {pl}
      /\ ZeroKey = {z}
  BY Zenon DEF PubView, PubSpend, ZeroKey, IsSubAddress
<1>3. sl # z /\ pl # z
  BY DEF SubSecret, SpendSecret, ZeroSecret
<1> HIDE DEF u, l, vw, vu, su, sl, pl, t, z
<1>4. KeyDerivation(PubView(x), TxSecret) = PubView(x) \cup {t}
  <2>1. vu \in PubView(x) /\ vu \notin ZeroKey
    BY <1>1, <1>2
  <2> QED BY <2>1, Zenon DEF KeyDerivation, Multiply, t
<1>5. TxKey(one, last) = IF one THEN PubSpend(last) \cup {t} ELSE {t}
  <2>1. PubSpend(last) # ZeroKey
    BY <1>2, <1>3
  <2> QED BY <2>1, Zenon DEF TxKey, Multiply, t
<1>6. KeyDerivation(TxKey(one, last), ViewSecret(w)) = TxKey(one, last) \cup {vw}
  <2>1. t \in TxKey(one, last) /\ t \notin ZeroKey
    BY <1>1, <1>2, <1>5
  <2> QED BY <2>1, Zenon DEF KeyDerivation, Multiply, vw
<1>7. SameDerivation(one, last, w, x) <=> TxKey(one, last) \cup {vw} = PubView(x) \cup {t}
  BY <1>4, <1>6, Zenon DEF SameDerivation
<1>8. CASE ~one
  <2>1. {t} \cup {vw} = {vu, su} \cup {t} => FALSE
    BY <1>1
  <2>2. {t} \cup {vw} = {vu} \cup {t} <=> vw = vu
    BY <1>1
  <2> QED BY <1>1, <1>2, <1>5, <1>7, <1>8, <2>1, <2>2, Zenon DEF u
<1>9. CASE one /\ ~IsSubAddress(last)
  <2>1. ({pl} \cup {t}) \cup {vw} = {vu, su} \cup {t} => FALSE
    BY <1>1
  <2>2. ({pl} \cup {t}) \cup {vw} = {vu} \cup {t} => FALSE
    BY <1>1
  <2> QED BY <1>2, <1>5, <1>7, <1>9, <2>1, <2>2, Zenon
<1>10. CASE one /\ IsSubAddress(last)
  <2>1. ({sl} \cup {t}) \cup {vw} = {vu, su} \cup {t} <=> vw = vu /\ su = sl
    BY <1>1
  <2>2. ({sl} \cup {t}) \cup {vw} = {vu} \cup {t} => FALSE
    BY <1>1
  <2> QED BY <1>1, <1>2, <1>5, <1>7, <1>10, <2>1, <2>2, Zenon DEF u, l
<1> QED BY <1>8, <1>9, <1>10

\* What the builder left of the key and of each output.
LEMMA BuilderSeen ==
    ASSUME BuilderInv, step = 10
    PROVE  /\ KeyMade /\ OutputsMade /\ TypeOK /\ OutputsAligned
           /\ ParseTxExtra(ExtraItems(extra)).ok
           /\ ParseTxExtra(ExtraItems(extra)).txPubKey = <<TxPublicKey>>
           /\ ParseTxExtra(ExtraItems(extra)).encPID
                = <<EncryptPaymentID(ExtractPaymentID(LastPayee), PubView(LastPayee), TxSecret)>>
           /\ TxPublicKey = TxKey(OneSub, LastPayee)
           /\ DOMAIN outputs = DOMAIN pOutputs /\ blindAmounts = AmountsOf(pOutputs)
           /\ \A i \in DOMAIN outputs :
                /\ outputs[i].target = OneTimeKey(OutputDerivation(pOutputs[i]), i - 1,
                                                  PubSpend(pOutputs[i].address))
                /\ outputs[i].viewTag = ViewTag(OutputDerivation(pOutputs[i]), i - 1)
<1> DEFINE id == EncryptPaymentID(ExtractPaymentID(LastPayee), PubView(LastPayee), TxSecret)
<1>1. KeyMade /\ OutputsMade /\ TypeOK /\ OutputsAligned /\ OutputsInOrder
  BY DEF BuilderInv, KeyInv, AnyOrderInv, OrderInv
<1>2. ExtraReads(extra, TxPublicKey, id)
  <2>1. extra = <<[publicKey |-> TxPublicKey, paymentId |-> id]>>
    BY <1>1, Zenon DEF KeyMade
  <2>2. ExtraReads(<<[publicKey |-> TxPublicKey, paymentId |-> id]>>, TxPublicKey, id)
    <3> HIDE DEF id
    <3> QED BY ExtraRead
  <2> QED BY <2>1, <2>2, Zenon
<1>3. TxPublicKey = TxKey(OneSub, LastPayee)
  BY Zenon DEF TxPublicKey, TxKey, OneSub
<1>4. DOMAIN outputs = DOMAIN pOutputs /\ outputs \in Seq(TxOutputs) /\ blindAmounts = AmountsOf(pOutputs)
  <2>1. /\ Len(blindAmounts) = Len(outputs) /\ outputs \in Seq(TxOutputs) /\ blindAmounts \in Seq(Amounts)
    BY <1>1, Zenon DEF OutputsAligned, TypeOK
  <2>2. blindAmounts = AmountsOf(pOutputs)
    BY <1>1 DEF OutputsInOrder
  <2>3. DOMAIN outputs = DOMAIN blindAmounts
    BY <2>1
  <2>4. DOMAIN blindAmounts = DOMAIN pOutputs
    BY <2>2 DEF AmountsOf
  <2> QED BY <2>1, <2>2, <2>3, <2>4
<1>5. ASSUME NEW i \in DOMAIN outputs
      PROVE  /\ outputs[i].target = OneTimeKey(OutputDerivation(pOutputs[i]), i - 1,
                                               PubSpend(pOutputs[i].address))
             /\ outputs[i].viewTag = ViewTag(OutputDerivation(pOutputs[i]), i - 1)
  <2>1. outputs[i].target \in [derivation : Points, index : Indices, base : Points]
    <3>1. outputs[i] \in TxOutputs
      BY <1>4
    <3> QED BY <3>1 DEF TxOutputs
  <2>2. outputs[i].target.index = i - 1
    BY <1>1, Zenon DEF OutputsAligned
  <2>3. outputs[i].target.base = PubSpend(pOutputs[i].address)
    BY <1>1, <1>4 DEF OutputsInOrder
  <2>4. /\ outputs[i].target.derivation = OutputDerivation(pOutputs[i])
        /\ outputs[i].viewTag = ViewTag(OutputDerivation(pOutputs[i]), i - 1)
    BY <1>1, <1>4, Zenon DEF OutputsMade
  <2>5. outputs[i].target = OneTimeKey(outputs[i].target.derivation, outputs[i].target.index,
                                       outputs[i].target.base)
    BY <2>1 DEF OneTimeKey
  <2> QED BY <2>2, <2>3, <2>4, <2>5, Zenon
<1> HIDE DEF id
<1> QED BY <1>1, <1>2, <1>3, <1>4, <1>5, Zenon DEF ExtraReads, id

\* What the receiver sees of the extra field, of each output and of its signature.
LEMMA SeenAs ==
    ASSUME ScanInv, ParsedOnce, origin = "builder"
    PROVE  /\ KeyMade /\ OutputsMade /\ TypeOK
           /\ ParseTxExtra(rx.extra).ok
           /\ ParseTxExtra(rx.extra).txPubKey = <<TxPublicKey>>
           /\ ParseTxExtra(rx.extra).encPID
                = <<EncryptPaymentID(ExtractPaymentID(LastPayee), PubView(LastPayee), TxSecret)>>
           /\ TxPublicKey = TxKey(OneSub, LastPayee)
           /\ rx.outputs = outputs /\ rx.signature = <<SigOf(txnFee, ecdhInfo, outPk)>>
           /\ DOMAIN outputs = DOMAIN pOutputs
           /\ \A i \in DOMAIN outputs :
                /\ outputs[i].target = OneTimeKey(OutputDerivation(pOutputs[i]), i - 1,
                                                  PubSpend(pOutputs[i].address))
                /\ outputs[i].viewTag = ViewTag(OutputDerivation(pOutputs[i]), i - 1)
<1>1. BuilderInv /\ step = 10 /\ rx = BuilderTx(rx.raw)
  BY ParsedIs, Zenon DEF ScanInv
<1>2. rx.extra = ExtraItems(extra) /\ rx.outputs = outputs /\ rx.signature = <<SigOf(txnFee, ecdhInfo, outPk)>>
  <2> DEFINE n == Len(inputs)
             i == RingOf(inputs)
             m == Len(outputs)
             x == ExtraItems(extra)
             s == <<SigOf(txnFee, ecdhInfo, outPk)>>
             p == <<PrunableOf(<<BppHashes(bpp)>>, SignedOf(clsags), pseudoOuts)>>
  <2>1. rx = TxOf(0, n, i, m, outputs, x, rx.raw, <<>>, s, p, TRUE)
    BY <1>1, Zenon DEF BuilderTx
  <2> HIDE DEF n, i, m, x, s, p
  <2>2. rx.extra = x /\ rx.outputs = outputs /\ rx.signature = s
    BY <2>1 DEF TxOf
  <2> QED BY <2>2, Zenon DEF x, s
<1> QED BY <1>1, <1>2, BuilderSeen, Zenon

\* The wallet w finds output i for address a if it derives what the sender did.
LEMMA RecognisesIf ==
    ASSUME ScanInv, ParsedOnce, origin = "builder", NEW a, NEW w, NEW i \in DOMAIN pOutputs
    PROVE  Recognises(rx, a, w, i)
             <=> /\ KeyDerivation(TxPublicKey, ViewSecret(w)) = OutputDerivation(pOutputs[i])
                 /\ PubSpend(a) = PubSpend(pOutputs[i].address)
<1> DEFINE d == KeyDerivation(ParseTxExtra(rx.extra).txPubKey[1], ViewSecret(w))
           e == OutputDerivation(pOutputs[i])
           p == PubSpend(pOutputs[i].address)
<1>1. /\ ParseTxExtra(rx.extra).ok /\ ParseTxExtra(rx.extra).txPubKey = <<TxPublicKey>>
      /\ rx.outputs[i].target = OneTimeKey(e, i - 1, p) /\ rx.outputs[i].viewTag = ViewTag(e, i - 1)
  BY SeenAs, Zenon
<1>2. ParseTxExtra(rx.extra).txPubKey[1] = TxPublicKey /\ ParseTxExtra(rx.extra).txPubKey # <<>>
  <2>1. \A k : <<k>>[1] = k /\ <<k>> # <<>>
    OBVIOUS
  <2> QED BY <1>1, <2>1, Zenon
<1>3. Recognises(rx, a, w, i) <=> ViewTag(e, i - 1) = ViewTag(d, i - 1)
                                  /\ OneTimeKey(e, i - 1, p) = OneTimeKey(d, i - 1, PubSpend(a))
  BY <1>1, <1>2, Zenon DEF Recognises
<1> HIDE DEF e, p, d
<1>4. OneTimeKey(e, i - 1, p) = OneTimeKey(d, i - 1, PubSpend(a)) <=> e = d /\ p = PubSpend(a)
  BY DEF OneTimeKey
<1>5. d = KeyDerivation(TxPublicKey, ViewSecret(w))
  BY <1>2, Zenon DEF d
<1> QED BY <1>3, <1>4, <1>5, Zenon DEF e, p

\* The positions of payees are finitely many numbers.
LEMMA PayeesCount ==
    ASSUME TypeOK
    PROVE  /\ PayeePositions \subseteq Nat /\ SubPayees \subseteq PayeePositions
           /\ Cardinality(PayeePositions) = 1 <=> \E k : PayeePositions = {k}
           /\ Cardinality(SubPayees) = 1 <=> OneSub
<1> DEFINE n == Len(pOutputs)
<1>1. n \in Nat /\ DOMAIN pOutputs = 1 .. n
  BY Lengths
<1>2. PayeePositions \subseteq 1 .. n /\ SubPayees \subseteq PayeePositions
  BY <1>1 DEF PayeePositions, SubPayees
<1>3. IsFiniteSet(1 .. n)
  BY <1>1, FS_Interval
<1>4. IsFiniteSet(PayeePositions) /\ IsFiniteSet(SubPayees)
  <2>1. IsFiniteSet(PayeePositions)
    BY <1>2, <1>3, FS_Subset
  <2> QED BY <1>2, <2>1, FS_Subset
<1>5. Cardinality(PayeePositions) = 1 <=> \E k : PayeePositions = {k}
  BY <1>4, FS_Singleton, Zenon
<1>6. Cardinality(SubPayees) = 1 <=> \E k : SubPayees = {k}
  BY <1>4, FS_Singleton, Zenon
<1>7. PayeePositions \subseteq Nat
  BY <1>1, <1>2
<1>8. OneSub <=> \E k : SubPayees = {k}
  BY Zenon DEF OneSub
<1> QED BY <1>2, <1>5, <1>6, <1>7, <1>8

\* A payee recognises its output if its address has the keys that the public key
\* was made for.
LEMMA PayeeRecognises ==
    ASSUME ScanInv, ParsedOnce, origin = "builder", NEW i \in PayeePositions
    PROVE  LET x == pOutputs[i].address
           IN  Recognises(rx, x, x.owner, i)
                 <=> IF OneSub THEN /\ IsSubAddress(x) /\ IsSubAddress(LastPayee)
                                    /\ x.owner = LastPayee.owner
                               ELSE ~IsSubAddress(x)
<1> DEFINE x == pOutputs[i].address
<1>1. i \in DOMAIN pOutputs /\ pOutputs[i].change # "yes"
  BY Zenon DEF PayeePositions, IsPayee
<1>2. OutputDerivation(pOutputs[i]) = KeyDerivation(PubView(x), TxSecret)
  <2>1. pOutputs[i].change # "absent" /\ TypeOK
    BY <1>1, SeenAs, Zenon DEF OutputsMade
  <2>2. pOutputs[i] \in OutputRequestType
    BY <1>1, <2>1, Lengths, Zenon
  <2>3. pOutputs[i].change = "no"
    BY <1>1, <2>1, <2>2 DEF OutputRequestType
  <2> QED BY <2>3, Zenon DEF OutputDerivation
<1>3. TxPublicKey = TxKey(OneSub, LastPayee)
  BY SeenAs, Zenon
<1>4. Recognises(rx, x, x.owner, i) <=> KeyDerivation(TxPublicKey, ViewSecret(x.owner))
                                          = KeyDerivation(PubView(x), TxSecret)
  <2>1. Recognises(rx, x, x.owner, i)
          <=> /\ KeyDerivation(TxPublicKey, ViewSecret(x.owner)) = OutputDerivation(pOutputs[i])
              /\ PubSpend(x) = PubSpend(pOutputs[i].address)
    BY <1>1, RecognisesIf, Zenon
  <2> QED BY <1>2, <2>1, Zenon
<1>5. OneSub \in BOOLEAN
  BY Zenon DEF OneSub
<1> HIDE DEF x
<1>6. Recognises(rx, x, x.owner, i) <=> SameDerivation(OneSub, LastPayee, x.owner, x)
  BY <1>3, <1>4, Zenon DEF SameDerivation
<1>7. SameDerivation(OneSub, LastPayee, x.owner, x)
        <=> IF OneSub THEN /\ IsSubAddress(x) /\ IsSubAddress(LastPayee)
                           /\ x.owner = LastPayee.owner
                      ELSE ~IsSubAddress(x)
  BY <1>5, KeysAgree, Zenon
<1> QED BY <1>6, <1>7, Zenon DEF x

\* All payees of a transaction find their outputs exactly if none is a subaddress
\* or there is one payee: for every set of requests the builder accepts, the one
\* public key it writes serves no other combination.
THEOREM OnePublicKeyReaches == ScanSpec => []EveryPayeeReached
<1>1. ASSUME ScanInv, ParsedOnce, origin = "builder"
      PROVE  (\A i \in PayeePositions :
                  Recognises(rx, pOutputs[i].address, pOutputs[i].address.owner, i))
               <=> SubPayees = {} \/ Cardinality(PayeePositions) = 1
  <2> DEFINE All == \A i \in PayeePositions :
                        Recognises(rx, pOutputs[i].address, pOutputs[i].address.owner, i)
             Sub(i) == IsSubAddress(pOutputs[i].address)
  <2>1. /\ PayeePositions \subseteq Nat /\ SubPayees \subseteq PayeePositions
        /\ Cardinality(PayeePositions) = 1 <=> \E k : PayeePositions = {k}
    <3>1. TypeOK
      BY <1>1, SeenAs
    <3> QED BY <3>1, PayeesCount, Zenon
  <2>2. \A i \in PayeePositions : i \in SubPayees <=> Sub(i)
    BY Zenon DEF SubPayees
  <2>3. CASE ~OneSub
    <3>1. All <=> \A i \in PayeePositions : ~Sub(i)
      BY <1>1, <2>3, PayeeRecognises, Zenon
    <3>2. All <=> SubPayees = {}
      <4> HIDE DEF All, Sub
      <4> QED BY <2>1, <2>2, <3>1
    <3>3. ASSUME NEW k, PayeePositions = {k} PROVE SubPayees = {}
      BY <2>1, <2>3, <3>3 DEF OneSub
    <3> QED BY <2>1, <3>2, <3>3, Zenon
  <2>4. CASE OneSub
    <3>1. PICK k \in SubPayees : SubPayees = {k}
      BY <2>4 DEF OneSub
    <3>2. k \in PayeePositions /\ Sub(k)
      BY <2>1, <2>2, <3>1
    <3>3. ASSUME All PROVE PayeePositions = {k}
      <4>1. \A i \in PayeePositions : Sub(i)
        BY <1>1, <2>4, <3>3, PayeeRecognises, Zenon
      <4> HIDE DEF All, Sub
      <4> QED BY <2>2, <3>1, <3>2, <4>1
    <3>4. ASSUME NEW j, PayeePositions = {j} PROVE All
      <4>1. j = k /\ k \in Nat
        BY <2>1, <3>2, <3>4
      <4>2. LastPayee = pOutputs[k].address
        <5>1. (CHOOSE i \in PayeePositions : \A h \in PayeePositions : h <= i) = k
          BY <3>4, <4>1
        <5> QED BY <5>1, Zenon DEF LastPayee
      <4>3. Recognises(rx, pOutputs[k].address, pOutputs[k].address.owner, k)
        BY <1>1, <2>4, <3>2, <4>2, PayeeRecognises, Zenon
      <4>4. \A i \in PayeePositions : i = k
        BY <3>4, <4>1
      <4> QED BY <4>3, <4>4, Zenon
    <3>5. SubPayees # {}
      BY <3>1
    <3> HIDE DEF All
    <3>6. All <=> \E j : PayeePositions = {j}
      BY <3>3, <3>4, Zenon
    <3> QED BY <2>1, <3>5, <3>6, Zenon DEF All
  <2> QED BY <2>3, <2>4
<1>2. ScanInv => EveryPayeeReached
  BY <1>1, Zenon DEF EveryPayeeReached
<1> QED BY <1>2, ScanInvariance, PTL

\* Whoever recognises an output, for whatever address, decrypts its amount and
\* derives its mask: it can spend the output.
THEOREM RecognisedCanBeSpent == ScanSpec => []RecognisedOpens
<1>1. ASSUME ScanInv, ParsedOnce, origin = "builder", NEW a \in Requested,
             NEW i \in DOMAIN pOutputs, Recognises(rx, a, a.owner, i)
      PROVE  rx.signature[1].outPk[i] = Commit(DecodeRctAmount(rx, a.owner, i),
                                               generateBulletproofPlusMask(rx, a.owner, i))
  <2> DEFINE d == KeyDerivation(TxPublicKey, ViewSecret(a.owner))
  <2>1. /\ ParseTxExtra(rx.extra).txPubKey = <<TxPublicKey>>
        /\ rx.signature = <<SigOf(txnFee, ecdhInfo, outPk)>> /\ DOMAIN outputs = DOMAIN pOutputs
        /\ outputs[i].target = OneTimeKey(OutputDerivation(pOutputs[i]), i - 1,
                                          PubSpend(pOutputs[i].address))
    BY <1>1, SeenAs, Zenon
  <2>2. ParseTxExtra(rx.extra).txPubKey[1] = TxPublicKey /\ rx.signature[1] = SigOf(txnFee, ecdhInfo, outPk)
    <3>1. \A k : <<k>>[1] = k
      OBVIOUS
    <3> QED BY <2>1, <3>1, Zenon
  <2>3. d = OutputDerivation(pOutputs[i])
    BY <1>1, RecognisesIf, Zenon
  <2> HIDE DEF d
  <2>4. outputs[i].target.derivation = d
    BY <2>1, <2>3 DEF OneTimeKey
  <2>5. /\ ecdhInfo[i] = EncryptAmount(d, i - 1, blindAmounts[i]) /\ blindScalars[i] = Hs[<<d, i - 1>>]
        /\ outPk[i] = Commit(blindAmounts[i], blindScalars[i])
    <3>1. OutputsAligned
      BY <1>1 DEF ScanInv, BuilderInv, AnyOrderInv
    <3> QED BY <1>1, <2>1, <2>4, <3>1, Zenon DEF OutputsAligned
  <2>6. rx.signature[1].outPk = outPk /\ rx.signature[1].ecdhInfo = ecdhInfo
    BY <2>2 DEF SigOf
  <2>7. DecodeRctAmount(rx, a.owner, i) = blindAmounts[i]
    <3>1. DecodeRctAmount(rx, a.owner, i) = DecryptAmount(d, i - 1, ecdhInfo[i])
      BY <2>2, <2>6, Zenon DEF DecodeRctAmount, d
    <3>2. ecdhInfo[i].derivation = d /\ ecdhInfo[i].index = i - 1 /\ ecdhInfo[i].amount = blindAmounts[i]
      BY <2>5 DEF EncryptAmount
    <3> QED BY <3>1, <3>2, Zenon DEF DecryptAmount
  <2>8. generateBulletproofPlusMask(rx, a.owner, i) = blindScalars[i]
    BY <2>2, <2>5, Zenon DEF generateBulletproofPlusMask, d
  <2> QED BY <2>5, <2>6, <2>7, <2>8, Zenon
<1>2. ScanInv => RecognisedOpens
  BY <1>1, Zenon DEF RecognisedOpens
<1> QED BY <1>2, ScanInvariance, PTL

\* Of all wallets that find an output, only the owner of the last payee's address
\* reads the payment id that was meant, and only while that address is a subaddress
\* exactly if one payee is.
THEOREM OnlyLastPayeeReadsId == ScanSpec => []PaymentIdForLastPayee
<1>1. ASSUME ScanInv, ParsedOnce, origin = "builder", NEW a \in PrimaryAddresses,
             CheckOutputs(rx, a, a.owner).ok
      PROVE  CheckOutputs(rx, a, a.owner).paymentID =
               IF a.owner = LastPayee.owner /\ (IsSubAddress(LastPayee) <=> Cardinality(SubPayees) = 1)
               THEN ExtractPaymentID(LastPayee) ELSE Garbage
  <2> DEFINE scan == CheckOutputs(rx, a, a.owner)
             parsed == ParseTxExtra(rx.extra)
             id == EncryptPaymentID(ExtractPaymentID(LastPayee), PubView(LastPayee), TxSecret)
  <2>1. /\ parsed.txPubKey = <<TxPublicKey>> /\ parsed.encPID = <<id>> /\ TypeOK
        /\ TxPublicKey = TxKey(OneSub, LastPayee)
    BY <1>1, SeenAs, Zenon
  <2>2. parsed.txPubKey[1] = TxPublicKey /\ parsed.encPID[1] = id /\ parsed.encPID # <<>>
    <3>1. \A k : <<k>>[1] = k /\ <<k>> # <<>>
      OBVIOUS
    <3> HIDE DEF id, parsed
    <3> QED BY <2>1, <3>1, Zenon
  <2>3. scan.paymentID = DecryptShortPaymentID(parsed.txPubKey[1], ViewSecret(a.owner), parsed.encPID[1])
    <3>1. \A ok, f, t, p : [ok |-> ok, found |-> f, total |-> t, paymentID |-> p].ok = ok
                           /\ [ok |-> ok, found |-> f, total |-> t, paymentID |-> p].paymentID = p
      OBVIOUS
    <3> QED BY <1>1, <2>2, <3>1, Zenon DEF CheckOutputs
  <2>4. id.derivation = KeyDerivation(PubView(LastPayee), TxSecret) /\ id.pid = ExtractPaymentID(LastPayee)
    BY DEF EncryptPaymentID
  <2> HIDE DEF id, scan, parsed
  <2>5. scan.paymentID = IF SameDerivation(OneSub, LastPayee, a.owner, LastPayee)
                         THEN ExtractPaymentID(LastPayee) ELSE Garbage
    BY <2>1, <2>2, <2>3, <2>4, Zenon DEF DecryptShortPaymentID, SameDerivation
  <2>6. SameDerivation(OneSub, LastPayee, a.owner, LastPayee)
          <=> a.owner = LastPayee.owner /\ (IsSubAddress(LastPayee) <=> OneSub)
    <3>1. OneSub \in BOOLEAN
      BY Zenon DEF OneSub
    <3>2. SameDerivation(OneSub, LastPayee, a.owner, LastPayee)
            <=> /\ a.owner = LastPayee.owner
                /\ IF OneSub THEN IsSubAddress(LastPayee) /\ IsSubAddress(LastPayee)
                                  /\ LastPayee.owner = LastPayee.owner
                             ELSE ~IsSubAddress(LastPayee)
      BY <3>1, KeysAgree, Zenon
    <3> QED BY <3>2, Zenon
  <2>7. OneSub <=> Cardinality(SubPayees) = 1
    BY <2>1, PayeesCount, Zenon
  <2> QED BY <2>5, <2>6, <2>7, Zenon DEF scan
<1>2. ScanInv => PaymentIdForLastPayee
  BY <1>1, Zenon DEF PaymentIdForLastPayee
<1> QED BY <1>2, ScanInvariance, PTL

-----------------------------------------------------------------------------
(* The reward of a block, as monerod writes it.                                *)

LEMMA FlattenOne ==
    ASSUME NEW rows, Tuple(rows, 1), IsSeq(rows[1])
    PROVE  FlattenSeq(rows) = rows[1]
<1>1. 1 \in Nat /\ 1 \in 1 .. 1 /\ 1 - 1 = 0 /\ \A i \in 1 .. 1 : i = 1
  OBVIOUS
<1>2. PICK t : Peels(t, rows, 1) /\ t[0] = FlattenSeq(rows)
  BY <1>1, FlattenPeels, Zenon
<1>3. t[0] = rows[1] \o t[1] /\ t[1] = <<>>
  BY <1>1, <1>2, Zenon DEF Peels
<1>4. rows[1] \o <<>> = rows[1]
  BY ConcatIs, SmallSeqs, Zenon
<1> QED BY <1>2, <1>3, <1>4, Zenon

GeneratedInput(h) == [type |-> Generated, height |-> h, offsets |-> <<>>, image |-> ZeroBytes]
GeneratedFields(h) == <<Field("byte", Generated), Field("varint", h)>>
GeneratedReads(h, c, g) == ReadInput(R(GeneratedFields(h) \o c, g)) = R(c, GeneratedInput(h))

LEMMA GeneratedRead ==
    ASSUME NEW h, NEW c, IsSeq(c), NEW g
    PROVE  GeneratedReads(h, c, g)
<1> DEFINE a1 == <<Field("byte", Generated)>>
           a2 == <<Field("varint", h)>>
           w1 == a2 \o c
           type == ReadAll(R(a1 \o w1, g), <<"byte">>)
           height == ReadAll(type, <<"varint">>)
           x == GeneratedInput(h)
<1>1. IsSeq(a1) /\ IsSeq(a2)
  BY SmallSeqs, Zenon
<1>2. IsSeq(w1)
  <2> HIDE DEF a2
  <2> QED BY <1>1, ConcatIs, Zenon
<1>3. GeneratedFields(h) \o c = a1 \o w1
  <2>1. a1 \o a2 = GeneratedFields(h)
    BY SmallJoins, Zenon DEF GeneratedFields
  <2> HIDE DEF a1, a2
  <2>2. Same3(a1, a2, c)
    BY <1>1, Brackets3, Zenon
  <2> QED BY <2>1, <2>2, Zenon DEF Same3
<1>4. type = R(w1, <<Generated>>)
  <2> HIDE DEF w1
  <2>1. Reads1(w1, g, "byte", Generated)
    BY <1>2, Read1, Zenon
  <2> QED BY <2>1, Zenon DEF Reads1
<1>5. height = R(c, <<h>>)
  <2> HIDE DEF type
  <2>1. Reads1(c, <<Generated>>, "varint", h)
    BY Read1, Zenon
  <2> QED BY <1>4, <2>1, Zenon DEF Reads1
<1>6. type.got[1] = Generated /\ height.got[1] = h
  <2> HIDE DEF w1, type, height
  <2> QED BY <1>4, <1>5 DEF R
<1>7. [NewInput(Generated) EXCEPT !.height = h] = x
  BY DEF NewInput, GeneratedInput
<1>8. ReadInput(R(a1 \o w1, g)) = [height EXCEPT !.got = x]
  <2> DEFINE counts == ReadAll(type, <<"varint", "varint">>)
             offsets == ReadAll(counts, Times(counts.got[2], "varint"))
             image == ReadAll(offsets, <<"hash">>)
  <2> HIDE DEF a1, w1, x
  <2>1. ReadInput(R(a1 \o w1, g)) =
          LET new    == NewInput(type.got[1])
          IN  CASE type.got[1] = Generated ->
                     [height EXCEPT !.got = [new EXCEPT !.height = height.got[1]]]
                [] type.got[1] = ToKey ->
                     [image EXCEPT !.got = [[new EXCEPT !.offsets = offsets.got] EXCEPT !.image = image.got[1]]]
                [] OTHER ->
                     [type EXCEPT !.got = new]
    BY Zenon DEF ReadInput
  <2> HIDE DEF type, counts, offsets, image, height
  <2>2. Generated # ToKey
    BY DEF Generated, ToKey
  <2> QED BY <1>6, <1>7, <2>1, <2>2, Zenon
<1> HIDE DEF x, a1, w1, height
<1>9. [height EXCEPT !.got = x] = R(c, x)
  BY <1>5, NewGot, Zenon
<1> QED BY <1>3, <1>8, <1>9, Zenon DEF x, GeneratedReads

LEMMA GeneratedIsInput ==
    ASSUME NEW h
    PROVE  InputsAre(GeneratedFields(h), 1, <<GeneratedInput(h)>>)
<1> DEFINE rows == <<GeneratedFields(h)>>
           v == <<GeneratedInput(h)>>
<1>1. Tuple(rows, 1) /\ Tuple(v, 1) /\ rows[1] = GeneratedFields(h) /\ v[1] = GeneratedInput(h)
  BY TupleCases, Zenon
<1>2. 1 \in Nat /\ \A i \in 1 .. 1 : i = 1
  OBVIOUS
<1> HIDE DEF rows, v
<1>3. IsSeq(rows[1])
  BY <1>1, SmallSeqs, Zenon DEF GeneratedFields
<1>4. ItemsFit("input", <<>>, rows, v, 1)
  <2>1. ASSUME NEW c, NEW g, IsSeq(c) PROVE Item("input", <<>>, R(rows[1] \o c, g), 1) = R(c, v[1])
    BY <1>1, <2>1, GeneratedRead, Zenon DEF GeneratedReads, Item
  <2> QED BY <1>1, <1>2, <1>3, <2>1, Zenon DEF ItemsFit
<1>5. FlattenSeq(rows) = GeneratedFields(h)
  BY <1>1, <1>3, FlattenOne, Zenon
<1>6. ASSUME NEW c, NEW g, IsSeq(c)
      PROVE  ReadEach(ReadInput, R(GeneratedFields(h) \o c, g), 1) = R(c, v)
  <2> DEFINE r == R(GeneratedFields(h) \o c, <<>>)
  <2>1. r = R(FlattenSeq(rows) \o c, <<>>)
    BY <1>5, Zenon
  <2> HIDE DEF r
  <2>2. ItemsGive("input", <<>>, r, 1, R(c, v))
    BY <1>2, <1>4, <1>6, <2>1, ItemsRead, Zenon
  <2>3. ASSUME NEW f PROVE AreInputs(f, r, 1) <=> AreItems(f, "input", <<>>, r, 1)
    <3>1. \A i : InputStep(f, r, i) = ItemStep(f, "input", <<>>, r, i)
      BY Zenon DEF InputStep, ItemStep, Item
    <3>2. [i \in 0 .. 1 |-> InputStep(f, r, i)] = [i \in 0 .. 1 |-> ItemStep(f, "input", <<>>, r, i)]
      BY <3>1
    <3> QED BY <3>2, Zenon DEF AreInputs, AreItems
  <2>4. (CHOOSE f : AreInputs(f, r, 1))[1] = R(c, v)
    BY <2>2, <2>3, Zenon DEF ItemsGive
  <2>5. ReadEach(ReadInput, R(GeneratedFields(h) \o c, g), 1) = (CHOOSE f : AreInputs(f, r, 1))[1]
    <3> DEFINE w == R(GeneratedFields(h) \o c, g)
    <3>1. [w EXCEPT !.got = <<>>] = r
      BY NewGot, Zenon DEF r
    <3> HIDE DEF w
    <3>2. ReadEach(ReadInput, w, 1) = (CHOOSE f : AreInputs(f, [w EXCEPT !.got = <<>>], 1))[1]
      BY Zenon DEF ReadEach, Loop, AreInputs, InputStep, OneMore
    <3> QED BY <3>1, <3>2, Zenon DEF w
  <2> QED BY <2>4, <2>5, Zenon
<1>7. IsSeq(GeneratedFields(h))
  BY <1>1, <1>3, Zenon
<1> QED BY <1>6, <1>7, Zenon DEF InputsAre, v

LEMMA OneOutputIs ==
    ASSUME NEW k, NEW t
    PROVE  OutputsAre(OutputFields(OutputOf(k, t)), 1, <<OutputOf(k, t)>>)
<1> DEFINE v == <<OutputOf(k, t)>>
           a == OutputFields(OutputOf(k, t))
           rows == [i \in DOMAIN v |-> OutputFields(v[i])]
<1>1. Tuple(v, 1) /\ v[1] = OutputOf(k, t) /\ DOMAIN v = 1 .. 1 /\ \A i \in 1 .. 1 : i = 1
  <2>1. Tuple(v, 1) /\ v[1] = OutputOf(k, t)
    BY TupleCases, Zenon
  <2> HIDE DEF v
  <2>2. 1 \in Nat /\ \A i \in 1 .. 1 : i = 1
    OBVIOUS
  <2> QED BY <2>1, <2>2, TupleIs, Zenon
<1> HIDE DEF v
<1>2. Tuple(rows, 1) /\ rows[1] = a
  <2>1. rows = [i \in 1 .. 1 |-> OutputFields(v[i])]
    BY <1>1, Zenon
  <2> HIDE DEF rows
  <2>2. rows[1] = OutputFields(v[1])
    BY <2>1
  <2>3. Tuple(rows, 1)
    BY <2>1 DEF Tuple
  <2> QED BY <1>1, <2>2, <2>3, Zenon
<1>3. IsSeq(a)
  BY OutputRead, SmallSeqs, Zenon
<1>4. Concat(OutputFields, v) = FlattenSeq(rows)
  BY Zenon DEF Concat
<1> HIDE DEF rows, a
<1>5. Concat(OutputFields, v) = a
  BY <1>2, <1>3, <1>4, FlattenOne, Zenon
<1>6. ASSUME NEW c, NEW g, IsSeq(c) PROVE ReadEach(ReadOutput, R(a \o c, g), 1) = R(c, v)
  <2>1. 1 \in Nat
    OBVIOUS
  <2>2. \A i \in 1 .. 1 : \E p, q : v[i] = OutputOf(p, q)
    BY <1>1, Zenon
  <2>3. ReadEach(ReadOutput, R(Concat(OutputFields, v) \o c, g), 1) = R(c, v)
    BY <1>1, <1>6, <2>1, <2>2, OutputsRead, Zenon
  <2> QED BY <1>5, <2>3, Zenon
<1> QED BY <1>3, <1>6, Zenon DEF OutputsAre, a, v

PaidOutput(a) ==
    OutputOf(OneTimeKey(KeyDerivation(PubView(a), TxSecret), 0, PubSpend(a)),
             ViewTag(KeyDerivation(PubView(a), TxSecret), 0))
KeyItem == [tag |-> "pubkey", value |-> {TxSecret}]
NoProofs == <<Field("varint", RctNull)>>

CoinbaseParses(a) ==
    /\ ParsesAs(ForeignFields("coinbase", a), 60, 1, <<GeneratedInput(1)>>, 1, <<PaidOutput(a)>>,
                <<KeyItem>>, NoProofs)
    /\ ForeignFields("coinbase", a)
         = Assembled(60, 1, GeneratedFields(1), 1, OutputFields(PaidOutput(a)), <<KeyItem>>) \o NoProofs

LEMMA CoinbaseRead ==
    ASSUME NEW a
    PROVE  CoinbaseParses(a)
<1> DEFINE six == <<Field("varint", 2), Field("varint", 60), Field("varint", 1),
                    Field("byte", Generated), Field("varint", 1), Field("varint", 1)>>
           w == NoProofs
           x == <<KeyItem>>
           xt == <<Field("extra", x)>>
           out == OutputFields(PaidOutput(a))
           rawc == Assembled(60, 1, GeneratedFields(1), 1, out, x) \o w
<1>1. ForeignFields("coinbase", a) = (six \o out) \o <<Field("extra", x), Field("varint", RctNull)>>
  BY Zenon DEF ForeignFields, Varint, Byte, Extra, Field, PaidOutput, OutputOf, KeyItem
<1>2. Assembled(60, 1, GeneratedFields(1), 1, out, x) = (six \o out) \o xt
  <2> DEFINE f2 == Field("varint", 2)
             f60 == Field("varint", 60)
             f1 == Field("varint", 1)
             fb == Field("byte", Generated)
  <2>1. (<<f2, f60, f1>> \o GeneratedFields(1)) \o <<f1>> = six
    <3>1. GeneratedFields(1) = <<fb, f1>> /\ six = <<f2, f60, f1, fb, f1, f1>>
      BY Zenon DEF GeneratedFields
    <3> HIDE DEF f2, f60, f1, fb, six
    <3>2. <<f2, f60, f1>> \o <<fb, f1>> = <<f2, f60, f1, fb, f1>>
      BY SmallJoins
    <3>3. <<f2, f60, f1, fb, f1>> \o <<f1>> = <<f2, f60, f1, fb, f1, f1>>
      BY SmallJoins
    <3> QED BY <3>1, <3>2, <3>3, Zenon
  <2>2. Assembled(60, 1, GeneratedFields(1), 1, out, x)
          = ((((<<f2, f60, f1>> \o GeneratedFields(1)) \o <<f1>>) \o out) \o xt)
    BY Zenon DEF Assembled
  <2> HIDE DEF out, x, six, f2, f60, f1
  <2> QED BY <2>1, <2>2, Zenon
<1>3. IsSeq(six) /\ IsSeq(xt) /\ IsSeq(w) /\ IsSeq(out)
  <2>1. IsSeq(six)
    <3>1. Tuple(six, 6) /\ 6 \in Nat
      BY TupleCases
    <3> HIDE DEF six
    <3> QED BY <3>1, TupleIsSeq, Zenon
  <2>2. IsSeq(xt) /\ IsSeq(w)
    BY SmallSeqs, Zenon DEF NoProofs
  <2>3. IsSeq(out)
    BY OneOutputIs, Zenon DEF OutputsAre, PaidOutput
  <2> QED BY <2>1, <2>2, <2>3
<1>4. rawc = ForeignFields("coinbase", a)
  <2>1. xt \o w = <<Field("extra", x), Field("varint", RctNull)>>
    BY SmallJoins, Zenon DEF NoProofs
  <2> HIDE DEF six, out, xt, w
  <2>2. IsSeq(six \o out)
    BY <1>3, ConcatIs, Zenon
  <2>3. Same3(six \o out, xt, w)
    BY <1>3, <2>2, Brackets3, Zenon
  <2> QED BY <1>1, <1>2, <2>1, <2>3, Zenon DEF Same3
<1>5. AssembledReads(60, 1, GeneratedFields(1), <<GeneratedInput(1)>>, 1, out, <<PaidOutput(a)>>, x, w)
  <2>1. InputsAre(GeneratedFields(1), 1, <<GeneratedInput(1)>>)
    BY GeneratedIsInput, Zenon
  <2>2. OutputsAre(out, 1, <<PaidOutput(a)>>)
    BY OneOutputIs, Zenon DEF PaidOutput
  <2> HIDE DEF out, x, w
  <2> QED BY <1>3, <2>1, <2>2, AssembledRead, Zenon
<1> HIDE DEF w, x, xt, six, out, rawc
<1>6. TxReads(rawc, 60, 1, <<GeneratedInput(1)>>, 1, <<PaidOutput(a)>>, x, w)
  BY <1>5, Zenon DEF AssembledReads, rawc
<1>7. ParsesAs(rawc, 60, 1, <<GeneratedInput(1)>>, 1, <<PaidOutput(a)>>, x, w)
  BY <1>6, ReadsParse, Zenon
<1> QED BY <1>4, <1>7, Zenon DEF CoinbaseParses, rawc, x, w, out

\* What has been read can be written.
CanWrite(sig, p) ==
    /\ IsSeq(sig.ecdhInfo) /\ IsSeq(sig.outPk)
    /\ Got("bpp", p.bpp) /\ Got("clsag", p.clsags) /\ IsSeq(p.pseudoOuts)

\* Of a type alone, everything else is read behind the end.
LEMMA NullHead ==
    /\ Stays(TRUE, RctHead(NoProofs)) /\ RctHead(NoProofs).got[1] = RctNull
<1> DEFINE w == <<"varint", "varint">>
<1>1. Len(w) = 2 /\ w[1] = "varint" /\ w[2] = "varint" /\ 1 \in 1 .. 2 /\ 1 - 1 = 0
      /\ 2 \in Nat /\ 2 \in 1 .. 2 /\ 2 - 1 = 1
  OBVIOUS
<1>2. RctHead(NoProofs) = ReadAll(Reader(NoProofs), w)
  BY Zenon DEF RctHead
<1> HIDE DEF w
<1>3. PICK f : AllReads(f, Reader(NoProofs), w, ReadAll(Reader(NoProofs), w))
  BY <1>1, ReadAllIs
<1>4. /\ f[0] = [Reader(NoProofs) EXCEPT !.got = <<>>] /\ f[1] = ReadField(f[0], "varint")
      /\ f[2] = ReadField(f[1], "varint") /\ f[2] = RctHead(NoProofs)
  BY <1>1, <1>2, <1>3, Zenon DEF AllReads
<1>5. f[0] = R(NoProofs, <<>>)
  BY <1>4, NewGot, Zenon DEF Reader, R
<1>6. f[1] = [rest |-> <<>>, got |-> <<RctNull>>, inStep |-> TRUE]
  <2>1. NoProofs # <<>> /\ Head(NoProofs) = Field("varint", RctNull) /\ Tail(NoProofs) = <<>>
    BY DEF NoProofs
  <2>2. Head(NoProofs).width = "varint" /\ Head(NoProofs).value = RctNull
    BY <2>1, FieldIs, Zenon
  <2>3. R(NoProofs, <<>>).rest = NoProofs /\ R(NoProofs, <<>>).got = <<>> /\ R(NoProofs, <<>>).inStep = TRUE
    BY DEF R
  <2>4. Append(<<>>, RctNull) = <<RctNull>>
    BY DEF RctNull
  <2> DEFINE z == f[0]
             fits == z.rest # <<>> /\ Head(z.rest).width = "varint"
             t == z.inStep /\ (fits \/ z.rest = <<>>)
  <2>5. z.rest = NoProofs /\ z.got = <<>> /\ z.inStep = TRUE
    BY <1>5, <2>3, Zenon
  <2> HIDE DEF NoProofs, z
  <2>6. fits = TRUE
    BY <2>1, <2>2, <2>5
  <2>7. t = TRUE
    BY <2>5, <2>6
  <2>8. f[1] = [rest |-> IF fits THEN Tail(z.rest) ELSE z.rest,
                got |-> Append(z.got, IF fits THEN Head(z.rest).value ELSE Zero("varint")),
                inStep |-> t]
    BY <1>4, Zenon DEF ReadField, z
  <2> HIDE DEF t
  <2>9. fits
    BY <2>6, Zenon
  <2> HIDE DEF fits
  <2> QED BY <2>1, <2>2, <2>4, <2>5, <2>7, <2>8, <2>9, Zenon
<1>7. Stays(TRUE, f[1])
  <2>1. f[1].rest = <<>> /\ f[1].got = <<RctNull>> /\ f[1].inStep = TRUE
    BY <1>6
  <2>2. IsReader(f[1])
    BY <1>6, <2>1, Zenon DEF IsReader
  <2>3. Numbered(<<>>)
    BY SmallSeqs DEF Numbered
  <2> QED BY <2>1, <2>2, <2>3, Zenon DEF Stays
<1>8. PICK v : Stays(TRUE, f[2]) /\ f[2].got = Append(f[1].got, v)
  <2>1. TRUE \in BOOLEAN
    OBVIOUS
  <2>2. FieldStays(TRUE, f[1], "varint")
    BY <1>7, <2>1, FieldKeeps, Zenon
  <2> QED BY <1>4, <2>2, Zenon DEF FieldStays
<1>9. f[1].got = <<RctNull>> /\ Append(<<RctNull>>, v)[1] = RctNull
  BY <1>6
<1> QED BY <1>4, <1>8, <1>9, Zenon

NullSigns(u, n, i, m, o, x, raw, s, p) ==
    \E sig, q : /\ ParseRctSig(TxOf(u, n, i, m, o, x, raw, NoProofs, s, p, TRUE))
                     = TxOf(u, n, i, m, o, x, raw, <<>>, <<sig>>, <<q>>, TRUE)
                /\ sig.type = RctNull /\ CanWrite(sig, q)

LEMMA NullSigned ==
    ASSUME NEW u, NEW n \in Nat, NEW i, OffsetsCounted(i, n), NEW m, NEW o, Len(o) \in Nat, NEW x,
           NEW raw, NEW s, NEW p
    PROVE  NullSigns(u, n, i, m, o, x, raw, s, p)
<1> DEFINE tx == TxOf(u, n, i, m, o, x, raw, NoProofs, s, p, TRUE)
           k == Len(o)
           head == RctHead(NoProofs)
           e == RctEcdh(NoProofs, k)
           sig == RctSigned(NoProofs, k)
           q == RctProved(e, k, i, n)
           pseudo == RctPseudo(e, k, i, n)
<1>1. FieldsAre(u, n, i, m, o, x, raw, NoProofs, s, p, TRUE, tx)
  BY TxParts, Zenon
<1>2. SignedSets(u, n, i, m, o, x, raw, NoProofs, s, p, TRUE, <<sig>>, <<q>>, <<>>, TRUE)
  BY SignedSet, Zenon
<1>3. Kept(TRUE, "ecdh", e)
  <2>1. Kept(TRUE, "ecdh", ReadEcdhs(head, head.got[1], k))
    BY NullHead, EcdhsStay
  <2> QED BY <2>1, Zenon DEF RctEcdh
<1>4. TailStays(TRUE, e, k, i, n)
  <2> HIDE DEF e
  <2> QED BY <1>3, TailKeeps DEF Kept
<1>5. pseudo.rest = <<>> /\ pseudo.inStep = TRUE
  BY <1>4 DEF TailStays, Stays
<1>6. sig.type = RctNull /\ sig.ecdhInfo = e.got /\ sig.outPk = RctOutPk(e, k).got
  <2> HIDE DEF head, k
  <2>1. sig = [type |-> head.got[1], fee |-> head.got[2], ecdhInfo |-> e.got, outPk |-> RctOutPk(e, k).got]
    BY Zenon DEF RctSigned, head
  <2> HIDE DEF sig, e
  <2>2. sig.type = head.got[1] /\ sig.ecdhInfo = e.got /\ sig.outPk = RctOutPk(e, k).got
    BY <2>1
  <2> QED BY <2>2, NullHead, Zenon DEF head
<1>7. /\ q.bpp = RctBpps(e, k).got /\ q.clsags = RctClsags(e, k, i, n).got
      /\ q.pseudoOuts = RctPseudo(e, k, i, n).got
  <2> HIDE DEF e, k
  <2> QED BY DEF RctProved
<1>8. CanWrite(sig, q)
  <2> HIDE DEF e, k, sig, q
  <2> QED BY <1>3, <1>4, <1>6, <1>7, Zenon DEF CanWrite, TailStays, Kept, Got
<1>9. NoProofs # <<>>
  BY DEF NoProofs
<1>10. ParseRctSig(tx) = [tx EXCEPT !.signature = <<sig>>, !.prunable = <<q>>, !.rctRaw = <<>>, !.inStep = TRUE]
  <2>1. Stages(tx)
    BY InStages, Zenon
  <2>2. tx.rctRaw = NoProofs /\ tx.inputs = i /\ tx.vinCount = n /\ tx.outputs = o /\ tx.inStep = TRUE
    BY <1>1, Zenon DEF FieldsAre
  <2> HIDE DEF tx
  <2>3. ParseRctSig(tx) = [tx EXCEPT !.signature = <<sig>>, !.prunable = <<q>>, !.rctRaw = pseudo.rest,
                                     !.inStep = tx.inStep /\ pseudo.inStep]
    BY <1>9, <2>1, <2>2, Zenon DEF Stages
  <2>4. (tx.inStep /\ pseudo.inStep) = TRUE
    BY <1>5, <2>2, Zenon
  <2> QED BY <1>5, <2>3, <2>4, Zenon
<1> HIDE DEF sig, q
<1>11. ParseRctSig(tx) = TxOf(u, n, i, m, o, x, raw, <<>>, <<sig>>, <<q>>, TRUE)
  BY <1>2, <1>10, Zenon DEF SignedSets
<1> QED BY <1>6, <1>8, <1>11, Zenon DEF NullSigns

\* Sequences one behind the other.
LEMMA JoinedAre ==
    \A a, b, c, d, e : IsSeq(a) /\ IsSeq(b) /\ IsSeq(c) /\ IsSeq(d) /\ IsSeq(e) =>
        /\ IsSeq(a \o b) /\ IsSeq((a \o b) \o c) /\ IsSeq(((a \o b) \o c) \o d)
        /\ IsSeq((((a \o b) \o c) \o d) \o e)
<1> SUFFICES ASSUME NEW a, NEW b, NEW c, NEW d, NEW e,
                    IsSeq(a), IsSeq(b), IsSeq(c), IsSeq(d), IsSeq(e)
             PROVE  /\ IsSeq(a \o b) /\ IsSeq((a \o b) \o c) /\ IsSeq(((a \o b) \o c) \o d)
                    /\ IsSeq((((a \o b) \o c) \o d) \o e)
  BY Zenon
<1>1. IsSeq(a \o b)
  BY ConcatIs, Zenon
<1>2. IsSeq((a \o b) \o c)
  BY <1>1, ConcatIs, Zenon
<1>3. IsSeq(((a \o b) \o c) \o d)
  BY <1>2, ConcatIs, Zenon
<1>4. IsSeq((((a \o b) \o c) \o d) \o e)
  BY <1>3, ConcatIs, Zenon
<1> QED BY <1>1, <1>2, <1>3, <1>4

LEMMA WritesSequences ==
    ASSUME NEW tx, NEW sig, NEW q, tx.signature = <<sig>>, tx.prunable = <<q>>, CanWrite(sig, q)
    PROVE  IsSeq(Part2Fields(tx)) /\ IsSeq(Part3Fields(tx))
<1>1. tx.signature[1] = sig /\ tx.prunable[1] = q
  OBVIOUS
<1>2. ASSUME NEW v, IsSeq(v) PROVE IsSeq(Each(Hash, v))
  BY <1>2, HashesAre, EachRead, SmallSeqs, Zenon
<1>3. IsSeq(EcdhsFields(sig.type, sig.ecdhInfo))
  <2> DEFINE v == sig.ecdhInfo
             rows == [j \in DOMAIN v |-> EcdhFields(sig.type, v[j])]
  <2>1. Len(v) \in Nat /\ DOMAIN v = 1 .. Len(v)
    BY SeqLen, Zenon DEF CanWrite
  <2>2. Tuple(rows, Len(v))
    BY <2>1 DEF Tuple
  <2>3. \A j \in 1 .. Len(v) : IsSeq(rows[j])
    <3>1. \A j \in 1 .. Len(v) : rows[j] = EcdhFields(sig.type, v[j])
      BY <2>1
    <3>2. \A c : IsSeq(EcdhFields(sig.type, c))
      BY SmallSeqs, Zenon DEF EcdhFields
    <3> QED BY <3>1, <3>2, Zenon
  <2>4. EcdhsFields(sig.type, v) = FlattenSeq(rows)
    BY Zenon DEF EcdhsFields, Concat
  <2> QED BY <2>1, <2>2, <2>3, <2>4, FlatIsSeq, Zenon
<1>4. IsSeq(Concat(BppFields, q.bpp))
  <2> DEFINE v == q.bpp
             rows == [j \in DOMAIN v |-> BppFields(v[j])]
  <2>1. Len(v) \in Nat /\ DOMAIN v = 1 .. Len(v)
    BY SeqLen, Zenon DEF CanWrite, Got
  <2>2. Tuple(rows, Len(v))
    BY <2>1 DEF Tuple
  <2>3. ASSUME NEW j \in 1 .. Len(v) PROVE IsSeq(rows[j])
    <3>1. rows[j] = BppFields(v[j])
      BY <2>1
    <3>2. IsSeq(v[j].head) /\ IsSeq(v[j].L) /\ IsSeq(v[j].R)
      BY Zenon DEF CanWrite, Got, Shape
    <3>3. BppFields(v[j]) = (((Each(Hash, v[j].head) \o <<Varint(Len(v[j].L))>>) \o Each(Hash, v[j].L))
                               \o <<Varint(Len(v[j].R))>>) \o Each(Hash, v[j].R)
      BY Zenon DEF BppFields
    <3>4. IsSeq(Each(Hash, v[j].head)) /\ IsSeq(Each(Hash, v[j].L)) /\ IsSeq(Each(Hash, v[j].R))
      BY <1>2, <3>2, Zenon
    <3>5. IsSeq(<<Varint(Len(v[j].L))>>) /\ IsSeq(<<Varint(Len(v[j].R))>>)
      BY SmallSeqs, Zenon
    <3> QED BY <3>1, <3>3, <3>4, <3>5, JoinedAre, Zenon
  <2>4. Concat(BppFields, v) = FlattenSeq(rows)
    BY Zenon DEF Concat
  <2> QED BY <2>1, <2>2, <2>3, <2>4, FlatIsSeq, Zenon
<1>5. IsSeq(Concat(ClsagFields, q.clsags))
  <2> DEFINE v == q.clsags
             rows == [j \in DOMAIN v |-> ClsagFields(v[j])]
  <2>1. Len(v) \in Nat /\ DOMAIN v = 1 .. Len(v)
    BY SeqLen, Zenon DEF CanWrite, Got
  <2>2. Tuple(rows, Len(v))
    BY <2>1 DEF Tuple
  <2>3. ASSUME NEW j \in 1 .. Len(v) PROVE IsSeq(rows[j])
    <3>1. rows[j] = ClsagFields(v[j])
      BY <2>1
    <3>2. IsSeq(v[j].S)
      BY Zenon DEF CanWrite, Got, Shape
    <3>3. ClsagFields(v[j]) = Each(Hash, v[j].S) \o <<Hash(v[j].C1), Hash(v[j].D)>>
      BY Zenon DEF ClsagFields
    <3>4. IsSeq(Each(Hash, v[j].S)) /\ IsSeq(<<Hash(v[j].C1), Hash(v[j].D)>>)
      BY <1>2, <3>2, SmallSeqs, Zenon
    <3> QED BY <3>1, <3>3, <3>4, JoinedAre, Zenon
  <2>4. Concat(ClsagFields, v) = FlattenSeq(rows)
    BY Zenon DEF Concat
  <2> QED BY <2>1, <2>2, <2>3, <2>4, FlatIsSeq, Zenon
<1>6. IsSeq(Each(Hash, sig.outPk)) /\ IsSeq(Each(Hash, q.pseudoOuts))
  BY <1>2, Zenon DEF CanWrite
<1> DEFINE sig1 == tx.signature[1]
           q1 == tx.prunable[1]
<1>7. Part2Fields(tx) = (<<Varint(sig1.type), Varint(sig1.fee)>> \o EcdhsFields(sig1.type, sig1.ecdhInfo))
                           \o Each(Hash, sig1.outPk)
  BY Zenon DEF Part2Fields, EcdhsFields
<1>8. Part3Fields(tx) = ((<<Varint(1)>> \o Concat(BppFields, q1.bpp)) \o Concat(ClsagFields, q1.clsags))
                           \o Each(Hash, q1.pseudoOuts)
  BY Zenon DEF Part3Fields
<1>9. sig1 = sig /\ q1 = q
  BY <1>1
<1>10. IsSeq(<<Varint(sig.type), Varint(sig.fee)>>) /\ IsSeq(<<Varint(1)>>)
  BY SmallSeqs, Zenon
<1> HIDE DEF sig1, q1
<1>11. IsSeq(Part2Fields(tx))
  <2>1. IsSeq(<<Varint(sig.type), Varint(sig.fee)>> \o EcdhsFields(sig.type, sig.ecdhInfo))
    BY <1>3, <1>10, ConcatIs, Zenon
  <2> QED BY <1>6, <1>7, <1>9, <2>1, ConcatIs, Zenon
<1>12. IsSeq(Part3Fields(tx))
  BY <1>4, <1>5, <1>6, <1>8, <1>9, <1>10, JoinedAre, Zenon
<1> QED BY <1>11, <1>12

\* A coinbase is written again with its output where its height was.
LEMMA CoinbaseNotRewritten ==
    ASSUME NEW a, NEW raw, NEW sig, NEW q, CanWrite(sig, q), NEW tx,
           tx = TxOf(60, 1, <<GeneratedInput(1)>>, 1, <<PaidOutput(a)>>, <<KeyItem>>, raw, <<>>,
                     <<sig>>, <<q>>, TRUE)
    PROVE  SerializedTx(tx) # ForeignFields("coinbase", a)
<1> DEFINE ins == <<GeneratedInput(1)>>
           outs == <<PaidOutput(a)>>
           x == <<KeyItem>>
           three == <<Field("varint", 2), Field("varint", 60), Field("varint", 1)>>
           b == <<Field("byte", Generated)>>
           one == <<Field("varint", 1)>>
           xt == <<Field("extra", x)>>
           out == OutputFields(PaidOutput(a))
           front == (three \o b) \o one
           p1 == Part1Fields(tx)
           p2 == Part2Fields(tx)
           p3 == Part3Fields(tx)
<1>1. FieldsAre(60, 1, ins, 1, outs, x, raw, <<>>, <<sig>>, <<q>>, TRUE, tx)
  BY TxParts, Zenon
<1>2. IsSeq(p2) /\ IsSeq(p3)
  BY <1>1, WritesSequences, Zenon DEF FieldsAre
<1>3. p1 = ((((three \o Concat(InputFields, ins)) \o one) \o Concat(OutputFields, outs)) \o xt)
  <2>1. 1 \in Nat /\ Len(ins) = 1 /\ Len(outs) = 1
    OBVIOUS
  <2>2. PrefixWritten(60, 1, 1, ins, 1, 1, outs, x, raw, <<>>, <<sig>>, <<q>>, TRUE)
    <3> HIDE DEF ins, outs, x
    <3> QED BY <2>1, PrefixFields, Zenon
  <2> QED BY <2>2, Zenon DEF PrefixWritten, PrefixOf
<1>4. Concat(InputFields, ins) = b
  <2> DEFINE rows == [i \in DOMAIN ins |-> InputFields(ins[i])]
  <2>1. InputFields(GeneratedInput(1)) = b
    <3>1. GeneratedInput(1).type = Generated
      BY DEF GeneratedInput
    <3>2. Generated # ToKey
      BY DEF Generated, ToKey
    <3>3. IsSeq(b)
      BY SmallSeqs, Zenon
    <3>4. b \o <<>> = b
      BY <3>3, ConcatIs, SmallSeqs, Zenon
    <3> QED BY <3>1, <3>2, <3>4, Zenon DEF InputFields, Byte, Field
  <2>2. DOMAIN ins = 1 .. 1 /\ ins[1] = GeneratedInput(1) /\ \A i \in 1 .. 1 : i = 1
    OBVIOUS
  <2>3. rows = [i \in 1 .. 1 |-> InputFields(ins[i])]
    BY <2>2, Zenon
  <2> HIDE DEF rows, ins, b
  <2>4. Tuple(rows, 1) /\ rows[1] = InputFields(ins[1])
    BY <2>3 DEF Tuple
  <2>5. IsSeq(rows[1]) /\ rows[1] = b
    BY <2>1, <2>2, <2>4, SmallSeqs, Zenon DEF b
  <2>6. Concat(InputFields, ins) = FlattenSeq(rows)
    BY Zenon DEF Concat, rows
  <2> QED BY <2>4, <2>5, <2>6, FlattenOne, Zenon
<1>5. Concat(OutputFields, outs) = out
  <2> DEFINE rows == [i \in DOMAIN outs |-> OutputFields(outs[i])]
  <2>1. DOMAIN outs = 1 .. 1 /\ outs[1] = PaidOutput(a)
    OBVIOUS
  <2>2. rows = [i \in 1 .. 1 |-> OutputFields(outs[i])]
    BY <2>1, Zenon
  <2>3. Concat(OutputFields, outs) = FlattenSeq(rows)
    BY Zenon DEF Concat
  <2> HIDE DEF rows, outs
  <2>4. Tuple(rows, 1) /\ rows[1] = OutputFields(outs[1])
    BY <2>2 DEF Tuple
  <2>5. IsSeq(out)
    BY OneOutputIs, Zenon DEF OutputsAre, PaidOutput
  <2> HIDE DEF out
  <2> QED BY <2>1, <2>3, <2>4, <2>5, FlattenOne, Zenon DEF out
<1>6. IsSeq(out) /\ Len(out) = 4 /\ out[1] = Field("varint", 0)
  <2>1. out = <<Field("varint", 0), Byte(3), Hash(PaidOutput(a).target), Byte(PaidOutput(a).viewTag)>>
    BY Zenon DEF OutputFields, Varint, Field
  <2> HIDE DEF out
  <2> QED BY <2>1, SmallSeqs
<1>7. IsSeq(front) /\ Len(front) = 5
  <2>1. /\ IsSeq(three) /\ IsSeq(b) /\ IsSeq(one) /\ Len(three) = 3 /\ Len(b) = 1 /\ Len(one) = 1
        /\ 3 + 1 = 4 /\ 4 + 1 = 5
    BY SmallSeqs
  <2> HIDE DEF three, b, one
  <2>2. FrontSame(three, b)
    BY <2>1, FrontIs, Zenon
  <2>3. IsSeq(three \o b) /\ Len(three \o b) = 4
    BY <2>1, <2>2 DEF FrontSame
  <2>4. FrontSame(three \o b, one)
    BY <2>1, <2>3, FrontIs, Zenon
  <2> QED BY <2>1, <2>3, <2>4 DEF FrontSame
<1>8. IsSeq(xt)
  BY SmallSeqs, Zenon
<1>9. p1 = (front \o out) \o xt
  BY <1>3, <1>4, <1>5, Zenon
<1> HIDE DEF front, out, xt, p1, p2, p3
<1>10. IsSeq(front \o out) /\ Len(front \o out) = 9 /\ (front \o out)[6] = Field("varint", 0)
  <2>1. 5 + 4 = 9 /\ 6 \in 1 .. 9 /\ ~(6 <= 5) /\ 6 - 5 = 1
    OBVIOUS
  <2>2. IsSeq(front \o out) /\ Len(front \o out) = Len(front) + Len(out)
        /\ \A i \in 1 .. Len(front) + Len(out) :
              (front \o out)[i] = IF i <= Len(front) THEN front[i] ELSE out[i - Len(front)]
    BY <1>6, <1>7, ConcatIs, Zenon
  <2> QED BY <1>6, <1>7, <2>1, <2>2
<1>11. IsSeq(p1) /\ 6 \in 1 .. Len(p1) /\ p1[6] = Field("varint", 0)
  <2>1. 6 \in 1 .. 9
    OBVIOUS
  <2>2. FrontSame(front \o out, xt)
    BY <1>8, <1>10, FrontIs, Zenon
  <2>3. 6 \in 1 .. Len(front \o out)
    BY <1>10, <2>1, Zenon
  <2> QED BY <1>9, <1>10, <2>2, <2>3, Zenon DEF FrontSame
<1>12. IsSeq(p1 \o p2) /\ 6 \in 1 .. Len(p1 \o p2) /\ (p1 \o p2)[6] = Field("varint", 0)
  BY <1>2, <1>11, FrontIs, Zenon DEF FrontSame
<1>13. ((p1 \o p2) \o p3)[6] = Field("varint", 0)
  BY <1>2, <1>12, FrontIs, Zenon DEF FrontSame
<1>14. SerializedTx(tx) = (p1 \o p2) \o p3
  BY Zenon DEF SerializedTx, p1, p2, p3
<1>15. ForeignFields("coinbase", a)[6] = Field("varint", 1)
  <2> DEFINE six == <<Field("varint", 2), Field("varint", 60), Field("varint", 1),
                      Field("byte", Generated), Field("varint", 1), Field("varint", 1)>>
             two == <<Field("extra", x), Field("varint", RctNull)>>
  <2>1. ForeignFields("coinbase", a) = (six \o out) \o two
    BY Zenon DEF ForeignFields, Varint, Byte, Extra, Field, PaidOutput, OutputOf, KeyItem, out
  <2>2. IsSeq(six) /\ Len(six) = 6 /\ six[6] = Field("varint", 1) /\ 6 \in 1 .. 6
    <3>1. Tuple(six, 6) /\ 6 \in Nat
      BY TupleCases
    <3>2. six[6] = Field("varint", 1) /\ 6 \in 1 .. 6
      OBVIOUS
    <3> HIDE DEF six
    <3> QED BY <3>1, <3>2, TupleIsSeq, Zenon
  <2>3. IsSeq(two)
    BY SmallSeqs, Zenon
  <2> HIDE DEF six, two
  <2>4. IsSeq(six \o out) /\ 6 \in 1 .. Len(six \o out) /\ (six \o out)[6] = Field("varint", 1)
    <3>1. FrontSame(six, out)
      BY <1>6, <2>2, FrontIs, Zenon
    <3>2. 6 \in 1 .. Len(six)
      BY <2>2, Zenon
    <3> QED BY <2>2, <3>1, <3>2, Zenon DEF FrontSame
  <2>5. ((six \o out) \o two)[6] = Field("varint", 1)
    BY <2>3, <2>4, FrontIs, Zenon DEF FrontSame
  <2> QED BY <2>1, <2>5, Zenon
<1>16. Field("varint", 0) # Field("varint", 1)
  <2>1. Field("varint", 0).value = 0 /\ Field("varint", 1).value = 1
    BY DEF Field
  <2> QED BY <2>1
<1> QED BY <1>13, <1>14, <1>15, <1>16, Zenon

-----------------------------------------------------------------------------
(* The extra fields that monerod writes.                                       *)

AfterOne(p) == ParseTxExtra(<<p>>) = ExtraItem(ParsedExtra, p)
AfterTwo(p, q) == ParseTxExtra(<<p, q>>) = ExtraItem(ExtraItem(ParsedExtra, p), q)

LEMMA AfterItems == (\A p : AfterOne(p)) /\ \A p, q : AfterTwo(p, q)
<1>1. ASSUME NEW n \in {1, 2}, NEW x, Len(x) = n
      PROVE  ParseTxExtra(x) = IF n = 1 THEN ExtraItem(ParsedExtra, x[1])
                               ELSE ExtraItem(ExtraItem(ParsedExtra, x[1]), x[2])
  <2> DEFINE y1 == ExtraItem(ParsedExtra, x[1])
             y2 == ExtraItem(y1, x[2])
             y == IF n = 1 THEN y1 ELSE y2
  <2>1. ParseTxExtra(x) = (CHOOSE f : AreExtraItems(f, x, n))[n]
    BY <1>1, Zenon DEF ParseTxExtra, Loop, AreExtraItems, ExtraItemStep
  <2>2. y1 = ExtraItem(ParsedExtra, x[1]) /\ y2 = ExtraItem(y1, x[2])
    OBVIOUS
  <2> HIDE DEF y1, y2
  <2>3. \E f : AreExtraItems(f, x, n)
    <3> DEFINE f == [i \in 0 .. n |-> IF i = 0 THEN ParsedExtra ELSE IF i = 1 THEN y1 ELSE y2]
    <3>1. f[0] = ParsedExtra /\ f[1] = y1 /\ (n = 2 => f[2] = y2) /\ f = [i \in 0 .. n |-> f[i]]
      OBVIOUS
    <3> HIDE DEF f
    <3>2. ASSUME NEW i \in 0 .. n PROVE f[i] = ExtraItemStep(f, x, i)
      <4>1. i = 0 \/ i = 1 \/ (i = 2 /\ n = 2)
        OBVIOUS
      <4>2. 1 - 1 = 0 /\ 2 - 1 = 1 /\ 1 # 0 /\ 2 # 0
        OBVIOUS
      <4> QED BY <2>2, <3>1, <4>1, <4>2, Zenon DEF ExtraItemStep
    <3>3. f = [i \in 0 .. n |-> ExtraItemStep(f, x, i)]
      BY <3>1, <3>2, Zenon
    <3> QED BY <3>3, Zenon DEF AreExtraItems
  <2>4. ASSUME NEW f, AreExtraItems(f, x, n) PROVE f[n] = y
    <3>1. \A i \in 0 .. n : f[i] = ExtraItemStep(f, x, i)
      <4>1. f = [i \in 0 .. n |-> ExtraItemStep(f, x, i)]
        BY <2>4, Zenon DEF AreExtraItems
      <4> QED BY <4>1, Zenon
    <3>2. 0 \in 0 .. n /\ 1 \in 0 .. n /\ (n = 2 => 2 \in 0 .. n)
      OBVIOUS
    <3>3. 1 - 1 = 0 /\ 2 - 1 = 1 /\ 1 # 0 /\ 2 # 0 /\ (n = 1 \/ n = 2)
      OBVIOUS
    <3>4. f[0] = ParsedExtra
      BY <3>1, <3>2, Zenon DEF ExtraItemStep
    <3>5. f[1] = y1
      BY <2>2, <3>1, <3>2, <3>3, <3>4, Zenon DEF ExtraItemStep
    <3>6. n = 2 => f[2] = y2
      BY <2>2, <3>1, <3>2, <3>3, <3>5, Zenon DEF ExtraItemStep
    <3> QED BY <3>3, <3>5, <3>6, Zenon
  <2>5. ParseTxExtra(x) = y
    <3> HIDE DEF y
    <3> QED BY <2>1, <2>3, <2>4, Zenon
  <2> QED BY <2>2, <2>5, Zenon
<1>2. ASSUME NEW p PROVE AfterOne(p)
  <2> DEFINE x == <<p>>
  <2>1. Len(x) = 1 /\ x[1] = p /\ 1 \in {1, 2}
    OBVIOUS
  <2> HIDE DEF x
  <2>2. ParseTxExtra(x) = ExtraItem(ParsedExtra, x[1])
    BY <1>1, <2>1, Zenon
  <2> QED BY <2>1, <2>2, Zenon DEF AfterOne, x
<1>3. ASSUME NEW p, NEW q PROVE AfterTwo(p, q)
  <2> DEFINE x == <<p, q>>
  <2>1. Len(x) = 2 /\ x[1] = p /\ x[2] = q /\ 2 \in {1, 2} /\ 2 # 1
    OBVIOUS
  <2> HIDE DEF x
  <2>2. ParseTxExtra(x) = ExtraItem(ExtraItem(ParsedExtra, x[1]), x[2])
    BY <1>1, <2>1, Zenon
  <2> QED BY <2>1, <2>2, Zenon DEF AfterTwo, x
<1> QED BY <1>2, <1>3, Zenon

KeysItem == [tag |-> "additional", value |-> 2]

LEMMA ForeignExtras ==
    /\ ParseTxExtra(<<KeyItem>>).ok = TRUE /\ ParseTxExtra(<<KeyItem>>).txPubKey = <<{TxSecret}>>
    /\ ParseTxExtra(<<KeyItem, KeysItem>>).ok = FALSE
<1> DEFINE y1 == [ParsedExtra EXCEPT !.txPubKey = <<{TxSecret}>>]
           y2 == [y1 EXCEPT !.ok = FALSE]
           y3 == [y2 EXCEPT !.ended = TRUE]
<1>1. ExtraItem(ParsedExtra, KeyItem) = y1
  BY Zenon DEF ExtraItem, ParsedExtra, KeyItem
<1>2. y1.ended = FALSE /\ y1.ok = TRUE /\ y1.txPubKey = <<{TxSecret}>>
  BY DEF ParsedExtra
<1>3. y3.ok = FALSE
  BY DEF ParsedExtra
<1> HIDE DEF y1
<1>4. ExtraItem(y1, KeysItem) = y3
  <2>1. KeysItem.tag = "additional" /\ KeysItem.value = 2
    BY DEF KeysItem
  <2>2. 2 % 32 # 0
    BY SMT
  <2>3. ExtraItem(y1, KeysItem) = [y1 EXCEPT !.ok = FALSE, !.ended = TRUE]
    BY <1>2, <2>1, <2>2, Zenon DEF ExtraItem
  <2> QED BY <2>3, Zenon
<1> HIDE DEF y3
<1>5. ParseTxExtra(<<KeyItem>>) = y1 /\ ParseTxExtra(<<KeyItem, KeysItem>>) = y3
  BY <1>1, <1>4, AfterItems, Zenon DEF AfterOne, AfterTwo
<1> QED BY <1>2, <1>3, <1>5, Zenon

-----------------------------------------------------------------------------
(* A payment with additional keys, as Monero's wallet writes it.               *)

OtherOutput == OutputOf(OneTimeKey({TxSecret}, 1, ZeroKey), 0)
ForeignAmount(a, i) == EncryptAmount(KeyDerivation(PubView(a), TxSecret), i, 1)

ForeignIns == <<RingInput("other")>>
ForeignOuts(a) == <<PaidOutput(a), OtherOutput>>
ForeignExtra == <<KeyItem, KeysItem>>
ForeignEcdh(a) == <<ForeignAmount(a, 0), ForeignAmount(a, 1)>>
ForeignOutPk == <<Commit(1, 0), Commit(1, 0)>>
ForeignBpp == <<BppHashes("other")>>
ForeignClsags == <<ClsagHashes("other")>>
ForeignPseudo == <<Commit(2, 0)>>

\* Its fields, once read from these bytes.
KeysTx(a, n, m, raw, w, s, p) ==
    TxOf(0, n, ForeignIns, m, ForeignOuts(a), ForeignExtra, raw, w, s, p, TRUE)

KeysBase(a) == BaseOf(0, ForeignEcdh(a), ForeignOutPk)
KeysProofs == ProofsOf(ForeignBpp, ForeignClsags, ForeignPseudo)
KeysSig(a) == <<SigOf(0, ForeignEcdh(a), ForeignOutPk)>>
KeysPrunable == <<PrunableOf(ForeignBpp, ForeignClsags, ForeignPseudo)>>

\* Setting the fields of a transaction with nothing but these.
ForeignSets(i, o, x, s, p, z, e, t) ==
    [TxOf(z, z, e, z, e, e, e, e, e, e, t) EXCEPT
         !.inputs = i, !.outputs = o, !.extra = x, !.signature = s, !.prunable = p]
      = TxOf(z, z, i, z, o, x, e, e, s, p, t)

LEMMA ForeignSet ==
    ASSUME NEW i, NEW o, NEW x, NEW s, NEW p, NEW z, NEW e, NEW t
    PROVE  ForeignSets(i, o, x, s, p, z, e, t)
<1> DEFINE y0 == TxOf(z, z, e, z, e, e, e, e, e, e, t)
           y1 == TxOf(z, z, i, z, e, e, e, e, e, e, t)
           y2 == TxOf(z, z, i, z, o, e, e, e, e, e, t)
           y3 == TxOf(z, z, i, z, o, x, e, e, e, e, t)
           y4 == TxOf(z, z, i, z, o, x, e, e, s, e, t)
           y5 == TxOf(z, z, i, z, o, x, e, e, s, p, t)
<1>1. [y0 EXCEPT !.inputs = i] = y1
  BY DEF TxOf
<1>2. [y1 EXCEPT !.outputs = o] = y2
  BY DEF TxOf
<1>3. [y2 EXCEPT !.extra = x] = y3
  BY DEF TxOf
<1>4. [y3 EXCEPT !.signature = s] = y4
  BY DEF TxOf
<1>5. [y4 EXCEPT !.prunable = p] = y5
  BY DEF TxOf
<1> HIDE DEF y0, y1, y2, y3, y4, y5
<1>6. [y0 EXCEPT !.inputs = i, !.outputs = o] = y2
  BY <1>1, <1>2, Zenon
<1>7. [y0 EXCEPT !.inputs = i, !.outputs = o, !.extra = x] = y3
  BY <1>3, <1>6, Zenon
<1>8. [y0 EXCEPT !.inputs = i, !.outputs = o, !.extra = x, !.signature = s] = y4
  BY <1>4, <1>7, Zenon
<1>9. [y0 EXCEPT !.inputs = i, !.outputs = o, !.extra = x, !.signature = s, !.prunable = p] = y5
  BY <1>5, <1>8, Zenon
<1> QED BY <1>9, Zenon DEF ForeignSets, y0, y5

KeysWire(a) == PrefixOf(0, 1, ForeignIns, 2, ForeignOuts(a), ForeignExtra) \o (KeysBase(a) \o KeysProofs)

\* The wire has the form that the parsers read.
LEMMA KeysFit ==
    ASSUME NEW a
    PROVE  /\ InputsFit(1, ForeignIns) /\ OutputsFit(2, ForeignOuts(a))
           /\ SignaturesFit(1, ForeignIns, 2, ForeignEcdh(a), ForeignOutPk, ForeignBpp,
                            ForeignClsags, ForeignPseudo)
<1> DEFINE s0 == [j \in 1 .. RingSize |-> j]
           s1 == [j \in 1 .. RingSize |-> <<"other", j>>]
           x == [i \in 1 .. 6 |-> <<"other", i>>]
           y == [i \in 1 .. Rounds |-> <<"other", "L", i>>]
           z == [i \in 1 .. Rounds |-> <<"other", "R", i>>]
<1>1. RingSize \in Nat /\ Rounds \in Nat /\ 6 \in Nat
  BY WireAssumption
<1>2. Tuple(s0, RingSize) /\ Tuple(s1, RingSize) /\ Tuple(x, 6) /\ Tuple(y, Rounds) /\ Tuple(z, Rounds)
  BY DEF Tuple
<1>3. /\ RingInput("other") = InputOf(s0, "other")
      /\ ClsagHashes("other") = ClsagOf(s1, "other", "other")
      /\ BppHashes("other") = BppOf(x, y, z)
  BY PartsAre, Zenon
<1> HIDE DEF s0, s1, x, y, z
<1>4. /\ IsSeq(s0) /\ Len(s0) = RingSize /\ IsSeq(s1) /\ Len(s1) = RingSize /\ Six(x)
      /\ IsSeq(y) /\ IsSeq(z)
  BY <1>1, <1>2, TupleIsSeq, Zenon DEF Six
<1>5. /\ \A v : Tuple(<<v>>, 1) /\ <<v>>[1] = v
      /\ \A v, w : Tuple(<<v, w>>, 2) /\ <<v, w>>[1] = v /\ <<v, w>>[2] = w
      /\ (\A j \in 1 .. 1 : j = 1) /\ (\A j \in 1 .. 2 : j = 1 \/ j = 2)
  <2>1. \A v, w : <<v>>[1] = v /\ <<v, w>>[1] = v /\ <<v, w>>[2] = w
    OBVIOUS
  <2>2. (\A j \in 1 .. 1 : j = 1) /\ (\A j \in 1 .. 2 : j = 1 \/ j = 2)
    OBVIOUS
  <2> QED BY <2>1, <2>2, TupleCases, Zenon
<1>6. ForeignIns[1] = InputOf(s0, "other") /\ Tuple(ForeignIns, 1)
  BY <1>3, <1>5, Zenon DEF ForeignIns
<1>7. InputsFit(1, ForeignIns)
  <2>1. ASSUME NEW j \in 1 .. 1 PROVE \E o, k : IsSeq(o) /\ ForeignIns[j] = InputOf(o, k)
    <3>1. ForeignIns[j] = InputOf(s0, "other")
      BY <1>5, <1>6, Zenon
    <3> QED BY <1>4, <3>1, Zenon
  <2> QED BY <1>6, <2>1, Zenon DEF InputsFit
<1>8. OutputsFit(2, ForeignOuts(a))
  <2>1. Tuple(ForeignOuts(a), 2) /\ ForeignOuts(a)[1] = PaidOutput(a) /\ ForeignOuts(a)[2] = OtherOutput
    BY <1>5, Zenon DEF ForeignOuts
  <2>2. ASSUME NEW v, v = PaidOutput(a) \/ v = OtherOutput PROVE \E k, t : v = OutputOf(k, t)
    BY <2>2, Zenon DEF PaidOutput, OtherOutput
  <2>3. ASSUME NEW j \in 1 .. 2 PROVE \E k, t : ForeignOuts(a)[j] = OutputOf(k, t)
    <3>1. ForeignOuts(a)[j] = PaidOutput(a) \/ ForeignOuts(a)[j] = OtherOutput
      BY <1>5, <2>1, Zenon
    <3> QED BY <2>2, <3>1, Zenon
  <2> QED BY <2>1, <2>3, Zenon DEF OutputsFit
<1>9. ClsagsFit(1, ForeignClsags, ForeignIns)
  <2>1. Tuple(ForeignClsags, 1) /\ ForeignClsags[1] = ClsagOf(s1, "other", "other")
    BY <1>3, <1>5, Zenon DEF ForeignClsags
  <2>2. Len(ForeignIns[1].offsets) = Len(s1)
    <3>1. InputOf(s0, "other").offsets = s0
      BY DEF InputOf
    <3> QED BY <1>4, <1>6, <3>1, Zenon
  <2>3. ASSUME NEW i \in 1 .. 1
        PROVE  \E s, v, w : /\ IsSeq(s) /\ ForeignClsags[i] = ClsagOf(s, v, w)
                            /\ Len(ForeignIns[i].offsets) = Len(s)
    <3>1. ForeignClsags[i] = ClsagOf(s1, "other", "other") /\ Len(ForeignIns[i].offsets) = Len(s1)
      BY <1>5, <2>1, <2>2, Zenon
    <3> QED BY <1>4, <3>1, Zenon
  <2> QED BY <2>1, <2>3, Zenon DEF ClsagsFit
<1>10. Tuple(ForeignBpp, 1) /\ ForeignBpp[1] = BppOf(x, y, z)
  BY <1>3, <1>5, Zenon DEF ForeignBpp
<1>11. ASSUME NEW j \in 1 .. 1
       PROVE  \E u, v, w : Six(u) /\ IsSeq(v) /\ IsSeq(w) /\ ForeignBpp[j] = BppOf(u, v, w)
  <2>1. ForeignBpp[j] = BppOf(x, y, z)
    BY <1>5, <1>10, Zenon
  <2> QED BY <1>4, <2>1, Zenon
<1>12. Tuple(ForeignEcdh(a), 2) /\ Tuple(ForeignOutPk, 2) /\ Tuple(ForeignPseudo, 1)
  BY <1>5, Zenon DEF ForeignEcdh, ForeignOutPk, ForeignPseudo
<1> QED BY <1>7, <1>8, <1>9, <1>10, <1>11, <1>12, Zenon DEF SignaturesFit

\* Both parsers read it back.
KeysParse(a) ==
    /\ ForeignFields("additional keys", a) = KeysWire(a)
    /\ ParseRctSig(ParseTx(TxOf(0, 0, <<>>, 0, <<>>, <<>>, KeysWire(a), <<>>, <<>>, <<>>, TRUE)))
         = KeysTx(a, 1, 2, KeysWire(a), <<>>, KeysSig(a), KeysPrunable)

LEMMA KeysRead == ASSUME NEW a PROVE KeysParse(a)
<1> DEFINE i == ForeignIns
           o == ForeignOuts(a)
           x == ForeignExtra
           p1 == PrefixOf(0, 1, i, 2, o, x)
           p2 == KeysBase(a)
           p3 == KeysProofs
           w == p2 \o p3
           raw == p1 \o w
           s == KeysSig(a)
           p == KeysPrunable
           t == KeysTx(a, 0, 0, <<>>, <<>>, s, p)
<1>1. 1 \in Nat /\ 2 \in Nat /\ Len(i) = 1 /\ Len(o) = 2
  BY DEF ForeignIns, ForeignOuts
<1>2. /\ InputsFit(1, i) /\ OutputsFit(2, o)
      /\ SignaturesFit(1, i, 2, ForeignEcdh(a), ForeignOutPk, ForeignBpp, ForeignClsags, ForeignPseudo)
  BY KeysFit, Zenon
<1> HIDE DEF i, o, x
<1>3. SignaturesParse(1, 2, 0, i, o, x, raw, 0, ForeignEcdh(a), ForeignOutPk, ForeignBpp,
                      ForeignClsags, ForeignPseudo)
  BY <1>1, <1>2, SignaturesParsed, Zenon
<1>4. IsSeq(p2) /\ IsSeq(p3)
      /\ ParseRctSig(TxOf(0, 1, i, 2, o, x, raw, w, <<>>, <<>>, TRUE))
           = TxOf(0, 1, i, 2, o, x, raw, <<>>, s, p, TRUE)
  BY <1>3, Zenon DEF SignaturesParse, KeysBase, KeysProofs, KeysSig, KeysPrunable
<1>5. IsSeq(w)
  <2> HIDE DEF p2, p3
  <2> QED BY <1>4, ConcatIs, Zenon
<1>6. IsSeq(p1) /\ ParseTx(TxOf(0, 0, <<>>, 0, <<>>, <<>>, raw, <<>>, <<>>, <<>>, TRUE))
                    = TxOf(0, 1, i, 2, o, x, raw, w, <<>>, <<>>, TRUE)
  <2> HIDE DEF w
  <2>1. PrefixParses(0, 1, i, 2, o, x, w)
    BY <1>1, <1>2, <1>5, PrefixParsed, Zenon
  <2> QED BY <2>1, Zenon DEF PrefixParses
<1>7. ForeignFields("additional keys", a) = SerializedTx(t)
  <2>1. EmptyTx = TxOf(0, 0, <<>>, 0, <<>>, <<>>, <<>>, <<>>, <<>>, <<>>, TRUE)
    BY Zenon DEF EmptyTx, TxOf
  <2>2. ForeignFields("additional keys", a)
          = SerializedTx([EmptyTx EXCEPT !.inputs = i, !.outputs = o, !.extra = x,
                                         !.signature = s, !.prunable = p])
    <3>1. "additional keys" # "coinbase"
      OBVIOUS
    <3> QED BY <3>1, Zenon DEF ForeignFields, i, o, x, ForeignIns, ForeignOuts, ForeignExtra,
          PaidOutput, OtherOutput, OutputOf, KeyItem, KeysItem, KeysSig, SigOf, ForeignEcdh,
          ForeignAmount, ForeignOutPk, KeysPrunable, PrunableOf, ForeignBpp, ForeignClsags, ForeignPseudo
  <2> HIDE DEF s, p
  <2>3. ForeignSets(i, o, x, s, p, 0, <<>>, TRUE)
    BY ForeignSet, Zenon
  <2>4. t = TxOf(0, 0, i, 0, o, x, <<>>, <<>>, s, p, TRUE)
    BY Zenon DEF KeysTx, i, o, x
  <2> HIDE DEF t
  <2> QED BY <2>1, <2>2, <2>3, <2>4, Zenon DEF ForeignSets
<1>8. SerializedTx(t) = (p1 \o p2) \o p3
  <2>1. t = TxOf(0, 0, i, 0, o, x, <<>>, <<>>, s, p, TRUE)
    BY Zenon DEF KeysTx, i, o, x
  <2>2. Part1Fields(t) = p1
    <3> HIDE DEF t, s, p, p1
    <3>1. PrefixWritten(0, 0, 1, i, 0, 2, o, x, <<>>, <<>>, s, p, TRUE)
      BY <1>1, PrefixFields, Zenon
    <3> QED BY <2>1, <3>1, Zenon DEF PrefixWritten, p1
  <2>3. Part2Fields(t) = p2 /\ Part3Fields(t) = p3
    <3>1. FieldsAre(0, 0, i, 0, o, x, <<>>, <<>>, s, p, TRUE, t)
      <4> HIDE DEF s, p, t
      <4> QED BY <2>1, TxParts, Zenon
    <3>2. \A v : <<v>>[1] = v
      OBVIOUS
    <3>3. /\ t.signature[1] = SigOf(0, ForeignEcdh(a), ForeignOutPk)
          /\ t.prunable[1] = PrunableOf(ForeignBpp, ForeignClsags, ForeignPseudo)
      BY <3>1, <3>2, Zenon DEF FieldsAre, KeysSig, KeysPrunable
    <3> HIDE DEF t
    <3> QED BY <3>3, BaseFields, Zenon DEF KeysBase, KeysProofs
  <2> HIDE DEF t
  <2> QED BY <2>2, <2>3, Zenon DEF SerializedTx
<1>9. ForeignFields("additional keys", a) = raw
  <2> HIDE DEF p1, p2, p3, t
  <2>1. Same3(p1, p2, p3)
    BY <1>4, <1>6, Brackets3, Zenon
  <2> QED BY <1>7, <1>8, <2>1, Zenon DEF Same3
<1>10. KeysWire(a) = raw
  BY Zenon DEF KeysWire, i, o, x
<1>11. TxOf(0, 1, i, 2, o, x, raw, <<>>, s, p, TRUE) = KeysTx(a, 1, 2, KeysWire(a), <<>>, KeysSig(a), KeysPrunable)
  <2> HIDE DEF raw, p1, p2, p3, w
  <2> QED BY <1>10, Zenon DEF KeysTx, i, o, x
<1> HIDE DEF raw, s, p, w, p1, p2, p3
<1>12. ParseRctSig(ParseTx(TxOf(0, 0, <<>>, 0, <<>>, <<>>, raw, <<>>, <<>>, <<>>, TRUE)))
         = TxOf(0, 1, i, 2, o, x, raw, <<>>, s, p, TRUE)
  BY <1>4, <1>6, Zenon
<1> QED BY <1>9, <1>10, <1>11, <1>12, Zenon DEF KeysParse

-----------------------------------------------------------------------------
(* What the receiver has of Monero's transactions, call by call.               *)

ForeignArrived(kind, a) ==
    TxOf(0, 0, <<>>, 0, <<>>, <<>>, ForeignFields(kind, a), <<>>, <<>>, <<>>, TRUE)

\* r is what these calls, up to one of each parser, make of start.
CallsGive(start, done, r) ==
    /\ done = <<>> => r = start
    /\ done = <<"ParseTx">> => r = ParseTx(start)
    /\ done = <<"ParseTx", "ParseRctSig">> => r = ParseRctSig(ParseTx(start))

ForeignInv ==
    origin \in ForeignKinds =>
        \E a \in PrimaryAddresses : CallsGive(ForeignArrived(origin, a), calls, rx)

LEMMA ForeignMoves ==
    ReceiverInv /\ ForeignInv /\ [ScanNext]_<<vars, scanVars>> => ForeignInv'
<1> SUFFICES ASSUME ReceiverInv, ForeignInv, [ScanNext]_<<vars, scanVars>>, origin' \in ForeignKinds
             PROVE  \E a \in PrimaryAddresses : CallsGive(ForeignArrived(origin', a), calls', rx')
  BY Zenon DEF ForeignInv
<1>1. origin' # "none" /\ origin' # "builder"
  BY DEF ForeignKinds
<1>2. CASE Build
  BY <1>1, <1>2, Zenon DEF Build, scanVars
<1>3. CASE Receive
  <2>1. calls' = <<>>
    BY <1>3, Zenon DEF Receive, ReceiverInv
  <2>2. PICK kind \in ForeignKinds, a \in PrimaryAddresses :
            rx' = [EmptyTx EXCEPT !.raw = ForeignFields(kind, a)] /\ origin' = kind
    BY <1>1, <1>3, Zenon DEF Receive
  <2>3. rx' = ForeignArrived(origin', a)
    BY <2>2, ArrivedIs, Zenon DEF ForeignArrived
  <2>4. <<>> # <<"ParseTx">> /\ <<>> # <<"ParseTx", "ParseRctSig">>
    OBVIOUS
  <2>5. CallsGive(ForeignArrived(origin', a), calls', rx')
    BY <2>1, <2>3, <2>4, Zenon DEF CallsGive
  <2> QED BY <2>5, Zenon
<1>4. ASSUME NEW name \in ParserCalls, Call(name),
             \/ name = "ParseTx" /\ rx' = ParseTx(rx)
             \/ name = "ParseRctSig" /\ rx' = ParseRctSig(rx)
      PROVE  \E a \in PrimaryAddresses : CallsGive(ForeignArrived(origin', a), calls', rx')
  <2>1. calls' = Append(calls, name) /\ origin' = origin
    BY <1>4, Zenon DEF Call
  <2>2. calls \in Seq(ParserCalls) /\ "ParseTx" # "ParseRctSig"
    BY DEF ReceiverInv
  <2>3. /\ calls' # <<>>
        /\ calls' = <<"ParseTx">> => calls = <<>> /\ name = "ParseTx"
        /\ calls' = <<"ParseTx", "ParseRctSig">> => calls = <<"ParseTx">> /\ name = "ParseRctSig"
    BY <2>1, <2>2, LastCall
  <2>4. PICK a \in PrimaryAddresses : CallsGive(ForeignArrived(origin, a), calls, rx)
    BY <2>1, Zenon DEF ForeignInv
  <2> DEFINE start == ForeignArrived(origin, a)
  <2> HIDE DEF start
  <2>5. CallsGive(start, calls, rx)
    BY <2>4, Zenon DEF start
  <2>6. calls' = <<"ParseTx">> => rx' = ParseTx(start)
    BY <1>4, <2>2, <2>3, <2>5, Zenon DEF CallsGive
  <2>7. calls' = <<"ParseTx", "ParseRctSig">> => rx' = ParseRctSig(ParseTx(start))
    BY <1>4, <2>2, <2>3, <2>5, Zenon DEF CallsGive
  <2>8. CallsGive(start, calls', rx')
    BY <2>3, <2>6, <2>7, Zenon DEF CallsGive
  <2> QED BY <2>1, <2>8, Zenon DEF start
<1>5. CASE CallParseTx \/ CallParseRctSig
  <2>1. "ParseTx" \in ParserCalls /\ "ParseRctSig" \in ParserCalls
    BY Zenon DEF ParserCalls
  <2> QED BY <1>4, <1>5, <2>1, Zenon DEF CallParseTx, CallParseRctSig
<1>6. CASE UNCHANGED <<vars, scanVars>>
  <2>1. UNCHANGED <<rx, origin, calls>>
    BY <1>6, Zenon DEF scanVars
  <2> QED BY <2>1, Zenon DEF ForeignInv
<1> QED BY <1>2, <1>3, <1>5, <1>6, Zenon DEF ScanNext

LEMMA ForeignInvariance == ScanSpec => [](ScanInv /\ ForeignInv)
<1>1. ScanInit => ForeignInv
  <2>1. "none" \notin ForeignKinds
    BY DEF ForeignKinds
  <2> QED BY <2>1, Zenon DEF ScanInit, ForeignInv
<1>2. ReceiverInv /\ ForeignInv /\ [ScanNext]_<<vars, scanVars>> => ForeignInv'
  BY ForeignMoves
<1>3. ScanInv => ReceiverInv
  BY DEF ScanInv
<1> QED BY <1>1, <1>2, <1>3, ScanInvariance, PTL DEF ScanSpec

\* The reward of a block once parsed: a signature of no type.
CoinbaseTx(a, raw, sig, q) ==
    TxOf(60, 1, <<GeneratedInput(1)>>, 1, <<PaidOutput(a)>>, <<KeyItem>>, raw, <<>>,
         <<sig>>, <<q>>, TRUE)

CoinbaseGives(a, r) ==
    \E sig, q : /\ r = CoinbaseTx(a, ForeignFields("coinbase", a), sig, q)
                /\ sig.type = RctNull /\ CanWrite(sig, q)

LEMMA CoinbaseParsed ==
    ASSUME NEW a
    PROVE  CoinbaseGives(a, ParseRctSig(ParseTx(ForeignArrived("coinbase", a))))
<1> DEFINE i == <<GeneratedInput(1)>>
           o == <<PaidOutput(a)>>
           x == <<KeyItem>>
           raw == ForeignFields("coinbase", a)
           start == ForeignArrived("coinbase", a)
<1>1. 1 \in Nat /\ Len(o) \in Nat
  OBVIOUS
<1>2. OffsetsCounted(i, 1)
  <2>1. i[1] = GeneratedInput(1) /\ \A j \in 1 .. 1 : j = 1
    OBVIOUS
  <2>2. Len(GeneratedInput(1).offsets) \in Nat
    BY DEF GeneratedInput
  <2> HIDE DEF i
  <2> QED BY <2>1, <2>2, Zenon DEF OffsetsCounted
<1>3. <<>> \o i = i /\ <<>> \o o = o
  <2>1. IsSeq(i) /\ IsSeq(o)
    BY SmallSeqs, Zenon
  <2> HIDE DEF i, o
  <2> QED BY <2>1, ConcatIs, SmallSeqs, Zenon
<1>4. ParsesAs(raw, 60, 1, i, 1, o, x, NoProofs)
  BY CoinbaseRead, Zenon DEF CoinbaseParses
<1> HIDE DEF i, o, x, raw
<1>5. ParseTx(TxOf(0, 0, <<>>, 0, <<>>, <<>>, raw, <<>>, <<>>, <<>>, TRUE))
        = TxOf(60, 1, <<>> \o i, 1, <<>> \o o, x, raw, NoProofs, <<>>, <<>>, TRUE)
  <2> DEFINE z == 0
             e == <<>>
             b == TRUE
             w == NoProofs
  <2>1. b \in BOOLEAN /\ ParsesAs(raw, 60, 1, i, 1, o, x, w)
    BY <1>4
  <2> HIDE DEF b, e, z, w
  <2>2. \A t \in BOOLEAN : ParseTx(TxOf(z, z, e, z, e, e, raw, e, e, e, t))
                             = TxOf(60, 1, e \o i, 1, e \o o, x, raw, w, e, e, t)
    BY <2>1 DEF ParsesAs
  <2>3. ParseTx(TxOf(z, z, e, z, e, e, raw, e, e, e, b))
          = TxOf(60, 1, e \o i, 1, e \o o, x, raw, w, e, e, b)
    BY <2>1, <2>2, Zenon
  <2> QED BY <2>3, Zenon DEF b, e, z, w
<1>6. ParseTx(start) = TxOf(60, 1, i, 1, o, x, raw, NoProofs, <<>>, <<>>, TRUE)
  BY <1>3, <1>5, Zenon DEF ForeignArrived, raw
<1>7. NullSigns(60, 1, i, 1, o, x, raw, <<>>, <<>>)
  BY <1>1, <1>2, NullSigned, Zenon
<1>8. PICK sig, q : /\ ParseRctSig(TxOf(60, 1, i, 1, o, x, raw, NoProofs, <<>>, <<>>, TRUE))
                         = TxOf(60, 1, i, 1, o, x, raw, <<>>, <<sig>>, <<q>>, TRUE)
                    /\ sig.type = RctNull /\ CanWrite(sig, q)
  BY <1>7, Zenon DEF NullSigns
<1>9. ParseRctSig(ParseTx(start)) = CoinbaseTx(a, raw, sig, q)
  BY <1>6, <1>8, Zenon DEF CoinbaseTx, i, o, x
<1> QED BY <1>8, <1>9, Zenon DEF CoinbaseGives, raw

\* Adding up numbers of XMR at some positions.
AddNext(total, amounts, i) ==
    IF i = 0 THEN 0
    ELSE IF i \in DOMAIN amounts THEN XmrPlus(total[i - 1], amounts[i])
    ELSE total[i - 1]
Running(amounts, last) == CHOOSE total : total = [i \in 0 .. last |-> AddNext(total, amounts, i)]

LEMMA HasLast ==
    ASSUME NEW n \in Nat, NEW S \in SUBSET (1 .. n), S # {}
    PROVE  Max(S) \in S
<1> DEFINE Greatest(x) == \A y \in S : x >= y
           T == {k \in Nat : \E i \in S : i >= k}
<1>1. ASSUME ~\E x \in S : Greatest(x) PROVE FALSE
  <2>1. 0 \in T
    <3>1. PICK i : i \in S
      OBVIOUS
    <3>2. i \in 1 .. n
      BY <3>1
    <3>3. i >= 0
      BY <3>2
    <3> QED BY <3>1, <3>3
  <2>2. ASSUME NEW k \in T PROVE k + 1 \in T
    <3>1. PICK i \in S : i >= k
      OBVIOUS
    <3>2. PICK y \in S : ~(i >= y)
      BY <1>1
    <3>3. y >= k + 1
      BY <3>1, <3>2
    <3> QED BY <3>3
  <2>3. T = Nat
    <3>1. T \in SUBSET Nat
      OBVIOUS
    <3> HIDE DEF T
    <3> QED BY <2>1, <2>2, <3>1, Induct
  <2>4. n + 1 \in T
    BY <2>3
  <2> QED BY <2>4
<1>2. \E x : x \in S /\ Greatest(x)
  BY <1>1
<1>3. Max(S) = CHOOSE x : x \in S /\ Greatest(x)
  BY DEF Max
<1> HIDE DEF Greatest
<1> QED BY <1>2, <1>3, Zenon

\* Nothings, however many, add up to nothing.
LEMMA TotalOfNothing ==
    ASSUME NEW n \in Nat, NEW S \in SUBSET (1 .. n), S # {}, NEW f, DOMAIN f = S, \A i \in S : f[i] = 0
    PROVE  TotalXmr(f) = 0
<1> DEFINE last == Max(S)
           run == Running(f, last)
           none == [i \in 0 .. last |-> 0]
<1>1. last \in Nat
  <2>1. last \in S
    BY HasLast
  <2> HIDE DEF last
  <2> QED BY <2>1
<1>2. TotalXmr(f) = run[last]
  BY Zenon DEF TotalXmr, Running, AddNext
<1> HIDE DEF last
<1>3. none = [i \in 0 .. last |-> AddNext(none, f, i)]
  <2>1. ASSUME NEW i \in 0 .. last PROVE AddNext(none, f, i) = 0
    <3>1. i = 0 \/ i - 1 \in 0 .. last
      BY <1>1
    <3>2. i = 0 \/ none[i - 1] = 0
      BY <3>1
    <3> QED BY <3>2, XmrAssumption DEF AddNext
  <2> HIDE DEF none
  <2>2. [i \in 0 .. last |-> AddNext(none, f, i)] = [i \in 0 .. last |-> 0]
    BY <2>1
  <2> QED BY <2>2, Zenon DEF none
<1>4. run = [i \in 0 .. last |-> AddNext(run, f, i)]
  BY <1>3, Zenon DEF Running
<1> HIDE DEF run, none
<1>5. \A i \in 0 .. last : run[i] = AddNext(run, f, i)
  BY <1>4
<1> DEFINE T == {k \in Nat : k \in 0 .. last => run[k] = 0}
<1>6. 0 \in T
  BY <1>1, <1>5 DEF AddNext
<1>7. ASSUME NEW k \in T PROVE k + 1 \in T
  <2>1. CASE k + 1 \in 0 .. last
    <3>1. k \in 0 .. last /\ k \in Nat /\ (k + 1) - 1 = k /\ k + 1 # 0
      BY <1>1, <2>1
    <3>2. run[k] = 0
      BY <3>1
    <3>3. run[k + 1] = AddNext(run, f, k + 1)
      BY <1>5, <2>1
    <3>4. AddNext(run, f, k + 1) = 0
      BY <3>1, <3>2, XmrAssumption DEF AddNext
    <3> QED BY <3>1, <3>3, <3>4
  <2>2. CASE k + 1 \notin 0 .. last
    BY <2>2
  <2> QED BY <2>1, <2>2
<1>8. T = Nat
  <2>1. T \in SUBSET Nat
    OBVIOUS
  <2> HIDE DEF T
  <2> QED BY <1>6, <1>7, <2>1, Induct
<1>9. last \in T /\ last \in 0 .. last
  BY <1>1, <1>8
<1>10. run[last] = 0
  BY <1>9
<1> QED BY <1>2, <1>10

\* The sum of the amounts at these positions, as the scan adds it up.
AmountTotal(tx, w, S) == TotalXmr([i \in S |-> AmountOf(tx, w, i)])

\* What CheckOutputs answers.
Found(tx, address, w) == {i \in DOMAIN tx.outputs : Recognises(tx, address, w, i)}
Finds(tx, address, w) ==
    /\ Decodes(address) /\ verifyViewKeyPair(w, address) /\ ParseTxExtra(tx.extra).ok
    /\ Found(tx, address, w) # {}
Answers(tx, address, w) ==
    /\ CheckOutputs(tx, address, w).ok = Finds(tx, address, w)
    /\ CheckOutputs(tx, address, w).found = IF Finds(tx, address, w) THEN Found(tx, address, w) ELSE {}
    /\ CheckOutputs(tx, address, w).total
         = IF Finds(tx, address, w) THEN AmountTotal(tx, w, Found(tx, address, w)) ELSE 0

LEMMA Answered == ASSUME NEW tx, NEW address, NEW w PROVE Answers(tx, address, w)
<1>1. \A ok, f, t, p : /\ [ok |-> ok, found |-> f, total |-> t, paymentID |-> p].ok = ok
                       /\ [ok |-> ok, found |-> f, total |-> t, paymentID |-> p].found = f
                       /\ [ok |-> ok, found |-> f, total |-> t, paymentID |-> p].total = t
  OBVIOUS
<1> QED BY <1>1, Zenon DEF Answers, CheckOutputs, Finds, Found, AmountTotal

\* Two primary addresses with one spend key belong to one wallet, which derives
\* what was derived for it.
LEMMA SpendKeyIsMine ==
    ASSUME NEW a \in PrimaryAddresses, NEW b \in PrimaryAddresses, PubSpend(a) = PubSpend(b)
    PROVE  /\ Decodes(b) /\ verifyViewKeyPair(b.owner, b)
           /\ KeyDerivation({TxSecret}, ViewSecret(b.owner)) = KeyDerivation(PubView(a), TxSecret)
<1>1. /\ a.kind # "sub" /\ b.kind # "sub" /\ b.kind # "bad"
  BY DEF PrimaryAddresses
<1>2. PubSpend(a) = {SpendSecret(a.owner)} /\ PubSpend(b) = {SpendSecret(b.owner)}
  BY <1>1, Zenon DEF PubSpend
<1>3. a.owner = b.owner
  <2>1. SpendSecret(a.owner) = SpendSecret(b.owner)
    BY <1>2
  <2> QED BY <2>1 DEF SpendSecret
<1>4. Decodes(b) /\ verifyViewKeyPair(b.owner, b)
  BY <1>1, Zenon DEF Decodes, verifyViewKeyPair, PubView
<1>5. SameDerivation(FALSE, a, b.owner, a)
  <2> DEFINE one == FALSE
  <2>1. one \in BOOLEAN /\ ~one
    OBVIOUS
  <2> HIDE DEF one
  <2>2. SameDerivation(one, a, b.owner, a)
          <=> /\ b.owner = a.owner
              /\ IF one THEN IsSubAddress(a) /\ IsSubAddress(a) /\ a.owner = a.owner ELSE ~IsSubAddress(a)
    BY <2>1, KeysAgree, Zenon
  <2>3. SameDerivation(one, a, b.owner, a)
    BY <1>1, <1>3, <2>1, <2>2, Zenon DEF IsSubAddress
  <2> QED BY <2>3, Zenon DEF one
<1>6. TxKey(FALSE, a) = {TxSecret}
  BY Zenon DEF TxKey
<1>7. KeyDerivation({TxSecret}, ViewSecret(b.owner)) = KeyDerivation(PubView(a), TxSecret)
  BY <1>5, <1>6, Zenon DEF SameDerivation
<1> QED BY <1>4, <1>7

\* The reward of a block is found by whoever it was paid to, as nothing.
CoinbaseMissed(tx, b) ==
    LET scan == CheckOutputs(tx, b, b.owner)
    IN  /\ scan.total = 0 /\ scan.ok = (scan.found # {})
        /\ tx.outputs[1].target.base = PubSpend(b) => scan.found = {1}

LEMMA CoinbaseScanned ==
    ASSUME NEW a \in PrimaryAddresses, NEW b \in PrimaryAddresses, NEW raw, NEW sig, NEW q,
           sig.type = RctNull, NEW tx, tx = CoinbaseTx(a, raw, sig, q)
    PROVE  CoinbaseMissed(tx, b)
<1> DEFINE w == b.owner
           d == KeyDerivation(PubView(a), TxSecret)
           found == Found(tx, b, w)
           finds == Finds(tx, b, w)
           scan == CheckOutputs(tx, b, w)
<1>1. tx.extra = <<KeyItem>> /\ tx.outputs = <<PaidOutput(a)>> /\ tx.signature = <<sig>>
  <2> DEFINE i == <<GeneratedInput(1)>>
             o == <<PaidOutput(a)>>
             x == <<KeyItem>>
             s == <<sig>>
             p == <<q>>
  <2>1. tx = TxOf(60, 1, i, 1, o, x, raw, <<>>, s, p, TRUE)
    BY Zenon DEF CoinbaseTx
  <2> HIDE DEF i, o, x, s, p
  <2>2. FieldsAre(60, 1, i, 1, o, x, raw, <<>>, s, p, TRUE, tx)
    BY <2>1, TxParts, Zenon
  <2> QED BY <2>2, Zenon DEF FieldsAre, o, x, s
<1>2. /\ DOMAIN tx.outputs = {1} /\ tx.outputs[1] = PaidOutput(a) /\ tx.signature[1] = sig
      /\ ParseTxExtra(tx.extra).ok = TRUE /\ ParseTxExtra(tx.extra).txPubKey = <<{TxSecret}>>
  <2>1. \A v : DOMAIN <<v>> = {1} /\ <<v>>[1] = v
    OBVIOUS
  <2> QED BY <1>1, <2>1, ForeignExtras, Zenon
<1>3. found = {} \/ found = {1}
  BY <1>2 DEF Found
<1>4. AmountOf(tx, w, 1) = 0
  <2>1. ~(sig.type > 0)
    BY DEF RctNull
  <2> QED BY <1>2, <2>1, Zenon DEF AmountOf
<1>5. Answers(tx, b, w)
  BY Answered, Zenon
<1> HIDE DEF found, finds, scan
<1>6. finds => found = {1}
  BY <1>3, Zenon DEF finds, found, Finds
<1>7. scan.total = 0
  <2>1. AmountTotal(tx, w, {1}) = 0
    <3> DEFINE f == [i \in {1} |-> AmountOf(tx, w, i)]
    <3>1. DOMAIN f = {1} /\ \A i \in {1} : f[i] = 0
      BY <1>4
    <3>2. {1} \in SUBSET (1 .. 1) /\ {1} # {} /\ 1 \in Nat
      OBVIOUS
    <3> HIDE DEF f
    <3>3. TotalXmr(f) = 0
      BY <3>1, <3>2, TotalOfNothing
    <3> QED BY <3>3, Zenon DEF AmountTotal, f
  <2>2. scan.total = IF finds THEN AmountTotal(tx, w, found) ELSE 0
    BY <1>5, Zenon DEF Answers, scan, finds, found
  <2> QED BY <1>6, <2>1, <2>2, Zenon
<1>8. scan.ok = finds /\ scan.found = IF finds THEN found ELSE {}
  BY <1>5, Zenon DEF Answers, scan, finds, found
<1>9. scan.ok = (scan.found # {})
  <2>1. finds \in BOOLEAN
    BY Zenon DEF finds, Finds
  <2>2. {1} # {}
    OBVIOUS
  <2> DEFINE got == scan.found
             yes == scan.ok
  <2> HIDE DEF got, yes
  <2>3. yes = finds /\ got = (IF finds THEN found ELSE {})
    BY <1>8, Zenon DEF got, yes
  <2>4. yes = (got # {})
    BY <1>6, <2>1, <2>2, <2>3
  <2> QED BY <2>4, Zenon DEF got, yes
<1>10. ASSUME tx.outputs[1].target.base = PubSpend(b) PROVE scan.found = {1}
  <2>1. PaidOutput(a).target = OneTimeKey(d, 0, PubSpend(a)) /\ PaidOutput(a).viewTag = ViewTag(d, 0)
    <3> HIDE DEF d
    <3>1. PaidOutput(a) = OutputOf(OneTimeKey(d, 0, PubSpend(a)), ViewTag(d, 0))
      BY Zenon DEF PaidOutput, d
    <3> QED BY <3>1 DEF OutputOf
  <2>2. PubSpend(a) = PubSpend(b)
    <3>1. OneTimeKey(d, 0, PubSpend(a)).base = PubSpend(a)
      BY DEF OneTimeKey
    <3> QED BY <1>2, <1>10, <2>1, <3>1, Zenon
  <2>3. /\ Decodes(b) /\ verifyViewKeyPair(w, b)
        /\ KeyDerivation({TxSecret}, ViewSecret(w)) = d
    BY <2>2, SpendKeyIsMine, Zenon
  <2> HIDE DEF w, d
  <2>4. Recognises(tx, b, w, 1)
    <3>1. 1 - 1 = 0
      OBVIOUS
    <3>2. \A v : <<v>> # <<>> /\ <<v>>[1] = v
      OBVIOUS
    <3> QED BY <1>2, <2>1, <2>2, <2>3, <3>1, <3>2, Zenon DEF Recognises
  <2>5. 1 \in found
    BY <1>2, <2>4 DEF found, Found
  <2>6. found = {1}
    BY <1>3, <2>5
  <2>7. finds
    BY <1>2, <2>3, <2>6, Zenon DEF finds, Finds, found
  <2> QED BY <1>8, <2>6, <2>7, Zenon
<1> QED BY <1>7, <1>9, <1>10, Zenon DEF CoinbaseMissed, scan

\* The reward of a block is found by its owner and counted as nothing, and not
\* written as it was read; a transaction with additional keys is refused.  So for
\* every address that either was made for, and every wallet that looks.
THEOREM ForeignIsMissed == ScanSpec => []ForeignMissed
<1>1. ASSUME ForeignInv, ParsedOnce, origin = "coinbase"
      PROVE  /\ SerializedTx(rx) # rx.raw
             /\ \A b \in PrimaryAddresses : CoinbaseMissed(rx, b)
  <2>1. "coinbase" \in ForeignKinds
    BY DEF ForeignKinds
  <2>2. PICK a \in PrimaryAddresses : rx = ParseRctSig(ParseTx(ForeignArrived("coinbase", a)))
    BY <1>1, <2>1, Zenon DEF ForeignInv, CallsGive, ParsedOnce
  <2>3. CoinbaseGives(a, rx)
    BY <2>2, CoinbaseParsed, Zenon
  <2> DEFINE raw == ForeignFields("coinbase", a)
  <2> HIDE DEF raw
  <2>4. PICK sig, q : rx = CoinbaseTx(a, raw, sig, q) /\ sig.type = RctNull /\ CanWrite(sig, q)
    BY <2>3, Zenon DEF CoinbaseGives, raw
  <2>5. SerializedTx(rx) # raw
    BY <2>4, CoinbaseNotRewritten, Zenon DEF CoinbaseTx, raw
  <2>6. rx.raw = raw
    <3> DEFINE i == <<GeneratedInput(1)>>
               o == <<PaidOutput(a)>>
               x == <<KeyItem>>
               s == <<sig>>
               p == <<q>>
    <3>1. rx = TxOf(60, 1, i, 1, o, x, raw, <<>>, s, p, TRUE)
      BY <2>4, Zenon DEF CoinbaseTx
    <3> HIDE DEF i, o, x, s, p
    <3>2. FieldsAre(60, 1, i, 1, o, x, raw, <<>>, s, p, TRUE, rx)
      BY <3>1, TxParts, Zenon
    <3> QED BY <3>2, Zenon DEF FieldsAre
  <2>7. \A b \in PrimaryAddresses : CoinbaseMissed(rx, b)
    BY <2>4, CoinbaseScanned, Zenon
  <2> QED BY <2>5, <2>6, <2>7, Zenon
<1>2. ASSUME ForeignInv, ParsedOnce, origin = "additional keys", NEW b \in PrimaryAddresses
      PROVE  ~CheckOutputs(rx, b, b.owner).ok
  <2>1. "additional keys" \in ForeignKinds
    BY DEF ForeignKinds
  <2>2. PICK a \in PrimaryAddresses : rx = ParseRctSig(ParseTx(ForeignArrived("additional keys", a)))
    BY <1>2, <2>1, Zenon DEF ForeignInv, CallsGive, ParsedOnce
  <2>3. KeysParse(a)
    BY KeysRead
  <2>4. rx = KeysTx(a, 1, 2, KeysWire(a), <<>>, KeysSig(a), KeysPrunable)
    BY <2>2, <2>3, Zenon DEF KeysParse, ForeignArrived
  <2>5. rx.extra = ForeignExtra
    <3> DEFINE i == ForeignIns
               o == ForeignOuts(a)
               s == KeysSig(a)
               p == KeysPrunable
               raw == KeysWire(a)
    <3>1. rx = TxOf(0, 1, i, 2, o, ForeignExtra, raw, <<>>, s, p, TRUE)
      BY <2>4, Zenon DEF KeysTx
    <3> HIDE DEF i, o, s, p, raw
    <3>2. FieldsAre(0, 1, i, 2, o, ForeignExtra, raw, <<>>, s, p, TRUE, rx)
      BY <3>1, TxParts, Zenon
    <3> QED BY <3>2, Zenon DEF FieldsAre
  <2>6. Answers(rx, b, b.owner)
    BY Answered, Zenon
  <2>7. ~ParseTxExtra(rx.extra).ok
    BY <2>5, ForeignExtras, Zenon DEF ForeignExtra
  <2>8. ~Finds(rx, b, b.owner)
    BY <2>7, Zenon DEF Finds
  <2> QED BY <2>6, <2>8, Zenon DEF Answers
<1>3. ForeignInv => ForeignMissed
  BY <1>1, <1>2, Zenon DEF ForeignMissed, CoinbaseMissed
<1> QED BY <1>3, ForeignInvariance, PTL

-----------------------------------------------------------------------------
(* How often each parser has been called.                                      *)

Parses(s, n) == {j \in 1 .. n : s[j] = "ParseTx"}
ReadAfter(s, n) == \E i \in DOMAIN s : s[i] = "ParseRctSig" /\ Cardinality(Parses(s, i)) >= n
Count(s) == Cardinality(Parses(s, Len(s)))

LEMMA ParsesAreCounted ==
    ASSUME NEW s, NEW n \in Nat
    PROVE  IsFiniteSet(Parses(s, n)) /\ Cardinality(Parses(s, n)) \in Nat
<1>1. IsFiniteSet(1 .. n) /\ Parses(s, n) \in SUBSET (1 .. n)
  BY FS_Interval DEF Parses
<1>2. IsFiniteSet(Parses(s, n))
  BY <1>1, FS_Subset
<1> QED BY <1>2, FS_CardinalityType

\* One call more.
Counts(s, t, name) ==
    /\ Count(t) = IF name = "ParseTx" THEN Count(s) + 1 ELSE Count(s)
    /\ \A n : ReadAfter(t, n) <=> ReadAfter(s, n) \/ (name = "ParseRctSig" /\ Count(s) >= n)

LEMMA OneMoreCall ==
    ASSUME NEW s \in Seq(ParserCalls), NEW name \in ParserCalls
    PROVE  Counts(s, Append(s, name), name) /\ Count(s) \in Nat
<1> DEFINE t == Append(s, name)
           k == Len(s)
<1>1. /\ k \in Nat /\ Len(t) = k + 1 /\ DOMAIN t = 1 .. k + 1 /\ DOMAIN s = 1 .. k
      /\ t[k + 1] = name /\ \A i \in 1 .. k : t[i] = s[i]
  BY AppendElements, LenProperties
<1> HIDE DEF t
<1>2. ASSUME NEW i \in 0 .. k PROVE Parses(t, i) = Parses(s, i)
  BY <1>1 DEF Parses
<1>3. Parses(t, k + 1) = IF name = "ParseTx" THEN Parses(s, k) \cup {k + 1} ELSE Parses(s, k)
  <2>1. Parses(t, k + 1) = {j \in 1 .. k : t[j] = "ParseTx"} \cup {j \in {k + 1} : t[j] = "ParseTx"}
    BY <1>1 DEF Parses
  <2>2. {j \in 1 .. k : t[j] = "ParseTx"} = Parses(s, k)
    BY <1>1 DEF Parses
  <2>3. {j \in {k + 1} : t[j] = "ParseTx"} = IF name = "ParseTx" THEN {k + 1} ELSE {}
    BY <1>1
  <2> QED BY <2>1, <2>2, <2>3
<1>4. IsFiniteSet(Parses(s, k)) /\ Cardinality(Parses(s, k)) \in Nat /\ Count(s) = Cardinality(Parses(s, k))
  BY <1>1, ParsesAreCounted DEF Count
<1>5. k + 1 \notin Parses(s, k)
  BY <1>1 DEF Parses
<1>6. Count(t) = IF name = "ParseTx" THEN Count(s) + 1 ELSE Count(s)
  <2>1. Count(t) = Cardinality(Parses(t, k + 1))
    BY <1>1, Zenon DEF Count
  <2>2. Cardinality(Parses(s, k) \cup {k + 1}) = Cardinality(Parses(s, k)) + 1
    BY <1>4, <1>5, FS_AddElement
  <2> QED BY <1>3, <1>4, <2>1, <2>2, Zenon
<1>7. ASSUME NEW n
      PROVE  ReadAfter(t, n) <=> ReadAfter(s, n) \/ (name = "ParseRctSig" /\ Count(s) >= n)
  <2> DEFINE Good(c, i) == c[i] = "ParseRctSig" /\ Cardinality(Parses(c, i)) >= n
  <2>1. \A i \in 1 .. k : i \in 0 .. k
    OBVIOUS
  <2>2. \A i \in 1 .. k : Good(t, i) <=> Good(s, i)
    BY <1>1, <1>2, <2>1, Zenon
  <2>3. Good(t, k + 1) <=> name = "ParseRctSig" /\ Count(s) >= n
    <3>1. "ParseRctSig" # "ParseTx"
      OBVIOUS
    <3> QED BY <1>1, <1>3, <1>4, <3>1, Zenon
  <2>4. ReadAfter(t, n) <=> \E i \in 1 .. k + 1 : Good(t, i)
    BY <1>1, Zenon DEF ReadAfter
  <2>5. ReadAfter(s, n) <=> \E i \in 1 .. k : Good(s, i)
    BY <1>1, Zenon DEF ReadAfter
  <2> HIDE DEF Good
  <2>6. k + 1 \in 1 .. k + 1 /\ \A i : i \in 1 .. k + 1 <=> i \in 1 .. k \/ i = k + 1
    BY <1>1
  <2> QED BY <2>2, <2>3, <2>4, <2>5, <2>6, Zenon
<1> QED BY <1>4, <1>6, <1>7, Zenon DEF Counts, t

LEMMA NoCalls == Count(<<>>) = 0 /\ \A n : ~ReadAfter(<<>>, n)
<1>1. Len(<<>>) = 0 /\ DOMAIN <<>> = {} /\ Parses(<<>>, 0) = {}
  BY DEF Parses
<1> QED BY <1>1, FS_EmptySet, Zenon DEF Count, ReadAfter

-----------------------------------------------------------------------------
(* A signature read for more outputs than were signed.                         *)

LEMMA NumberedJoin ==
    ASSUME NEW a, Numbered(a), NEW b, Numbered(b)
    PROVE  Numbered(a \o b)
<1>1. IsSeq(a) /\ IsSeq(b)
  BY Zenon DEF Numbered
<1>2. /\ IsSeq(a \o b) /\ Len(a \o b) = Len(a) + Len(b) /\ Len(a) \in Nat /\ Len(b) \in Nat
      /\ \A i \in 1 .. Len(a) + Len(b) : (a \o b)[i] = IF i <= Len(a) THEN a[i] ELSE b[i - Len(a)]
  BY <1>1, ConcatIs, SeqLen
<1>3. ASSUME NEW j \in 1 .. Len(a \o b), (a \o b)[j].width = "varint" PROVE (a \o b)[j].value \in Nat
  <2>1. CASE j <= Len(a)
    <3>1. j \in 1 .. Len(a) /\ (a \o b)[j] = a[j]
      BY <1>2, <2>1
    <3> QED BY <1>3, <3>1, Zenon DEF Numbered
  <2>2. CASE ~(j <= Len(a))
    <3>1. j - Len(a) \in 1 .. Len(b) /\ (a \o b)[j] = b[j - Len(a)]
      BY <1>2, <2>2
    <3> QED BY <1>3, <3>1, Zenon DEF Numbered
  <2> QED BY <2>1, <2>2
<1> QED BY <1>2, <1>3, Zenon DEF Numbered

LEMMA NumberedFlat ==
    ASSUME NEW n \in Nat, NEW rows, Tuple(rows, n), \A i \in 1 .. n : Numbered(rows[i])
    PROVE  Numbered(FlattenSeq(rows))
<1>1. \A i \in 1 .. n : IsSeq(rows[i])
  BY Zenon DEF Numbered
<1>2. PICK t : Peels(t, rows, n) /\ t[0] = FlattenSeq(rows)
  BY <1>1, FlattenPeels
<1> DEFINE T == {k \in Nat : k <= n => Numbered(t[n - k])}
<1>3. 0 \in T
  <2>1. Numbered(<<>>)
    BY SmallSeqs DEF Numbered
  <2>2. t[n] = <<>> /\ n - 0 = n
    BY <1>2 DEF Peels
  <2> QED BY <2>1, <2>2
<1>4. ASSUME NEW k \in T PROVE k + 1 \in T
  <2> SUFFICES ASSUME k + 1 <= n PROVE Numbered(t[n - (k + 1)])
    OBVIOUS
  <2> DEFINE j == n - k
  <2>1. Numbered(t[j]) /\ j \in 1 .. n /\ n - (k + 1) = j - 1
    OBVIOUS
  <2> HIDE DEF j, T
  <2>2. t[j - 1] = rows[j] \o t[j] /\ Numbered(rows[j])
    BY <1>2, <2>1, Zenon DEF Peels
  <2>3. Numbered(t[j - 1])
    BY <2>1, <2>2, NumberedJoin, Zenon
  <2> QED BY <2>1, <2>3, Zenon
<1>5. T = Nat
  <2>1. T \in SUBSET Nat
    OBVIOUS
  <2> HIDE DEF T
  <2> QED BY <1>3, <1>4, <2>1, Induct
<1>6. Numbered(t[n - n]) /\ n - n = 0
  BY <1>5
<1> QED BY <1>2, <1>6, Zenon

LEMMA NumberedHashes ==
    ASSUME NEW s, IsSeq(s)
    PROVE  Numbered(Fields("hash", s))
<1>1. IsSeq(Fields("hash", s)) /\ Len(Fields("hash", s)) \in Nat
      /\ DOMAIN Fields("hash", s) = 1 .. Len(Fields("hash", s))
  BY EachRead, SmallSeqs, SeqLen, Zenon
<1>2. \A j \in DOMAIN Fields("hash", s) : Fields("hash", s)[j].width = "hash"
  BY DEF Fields
<1>3. "hash" # "varint"
  OBVIOUS
<1> QED BY <1>1, <1>2, <1>3, Zenon DEF Numbered

LEMMA NumberedOne ==
    /\ \A k \in Nat : Numbered(<<Field("varint", k)>>)
    /\ \A p, q : Numbered(<<Field("hash", p), Field("hash", q)>>)
<1>1. ASSUME NEW k \in Nat PROVE Numbered(<<Field("varint", k)>>)
  <2> DEFINE f == Field("varint", k)
  <2>1. f.value \in Nat
    BY FieldIs
  <2> HIDE DEF f
  <2>2. Len(<<f>>) = 1 /\ \A j \in 1 .. 1 : <<f>>[j] = f
    OBVIOUS
  <2>3. Numbered(<<f>>)
    BY <2>1, <2>2, SmallSeqs, Zenon DEF Numbered
  <2> QED BY <2>3 DEF f
<1>2. ASSUME NEW p, NEW q PROVE Numbered(<<Field("hash", p), Field("hash", q)>>)
  <2> DEFINE f == Field("hash", p)
             g == Field("hash", q)
  <2>1. f.width = "hash" /\ g.width = "hash" /\ "hash" # "varint"
    BY FieldIs
  <2> HIDE DEF f, g
  <2>2. Len(<<f, g>>) = 2 /\ \A j \in 1 .. 2 : <<f, g>>[j] = f \/ <<f, g>>[j] = g
    OBVIOUS
  <2>3. Numbered(<<f, g>>)
    BY <2>1, <2>2, SmallSeqs, Zenon DEF Numbered
  <2> QED BY <2>3 DEF f, g
<1> QED BY <1>1, <1>2

LEMMA NumberedBpp ==
    ASSUME NEW h, IsSeq(h), NEW l, IsSeq(l), NEW r, IsSeq(r)
    PROVE  Numbered(BppFields(BppOf(h, l, r)))
<1> DEFINE x == BppOf(h, l, r)
           a1 == Fields("hash", h)
           a2 == <<Field("varint", Len(l))>>
           a3 == Fields("hash", l)
           a4 == <<Field("varint", Len(r))>>
           a5 == Fields("hash", r)
<1>1. x.head = h /\ x.L = l /\ x.R = r
  BY DEF BppOf
<1> HIDE DEF x
<1>2. BppFields(x) = (((a1 \o a2) \o a3) \o a4) \o a5
  <2>1. Each(Hash, h) = a1 /\ Each(Hash, l) = a3 /\ Each(Hash, r) = a5
    BY HashesAre, Zenon
  <2>2. BppFields(x) = (((Each(Hash, x.head) \o <<Varint(Len(x.L))>>) \o Each(Hash, x.L))
                           \o <<Varint(Len(x.R))>>) \o Each(Hash, x.R)
    BY Zenon DEF BppFields
  <2> QED BY <1>1, <2>1, <2>2, Zenon DEF Varint, Field
<1>3. Numbered(a1) /\ Numbered(a2) /\ Numbered(a3) /\ Numbered(a4) /\ Numbered(a5)
  BY NumberedHashes, NumberedOne, SeqLen, Zenon
<1> HIDE DEF a1, a2, a3, a4, a5
<1>4. Numbered(a1 \o a2)
  BY <1>3, NumberedJoin, Zenon
<1>5. Numbered((a1 \o a2) \o a3)
  BY <1>3, <1>4, NumberedJoin, Zenon
<1>6. Numbered(((a1 \o a2) \o a3) \o a4)
  BY <1>3, <1>5, NumberedJoin, Zenon
<1>7. Numbered((((a1 \o a2) \o a3) \o a4) \o a5)
  BY <1>3, <1>6, NumberedJoin, Zenon
<1> QED BY <1>2, <1>7, Zenon DEF x

LEMMA NumberedClsag ==
    ASSUME NEW s, IsSeq(s), NEW c1, NEW d
    PROVE  Numbered(ClsagFields(ClsagOf(s, c1, d)))
<1> DEFINE x == ClsagOf(s, c1, d)
           a1 == Fields("hash", s)
           a2 == <<Field("hash", c1), Field("hash", d)>>
<1>1. x.S = s /\ x.C1 = c1 /\ x.D = d
  BY DEF ClsagOf
<1> HIDE DEF x
<1>2. ClsagFields(x) = a1 \o a2
  <2>1. Each(Hash, s) = a1
    BY HashesAre, Zenon
  <2> QED BY <1>1, <2>1, Zenon DEF ClsagFields, Hash, Field
<1>3. Numbered(a1) /\ Numbered(a2)
  BY NumberedHashes, NumberedOne, Zenon
<1> HIDE DEF a1, a2
<1>4. Numbered(a1 \o a2)
  BY <1>3, NumberedJoin, Zenon
<1> QED BY <1>2, <1>4, Zenon DEF x

LEMMA NumberedProofs ==
    ASSUME NEW n \in Nat, NEW m \in Nat, NEW i, NEW e, NEW k, NEW b, NEW c, NEW q,
           SignaturesFit(n, i, m, e, k, b, c, q)
    PROVE  Numbered(Fields("hash", k) \o ProofsOf(b, c, q))
<1>1. Tuple(k, m) /\ Tuple(b, 1) /\ Tuple(q, n) /\ Tuple(c, n) /\ 1 \in Nat
  BY Zenon DEF SignaturesFit, ClsagsFit
<1>2. Numbered(Concat(BppFields, b))
  <2> DEFINE rows == [j \in 1 .. 1 |-> BppFields(b[j])]
  <2>1. Concat(BppFields, b) = FlattenSeq(rows)
    <3>1. DOMAIN b = 1 .. 1
      BY <1>1, TupleIs, Zenon
    <3> QED BY <3>1, Zenon DEF Concat
  <2>2. Tuple(rows, 1) /\ \A j \in 1 .. 1 : rows[j] = BppFields(b[j])
    BY DEF Tuple
  <2> HIDE DEF rows
  <2>3. ASSUME NEW j \in 1 .. 1 PROVE Numbered(rows[j])
    <3>1. PICK x, y, z : Six(x) /\ IsSeq(y) /\ IsSeq(z) /\ b[j] = BppOf(x, y, z)
      BY Zenon DEF SignaturesFit
    <3>2. Numbered(BppFields(BppOf(x, y, z)))
      BY <3>1, NumberedBpp, Zenon DEF Six
    <3> QED BY <2>2, <3>1, <3>2, Zenon
  <2> QED BY <1>1, <2>1, <2>2, <2>3, NumberedFlat, Zenon
<1>3. Numbered(Concat(ClsagFields, c))
  <2> DEFINE rows == [j \in 1 .. n |-> ClsagFields(c[j])]
  <2>1. Concat(ClsagFields, c) = FlattenSeq(rows)
    <3>1. DOMAIN c = 1 .. n
      BY <1>1, TupleIs, Zenon
    <3> QED BY <3>1, Zenon DEF Concat
  <2>2. Tuple(rows, n) /\ \A j \in 1 .. n : rows[j] = ClsagFields(c[j])
    BY DEF Tuple
  <2> HIDE DEF rows
  <2>3. ASSUME NEW j \in 1 .. n PROVE Numbered(rows[j])
    <3>1. PICK s, x, y : IsSeq(s) /\ c[j] = ClsagOf(s, x, y)
      BY Zenon DEF SignaturesFit, ClsagsFit
    <3>2. Numbered(ClsagFields(ClsagOf(s, x, y)))
      BY <3>1, NumberedClsag, Zenon
    <3> QED BY <2>2, <3>1, <3>2, Zenon
  <2> QED BY <2>1, <2>2, <2>3, NumberedFlat, Zenon
<1>4. Numbered(Fields("hash", k)) /\ Numbered(Fields("hash", q)) /\ Numbered(<<Field("varint", 1)>>)
  <2>1. IsSeq(k) /\ IsSeq(q)
    BY <1>1, TupleIsSeq, Zenon
  <2> QED BY <1>1, <2>1, NumberedHashes, NumberedOne, Zenon
<1> DEFINE b1 == <<Field("varint", 1)>>
           b2 == Concat(BppFields, b)
           b3 == Concat(ClsagFields, c)
           b4 == Fields("hash", q)
           a == Fields("hash", k)
<1>5. ProofsOf(b, c, q) = ((b1 \o b2) \o b3) \o b4
  BY Zenon DEF ProofsOf
<1> HIDE DEF b1, b2, b3, b4, a
<1>6. Numbered(a) /\ Numbered(b1) /\ Numbered(b2) /\ Numbered(b3) /\ Numbered(b4)
  BY <1>2, <1>3, <1>4, Zenon DEF a, b1, b2, b3, b4
<1>7. Numbered(b1 \o b2)
  BY <1>6, NumberedJoin, Zenon
<1>8. Numbered((b1 \o b2) \o b3)
  BY <1>6, <1>7, NumberedJoin, Zenon
<1>9. Numbered(((b1 \o b2) \o b3) \o b4)
  BY <1>6, <1>8, NumberedJoin, Zenon
<1>10. Numbered(a \o (((b1 \o b2) \o b3) \o b4))
  BY <1>6, <1>9, NumberedJoin, Zenon
<1> QED BY <1>5, <1>10, Zenon DEF a

\* An amount is looked for where the first hash is.
LEMMA HashIsNoAmount ==
    ASSUME NEW w, Numbered(w), w # <<>>, Head(w).width = "hash", NEW g
    PROVE  Stays(FALSE, ReadEcdh(R(w, g), RctBpp))
<1> DEFINE a == <<"amount">>
           r0 == R(w, <<>>)
           all == ReadAll(R(w, g), a)
           v == Zero("amount")
<1>1. EcdhWidths(RctBpp) = a
  <2>1. RctBpp \in CompactAmount
    BY DEF RctBpp, CompactAmount
  <2> QED BY <2>1, Zenon DEF EcdhWidths
<1>2. Len(a) = 1 /\ a[1] = "amount" /\ 1 \in 1 .. 1 /\ 1 - 1 = 0 /\ 1 \in Nat /\ "hash" # "amount"
  OBVIOUS
<1> HIDE DEF a
<1>3. all = ReadField(r0, "amount")
  <2>1. PICK f : AllReads(f, R(w, g), a, ReadAll(R(w, g), a))
    BY <1>2, ReadAllIs
  <2>2. f[0] = [R(w, g) EXCEPT !.got = <<>>] /\ all = ReadField(f[0], "amount")
    BY <1>2, <2>1, Zenon DEF AllReads
  <2>3. [R(w, g) EXCEPT !.got = <<>>] = R(w, <<>>)
    BY NewGot, Zenon
  <2> QED BY <2>2, <2>3, Zenon
<1>4. r0.rest = w /\ r0.got = <<>> /\ r0.inStep = TRUE
  BY DEF R
<1> HIDE DEF all, r0, v
<1>5. all = [rest |-> w, got |-> Append(<<>>, v), inStep |-> FALSE]
  <2>1. ~(r0.rest # <<>> /\ Head(r0.rest).width = "amount")
    BY <1>2, <1>4, Zenon
  <2>2. (r0.inStep /\ ((r0.rest # <<>> /\ Head(r0.rest).width = "amount") \/ r0.rest = <<>>)) = FALSE
    BY <1>4, <2>1
  <2>3. ReadField(r0, "amount")
          = [rest   |-> r0.rest, got |-> Append(r0.got, v),
             inStep |-> r0.inStep /\ ((r0.rest # <<>> /\ Head(r0.rest).width = "amount") \/ r0.rest = <<>>)]
    BY <2>1, Zenon DEF ReadField, v
  <2> QED BY <1>3, <1>4, <2>2, <2>3, Zenon
<1>6. Stays(FALSE, all)
  <2> DEFINE x == Append(<<>>, v)
  <2> HIDE DEF x
  <2>1. all.rest = w /\ all.got = x /\ all.inStep = FALSE /\ all = [rest |-> w, got |-> x, inStep |-> FALSE]
    <3>1. all = [rest |-> w, got |-> x, inStep |-> FALSE]
      BY <1>5, Zenon DEF x
    <3> QED BY <3>1
  <2>2. IsReader(all)
    BY <2>1, Zenon DEF IsReader
  <2> QED BY <2>1, <2>2 DEF Stays
<1>7. GotSets(FALSE, all, all.got[Len(all.got)])
  BY <1>6, GotSet, Zenon
<1>8. ReadEcdh(R(w, g), RctBpp) = [all EXCEPT !.got = all.got[Len(all.got)]]
  BY <1>1, Zenon DEF ReadEcdh, all
<1> QED BY <1>7, <1>8, Zenon DEF GotSets

LEMMA OneMoreStays ==
    ASSUME NEW end \in BOOLEAN, NEW r, NEW one, Stays(end, one)
    PROVE  Stays(end, OneMore(r, one))
<1> DEFINE g == Append(r.got, one.got)
<1> HIDE DEF g
<1>1. GotSets(end, one, g)
  BY GotSet, Zenon
<1> QED BY <1>1, Zenon DEF GotSets, OneMore, g

\* Out of step, and numbers stay numbers.
Lost(r) == Stays(FALSE, r)

\* More amounts are read than there are, and hashes come behind them.
LEMMA EcdhOverrun ==
    ASSUME NEW m \in Nat, NEW l \in Nat, l > m, NEW e, Tuple(e, m), NEW w, Numbered(w), w # <<>>,
           Head(w).width = "hash", NEW h
    PROVE  Stays(FALSE, ReadEcdhs(R(EcdhsFields(RctBpp, e) \o w, h), RctBpp, l))
<1> DEFINE rows == [i \in 1 .. m |-> EcdhFields(RctBpp, e[i])]
           r == R(FlattenSeq(rows) \o w, <<>>)
<1>1. EcdhsFields(RctBpp, e) = FlattenSeq(rows)
  <2>1. DOMAIN e = 1 .. m
    BY TupleIs, Zenon
  <2> QED BY <2>1, Zenon DEF Concat, EcdhsFields
<1>2. \A i \in 1 .. m : rows[i] = EcdhFields(RctBpp, e[i])
  OBVIOUS
<1>3. ItemsFit("ecdh", RctBpp, rows, e, m)
  <2>1. Tuple(rows, m)
    BY DEF Tuple
  <2> HIDE DEF rows
  <2>2. ASSUME NEW i \in 1 .. m
        PROVE  IsSeq(rows[i]) /\ \A c, g : IsSeq(c) => Item("ecdh", RctBpp, R(rows[i] \o c, g), i) = R(c, e[i])
    <3>1. rows[i] = EcdhFields(RctBpp, e[i])
      BY <1>2
    <3>2. IsSeq(rows[i])
      BY <3>1, EcdhRead, SmallSeqs, Zenon
    <3>3. ASSUME NEW c, NEW g, IsSeq(c)
          PROVE  Item("ecdh", RctBpp, R(rows[i] \o c, g), i) = R(c, e[i])
      <4>1. ReadEcdh(R(EcdhFields(RctBpp, e[i]) \o c, g), RctBpp) = R(c, e[i])
        BY <3>3, EcdhRead, Zenon
      <4> QED BY <3>1, <4>1, Zenon DEF Item
    <3> QED BY <3>2, <3>3, Zenon
  <2> QED BY <2>1, <2>2, Zenon DEF ItemsFit
<1> HIDE DEF rows, r
<1>4. r = R(FlattenSeq(rows) \o w, <<>>) /\ IsSeq(w)
  BY Zenon DEF r, Numbered
<1>5. ItemsGive("ecdh", RctBpp, r, m, R(w, e))
  BY <1>3, <1>4, ItemsRead, Zenon
<1>6. ASSUME NEW f, AreItems(f, "ecdh", RctBpp, r, l) PROVE Lost(f[l])
  <2>1. \A j \in 0 .. l : f[j] = ItemStep(f, "ecdh", RctBpp, r, j)
    BY <1>6, Zenon DEF AreItems
  <2>2. f[m] = R(w, e)
    <3> DEFINE cut == [j \in 0 .. m |-> f[j]]
    <3>1. \A j \in 0 .. m : cut[j] = f[j] /\ j \in 0 .. l /\ (j # 0 => j - 1 \in 0 .. m)
      OBVIOUS
    <3>2. m \in 0 .. m
      OBVIOUS
    <3>3. cut = [j \in 0 .. m |-> cut[j]]
      OBVIOUS
    <3> HIDE DEF cut
    <3>4. ASSUME NEW j \in 0 .. m PROVE cut[j] = ItemStep(cut, "ecdh", RctBpp, r, j)
      <4>1. cut[j] = ItemStep(f, "ecdh", RctBpp, r, j)
        BY <2>1, <3>1, Zenon
      <4>2. CASE j = 0
        BY <4>1, <4>2, Zenon DEF ItemStep
      <4>3. CASE j # 0
        <5>1. cut[j - 1] = f[j - 1]
          BY <3>1, <4>3, Zenon
        <5> QED BY <4>1, <4>3, <5>1, Zenon DEF ItemStep
      <4> QED BY <4>2, <4>3, Zenon
    <3>5. AreItems(cut, "ecdh", RctBpp, r, m)
      BY <3>3, <3>4, Zenon DEF AreItems
    <3> QED BY <1>5, <3>1, <3>2, <3>5, Zenon DEF ItemsGive
  <2> DEFINE T == {j \in Nat : m < j /\ j <= l => Lost(f[j])}
  <2>3. 0 \in T
    OBVIOUS
  <2>4. ASSUME NEW j \in T PROVE j + 1 \in T
    <3> SUFFICES ASSUME m < j + 1, j + 1 <= l PROVE Lost(f[j + 1])
      OBVIOUS
    <3>1. /\ j \in Nat /\ j + 1 \in 0 .. l /\ j + 1 # 0 /\ (j + 1) - 1 = j
          /\ j = m \/ Lost(f[j])
      OBVIOUS
    <3> HIDE DEF T
    <3>2. f[j + 1] = OneMore(f[j], Item("ecdh", RctBpp, f[j], j + 1))
      BY <2>1, <3>1, Zenon DEF ItemStep
    <3> DEFINE b == FALSE
    <3>3. b \in BOOLEAN /\ (j = m \/ Stays(b, f[j]))
      BY <3>1, Zenon DEF Lost
    <3>4. Stays(b, ReadEcdh(R(w, e), RctBpp))
      BY HashIsNoAmount, Zenon
    <3> HIDE DEF b
    <3>5. Stays(b, Item("ecdh", RctBpp, f[j], j + 1))
      <4>1. CASE j = m
        <5>1. f[j] = R(w, e)
          BY <2>2, <4>1, Zenon
        <5>2. Item("ecdh", RctBpp, f[j], j + 1) = ReadEcdh(f[j], RctBpp)
          BY Zenon DEF Item
        <5> QED BY <3>4, <5>1, <5>2, Zenon
      <4>2. CASE Stays(b, f[j])
        <5>1. ItemStays(b, "ecdh", RctBpp, f[j], j + 1)
          BY <3>3, <4>2, EcdhStays, Zenon
        <5> QED BY <5>1, Zenon DEF ItemStays
      <4> QED BY <3>3, <4>1, <4>2, Zenon
    <3>6. Stays(b, f[j + 1])
      <4>1. Stays(b, OneMore(f[j], Item("ecdh", RctBpp, f[j], j + 1)))
        BY <3>3, <3>5, OneMoreStays, Zenon
      <4> QED BY <3>2, <4>1, Zenon
    <3> QED BY <3>6, Zenon DEF Lost, b
  <2>5. T = Nat
    <3>1. T \in SUBSET Nat
      OBVIOUS
    <3> HIDE DEF T
    <3> QED BY <2>3, <2>4, <3>1, Induct
  <2> QED BY <2>5
<1>7. ASSUME NEW f PROVE AreEcdhs(f, RctBpp, r, l) <=> AreItems(f, "ecdh", RctBpp, r, l)
  <2>1. \A i : EcdhStep(f, RctBpp, r, i) = ItemStep(f, "ecdh", RctBpp, r, i)
    BY Zenon DEF EcdhStep, ItemStep, Item
  <2>2. [i \in 0 .. l |-> EcdhStep(f, RctBpp, r, i)] = [i \in 0 .. l |-> ItemStep(f, "ecdh", RctBpp, r, i)]
    BY <2>1
  <2> QED BY <2>2, Zenon DEF AreEcdhs, AreItems
<1>8. \E f : AreItems(f, "ecdh", RctBpp, r, l)
  BY ItemsExist, Zenon
<1>9. Lost((CHOOSE f : AreEcdhs(f, RctBpp, r, l))[l])
  BY <1>6, <1>7, <1>8, Zenon
<1>10. ReadEcdhs(R(FlattenSeq(rows) \o w, h), RctBpp, l) = (CHOOSE f : AreEcdhs(f, RctBpp, r, l))[l]
  <2> DEFINE q == R(FlattenSeq(rows) \o w, h)
  <2>1. [q EXCEPT !.got = <<>>] = r
    BY <1>4, NewGot, Zenon
  <2> HIDE DEF q
  <2>2. ReadEcdhs(q, RctBpp, l) = (CHOOSE f : AreEcdhs(f, RctBpp, [q EXCEPT !.got = <<>>], l))[l]
    BY Zenon DEF ReadEcdhs, ReadEach, Loop, AreEcdhs, EcdhStep, OneMore
  <2> QED BY <2>1, <2>2, Zenon DEF q
<1> QED BY <1>1, <1>9, <1>10, Zenon DEF Lost

\* ParseRctSig behind a second ParseTx, on what a builder or Monero signed.
OutOfStep(tx) == IsTx(tx) /\ tx.inStep = FALSE

Derailed(n, m, u, i, o, x, raw, fee, e, k, b, c, q, s, p) ==
    OutOfStep(ParseRctSig(TxOf(u, n, i, m, o, x, raw, BaseOf(fee, e, k) \o ProofsOf(b, c, q), s, p, TRUE)))

LEMMA Derails ==
    ASSUME NEW n \in Nat, NEW m \in Nat, m # 0, NEW u, NEW x, NEW raw, NEW fee, NEW e, NEW k, NEW b,
           NEW c, NEW q, NEW i0, SignaturesFit(n, i0, m, e, k, b, c, q), NEW s, NEW p,
           NEW i, OffsetsCounted(i, n), NEW o, Len(o) \in Nat, Len(o) > m
    PROVE  Derailed(n, m, u, i, o, x, raw, fee, e, k, b, c, q, s, p)
<1> DEFINE a1 == <<Field("varint", RctBpp), Field("varint", fee)>>
           a2 == EcdhsFields(RctBpp, e)
           a3 == Fields("hash", k)
           w3 == ProofsOf(b, c, q)
           w2 == a3 \o w3
           w1 == a2 \o w2
           rct == BaseOf(fee, e, k) \o w3
           l == Len(o)
           t == TxOf(u, n, i, m, o, x, raw, rct, s, p, TRUE)
<1>1. Numbered(w2) /\ IsSeq(w2)
  BY NumberedProofs, Zenon DEF Numbered
<1>2. IsSeq(a1) /\ IsSeq(a2) /\ IsSeq(a3) /\ Tuple(k, m) /\ Tuple(e, m)
  <2>1. Tuple(k, m) /\ Tuple(e, m)
    BY Zenon DEF SignaturesFit
  <2>2. IsSeq(a2)
    BY <2>1, EcdhsRead, SmallSeqs, Zenon
  <2>3. IsSeq(k)
    BY <2>1, TupleIsSeq, Zenon
  <2>4. IsSeq(a3)
    BY <2>3, EachRead, SmallSeqs, Zenon
  <2> QED BY <2>1, <2>2, <2>4, SmallSeqs, Zenon
<1>3. IsSeq(w3)
  <2>1. Len([j \in 1 .. m |-> 0]) = m
    <3>1. Tuple([j \in 1 .. m |-> 0], m)
      BY DEF Tuple
    <3> QED BY <3>1, TupleIsSeq, Zenon
  <2>2. SignaturesParse(n, m, u, i0, [j \in 1 .. m |-> 0], x, raw, fee, e, k, b, c, q)
    BY <2>1, SignaturesParsed, Zenon
  <2> QED BY <2>2, Zenon DEF SignaturesParse
<1>4. w2 # <<>> /\ Head(w2).width = "hash"
  <2>1. DOMAIN k = 1 .. m /\ 1 \in 1 .. m
    <3>1. DOMAIN k = 1 .. m
      BY <1>2, TupleIs, Zenon
    <3>2. 1 \in 1 .. m
      OBVIOUS
    <3> QED BY <3>1, <3>2, Zenon
  <2>2. DOMAIN a3 = 1 .. m /\ a3[1] = [width |-> "hash", value |-> k[1]]
    BY <2>1 DEF Fields
  <2>3. a3[1].width = "hash"
    <3> HIDE DEF a3
    <3> QED BY <2>2
  <2> HIDE DEF a3, w3
  <2>4. Len(a3) = m
    <3>1. Len(a3) \in Nat /\ DOMAIN a3 = 1 .. Len(a3)
      BY <1>2, SeqLen, Zenon
    <3> QED BY <2>2, <3>1
  <2>5. FrontSame(a3, w3)
    BY <1>2, <1>3, FrontIs, Zenon
  <2>6. w2[1] = a3[1] /\ Len(w2) = Len(a3) + Len(w3)
    BY <2>1, <2>4, <2>5, Zenon DEF FrontSame
  <2>7. w2 # <<>>
    <3>1. Len(w3) \in Nat
      BY <1>3, SeqLen
    <3>2. Len(w2) # 0
      BY <2>4, <2>6, <3>1
    <3>3. Len(<<>>) = 0
      OBVIOUS
    <3> QED BY <3>2, <3>3, Zenon
  <2> HIDE DEF w2
  <2>8. PICK S : w2 \in Seq(S)
    BY <1>1 DEF IsSeq
  <2>9. Head(w2) = w2[1]
    BY <2>7, <2>8, HeadTailProperties
  <2> QED BY <2>3, <2>6, <2>7, <2>9, Zenon
<1>5. IsSeq(w1) /\ rct = a1 \o w1
  <2>1. BaseOf(fee, e, k) = (a1 \o a2) \o a3
    BY Zenon DEF BaseOf
  <2> HIDE DEF a1, a2, a3, w3
  <2>2. IsSeq(w1)
    BY <1>1, <1>2, ConcatIs, Zenon
  <2>3. Same4(a1, a2, a3, w3)
    BY <1>2, <1>3, Brackets4, Zenon
  <2> QED BY <2>1, <2>2, <2>3, Zenon DEF Same4
<1>6. RctHead(rct) = R(w1, <<RctBpp, fee>>)
  <2> HIDE DEF w1, rct
  <2>1. Reads2(w1, <<>>, "varint", RctBpp, "varint", fee)
    BY <1>5, Read2, Zenon
  <2>2. Reader(rct) = R(a1 \o w1, <<>>)
    BY <1>5, Zenon DEF Reader, R
  <2> QED BY <2>1, <2>2, Zenon DEF Reads2, RctHead
<1>7. Lost(RctEcdh(rct, l))
  <2>1. RctHead(rct).got[1] = RctBpp
    <3> HIDE DEF w1, rct
    <3> QED BY <1>6 DEF R
  <2> HIDE DEF w2, rct, l
  <2>2. Stays(FALSE, ReadEcdhs(R(a2 \o w2, <<RctBpp, fee>>), RctBpp, l))
    <3>1. l \in Nat /\ l > m
      BY DEF l
    <3> QED BY <1>1, <1>2, <1>4, <3>1, EcdhOverrun, Zenon
  <2> QED BY <1>6, <2>1, <2>2, Zenon DEF RctEcdh, Lost
<1> DEFINE r == RctEcdh(rct, l)
           z == RctPseudo(r, l, i, n)
<1>8. z.inStep = FALSE
  <2> DEFINE f == FALSE
  <2>1. f \in BOOLEAN /\ Stays(f, r)
    BY <1>7, Zenon DEF Lost
  <2> HIDE DEF f, r
  <2>2. TailStays(f, r, l, i, n)
    BY <2>1, TailKeeps, Zenon
  <2>3. z.inStep = f
    BY <2>2, Zenon DEF TailStays, Stays
  <2> QED BY <2>3, Zenon DEF f
<1>9. /\ t.rctRaw = rct /\ t.inputs = i /\ t.vinCount = n /\ t.outputs = o
  <2> HIDE DEF rct
  <2>1. FieldsAre(u, n, i, m, o, x, raw, rct, s, p, TRUE, t)
    BY TxParts, Zenon
  <2> QED BY <2>1, Zenon DEF FieldsAre
<1>10. rct # <<>>
  <2>1. Len(a1) = 2
    OBVIOUS
  <2>2. Len(a1 \o w1) = Len(a1) + Len(w1) /\ Len(w1) \in Nat
    <3> HIDE DEF a1, w1
    <3> QED BY <1>2, <1>5, ConcatIs, SeqLen, Zenon
  <2> HIDE DEF a1, w1, rct
  <2>3. Len(a1 \o w1) # 0
    BY <2>1, <2>2
  <2>4. Len(<<>>) = 0
    OBVIOUS
  <2> QED BY <1>5, <2>3, <2>4, Zenon
<1> DEFINE s1 == <<RctSigned(rct, l)>>
           p1 == <<RctProved(r, l, i, n)>>
           w == z.rest
<1> HIDE DEF rct, t
<1>11. ParseRctSig(t) = [t EXCEPT !.signature = s1, !.prunable = p1, !.rctRaw = w, !.inStep = FALSE]
  <2>1. Stages(t)
    BY InStages, Zenon
  <2>2. (t.inStep /\ z.inStep) = FALSE
    <3> HIDE DEF z
    <3> QED BY <1>8
  <2> QED BY <1>9, <1>10, <2>1, <2>2, Zenon DEF Stages
<1> HIDE DEF s1, p1, w
<1>12. SignedSets(u, n, i, m, o, x, raw, rct, s, p, TRUE, s1, p1, w, FALSE)
  BY SignedSet, Zenon
<1>13. ParseRctSig(t) = TxOf(u, n, i, m, o, x, raw, w, s1, p1, FALSE)
  BY <1>11, <1>12, Zenon DEF SignedSets, t
<1>14. FieldsAre(u, n, i, m, o, x, raw, w, s1, p1, FALSE, ParseRctSig(t))
  BY <1>13, TxParts, Zenon
<1>15. OutOfStep(ParseRctSig(t))
  BY <1>13, <1>14, Zenon DEF FieldsAre, IsTx, OutOfStep
<1> QED BY <1>15, Zenon DEF Derailed, t, rct

-----------------------------------------------------------------------------
(* What has been parsed, whatever the calls of the parsers.                    *)

ParsesTo(raw, u, n, i, m, o, x, w, u0, n0, i0, m0, o0, x0, w0, s, p) ==
    ParseTx(TxOf(u0, n0, i0, m0, o0, x0, raw, w0, s, p, TRUE))
      = TxOf(u, n, i0 \o i, m, o0 \o o, x, raw, w, s, p, TRUE)

LEMMA InStepParses ==
    ASSUME NEW raw, NEW u, NEW n, NEW i, NEW m, NEW o, NEW x, NEW w, ParsesAs(raw, u, n, i, m, o, x, w),
           NEW u0, NEW n0, NEW i0, NEW m0, NEW o0, NEW x0, NEW w0, NEW s, NEW p
    PROVE  ParsesTo(raw, u, n, i, m, o, x, w, u0, n0, i0, m0, o0, x0, w0, s, p)
<1> DEFINE b == TRUE
<1>1. b \in BOOLEAN
  OBVIOUS
<1> HIDE DEF b
<1>2. \A t \in BOOLEAN : ParseTx(TxOf(u0, n0, i0, m0, o0, x0, raw, w0, s, p, t))
                           = TxOf(u, n, i0 \o i, m, o0 \o o, x, raw, w, s, p, t)
  BY DEF ParsesAs
<1>3. ParseTx(TxOf(u0, n0, i0, m0, o0, x0, raw, w0, s, p, b))
        = TxOf(u, n, i0 \o i, m, o0 \o o, x, raw, w, s, p, b)
  BY <1>1, <1>2, Zenon
<1> QED BY <1>3, Zenon DEF ParsesTo, b

\* A transaction with ring signatures: its prefix, its signatures, and the bytes of both.
Rct(d) == BaseOf(d.fee, d.e, d.k) \o ProofsOf(d.b, d.c, d.q)
RingTx(raw, d) ==
    /\ d.n \in Nat /\ d.m \in Nat /\ d.m # 0
    /\ IsSeq(d.i) /\ Len(d.i) = d.n /\ OffsetsCounted(d.i, d.n)
    /\ IsSeq(d.o) /\ Len(d.o) = d.m
    /\ SignaturesFit(d.n, d.i, d.m, d.e, d.k, d.b, d.c, d.q)
    /\ ParsesAs(raw, d.u, d.n, d.i, d.m, d.o, d.x, Rct(d))

\* The first of some outputs are these, and the others are copies of them.
Copies(t, o, m) ==
    /\ IsSeq(t) /\ Len(t) >= m
    /\ \A j \in 1 .. m : t[j] = o[j]
    /\ \A j \in 1 .. Len(t) : \E l \in 1 .. m : t[j] = o[l]

InputsKeep(i, n) == IsSeq(i) /\ Len(i) >= n /\ OffsetsCounted(i, n)

\* What has been read once ...
Once(read, d, i, o, w, p) ==
    i = d.i /\ o = d.o /\ IF read THEN w = <<>> ELSE w = Rct(d) /\ p = <<>>
\* ... and more than once.
Again(d, o, w) == Len(o) > d.m /\ w = Rct(d)

SigRead(read, d) == IF read THEN <<SigOf(d.fee, d.e, d.k)>> ELSE <<>>

Parsed(raw, d, i, o, w, s, p) == TxOf(d.u, d.n, i, d.m, o, d.x, raw, w, s, p, TRUE)

InStepAs(one, read, r, raw, d) ==
    \E i, o, w, p :
        /\ r = Parsed(raw, d, i, o, w, SigRead(read, d), p)
        /\ Copies(o, d.o, d.m) /\ InputsKeep(i, d.n)
        /\ IF one THEN Once(read, d, i, o, w, p) ELSE Again(d, o, w)

Start(raw) == TxOf(0, 0, <<>>, 0, <<>>, <<>>, raw, <<>>, <<>>, <<>>, TRUE)

RingHolds(s, r, raw, d) ==
    /\ Count(s) \in Nat /\ ~(Count(s) = 0 /\ ReadAfter(s, 1)) /\ ~(Count(s) < 2 /\ ReadAfter(s, 2))
    /\ ReadAfter(s, 2) => OutOfStep(r)
    /\ ~ReadAfter(s, 2) => /\ Count(s) = 0 => r = Start(raw)
                           /\ Count(s) # 0 => InStepAs(Count(s) = 1, ReadAfter(s, 1), r, raw, d)

LEMMA CopiesMore ==
    ASSUME NEW m \in Nat, m # 0, NEW o, IsSeq(o), Len(o) = m
    PROVE  /\ Copies(o, o, m)
           /\ \A t : Copies(t, o, m) => Copies(t \o o, o, m) /\ Len(t \o o) > m
<1>1. Copies(o, o, m)
  BY DEF Copies
<1>2. ASSUME NEW t, Copies(t, o, m) PROVE Copies(t \o o, o, m) /\ Len(t \o o) > m
  <2>1. IsSeq(t) /\ Len(t) \in Nat
    BY <1>2, SeqLen, Zenon DEF Copies
  <2>2. /\ IsSeq(t \o o) /\ Len(t \o o) = Len(t) + m
        /\ \A i \in 1 .. Len(t) + m : (t \o o)[i] = IF i <= Len(t) THEN t[i] ELSE o[i - Len(t)]
    BY <2>1, ConcatIs, Zenon
  <2> DEFINE v == t \o o
             n == Len(t)
  <2> HIDE DEF v, n
  <2>3. /\ IsSeq(v) /\ Len(v) = n + m /\ n \in Nat /\ n >= m
        /\ \A i \in 1 .. n + m : v[i] = IF i <= n THEN t[i] ELSE o[i - n]
        /\ (\A j \in 1 .. m : t[j] = o[j]) /\ (\A j \in 1 .. n : \E l \in 1 .. m : t[j] = o[l])
    BY <1>2, <2>1, <2>2, Zenon DEF Copies, v, n
  <2>4. ASSUME NEW j \in 1 .. m PROVE v[j] = o[j]
    BY <2>3
  <2>5. ASSUME NEW j \in 1 .. n + m PROVE \E l \in 1 .. m : v[j] = o[l]
    <3>1. CASE j <= n
      <4>1. j \in 1 .. n /\ v[j] = t[j]
        BY <2>3, <3>1
      <4> QED BY <2>3, <4>1, Zenon
    <3>2. CASE ~(j <= n)
      <4>1. j - n \in 1 .. m /\ v[j] = o[j - n]
        BY <2>3, <3>2
      <4> QED BY <4>1, Zenon
    <3> QED BY <3>1, <3>2
  <2>6. Len(v) >= m /\ Len(v) > m
    BY <2>3
  <2>7. Copies(v, o, m)
    BY <2>3, <2>4, <2>5, <2>6, Zenon DEF Copies
  <2> QED BY <2>6, <2>7, Zenon DEF v
<1> QED BY <1>1, <1>2, Zenon

LEMMA InputsKept2 ==
    ASSUME NEW n \in Nat, NEW i, InputsKeep(i, n), NEW k, IsSeq(k)
    PROVE  InputsKeep(i \o k, n)
<1>1. IsSeq(i) /\ Len(i) \in Nat /\ Len(k) \in Nat /\ Len(i) >= n
  BY SeqLen, Zenon DEF InputsKeep
<1>2. FrontSame(i, k)
  BY <1>1, FrontIs, Zenon
<1> DEFINE v == i \o k
<1> HIDE DEF v
<1>3. IsSeq(v) /\ Len(v) = Len(i) + Len(k) /\ \A j \in 1 .. Len(i) : v[j] = i[j]
  BY <1>2, Zenon DEF FrontSame, v
<1>4. \A j \in 1 .. n : j \in 1 .. Len(i)
  BY <1>1
<1>5. OffsetsCounted(v, n)
  BY <1>3, <1>4, Zenon DEF InputsKeep, OffsetsCounted
<1>6. Len(v) >= n
  BY <1>1, <1>3
<1> QED BY <1>3, <1>5, <1>6, Zenon DEF InputsKeep, v

LEMMA RingParsed ==
    ASSUME NEW raw, NEW d, RingTx(raw, d), NEW s \in Seq(ParserCalls), NEW r, RingHolds(s, r, raw, d)
    PROVE  RingHolds(Append(s, "ParseTx"), ParseTx(r), raw, d)
<1> DEFINE t == Append(s, "ParseTx")
           y == ParseTx(r)
           c == Count(s)
           s1 == ReadAfter(s, 1)
           s2 == ReadAfter(s, 2)
<1>1. Count(t) = c + 1 /\ c \in Nat /\ (ReadAfter(t, 1) <=> s1) /\ (ReadAfter(t, 2) <=> s2)
  <2>1. "ParseTx" \in ParserCalls /\ "ParseTx" # "ParseRctSig"
    BY DEF ParserCalls
  <2>2. Counts(s, t, "ParseTx") /\ c \in Nat
    BY <2>1, OneMoreCall, Zenon
  <2> QED BY <2>1, <2>2, Zenon DEF Counts
<1>2. /\ ~(c = 0 /\ s1) /\ ~(c < 2 /\ s2) /\ (s2 => OutOfStep(r))
      /\ ~s2 => (c = 0 => r = Start(raw)) /\ (c # 0 => InStepAs(c = 1, s1, r, raw, d))
  BY Zenon DEF RingHolds
<1> HIDE DEF t, y, c, s1, s2
<1>3. s2 => OutOfStep(y)
  BY <1>2, StaysOutOfStep, Zenon DEF OutOfStep, y
<1>4. /\ d.n \in Nat /\ d.m \in Nat /\ d.m # 0 /\ IsSeq(d.i) /\ Len(d.i) = d.n /\ InputsKeep(d.i, d.n)
      /\ IsSeq(d.o) /\ Len(d.o) = d.m
      /\ ParsesAs(raw, d.u, d.n, d.i, d.m, d.o, d.x, Rct(d))
  <2>1. d.n \in Nat => d.n >= d.n
    OBVIOUS
  <2> QED BY <2>1, Zenon DEF RingTx, InputsKeep
<1>5. CASE ~s2 /\ c = 0
  <2> DEFINE e == <<>>
             z == 0
  <2>1. r = TxOf(z, z, e, z, e, e, raw, e, e, e, TRUE)
    BY <1>2, <1>5, Zenon DEF Start
  <2>2. e \o d.i = d.i /\ e \o d.o = d.o
    BY <1>4, ConcatIs, Zenon
  <2> HIDE DEF e, z
  <2>3. ParsesTo(raw, d.u, d.n, d.i, d.m, d.o, d.x, Rct(d), z, z, e, z, e, e, e, e, e)
    BY <1>4, InStepParses, Zenon
  <2>4. y = Parsed(raw, d, d.i, d.o, Rct(d), e, e)
    BY <2>1, <2>2, <2>3, Zenon DEF ParsesTo, Parsed, y
  <2>5. ~s1 /\ SigRead(s1, d) = e
    <3>1. ~s1
      BY <1>2, <1>5
    <3> QED BY <3>1, Zenon DEF SigRead, e
  <2>6. Once(s1, d, d.i, d.o, Rct(d), e)
    BY <2>5, Zenon DEF Once, e
  <2>7. Copies(d.o, d.o, d.m)
    BY <1>4, CopiesMore, Zenon
  <2>8. InStepAs(TRUE, s1, y, raw, d)
    BY <1>4, <2>4, <2>5, <2>6, <2>7, Zenon DEF InStepAs
  <2>9. Count(t) = 1 /\ Count(t) \in Nat /\ Count(t) # 0 /\ (Count(t) = 1) = TRUE
    BY <1>1, <1>5
  <2>10. InStepAs(Count(t) = 1, ReadAfter(t, 1), y, raw, d)
    <3>1. ReadAfter(t, 1) = s1
      BY <1>1 DEF ReadAfter, s1
    <3> QED BY <2>8, <2>9, <3>1, Zenon
  <2> QED BY <1>1, <1>5, <2>5, <2>9, <2>10, Zenon DEF RingHolds, t, y
<1>6. CASE ~s2 /\ c # 0
  <2>1. PICK i, o, w, p :
            /\ r = Parsed(raw, d, i, o, w, SigRead(s1, d), p)
            /\ Copies(o, d.o, d.m) /\ InputsKeep(i, d.n)
            /\ IF c = 1 THEN Once(s1, d, i, o, w, p) ELSE Again(d, o, w)
    BY <1>2, <1>6, Zenon DEF InStepAs
  <2>2. y = Parsed(raw, d, i \o d.i, o \o d.o, Rct(d), SigRead(s1, d), p)
    <3> DEFINE g == SigRead(s1, d)
    <3> HIDE DEF g
    <3>1. ParsesTo(raw, d.u, d.n, d.i, d.m, d.o, d.x, Rct(d), d.u, d.n, i, d.m, o, d.x, w, g, p)
      BY <1>4, InStepParses, Zenon
    <3> QED BY <2>1, <3>1, Zenon DEF ParsesTo, Parsed, y, g
  <2>3. Copies(o \o d.o, d.o, d.m) /\ Len(o \o d.o) > d.m
    BY <1>4, <2>1, CopiesMore, Zenon
  <2>4. InputsKeep(i \o d.i, d.n)
    BY <1>4, <2>1, InputsKept2, Zenon
  <2>5. Again(d, o \o d.o, Rct(d))
    BY <2>3, Zenon DEF Again
  <2>6. InStepAs(FALSE, s1, y, raw, d)
    BY <2>2, <2>3, <2>4, <2>5, Zenon DEF InStepAs
  <2>7. Count(t) \in Nat /\ Count(t) # 0 /\ ~(Count(t) < 2) /\ (Count(t) = 1) = FALSE
    BY <1>1, <1>6
  <2>8. InStepAs(Count(t) = 1, ReadAfter(t, 1), y, raw, d)
    <3>1. ReadAfter(t, 1) = s1
      BY <1>1 DEF ReadAfter, s1
    <3> QED BY <2>6, <2>7, <3>1, Zenon
  <2> QED BY <1>1, <1>6, <2>7, <2>8, Zenon DEF RingHolds, t, y
<1>7. CASE s2
  <2>1. Count(t) \in Nat /\ Count(t) # 0 /\ ~(Count(t) < 2)
    BY <1>1, <1>2, <1>7
  <2> QED BY <1>1, <1>3, <1>7, <2>1, Zenon DEF RingHolds, t, y
<1> QED BY <1>5, <1>6, <1>7, Zenon

LEMMA RingSigned ==
    ASSUME NEW raw, NEW d, RingTx(raw, d), NEW s \in Seq(ParserCalls), NEW r, RingHolds(s, r, raw, d)
    PROVE  RingHolds(Append(s, "ParseRctSig"), ParseRctSig(r), raw, d)
<1> DEFINE t == Append(s, "ParseRctSig")
           y == ParseRctSig(r)
           c == Count(s)
           s1 == ReadAfter(s, 1)
           s2 == ReadAfter(s, 2)
<1>1. /\ Count(t) = c /\ c \in Nat /\ (ReadAfter(t, 1) <=> s1 \/ c >= 1)
      /\ (ReadAfter(t, 2) <=> s2 \/ c >= 2)
  <2>1. "ParseRctSig" \in ParserCalls /\ "ParseRctSig" # "ParseTx"
    BY DEF ParserCalls
  <2>2. Counts(s, t, "ParseRctSig") /\ c \in Nat
    BY <2>1, OneMoreCall, Zenon
  <2> QED BY <2>1, <2>2, Zenon DEF Counts
<1>2. /\ ~(c = 0 /\ s1) /\ ~(c < 2 /\ s2) /\ (s2 => OutOfStep(r))
      /\ ~s2 => (c = 0 => r = Start(raw)) /\ (c # 0 => InStepAs(c = 1, s1, r, raw, d))
  BY Zenon DEF RingHolds
<1> HIDE DEF t, y, c, s1, s2
<1>3. s2 => OutOfStep(y)
  BY <1>2, StaysOutOfStep, Zenon DEF OutOfStep, y
<1>4. /\ d.n \in Nat /\ d.m \in Nat /\ d.m # 0 /\ Len(d.o) = d.m
      /\ SignaturesFit(d.n, d.i, d.m, d.e, d.k, d.b, d.c, d.q)
  BY Zenon DEF RingTx
<1>5. ASSUME NEW x, x.rctRaw = <<>> PROVE ParseRctSig(x) = x
  BY <1>5, Zenon DEF ParseRctSig
<1>6. CASE ~s2 /\ c = 0
  <2>1. r = Start(raw)
    BY <1>2, <1>6, Zenon
  <2>2. r.rctRaw = <<>>
    BY <2>1 DEF Start, TxOf
  <2>3. y = r
    BY <1>5, <2>2, Zenon DEF y
  <2>4. ~(c >= 1) /\ ~(c >= 2) /\ 0 \in Nat
    BY <1>6
  <2>5. ~s1
    BY <1>2, <1>6
  <2>6. Count(t) = 0 /\ ~ReadAfter(t, 1) /\ ~ReadAfter(t, 2)
    BY <1>1, <1>6, <2>4, <2>5
  <2> QED BY <2>1, <2>3, <2>4, <2>6, Zenon DEF RingHolds, t, y
<1>7. CASE ~s2 /\ c = 1
  <2>1. PICK i, o, w, p :
            /\ r = Parsed(raw, d, i, o, w, SigRead(s1, d), p)
            /\ Copies(o, d.o, d.m) /\ InputsKeep(i, d.n) /\ Once(s1, d, i, o, w, p)
    <3>1. c # 0
      BY <1>7
    <3> QED BY <1>2, <1>7, <3>1, Zenon DEF InStepAs
  <2>2. \E v : y = Parsed(raw, d, i, o, <<>>, SigRead(TRUE, d), v)
    <3>1. CASE s1
      <4>1. w = <<>> /\ SigRead(s1, d) = SigRead(TRUE, d)
        BY <2>1, <3>1, Zenon DEF Once, SigRead
      <4> DEFINE g == SigRead(TRUE, d)
      <4> HIDE DEF g
      <4>2. r = TxOf(d.u, d.n, i, d.m, o, d.x, raw, <<>>, g, p, TRUE)
        BY <2>1, <4>1, Zenon DEF Parsed, g
      <4>3. r.rctRaw = <<>>
        BY <4>2 DEF TxOf
      <4>4. y = r
        BY <1>5, <4>3, Zenon DEF y
      <4> QED BY <4>2, <4>4, Zenon DEF Parsed, g
    <3>2. CASE ~s1
      <4>1. w = Rct(d) /\ p = <<>> /\ SigRead(s1, d) = <<>> /\ i = d.i /\ o = d.o
        BY <2>1, <3>2, Zenon DEF Once, SigRead
      <4>2. SignaturesParse(d.n, d.m, d.u, d.i, d.o, d.x, raw, d.fee, d.e, d.k, d.b, d.c, d.q)
        BY <1>4, SignaturesParsed, Zenon
      <4>3. r = TxOf(d.u, d.n, d.i, d.m, d.o, d.x, raw, Rct(d), <<>>, <<>>, TRUE)
        BY <2>1, <4>1, Zenon DEF Parsed
      <4>4. y = TxOf(d.u, d.n, i, d.m, o, d.x, raw, <<>>, <<SigOf(d.fee, d.e, d.k)>>,
                     <<PrunableOf(d.b, d.c, d.q)>>, TRUE)
        BY <4>1, <4>2, <4>3, Zenon DEF SignaturesParse, Rct, y
      <4> QED BY <4>4, Zenon DEF Parsed, SigRead
    <3> QED BY <3>1, <3>2, Zenon
  <2>3. PICK v : y = Parsed(raw, d, i, o, <<>>, SigRead(TRUE, d), v)
    BY <2>2
  <2>4. Once(TRUE, d, i, o, <<>>, v)
    BY <2>1, Zenon DEF Once
  <2>5. InStepAs(TRUE, TRUE, y, raw, d)
    BY <2>1, <2>3, <2>4, Zenon DEF InStepAs
  <2>6. /\ Count(t) \in Nat /\ Count(t) # 0 /\ ~(c >= 2) /\ ~ReadAfter(t, 2)
        /\ (Count(t) = 1) = TRUE /\ ReadAfter(t, 1)
    BY <1>1, <1>7
  <2>7. InStepAs(Count(t) = 1, ReadAfter(t, 1), y, raw, d)
    <3>1. ReadAfter(t, 1) = TRUE
      <4>1. ReadAfter(t, 1) \in BOOLEAN
        BY DEF ReadAfter
      <4> QED BY <2>6, <4>1
    <3> QED BY <2>5, <2>6, <3>1, Zenon
  <2> QED BY <2>6, <2>7, Zenon DEF RingHolds, t, y
<1>8. CASE ~s2 /\ c >= 2
  <2>1. c # 0 /\ c # 1 /\ ~(c < 2) /\ c \in Nat
    BY <1>1, <1>8
  <2>2. PICK i, o, w, p :
            /\ r = Parsed(raw, d, i, o, w, SigRead(s1, d), p)
            /\ Copies(o, d.o, d.m) /\ InputsKeep(i, d.n) /\ Again(d, o, w)
    BY <1>2, <1>8, <2>1, Zenon DEF InStepAs
  <2>3. Len(o) \in Nat /\ Len(o) > d.m /\ OffsetsCounted(i, d.n) /\ w = Rct(d)
    BY <2>2, SeqLen, Zenon DEF Copies, InputsKeep, Again
  <2> DEFINE g == SigRead(s1, d)
  <2> HIDE DEF g
  <2>4. Derailed(d.n, d.m, d.u, i, o, d.x, raw, d.fee, d.e, d.k, d.b, d.c, d.q, g, p)
    BY <1>4, <2>3, Derails, Zenon
  <2>5. OutOfStep(y)
    BY <2>2, <2>3, <2>4, Zenon DEF Derailed, Parsed, Rct, y, g
  <2>6. Count(t) \in Nat /\ Count(t) # 0 /\ ~(Count(t) < 2) /\ ReadAfter(t, 2)
    BY <1>1, <1>8, <2>1
  <2> QED BY <2>5, <2>6, Zenon DEF RingHolds, t, y
<1>9. CASE s2
  <2>1. Count(t) \in Nat /\ Count(t) # 0 /\ ~(Count(t) < 2) /\ ReadAfter(t, 2)
    BY <1>1, <1>2, <1>9
  <2> QED BY <1>3, <1>9, <2>1, Zenon DEF RingHolds, t, y
<1>10. s2 \/ c = 0 \/ c = 1 \/ c >= 2
  BY <1>1
<1> QED BY <1>6, <1>7, <1>8, <1>9, <1>10, Zenon

LEMMA RingStarts ==
    ASSUME NEW raw, NEW d
    PROVE  RingHolds(<<>>, Start(raw), raw, d)
<1>1. Count(<<>>) = 0 /\ ~ReadAfter(<<>>, 1) /\ ~ReadAfter(<<>>, 2) /\ 0 \in Nat
  BY NoCalls, Zenon
<1> DEFINE e == <<>>
<1>2. Count(e) \in Nat /\ Count(e) = 0
  BY <1>1
<1> HIDE DEF e
<1> QED BY <1>1, <1>2, Zenon DEF RingHolds, e

-----------------------------------------------------------------------------
(* What the receiver has parsed of each transaction, whatever its calls.       *)

Data(u, n, i, m, o, x, fee, e, k, b, c, q) ==
    [u |-> u, n |-> n, i |-> i, m |-> m, o |-> o, x |-> x, fee |-> fee, e |-> e, k |-> k,
     b |-> b, c |-> c, q |-> q]

DataAre(u, n, i, m, o, x, fee, e, k, b, c, q, d) ==
    /\ d.u = u /\ d.n = n /\ d.i = i /\ d.m = m /\ d.o = o /\ d.x = x
    /\ d.fee = fee /\ d.e = e /\ d.k = k /\ d.b = b /\ d.c = c /\ d.q = q

LEMMA DataParts ==
    ASSUME NEW u, NEW n, NEW i, NEW m, NEW o, NEW x, NEW fee, NEW e, NEW k, NEW b, NEW c, NEW q
    PROVE  DataAre(u, n, i, m, o, x, fee, e, k, b, c, q, Data(u, n, i, m, o, x, fee, e, k, b, c, q))
BY DEF DataAre, Data

LEMMA RingIs ==
    ASSUME NEW raw, NEW u, NEW n \in Nat, NEW i, NEW m \in Nat, m # 0, NEW o, NEW x, NEW fee, NEW e,
           NEW k, NEW b, NEW c, NEW q, InputsFit(n, i), OutputsFit(m, o), SignaturesFit(n, i, m, e, k, b, c, q),
           raw = PrefixOf(u, n, i, m, o, x) \o (BaseOf(fee, e, k) \o ProofsOf(b, c, q))
    PROVE  RingTx(raw, Data(u, n, i, m, o, x, fee, e, k, b, c, q))
<1> DEFINE d == Data(u, n, i, m, o, x, fee, e, k, b, c, q)
           p2 == BaseOf(fee, e, k)
           p3 == ProofsOf(b, c, q)
           w == p2 \o p3
<1>1. IsSeq(i) /\ Len(i) = n /\ IsSeq(o) /\ Len(o) = m
  BY TupleIsSeq, Zenon DEF InputsFit, OutputsFit
<1>2. OffsetsCounted(i, n)
  <2>1. ASSUME NEW j \in 1 .. n PROVE Len(i[j].offsets) \in Nat
    <3>1. PICK s, v : IsSeq(s) /\ i[j] = InputOf(s, v)
      BY <2>1, Zenon DEF InputsFit
    <3>2. InputOf(s, v).offsets = s
      BY DEF InputOf
    <3>3. Len(s) \in Nat
      BY <3>1, SeqLen, Zenon
    <3> QED BY <3>1, <3>2, <3>3, Zenon
  <2> QED BY <2>1, Zenon DEF OffsetsCounted
<1>3. IsSeq(p2) /\ IsSeq(p3)
  <2>1. SignaturesParse(n, m, u, i, o, x, raw, fee, e, k, b, c, q)
    BY <1>1, SignaturesParsed, Zenon
  <2> QED BY <2>1, Zenon DEF SignaturesParse
<1>4. IsSeq(w)
  <2> HIDE DEF p2, p3
  <2> QED BY <1>3, ConcatIs, Zenon
<1> HIDE DEF w
<1>5. ParsesAs(raw, u, n, i, m, o, x, w)
  <2>1. PrefixIsRead(u, n, i, m, o, x, w)
    BY <1>4, PrefixReads, Zenon
  <2>2. TxReads(raw, u, n, i, m, o, x, w)
    BY <2>1, Zenon DEF PrefixIsRead, w
  <2> QED BY <2>2, ReadsParse, Zenon
<1>6. DataAre(u, n, i, m, o, x, fee, e, k, b, c, q, d)
  BY DataParts, Zenon
<1> HIDE DEF d
<1>7. Rct(d) = w
  BY <1>6, Zenon DEF DataAre, Rct, w
<1>8. RingTx(raw, d)
  BY <1>1, <1>2, <1>5, <1>6, <1>7, Zenon DEF DataAre, RingTx
<1> QED BY <1>8, Zenon DEF d

BuilderData ==
    Data(0, Len(inputs), RingOf(inputs), Len(outputs), outputs, ExtraItems(extra), txnFee, ecdhInfo,
         outPk, <<BppHashes(bpp)>>, SignedOf(clsags), pseudoOuts)

LEMMA BuilderIsRing ==
    ASSUME BuilderInv, step = 10
    PROVE  RingTx(BuilderRaw, BuilderData)
<1> DEFINE n == Len(inputs)
           m == Len(outputs)
           i == RingOf(inputs)
           x == ExtraItems(extra)
           b == <<BppHashes(bpp)>>
           c == SignedOf(clsags)
<1>1. /\ n \in Nat /\ m \in Nat /\ InputsFit(n, i) /\ OutputsFit(m, outputs)
      /\ SignaturesFit(n, i, m, ecdhInfo, outPk, b, c, pseudoOuts)
  BY BuilderFits
<1>2. BuilderRaw = PrefixOf(0, n, i, m, outputs, x)
                     \o (BaseOf(txnFee, ecdhInfo, outPk) \o ProofsOf(b, c, pseudoOuts))
  BY WireIs, Zenon DEF BuilderWire, BuilderRct
<1>3. m # 0
  <2>1. KeyMade /\ TypeOK /\ OutputsAligned /\ OutputsInOrder
    BY DEF BuilderInv, KeyInv, AnyOrderInv, OrderInv
  <2>2. PICK j \in DOMAIN pOutputs : TRUE
    BY <2>1 DEF KeyMade, PayeePositions
  <2>3. /\ Len(blindAmounts) = m /\ blindAmounts \in Seq(Amounts)
    BY <2>1, Zenon DEF OutputsAligned, TypeOK
  <2>4. blindAmounts = AmountsOf(pOutputs)
    BY <2>1 DEF OutputsInOrder
  <2>5. j \in DOMAIN blindAmounts
    BY <2>4 DEF AmountsOf
  <2> QED BY <2>3, <2>5
<1> HIDE DEF n, m, i, x, b, c
<1>4. RingTx(BuilderRaw, Data(0, n, i, m, outputs, x, txnFee, ecdhInfo, outPk, b, c, pseudoOuts))
  BY <1>1, <1>2, <1>3, RingIs, Zenon
<1> QED BY <1>4, Zenon DEF BuilderData, n, m, i, x, b, c

KeysData(a) ==
    Data(0, 1, ForeignIns, 2, ForeignOuts(a), ForeignExtra, 0, ForeignEcdh(a), ForeignOutPk, ForeignBpp,
         ForeignClsags, ForeignPseudo)

LEMMA KeysIsRing == ASSUME NEW a PROVE RingTx(KeysWire(a), KeysData(a))
<1> DEFINE z == 0
           n == 1
           m == 2
<1>1. n \in Nat /\ m \in Nat /\ m # 0
  OBVIOUS
<1>2. /\ InputsFit(n, ForeignIns) /\ OutputsFit(m, ForeignOuts(a))
      /\ SignaturesFit(n, ForeignIns, m, ForeignEcdh(a), ForeignOutPk, ForeignBpp, ForeignClsags, ForeignPseudo)
  BY KeysFit, Zenon
<1>3. KeysWire(a) = PrefixOf(z, n, ForeignIns, m, ForeignOuts(a), ForeignExtra)
                      \o (BaseOf(z, ForeignEcdh(a), ForeignOutPk)
                            \o ProofsOf(ForeignBpp, ForeignClsags, ForeignPseudo))
  BY Zenon DEF KeysWire, KeysBase, KeysProofs
<1> HIDE DEF z, n, m
<1>4. RingTx(KeysWire(a), Data(z, n, ForeignIns, m, ForeignOuts(a), ForeignExtra, z, ForeignEcdh(a),
                               ForeignOutPk, ForeignBpp, ForeignClsags, ForeignPseudo))
  BY <1>1, <1>2, <1>3, RingIs, Zenon
<1> QED BY <1>4, Zenon DEF KeysData, z, n, m

\* The reward of a block: nothing that either parser does puts its reader out of step.
CoinHolds(r, a) ==
    \E u, n, i, m, o, x, w, s, p :
        /\ r = TxOf(u, n, i, m, o, x, ForeignFields("coinbase", a), w, s, p, TRUE)
        /\ IsSeq(o) /\ (i = <<>> \/ InputsKeep(i, 1))
        /\ w = <<>> \/ (w = NoProofs /\ n = 1 /\ InputsKeep(i, 1))

LEMMA CoinMoves ==
    ASSUME NEW a, NEW r, CoinHolds(r, a)
    PROVE  CoinHolds(ParseTx(r), a) /\ CoinHolds(ParseRctSig(r), a)
<1> DEFINE raw == ForeignFields("coinbase", a)
           g == <<GeneratedInput(1)>>
           out == <<PaidOutput(a)>>
           xt == <<KeyItem>>
           one == 1
<1>1. PICK u, n, i, m, o, x, w, s, p :
          /\ r = TxOf(u, n, i, m, o, x, raw, w, s, p, TRUE)
          /\ IsSeq(o) /\ (i = <<>> \/ InputsKeep(i, 1))
          /\ w = <<>> \/ (w = NoProofs /\ n = 1 /\ InputsKeep(i, 1))
  BY Zenon DEF CoinHolds
<1>2. /\ 1 \in Nat /\ IsSeq(g) /\ IsSeq(out) /\ Len(g) = 1 /\ Len(g) >= 1
  <2>1. IsSeq(g) /\ IsSeq(out)
    BY SmallSeqs, Zenon
  <2>2. 1 \in Nat /\ Len(g) = 1 /\ Len(g) >= 1
    OBVIOUS
  <2> QED BY <2>1, <2>2, Zenon
<1>3. OffsetsCounted(g, 1)
  <2>1. g[1] = GeneratedInput(1) /\ \A j \in 1 .. 1 : j = 1
    OBVIOUS
  <2>2. Len(GeneratedInput(1).offsets) \in Nat
    BY DEF GeneratedInput
  <2> HIDE DEF g
  <2> QED BY <2>1, <2>2, Zenon DEF OffsetsCounted
<1>4. ParsesAs(raw, 60, 1, g, 1, out, xt, NoProofs)
  BY CoinbaseRead, Zenon DEF CoinbaseParses
<1> HIDE DEF raw, g, out, xt
<1>5. CoinHolds(ParseTx(r), a)
  <2> DEFINE q == 60
  <2>1. ParsesTo(raw, q, one, g, one, out, xt, NoProofs, u, n, i, m, o, x, w, s, p)
    <3> HIDE DEF q, one
    <3>1. ParsesAs(raw, q, one, g, one, out, xt, NoProofs)
      BY <1>4, Zenon DEF q, one
    <3> QED BY <3>1, InStepParses, Zenon
  <2>2. ParseTx(r) = TxOf(q, 1, i \o g, 1, o \o out, xt, raw, NoProofs, s, p, TRUE)
    <3> HIDE DEF q
    <3> QED BY <1>1, <2>1, Zenon DEF ParsesTo
  <2>3. IsSeq(o \o out)
    BY <1>1, <1>2, ConcatIs, Zenon
  <2>4. InputsKeep(i \o g, 1)
    <3>1. CASE i = <<>>
      <4>1. i \o g = g
        BY <1>2, <3>1, ConcatIs, Zenon
      <4> QED BY <1>2, <1>3, <4>1, Zenon DEF InputsKeep
    <3>2. CASE InputsKeep(i, 1)
      BY <1>2, <3>2, InputsKept2, Zenon
    <3> QED BY <1>1, <3>1, <3>2
  <2> HIDE DEF q
  <2> DEFINE k == i \o g
             v == o \o out
             y == NoProofs
  <2>5. /\ ParseTx(r) = TxOf(q, one, k, one, v, xt, raw, y, s, p, TRUE)
        /\ IsSeq(v) /\ (k = <<>> \/ InputsKeep(k, 1))
        /\ y = <<>> \/ (y = NoProofs /\ one = 1 /\ InputsKeep(k, 1))
    BY <2>2, <2>3, <2>4, Zenon
  <2> HIDE DEF k, v, y, one
  <2> QED BY <2>5, Zenon DEF CoinHolds, raw
<1>6. CoinHolds(ParseRctSig(r), a)
  <2>1. CASE w = <<>>
    <3> DEFINE e == <<>>
    <3>1. r = TxOf(u, n, i, m, o, x, raw, e, s, p, TRUE)
      BY <1>1, <2>1, Zenon
    <3>2. r.rctRaw = e
      BY <3>1 DEF TxOf
    <3>3. ParseRctSig(r) = r
      BY <3>2, Zenon DEF ParseRctSig
    <3> QED BY <3>3, Zenon
  <2>2. CASE w = NoProofs /\ n = 1 /\ InputsKeep(i, 1)
    <3>1. OffsetsCounted(i, n) /\ n \in Nat
      BY <1>2, <2>2, Zenon DEF InputsKeep
    <3>2. Len(o) \in Nat
      BY <1>1, SeqLen, Zenon
    <3>3. NullSigns(u, n, i, m, o, x, raw, s, p)
      BY <3>1, <3>2, NullSigned, Zenon
    <3>4. PICK sig, q : ParseRctSig(TxOf(u, n, i, m, o, x, raw, NoProofs, s, p, TRUE))
                          = TxOf(u, n, i, m, o, x, raw, <<>>, <<sig>>, <<q>>, TRUE)
      BY <3>3, Zenon DEF NullSigns
    <3> DEFINE z == <<>>
               t == <<sig>>
               v == <<q>>
    <3>5. /\ ParseRctSig(r) = TxOf(u, n, i, m, o, x, raw, z, t, v, TRUE)
          /\ z = <<>>
      BY <1>1, <2>2, <3>4, Zenon
    <3> HIDE DEF z, t, v
    <3> QED BY <1>1, <3>5, Zenon DEF CoinHolds, raw
  <2> QED BY <1>1, <2>1, <2>2
<1> QED BY <1>5, <1>6

LEMMA CoinStarts == ASSUME NEW a PROVE CoinHolds(ForeignArrived("coinbase", a), a)
<1> DEFINE z == 0
           e == <<>>
<1>1. ForeignArrived("coinbase", a) = TxOf(z, z, e, z, e, e, ForeignFields("coinbase", a), e, e, e, TRUE)
  BY Zenon DEF ForeignArrived
<1>2. IsSeq(e) /\ e = <<>>
  BY SmallSeqs
<1> HIDE DEF z, e
<1> QED BY <1>1, <1>2, Zenon DEF CoinHolds

\* What has been parsed of a transaction depends on how often, and on the order.
WireInv ==
    /\ origin = "none" => rx = EmptyTx
    /\ origin = "builder" => RingHolds(calls, rx, BuilderRaw, BuilderData)
    /\ origin = "additional keys" =>
          \E a \in PrimaryAddresses : RingHolds(calls, rx, KeysWire(a), KeysData(a))
    /\ origin = "coinbase" => \E a \in PrimaryAddresses : CoinHolds(rx, a)
    /\ origin \in ForeignKinds \cup {"none", "builder"}

LEMMA WireMoves ==
    BuilderInv /\ ReceiverInv /\ WireInv /\ [ScanNext]_<<vars, scanVars>> => WireInv'
<1> SUFFICES ASSUME BuilderInv, ReceiverInv, WireInv, [ScanNext]_<<vars, scanVars>> PROVE WireInv'
  OBVIOUS
<1>1. /\ "none" # "builder" /\ "none" # "additional keys" /\ "none" # "coinbase"
      /\ "builder" # "additional keys" /\ "builder" # "coinbase" /\ "additional keys" # "coinbase"
      /\ \A k : k \in ForeignKinds <=> k = "coinbase" \/ k = "additional keys"
      /\ \A k : k \in {"none", "builder"} <=> k = "none" \/ k = "builder"
  BY DEF ForeignKinds
<1>2. ASSUME UNCHANGED vars PROVE BuilderRaw' = BuilderRaw /\ BuilderData' = BuilderData
  <2>1. /\ sent' = sent /\ inputs' = inputs /\ outputs' = outputs /\ extra' = extra /\ txnFee' = txnFee
        /\ ecdhInfo' = ecdhInfo /\ outPk' = outPk /\ bpp' = bpp /\ clsags' = clsags
        /\ pseudoOuts' = pseudoOuts
    BY <1>2, Zenon DEF vars, requestVars, keyVars, inputVars, outputVars, signVars, resultVars
  <2> QED BY <2>1, Zenon DEF BuilderRaw, BuilderData
<1>3. CASE Build
  <2>1. UNCHANGED <<rx, origin, calls>> /\ origin = "none"
    BY <1>3, Zenon DEF Build, scanVars
  <2> QED BY <1>1, <2>1, Zenon DEF WireInv
<1>4. CASE Receive
  <2>1. UNCHANGED vars /\ calls' = <<>>
    BY <1>4, Zenon DEF Receive, ReceiverInv
  <2>2. CASE step = 10 /\ origin' = "builder" /\ rx' = [EmptyTx EXCEPT !.raw = SerializedTx(Built(sent[1]))]
    <3>1. rx' = Start(BuilderRaw)
      BY <2>2, ArrivedIs, Zenon DEF Start, BuilderRaw
    <3>2. RingHolds(<<>>, Start(BuilderRaw), BuilderRaw, BuilderData)
      BY RingStarts, Zenon
    <3>3. RingHolds(calls', rx', BuilderRaw', BuilderData')
      BY <1>2, <2>1, <3>1, <3>2, Zenon
    <3> QED BY <1>1, <2>2, <3>3, Zenon DEF WireInv
  <2>3. ASSUME NEW kind \in ForeignKinds, NEW a \in PrimaryAddresses,
               rx' = [EmptyTx EXCEPT !.raw = ForeignFields(kind, a)], origin' = kind
        PROVE  WireInv'
    <3>1. rx' = ForeignArrived(kind, a)
      BY <2>3, ArrivedIs, Zenon DEF ForeignArrived
    <3>2. CASE kind = "coinbase"
      <4>1. CoinHolds(rx', a)
        BY <3>1, <3>2, CoinStarts, Zenon
      <4> QED BY <1>1, <2>3, <3>2, <4>1, Zenon DEF WireInv
    <3>3. CASE kind = "additional keys"
      <4>1. rx' = Start(KeysWire(a))
        BY <3>1, <3>3, KeysRead, Zenon DEF ForeignArrived, Start, KeysParse
      <4>2. RingHolds(<<>>, Start(KeysWire(a)), KeysWire(a), KeysData(a))
        BY RingStarts, Zenon
      <4>3. RingHolds(calls', rx', KeysWire(a), KeysData(a))
        BY <2>1, <4>1, <4>2, Zenon
      <4> QED BY <1>1, <2>3, <3>3, <4>3, Zenon DEF WireInv
    <3> QED BY <1>1, <3>2, <3>3, Zenon
  <2> QED BY <1>4, <2>2, <2>3, Zenon DEF Receive
<1>5. ASSUME NEW name \in ParserCalls, Call(name),
             \/ name = "ParseTx" /\ rx' = ParseTx(rx)
             \/ name = "ParseRctSig" /\ rx' = ParseRctSig(rx)
      PROVE  WireInv'
  <2>1. calls' = Append(calls, name) /\ UNCHANGED vars /\ origin' = origin /\ origin # "none"
    BY <1>5, Zenon DEF Call
  <2>2. calls \in Seq(ParserCalls)
    BY Zenon DEF ReceiverInv
  <2>3. ASSUME NEW raw, NEW d, RingTx(raw, d), RingHolds(calls, rx, raw, d)
        PROVE  RingHolds(calls', rx', raw, d)
    <3>1. CASE name = "ParseTx" /\ rx' = ParseTx(rx)
      BY <2>1, <2>2, <2>3, <3>1, RingParsed, Zenon
    <3>2. CASE name = "ParseRctSig" /\ rx' = ParseRctSig(rx)
      BY <2>1, <2>2, <2>3, <3>2, RingSigned, Zenon
    <3> QED BY <1>5, <3>1, <3>2, Zenon
  <2>4. ASSUME origin = "builder" PROVE RingHolds(calls', rx', BuilderRaw', BuilderData')
    <3>1. RingHolds(calls, rx, BuilderRaw, BuilderData) /\ step = 10
      BY <2>4, Zenon DEF WireInv, ReceiverInv
    <3>2. RingTx(BuilderRaw, BuilderData)
      BY <3>1, BuilderIsRing
    <3> QED BY <1>2, <2>1, <2>3, <3>1, <3>2, Zenon
  <2>5. ASSUME origin = "additional keys"
        PROVE  \E a \in PrimaryAddresses : RingHolds(calls', rx', KeysWire(a), KeysData(a))
    <3>1. PICK a \in PrimaryAddresses : RingHolds(calls, rx, KeysWire(a), KeysData(a))
      BY <2>5, Zenon DEF WireInv
    <3>2. RingTx(KeysWire(a), KeysData(a))
      BY KeysIsRing, Zenon
    <3> QED BY <2>3, <3>1, <3>2, Zenon
  <2>6. ASSUME origin = "coinbase" PROVE \E a \in PrimaryAddresses : CoinHolds(rx', a)
    <3>1. PICK a \in PrimaryAddresses : CoinHolds(rx, a)
      BY <2>6, Zenon DEF WireInv
    <3>2. CoinHolds(ParseTx(rx), a) /\ CoinHolds(ParseRctSig(rx), a)
      BY <3>1, CoinMoves, Zenon
    <3> QED BY <1>5, <3>2, Zenon
  <2> QED BY <2>1, <2>4, <2>5, <2>6, Zenon DEF WireInv
<1>6. CASE CallParseTx \/ CallParseRctSig
  <2>1. "ParseTx" \in ParserCalls /\ "ParseRctSig" \in ParserCalls
    BY Zenon DEF ParserCalls
  <2> QED BY <1>5, <1>6, <2>1, Zenon DEF CallParseTx, CallParseRctSig
<1>7. CASE UNCHANGED <<vars, scanVars>>
  <2>1. UNCHANGED vars /\ UNCHANGED <<rx, origin, calls>>
    BY <1>7, Zenon DEF scanVars
  <2> QED BY <1>2, <2>1, Zenon DEF WireInv
<1> QED BY <1>3, <1>4, <1>6, <1>7, Zenon DEF ScanNext

LEMMA WireInvariance == ScanSpec => [](ScanInv /\ WireInv)
<1>1. ScanInit => WireInv
  <2>1. "none" # "builder" /\ "none" # "additional keys" /\ "none" # "coinbase" /\ "none" \in {"none", "builder"}
    OBVIOUS
  <2>2. \A S : "none" \in S \cup {"none", "builder"}
    OBVIOUS
  <2> QED BY <2>1, <2>2, Zenon DEF ScanInit, WireInv
<1>2. BuilderInv /\ ReceiverInv /\ WireInv /\ [ScanNext]_<<vars, scanVars>> => WireInv'
  BY WireMoves
<1>3. ScanInv => BuilderInv /\ ReceiverInv
  BY DEF ScanInv
<1> QED BY <1>1, <1>2, <1>3, ScanInvariance, PTL DEF ScanSpec

\* The reader is out of step exactly behind a second ParseTx.
LEMMA InStepUnless ==
    ASSUME ScanInv, WireInv
    PROVE  rx.inStep <=> ~(SignatureRead(2) /\ origin \in {"builder", "additional keys"})
<1>1. SignatureRead(2) <=> ReadAfter(calls, 2)
  BY Zenon DEF SignatureRead, ReadAfter, TxParses, Parses
<1>2. ASSUME NEW raw, NEW d, RingHolds(calls, rx, raw, d) PROVE rx.inStep <=> ~ReadAfter(calls, 2)
  <2>1. CASE ReadAfter(calls, 2)
    <3>1. rx.inStep = FALSE
      BY <1>2, <2>1, Zenon DEF RingHolds, OutOfStep
    <3> QED BY <2>1, <3>1
  <2>2. CASE ~ReadAfter(calls, 2)
    <3>1. rx.inStep = TRUE
      <4>1. CASE Count(calls) = 0
        <5>1. rx = Start(raw)
          BY <1>2, <2>2, <4>1, Zenon DEF RingHolds
        <5> QED BY <5>1 DEF Start, TxOf
      <4>2. CASE Count(calls) # 0
        <5> DEFINE one == Count(calls) = 1
                   read == ReadAfter(calls, 1)
        <5>1. InStepAs(one, read, rx, raw, d)
          BY <1>2, <2>2, <4>2, Zenon DEF RingHolds
        <5> HIDE DEF one, read
        <5>2. PICK i, o, w, p : rx = Parsed(raw, d, i, o, w, SigRead(read, d), p)
          BY <5>1, Zenon DEF InStepAs
        <5> QED BY <5>2 DEF Parsed, TxOf
      <4> QED BY <4>1, <4>2
    <3> QED BY <2>2, <3>1
  <2> QED BY <2>1, <2>2
<1>3. /\ "none" \notin {"builder", "additional keys"} /\ "coinbase" \notin {"builder", "additional keys"}
      /\ "builder" \in {"builder", "additional keys"} /\ "additional keys" \in {"builder", "additional keys"}
  OBVIOUS
<1>4. origin = "none" \/ origin = "builder" \/ origin = "coinbase" \/ origin = "additional keys"
  BY DEF WireInv, ForeignKinds
<1>5. CASE origin = "none"
  <2>1. rx = EmptyTx
    BY <1>5, Zenon DEF WireInv
  <2>2. rx.inStep = TRUE
    BY <2>1 DEF EmptyTx
  <2> QED BY <1>3, <1>5, <2>2
<1>6. CASE origin = "builder"
  BY <1>1, <1>2, <1>3, <1>6, Zenon DEF WireInv
<1>7. CASE origin = "additional keys"
  <2>1. PICK a \in PrimaryAddresses : RingHolds(calls, rx, KeysWire(a), KeysData(a))
    BY <1>7, Zenon DEF WireInv
  <2> QED BY <1>1, <1>2, <1>3, <1>7, <2>1, Zenon
<1>8. CASE origin = "coinbase"
  <2>1. PICK a \in PrimaryAddresses : CoinHolds(rx, a)
    BY <1>8, Zenon DEF WireInv
  <2>2. rx.inStep = TRUE
    BY <2>1 DEF CoinHolds, TxOf
  <2> QED BY <1>3, <1>8, <2>2
<1> QED BY <1>4, <1>5, <1>6, <1>7, <1>8

-----------------------------------------------------------------------------
(* What CheckOutputs finds of the builder's outputs, however often parsed.     *)

\* The outputs whose key the owner of a primary address can tell are its own.
LEMMA PaidIs ==
    ASSUME KeyMade, OutputsMade, TypeOK, NEW a \in PrimaryAddresses, NEW j \in DOMAIN pOutputs
    PROVE  /\ KeyDerivation(TxPublicKey, ViewSecret(a.owner)) = OutputDerivation(pOutputs[j])
           /\ PubSpend(a) = PubSpend(pOutputs[j].address)
           <=> j \in PaidTo(a)
<1> DEFINE b == pOutputs[j].address
           r == pOutputs[j]
<1>1. r.change \in {"yes", "no"}
  <2>1. r \in OutputRequestType
    BY Lengths, Zenon
  <2>2. r.change # "absent"
    BY Zenon DEF OutputsMade
  <2> QED BY <2>1, <2>2 DEF OutputRequestType
<1>2. j \in PaidTo(a) <=> PubSpend(b) = PubSpend(a) /\ (r.change = "yes" \/ ~OneSub)
  BY PayeesCount, Zenon DEF PaidTo
<1>3. ASSUME PubSpend(a) = PubSpend(b)
      PROVE  KeyDerivation(TxPublicKey, ViewSecret(a.owner)) = OutputDerivation(r)
               <=> r.change = "yes" \/ ~OneSub
  <2>1. b.kind # "sub" /\ b.owner = a.owner
    <3>1. a.kind # "sub"
      BY DEF PrimaryAddresses
    <3>2. PubSpend(a) = {SpendSecret(a.owner)}
      BY <3>1, Zenon DEF PubSpend
    <3>3. PubSpend(b) = IF b.kind = "sub" THEN {SubSecret(b.owner)} ELSE {SpendSecret(b.owner)}
      BY Zenon DEF PubSpend
    <3> DEFINE y == a.owner
               z == b.owner
    <3>4. SpendSecret(y) # SubSecret(z) /\ (SpendSecret(y) = SpendSecret(z) => z = y)
      <4> HIDE DEF y, z
      <4> QED BY DEF SpendSecret, SubSecret
    <3>5. /\ {SpendSecret(y)} = {SubSecret(z)} => SpendSecret(y) = SubSecret(z)
          /\ {SpendSecret(y)} = {SpendSecret(z)} => SpendSecret(y) = SpendSecret(z)
      <4> DEFINE v == SpendSecret(y)
                 w == SubSecret(z)
                 x == SpendSecret(z)
      <4> HIDE DEF v, w, x
      <4>1. ({v} = {w} => v = w) /\ ({v} = {x} => v = x)
        OBVIOUS
      <4> QED BY <4>1, Zenon DEF v, w, x
    <3> HIDE DEF y, z
    <3>6. b.kind # "sub" /\ z = y
      BY <1>3, <3>2, <3>3, <3>4, <3>5, Zenon DEF y, z
    <3> QED BY <3>6, Zenon DEF y, z
  <2>2. CASE r.change = "yes"
    <3>1. r.change # "no"
      BY <2>2
    <3>2. OutputDerivation(r) = KeyDerivation(publicKey, ViewSecret(b.owner))
      BY <3>1, Zenon DEF OutputDerivation
    <3>3. publicKey = TxPublicKey
      BY Zenon DEF KeyMade
    <3> QED BY <2>1, <2>2, <3>2, <3>3, Zenon
  <2>3. CASE r.change = "no"
    <3>1. r.change # "yes"
      BY <2>3
    <3>2. OutputDerivation(r) = KeyDerivation(PubView(b), TxSecret)
      BY <2>3, Zenon DEF OutputDerivation
    <3>3. TxPublicKey = TxKey(OneSub, LastPayee)
      BY Zenon DEF TxPublicKey, TxKey, OneSub
    <3>4. OneSub \in BOOLEAN
      BY Zenon DEF OneSub
    <3> HIDE DEF b
    <3>5. SameDerivation(OneSub, LastPayee, a.owner, b)
            <=> /\ a.owner = b.owner
                /\ IF OneSub THEN IsSubAddress(b) /\ IsSubAddress(LastPayee) /\ b.owner = LastPayee.owner
                             ELSE ~IsSubAddress(b)
      BY <3>4, KeysAgree, Zenon
    <3>6. ~IsSubAddress(b)
      BY <2>1, Zenon DEF IsSubAddress
    <3> QED BY <2>1, <3>1, <3>2, <3>3, <3>5, <3>6, Zenon DEF SameDerivation
  <2> QED BY <1>1, <2>2, <2>3
<1> QED BY <1>2, <1>3, Zenon

\* The sum of what was asked for at these places, added up in the same way.
PaidTotal(S) == TotalXmr([i \in S |-> AtomicToXmr(pOutputs[i].amount)])

\* What the scan of an address gives, signatures read or not.
Scanned(tx, a, read) ==
    /\ CheckOutputs(tx, a, a.owner).ok <=> PaidTo(a) # {}
    /\ CheckOutputs(tx, a, a.owner).found = PaidTo(a)
    /\ CheckOutputs(tx, a, a.owner).total = IF read /\ PaidTo(a) # {} THEN PaidTotal(PaidTo(a)) ELSE 0

LEMMA ParsedScans ==
    ASSUME BuilderInv, step = 10, NEW a \in PrimaryAddresses, NEW raw, NEW i, NEW o, NEW w, NEW p,
           NEW read \in BOOLEAN, NEW t, t = Parsed(raw, BuilderData, i, o, w, SigRead(read, BuilderData), p),
           Copies(o, outputs, Len(outputs))
    PROVE  Scanned(t, a, read)
<1> DEFINE m == Len(outputs)
           u == a.owner
           x == ExtraItems(extra)
           sig == SigOf(txnFee, ecdhInfo, outPk)
           d == KeyDerivation(TxPublicKey, ViewSecret(u))
           found == Found(t, a, u)
           finds == Finds(t, a, u)
           scan == CheckOutputs(t, a, u)
           paid == PaidTo(a)
<1>1. /\ KeyMade /\ OutputsMade /\ TypeOK /\ OutputsAligned
      /\ ParseTxExtra(x).ok /\ ParseTxExtra(x).txPubKey = <<TxPublicKey>>
      /\ DOMAIN outputs = DOMAIN pOutputs /\ blindAmounts = AmountsOf(pOutputs)
      /\ \A j \in DOMAIN outputs :
           /\ outputs[j].target = OneTimeKey(OutputDerivation(pOutputs[j]), j - 1,
                                             PubSpend(pOutputs[j].address))
           /\ outputs[j].viewTag = ViewTag(OutputDerivation(pOutputs[j]), j - 1)
  BY BuilderSeen
<1>2. t.outputs = o /\ t.extra = x /\ t.signature = IF read THEN <<sig>> ELSE <<>>
  <2> DEFINE e == BuilderData
             s == SigRead(read, e)
             n == Len(inputs)
             ring == RingOf(inputs)
             b == <<BppHashes(bpp)>>
             c == SignedOf(clsags)
  <2>1. DataAre(0, n, ring, m, outputs, x, txnFee, ecdhInfo, outPk, b, c, pseudoOuts, e)
    <3> HIDE DEF n, ring, m, x, b, c
    <3>1. e = Data(0, n, ring, m, outputs, x, txnFee, ecdhInfo, outPk, b, c, pseudoOuts)
      BY Zenon DEF BuilderData, n, ring, m, x, b, c
    <3> HIDE DEF e
    <3> QED BY <3>1, DataParts, Zenon
  <2> HIDE DEF n, ring, m, x, b, c, e, s
  <2>2. t = TxOf(e.u, e.n, i, e.m, o, e.x, raw, w, s, p, TRUE)
    BY Zenon DEF Parsed, e, s
  <2>3. FieldsAre(e.u, e.n, i, e.m, o, e.x, raw, w, s, p, TRUE, t)
    BY <2>2, TxParts, Zenon
  <2>4. t.outputs = o /\ t.extra = e.x /\ t.signature = s
    BY <2>3, Zenon DEF FieldsAre
  <2>5. s = IF read THEN <<sig>> ELSE <<>>
    BY <2>1, Zenon DEF s, SigRead, DataAre
  <2> QED BY <2>1, <2>4, <2>5, Zenon DEF DataAre
<1>3. ParseTxExtra(t.extra).txPubKey[1] = TxPublicKey /\ ParseTxExtra(t.extra).txPubKey # <<>>
      /\ ParseTxExtra(t.extra).ok
  <2>1. \A k : <<k>>[1] = k /\ <<k>> # <<>>
    OBVIOUS
  <2> HIDE DEF x
  <2> QED BY <1>1, <1>2, <2>1, Zenon
<1>4. /\ m \in Nat /\ DOMAIN outputs = 1 .. m /\ IsSeq(o) /\ Len(o) \in Nat /\ Len(o) >= m
      /\ DOMAIN o = 1 .. Len(o) /\ (\A j \in 1 .. m : o[j] = outputs[j])
      /\ (\A j \in 1 .. Len(o) : \E l \in 1 .. m : o[j] = outputs[l])
  <2>1. m \in Nat /\ DOMAIN outputs = 1 .. m
    BY <1>1, Lengths
  <2>2. IsSeq(o) /\ Len(o) \in Nat /\ DOMAIN o = 1 .. Len(o)
    BY SeqLen, Zenon DEF Copies
  <2> QED BY <2>1, <2>2, Zenon DEF Copies
<1>5. ASSUME NEW j \in 1 .. Len(o), NEW l \in 1 .. m, o[j] = outputs[l]
      PROVE  Recognises(t, a, u, j) <=> j = l /\ l \in paid
  <2> DEFINE e == OutputDerivation(pOutputs[l])
             s == PubSpend(pOutputs[l].address)
  <2>1. o[j].target = OneTimeKey(e, l - 1, s) /\ o[j].viewTag = ViewTag(e, l - 1)
    BY <1>1, <1>4, <1>5, Zenon
  <2>2. Recognises(t, a, u, j) <=> /\ ViewTag(e, l - 1) = ViewTag(d, j - 1)
                                   /\ OneTimeKey(e, l - 1, s) = OneTimeKey(d, j - 1, PubSpend(a))
    BY <1>2, <1>3, <2>1, Zenon DEF Recognises
  <2>3. d = e /\ PubSpend(a) = s <=> l \in paid
    <3>1. l \in DOMAIN pOutputs
      BY <1>1, <1>4, Zenon
    <3> QED BY <1>1, <3>1, PaidIs, Zenon
  <2>4. j - 1 = l - 1 <=> j = l
    <3>1. j \in Int /\ l \in Int
      BY <1>4
    <3> QED BY <3>1
  <2> HIDE DEF e, s, d
  <2>5. OneTimeKey(e, l - 1, s) = OneTimeKey(d, j - 1, PubSpend(a))
          <=> e = d /\ j - 1 = l - 1 /\ s = PubSpend(a)
    BY DEF OneTimeKey
  <2> HIDE DEF paid
  <2> QED BY <2>2, <2>3, <2>4, <2>5, Zenon
<1>6. paid \subseteq 1 .. m
  BY <1>1, <1>4 DEF PaidTo
<1>7. found = paid
  <2>1. \A j \in 1 .. m : j \in 1 .. Len(o)
    BY <1>4
  <2>2. ASSUME NEW j PROVE j \in found <=> j \in paid
    <3>1. j \in found <=> j \in 1 .. Len(o) /\ Recognises(t, a, u, j)
      BY <1>2, <1>4 DEF Found
    <3> HIDE DEF found, paid
    <3>2. ASSUME j \in found PROVE j \in paid
      <4>1. PICK l \in 1 .. m : o[j] = outputs[l]
        BY <1>4, <3>1, <3>2, Zenon
      <4> QED BY <1>5, <3>1, <3>2, <4>1, Zenon
    <3>3. ASSUME j \in paid PROVE j \in found
      <4>1. j \in 1 .. m
        BY <1>6, <3>3
      <4>2. j \in 1 .. Len(o) /\ o[j] = outputs[j]
        BY <1>4, <2>1, <4>1, Zenon
      <4> QED BY <1>5, <3>1, <3>3, <4>1, <4>2, Zenon
    <3> QED BY <3>2, <3>3
  <2> HIDE DEF found, paid
  <2> QED BY <2>2
<1>8. finds <=> paid # {}
  <2>1. Decodes(a) /\ verifyViewKeyPair(u, a)
    BY SpendKeyIsMine, Zenon
  <2> QED BY <1>3, <1>7, <2>1, Zenon DEF Finds
<1>9. /\ scan.ok = finds /\ scan.found = IF finds THEN found ELSE {}
      /\ scan.total = IF finds THEN AmountTotal(t, u, found) ELSE 0
  <2>1. Answers(t, a, u)
    BY Answered, Zenon
  <2> HIDE DEF scan, finds, found
  <2> QED BY <2>1, Zenon DEF Answers, scan, finds, found
<1>11. ASSUME read, NEW j \in paid PROVE AmountOf(t, u, j) = AtomicToXmr(pOutputs[j].amount)
  <2>1. j \in 1 .. m /\ j \in DOMAIN outputs
    BY <1>4, <1>6
  <2>2. t.signature[1] = sig /\ t.signature # <<>>
    <3>1. \A k : <<k>>[1] = k /\ <<k>> # <<>>
      OBVIOUS
    <3> QED BY <1>2, <1>11, <3>1, Zenon
  <2>3. sig.type > 0 /\ sig.ecdhInfo = ecdhInfo
    BY DEF SigOf, RctBpp
  <2>4. j \in DOMAIN ecdhInfo
    <3>1. Len(ecdhInfo) = m /\ ecdhInfo \in Seq(Ciphers)
      BY <1>1, Zenon DEF OutputsAligned, TypeOK
    <3> QED BY <2>1, <3>1
  <2> HIDE DEF sig
  <2>5. AmountOf(t, u, j) = AtomicToXmr(DecodeRctAmount(t, u, j))
    BY <2>2, <2>3, <2>4, Zenon DEF AmountOf
  <2>6. DecodeRctAmount(t, u, j) = DecryptAmount(d, j - 1, ecdhInfo[j])
    BY <1>3, <2>2, <2>3, Zenon DEF DecodeRctAmount
  <2>7. d = OutputDerivation(pOutputs[j])
    BY <1>1, <2>1, PaidIs, Zenon
  <2> HIDE DEF d
  <2>8. outputs[j].target.derivation = d
    <3>1. outputs[j].target = OneTimeKey(d, j - 1, PubSpend(pOutputs[j].address))
      BY <1>1, <2>1, <2>7, Zenon
    <3> QED BY <3>1 DEF OneTimeKey
  <2>9. ecdhInfo[j] = EncryptAmount(d, j - 1, blindAmounts[j])
    BY <1>1, <2>1, <2>8, Zenon DEF OutputsAligned
  <2>10. DecryptAmount(d, j - 1, ecdhInfo[j]) = blindAmounts[j]
    <3>1. ecdhInfo[j].derivation = d /\ ecdhInfo[j].index = j - 1 /\ ecdhInfo[j].amount = blindAmounts[j]
      BY <2>9 DEF EncryptAmount
    <3> QED BY <3>1, Zenon DEF DecryptAmount
  <2>11. blindAmounts[j] = pOutputs[j].amount
    <3>1. j \in DOMAIN pOutputs
      BY <1>1, <2>1
    <3> QED BY <1>1, <3>1 DEF AmountsOf
  <2> QED BY <2>5, <2>6, <2>10, <2>11, Zenon
<1>12. ASSUME ~read, NEW j PROVE AmountOf(t, u, j) = 0
  <2>1. t.signature = <<>>
    BY <1>2, <1>12, Zenon
  <2> QED BY <2>1, Zenon DEF AmountOf
<1> DEFINE f == [j \in paid |-> AmountOf(t, u, j)]
           g == [j \in paid |-> AtomicToXmr(pOutputs[j].amount)]
<1>13. AmountTotal(t, u, paid) = TotalXmr(f) /\ PaidTotal(paid) = TotalXmr(g)
  <2> HIDE DEF paid
  <2> QED BY Zenon DEF AmountTotal, PaidTotal
<1>14. read => f = g
  <2> HIDE DEF paid
  <2> QED BY <1>11
<1>15. ASSUME ~read, paid # {} PROVE TotalXmr(f) = 0
  <2>1. DOMAIN f = paid /\ \A j \in paid : f[j] = 0
    <3> HIDE DEF paid
    <3> QED BY <1>12, <1>15
  <2>2. m \in Nat /\ paid \in SUBSET (1 .. m)
    BY <1>4, <1>6
  <2> HIDE DEF f, paid, m
  <2> QED BY <1>15, <2>1, <2>2, TotalOfNothing
<1> HIDE DEF f, g, paid, found, finds, scan
<1>17. scan.total = IF read /\ paid # {} THEN PaidTotal(paid) ELSE 0
  BY <1>7, <1>8, <1>9, <1>13, <1>14, <1>15, Zenon
<1>18. scan.found = paid
  <2>1. CASE finds
    BY <1>7, <1>9, <2>1, Zenon
  <2>2. CASE ~finds
    BY <1>8, <1>9, <2>2, Zenon
  <2> QED BY <2>1, <2>2
<1> QED BY <1>8, <1>9, <1>17, <1>18, Zenon DEF Scanned, scan, paid

\* Whatever the receiver calls, and however often, a scan finds exactly what was
\* paid to an address and, once the signatures were read, adds up the amounts that
\* were requested, each once and in the order of the outputs: for every set of
\* requests, every wallet, every sequence of calls (of which only a second ParseTx
\* before ParseRctSig loses the thread) and whatever the sum of two float64 numbers
\* rounds to.  It is not claimed that the sum is exact.
THEOREM ScanFindsWhatWasPaid == ScanSpec => []ScanFindsPaid
<1>1. ASSUME ScanInv, WireInv, origin = "builder", TxParses(Len(calls)) # {}, rx.inStep,
             NEW a \in PrimaryAddresses
      PROVE  Scanned(rx, a, SignatureRead(1))
  <2> DEFINE read == ReadAfter(calls, 1)
             one == Count(calls) = 1
             d == BuilderData
             raw == BuilderRaw
  <2>1. read = SignatureRead(1) /\ read \in BOOLEAN /\ (SignatureRead(2) <=> ReadAfter(calls, 2))
    <3>1. \A n : ReadAfter(calls, n) = SignatureRead(n)
      BY Zenon DEF SignatureRead, ReadAfter, TxParses, Parses
    <3>2. read \in BOOLEAN
      BY DEF ReadAfter
    <3> QED BY <3>1, <3>2, Zenon
  <2>2. ~ReadAfter(calls, 2)
    <3>1. "builder" \in {"builder", "additional keys"}
      OBVIOUS
    <3> QED BY <1>1, <2>1, <3>1, InStepUnless, Zenon
  <2>3. Count(calls) # 0
    <3>1. TxParses(Len(calls)) = Parses(calls, Len(calls))
      BY Zenon DEF TxParses, Parses
    <3>2. Len(calls) \in Nat
      BY <1>1 DEF ScanInv, ReceiverInv
    <3>3. IsFiniteSet(Parses(calls, Len(calls)))
      BY <3>2, ParsesAreCounted, Zenon
    <3> QED BY <1>1, <3>1, <3>3, FS_EmptySet, Zenon DEF Count
  <2>4. BuilderInv /\ step = 10 /\ RingHolds(calls, rx, raw, d)
    BY <1>1, Zenon DEF ScanInv, ReceiverInv, WireInv
  <2>5. InStepAs(one, read, rx, raw, d)
    BY <2>2, <2>3, <2>4, Zenon DEF RingHolds
  <2>6. d.m = Len(outputs) /\ d.o = outputs
    <3> DEFINE n == Len(inputs)
               m == Len(outputs)
               ring == RingOf(inputs)
               x == ExtraItems(extra)
               b == <<BppHashes(bpp)>>
               c == SignedOf(clsags)
    <3> HIDE DEF n, m, ring, x, b, c
    <3>1. d = Data(0, n, ring, m, outputs, x, txnFee, ecdhInfo, outPk, b, c, pseudoOuts)
      BY Zenon DEF BuilderData, n, m, ring, x, b, c
    <3> HIDE DEF d
    <3>2. DataAre(0, n, ring, m, outputs, x, txnFee, ecdhInfo, outPk, b, c, pseudoOuts, d)
      BY <3>1, DataParts, Zenon
    <3> QED BY <3>2, Zenon DEF DataAre, m
  <2> HIDE DEF one, read, d, raw
  <2>7. PICK i, o, w, p : rx = Parsed(raw, d, i, o, w, SigRead(read, d), p) /\ Copies(o, d.o, d.m)
    BY <2>5, Zenon DEF InStepAs
  <2>8. Scanned(rx, a, read)
    BY <2>1, <2>4, <2>6, <2>7, ParsedScans, Zenon DEF d
  <2> QED BY <2>1, <2>8, Zenon
<1>2. ScanInv /\ WireInv => ScanFindsPaid
  BY <1>1, InStepUnless, Zenon DEF ScanFindsPaid, Scanned, PaidTotal
<1> QED BY <1>2, WireInvariance, PTL

=============================================================================
