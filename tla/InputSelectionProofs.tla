------------------------- MODULE InputSelectionProofs -------------------------
(* Proofs about InputSelection, for every ring size, every set of views that    *)
(* daemons may have and every request.  First the selection by itself, for      *)
(* every chain length and sequence of draws; then what relates it to the views  *)
(* of the daemons that were asked.                                              *)
EXTENDS InputSelection, FiniteSetTheorems, TLAPS

-----------------------------------------------------------------------------
(* The selection (DecoySelection).                                             *)

\* While a ring is put together: it holds the real output, the rest is older than
\* the newest, and it is never too large.
SelectionInv ==
    phase \in {"select", "offsets", "sum", "done"} =>
        /\ max + 1 >= RingSize
        /\ real \in selected
        /\ selected \subseteq {real} \cup 0 .. max - 1
        /\ Cardinality(selected) <= RingSize

\* Once selected, the ring is the set in increasing order.
RingInv ==
    phase \in {"offsets", "sum", "done"} =>
        /\ ring \in [Positions -> selected]
        /\ Increasing(ring)
        /\ \A gi \in selected : \E i \in Positions : ring[i] = gi

\* GetMixins has turned the first pos - 1 offsets back into indexes.
SumInv ==
    phase \in {"sum", "done"} =>
        /\ pos \in 2 .. RingSize + 1
        /\ indxs \in [Positions -> Nat]
        /\ \A i \in Positions : indxs[i] = IF i < pos THEN ring[i] ELSE Offset(i)

DoneInv ==
    phase = "done" =>
        /\ pos = RingSize + 1
        /\ orderIndx \in RealPositions
        /\ mixins = [i \in Positions |-> OutAt(indxs[i])]

IndInv == TypeOK /\ SelectionInv /\ RingInv /\ SumInv /\ DoneInv

-----------------------------------------------------------------------------
\* An attempt draws an output older than the newest one, whatever the age.
LEMMA DrawsAreOlder ==
    ASSUME max \in Nat, max >= 1, NEW ageBlocks \in Nat, NEW gi \in Draws(ageBlocks)
    PROVE  gi \in 0 .. max - 1
<1>1. CASE ageBlocks >= max
  <2>1. gi \in 0 .. SampleRange - 1
    BY <1>1 DEF Draws
  <2>2. SampleRange \in Nat /\ SampleRange <= max
    BY DEF SampleRange
  <2> QED BY <2>1, <2>2
<1>2. CASE ~(ageBlocks >= max)
  <2>1. PICK jitter \in -JitterRange .. JitterRange - 1 : gi = Clamp(max - ageBlocks + jitter)
    BY <1>2 DEF Draws
  <2>2. max - ageBlocks + jitter \in Int
    BY DrawAssumption
  <2> QED BY <2>1, <2>2 DEF Clamp
<1> QED BY <1>1, <1>2

\* In an increasing ring the offsets are natural numbers.
LEMMA OffsetsAreNatural ==
    ASSUME ring \in [Positions -> Nat], Increasing(ring), NEW i \in Positions
    PROVE  Offset(i) \in Nat
<1>1. CASE i = 1
  BY <1>1, SizeAssumption DEF Offset, Positions
<1>2. CASE i # 1
  <2>1. i - 1 \in Positions /\ i \in Nat /\ i - 1 < i
    BY <1>2, SizeAssumption DEF Positions
  <2>2. ring[i - 1] < ring[i] /\ ring[i] \in Nat /\ ring[i - 1] \in Nat
    BY <2>1 DEF Increasing
  <2> QED BY <1>2, <2>2 DEF Offset
<1> QED BY <1>1, <1>2

-----------------------------------------------------------------------------
LEMMA InitInv == Init => IndInv
<1> SUFFICES ASSUME Init PROVE IndInv
  OBVIOUS
<1>1. TypeOK
  BY IndexAssumption, SizeAssumption, FS_EmptySet DEF Init, TypeOK
<1> QED BY <1>1 DEF Init, IndInv, SelectionInv, RingInv, SumInv, DoneInv

LEMMA NextInv == IndInv /\ [Next]_vars => IndInv'
<1> SUFFICES ASSUME IndInv, [Next]_vars PROVE IndInv'
  OBVIOUS
<1> USE SizeAssumption
<1>1. CASE RejectShortChain
  BY <1>1 DEF RejectShortChain, Fail, IndInv, TypeOK, SelectionInv, RingInv, SumInv, DoneInv
<1>2. CASE StartSelection
  <2>1. TypeOK'
    BY <1>2, FS_Singleton DEF StartSelection, IndInv, TypeOK
  <2>2. selected' = {real} /\ Cardinality({real}) = 1 /\ max' = max /\ real' = real
    BY <1>2, FS_Singleton DEF StartSelection
  <2>3. max \in Nat /\ max + 1 >= RingSize
    BY <1>2 DEF StartSelection, IndInv, TypeOK
  <2>4. SelectionInv'
    BY <2>2, <2>3 DEF SelectionInv
  <2> QED BY <1>2, <2>1, <2>4 DEF StartSelection, IndInv, RingInv, SumInv, DoneInv
<1>3. CASE Attempt
  <2>1. PICK ageBlocks \in 0 .. MaxAge : \E gi \in Draws(ageBlocks) : selected' = selected \cup {gi}
    BY <1>3 DEF Attempt
  <2>2. PICK gi \in Draws(ageBlocks) : selected' = selected \cup {gi}
    BY <2>1
  <2>3. max \in Nat /\ max >= 1 /\ ageBlocks \in Nat
    BY <1>3, DrawAssumption DEF Attempt, IndInv, TypeOK, SelectionInv
  <2>4. gi \in 0 .. max - 1
    BY <2>3, DrawsAreOlder
  <2>5. /\ IsFiniteSet(selected')
        /\ Cardinality(selected') <= Cardinality(selected) + 1
        /\ Cardinality(selected) \in Nat
        /\ Cardinality(selected') \in Nat
    <3>1. IsFiniteSet(selected)
      BY DEF IndInv, TypeOK
    <3>2. /\ IsFiniteSet(selected \cup {gi})
          /\ \/ Cardinality(selected \cup {gi}) = Cardinality(selected)
             \/ Cardinality(selected \cup {gi}) = Cardinality(selected) + 1
      BY <3>1, FS_AddElement
    <3>3. Cardinality(selected) \in Nat
      BY <3>1, FS_CardinalityType
    <3> QED BY <2>2, <3>2, <3>3
  <2>6. TypeOK'
    BY <1>3, <2>2, <2>4, <2>5 DEF Attempt, IndInv, TypeOK
  <2>7. SelectionInv'
    BY <1>3, <2>2, <2>4, <2>5 DEF Attempt, IndInv, SelectionInv
  <2> QED BY <1>3, <2>6, <2>7 DEF Attempt, IndInv, RingInv, SumInv, DoneInv
<1>4. CASE GiveUp
  BY <1>4 DEF GiveUp, Fail, IndInv, TypeOK, SelectionInv, RingInv, SumInv, DoneInv
<1>5. CASE SortRing
  <2>1. Cardinality(selected) = RingSize
    BY <1>5, FS_CardinalityType DEF SortRing, IndInv, TypeOK, SelectionInv
  <2>2. /\ ring' \in [Positions -> selected]
        /\ Increasing(ring')
        /\ \A gi \in selected : \E i \in Positions : ring'[i] = gi
    BY <1>5, <2>1 DEF SortRing, Positions
  <2>3. RingInv'
    BY <1>5, <2>2 DEF SortRing, RingInv, Increasing, Positions
  <2>4. ring' \in Seq(Nat)
    <3>1. ring' \in [1 .. RingSize -> Nat]
      BY <2>2 DEF IndInv, TypeOK, Positions
    <3> QED BY <3>1
  <2>5. TypeOK'
    BY <1>5, <2>4 DEF SortRing, IndInv, TypeOK
  <2>6. SelectionInv'
    BY <1>5 DEF SortRing, IndInv, SelectionInv
  <2> QED BY <1>5, <2>3, <2>5, <2>6 DEF SortRing, IndInv, SumInv, DoneInv
<1>6. CASE BuildKeyOffsets
  <2>1. ring \in [Positions -> Nat] /\ Increasing(ring)
    BY <1>6 DEF BuildKeyOffsets, IndInv, TypeOK, RingInv
  <2>2. \A i \in Positions : Offset(i) \in Nat
    BY <2>1, OffsetsAreNatural
  <2>3. offsets' = [i \in Positions |-> Offset(i)] /\ indxs' = offsets' /\ pos' = 2
    BY <1>6 DEF BuildKeyOffsets
  <2>4. indxs' \in [Positions -> Nat]
    BY <2>2, <2>3
  <2>5. indxs' \in Seq(Nat) /\ offsets' \in Seq(Nat)
    BY <2>3, <2>4 DEF Positions
  <2>6. TypeOK'
    BY <1>6, <2>3, <2>5 DEF BuildKeyOffsets, IndInv, TypeOK
  <2>7. ring' = ring /\ phase' = "sum"
    BY <1>6 DEF BuildKeyOffsets
  <2>8. \A i \in Positions : indxs'[i] = IF i < pos' THEN ring'[i] ELSE Offset(i)'
    BY <2>3, <2>7 DEF Offset, Positions
  <2>9. SumInv'
    BY <2>3, <2>4, <2>7, <2>8 DEF SumInv
  <2>10. SelectionInv' /\ RingInv'
    BY <1>6 DEF BuildKeyOffsets, IndInv, SelectionInv, RingInv, Increasing, Positions
  <2> QED BY <2>6, <2>7, <2>9, <2>10 DEF IndInv, DoneInv
<1>7. CASE SumOffset
  <2>1. /\ pos \in 2 .. RingSize
        /\ indxs \in [Positions -> Nat]
        /\ \A i \in Positions : indxs[i] = IF i < pos THEN ring[i] ELSE Offset(i)
        /\ ring \in [Positions -> Nat]
    <3>1. /\ phase = "sum" /\ pos <= RingSize
      BY <1>7 DEF SumOffset
    <3>2. TypeOK /\ SumInv /\ RingInv
      BY DEF IndInv
    <3>3. /\ pos \in 2 .. RingSize + 1 /\ indxs \in [Positions -> Nat]
          /\ \A i \in Positions : indxs[i] = IF i < pos THEN ring[i] ELSE Offset(i)
      BY <3>1, <3>2, Zenon DEF SumInv
    <3>4. ring \in [Positions -> Nat]
      <4>1. ring \in [Positions -> selected] /\ selected \subseteq Nat
        BY <3>1, <3>2, Zenon DEF RingInv, TypeOK
      <4> QED BY <4>1
    <3>5. pos \in 2 .. RingSize
      BY <3>1, <3>3, SizeAssumption
    <3> QED BY <3>3, <3>4, <3>5
  <2>2. pos \in Positions /\ pos - 1 \in Positions /\ pos # 1 /\ pos - 1 < pos
    BY <2>1 DEF Positions
  <2>3. indxs[pos] = ring[pos] - ring[pos - 1] /\ indxs[pos - 1] = ring[pos - 1]
    BY <2>1, <2>2 DEF Offset
  <2>4. indxs[pos] + indxs[pos - 1] = ring[pos]
    BY <2>1, <2>2, <2>3
  <2>5. indxs' = [indxs EXCEPT ![pos] = ring[pos]]
    BY <1>7, <2>4 DEF SumOffset
  <2>6. indxs' \in [Positions -> Nat]
    BY <2>1, <2>2, <2>5
  <2>7. UNCHANGED <<real, max, phase, selected, attempts, ring, offsets, orderIndx, mixins>>
        /\ pos' = pos + 1
    BY <1>7 DEF SumOffset
  <2>8. \A i \in Positions : indxs'[i] = IF i < pos' THEN ring'[i] ELSE Offset(i)'
    <3> SUFFICES ASSUME NEW i \in Positions
                 PROVE  indxs'[i] = IF i < pos' THEN ring'[i] ELSE Offset(i)'
      OBVIOUS
    <3>1. Offset(i)' = Offset(i)
      BY <2>7 DEF Offset
    <3>2. i \in Nat /\ pos \in Nat
      BY <2>1 DEF Positions
    <3>3. CASE i = pos
      BY <2>1, <2>2, <2>5, <2>7, <3>2, <3>3
    <3>4. CASE i # pos
      BY <2>1, <2>5, <2>7, <3>1, <3>2, <3>4
    <3> QED BY <3>3, <3>4
  <2>9. indxs' \in Seq(Nat)
    BY <2>6 DEF Positions
  <2>10. TypeOK'
    BY <2>1, <2>7, <2>9 DEF IndInv, TypeOK
  <2>11. SumInv'
    BY <2>1, <2>6, <2>7, <2>8 DEF SumInv
  <2>12. SelectionInv' /\ RingInv'
    BY <2>7 DEF IndInv, SelectionInv, RingInv, Increasing, Positions
  <2>13. DoneInv'
    BY <1>7, <2>7 DEF SumOffset, DoneInv
  <2> QED BY <2>10, <2>11, <2>12, <2>13 DEF IndInv
<1>8. CASE GetMixins
  <2>1. UNCHANGED <<real, max, selected, attempts, ring, offsets, indxs, pos>> /\ phase' = "done"
    BY <1>8 DEF GetMixins
  <2>2. /\ pos = RingSize + 1 /\ indxs \in [Positions -> Nat]
    BY <1>8 DEF GetMixins, IndInv, TypeOK, SumInv
  <2>3. orderIndx' \in RealPositions /\ mixins' = [i \in Positions |-> indxs[i]]
    BY <1>8 DEF GetMixins, OutAt
  <2>4. mixins' \in Seq(Nat) /\ orderIndx' \in Positions
    BY <2>2, <2>3 DEF Positions, RealPositions
  <2>5. TypeOK'
    BY <2>1, <2>4 DEF IndInv, TypeOK, Positions
  <2>6. DoneInv'
    BY <2>1, <2>2, <2>3 DEF DoneInv, RealPositions, OutAt
  <2>7. SelectionInv' /\ RingInv' /\ SumInv'
    BY <1>8, <2>1 DEF GetMixins, IndInv, SelectionInv, RingInv, SumInv, Increasing, Positions, Offset
  <2> QED BY <2>5, <2>6, <2>7 DEF IndInv
<1>9. CASE GetMixinsFails
  BY <1>9 DEF GetMixinsFails, Fail, IndInv, TypeOK, SelectionInv, RingInv, SumInv, DoneInv
<1>10. CASE UNCHANGED vars
  BY <1>10 DEF vars, IndInv, TypeOK, SelectionInv, RingInv, SumInv, DoneInv, RealPositions,
               Increasing, Positions, Offset, OutAt
<1> QED BY <1>1, <1>2, <1>3, <1>4, <1>5, <1>6, <1>7, <1>8, <1>9, <1>10 DEF Next

\* The invariant holds of every behaviour.
LEMMA Invariance == Spec => []IndInv
BY InitInv, NextInv, PTL DEF Spec

-----------------------------------------------------------------------------
\* TypeOK for every ring size: in particular the attempts stay within maxAttempts
\* and the set of indexes finite.
THEOREM TypeCorrect == Spec => []TypeOK
<1>1. IndInv => TypeOK
  BY DEF IndInv
<1> QED BY <1>1, Invariance, PTL

LEMMA InvariantRing == IndInv => RingSound
<1> SUFFICES ASSUME IndInv, phase \in {"offsets", "sum", "done"}
             PROVE  /\ Len(ring) = RingSize
                    /\ Increasing(ring)
                    /\ \E i \in Positions : ring[i] = real
                    /\ \A i \in Positions : ring[i] # real => ring[i] < max
  BY DEF RingSound
<1>1. ring \in [Positions -> selected] /\ Increasing(ring)
  BY DEF IndInv, RingInv
<1>2. Len(ring) = RingSize
  BY <1>1, SizeAssumption DEF Positions, IndInv, TypeOK
<1>3. \E i \in Positions : ring[i] = real
  BY DEF IndInv, SelectionInv, RingInv
<1>4. \A i \in Positions : ring[i] # real => ring[i] < max
  BY <1>1 DEF IndInv, TypeOK, SelectionInv
<1> QED BY <1>1, <1>2, <1>3, <1>4

LEMMA InvariantOffsets == IndInv => OffsetsRecoverRing
<1> SUFFICES ASSUME IndInv, phase = "done"
             PROVE  /\ indxs = ring
                    /\ mixins = [i \in Positions |-> OutAt(ring[i])]
                    /\ orderIndx \in Positions
                    /\ mixins[orderIndx] = OutAt(real)
  BY DEF OffsetsRecoverRing
<1>1. pos = RingSize + 1 /\ indxs \in [Positions -> Nat] /\ ring \in [Positions -> selected]
  BY DEF IndInv, SumInv, DoneInv, RingInv
<1>2. \A i \in Positions : i < pos
  BY <1>1, SizeAssumption DEF Positions
<1>3. \A i \in Positions : indxs[i] = ring[i]
  BY <1>2 DEF IndInv, SumInv
<1>4. indxs = ring
  BY <1>1, <1>3
<1>5. orderIndx \in Positions /\ indxs[orderIndx] = real
  BY DEF IndInv, DoneInv, RealPositions
<1>6. mixins = [i \in Positions |-> OutAt(indxs[i])]
  BY DEF IndInv, DoneInv
<1> QED BY <1>4, <1>5, <1>6 DEF OutAt

\* Every ring SelectDecoys returns is full, sorted, holds the real output and
\* otherwise outputs older than the newest one.
THEOREM RingCorrect == Spec => []RingSound
BY InvariantRing, Invariance, PTL

\* What GetMixins sums up from the serialised offsets is the ring again, and
\* OrderIndx is the position of the real output.
THEOREM OffsetsCorrect == Spec => []OffsetsRecoverRing
BY InvariantOffsets, Invariance, PTL

-----------------------------------------------------------------------------
(* The selection with the daemons it asks (InputSelection).                    *)

\* Which call is running, who has been asked, and where the selection is.
CallInv ==
    /\ request \in Requests /\ height \in Heights
    /\ asked \in Seq(Views)
    /\ \/ call = "index" /\ phase = "start" /\ asked = <<>>
       \/ call = "distribution" /\ phase = "start" /\ Len(asked) = 1
       \/ call = "select" /\ phase \in {"start", "select", "offsets", "sum"} /\ Len(asked) = 2
       \/ call = "added" /\ phase = "done" /\ Len(asked) = 3
       \/ call \in {"failed", "panic"} /\ phase = "failed" /\ Len(asked) <= 3

\* The real index is that of the output, for the first daemon.
RealInv ==
    call \in {"distribution", "select", "added"} =>
        /\ real + 1 \in DOMAIN asked[1].outputs
        /\ asked[1].outputs[real + 1].tx = request.tx
        /\ asked[1].outputs[real + 1].vout = request.vout

\* The newest index is that of the block Recent blocks ago, for the second.
MaxInv ==
    call \in {"select", "added"} =>
        /\ height >= Past
        /\ height - Recent + 1 \in DOMAIN asked[2].counts
        /\ max = Count(asked[2], height - Recent) - 1

\* The members are the outputs of the ring, for the third.
MembersInv ==
    call = "added" =>
        /\ members = [i \in Positions |-> asked[3].outputs[indxs[i] + 1]]
        /\ \A i \in Positions : indxs[i] + 1 \in DOMAIN asked[3].outputs

InputInv ==
    IndInv /\ CallInv /\ RealInv /\ MaxInv /\ MembersInv /\ OutcomeExplained

-----------------------------------------------------------------------------
\* A difference of heights, as uint64 has it.
LEMMA Wraps ==
    ASSUME NEW m \in Nat \ {0}, NEW x \in Int
    PROVE  /\ 0 <= x /\ x < m => x % m = x
           /\ 0 <= x + m /\ x < 0 => x % m = x + m
OBVIOUS

\* A view is made of outputs.
LEMMA ViewType ==
    ASSUME NEW view \in Views
    PROVE  /\ view.outputs \in Seq(Output)
           /\ view.counts \in Seq(Nat \ {0})
           /\ \A b \in DOMAIN view.counts : view.counts[b] \in Nat \ {0}
           /\ \A i \in DOMAIN view.outputs :
                 view.outputs[i] \in Output /\ view.outputs[i].vout \in Nat
<1>1. view \in [outputs : Seq(Output), counts : Seq(Nat \ {0})]
  BY ViewAssumption
<1>2. \A out \in Output : out.vout \in Nat
  BY DEF Output
<1> QED BY <1>1, <1>2

\* A daemon that has the transaction numbers its outputs without a gap, so that
\* the length of the list tells which numbers there are.
LEMMA NumberedFromZero ==
    ASSUME NEW view \in Views, NEW tx, NEW vout \in Nat
    PROVE  LET D == DOMAIN IndexesOf(view, tx)
           IN  IsFiniteSet(D) /\ (vout < Cardinality(D) <=> vout \in D)
<1> DEFINE D == DOMAIN IndexesOf(view, tx)
<1>1. D = {view.outputs[i].vout : i \in Places(view, tx)}
  BY DEF IndexesOf
<1>2. D \subseteq Nat
  BY <1>1, ViewType DEF Places
<1>3. IsFiniteSet(D)
  <2>1. DOMAIN view.outputs = 1 .. Len(view.outputs) /\ Len(view.outputs) \in Nat
    BY ViewType
  <2>2. IsFiniteSet(DOMAIN view.outputs)
    BY <2>1, FS_Interval
  <2>3. IsFiniteSet(Places(view, tx))
    BY <2>2, FS_Subset DEF Places
  <2> DEFINE number == [i \in Places(view, tx) |-> view.outputs[i].vout]
  <2>4. number \in Surjection(Places(view, tx), D)
    BY <1>1 DEF Surjection
  <2> HIDE DEF number, D
  <2> QED BY <2>3, <2>4, FS_Surjection
<1>4. \A d \in D : \A n \in 0 .. d : n \in D
  <2> SUFFICES ASSUME NEW d \in D, NEW n \in 0 .. d PROVE n \in D
    OBVIOUS
  <2>1. PICK i \in Places(view, tx) : d = view.outputs[i].vout
    BY <1>1
  <2>2. PICK j \in DOMAIN view.outputs :
          view.outputs[j].tx = view.outputs[i].tx /\ view.outputs[j].vout = n
    BY <2>1, ViewAssumption DEF Places
  <2> QED BY <1>1, <2>1, <2>2 DEF Places
<1>5. ASSUME vout \in D PROVE vout < Cardinality(D)
  <2>1. 0 .. vout \subseteq D
    BY <1>4, <1>5
  <2>2. Cardinality(0 .. vout) = vout + 1
    BY FS_Interval
  <2>3. Cardinality(0 .. vout) <= Cardinality(D) /\ Cardinality(D) \in Nat
    BY <1>3, <2>1, FS_Subset, FS_CardinalityType
  <2> QED BY <2>2, <2>3
<1>6. ASSUME vout \notin D PROVE ~(vout < Cardinality(D))
  <2>1. D \subseteq 0 .. vout - 1
    BY <1>2, <1>4, <1>6
  <2>2. IsFiniteSet(0 .. vout - 1) /\ Cardinality(0 .. vout - 1) = vout
    BY FS_Interval
  <2>3. Cardinality(D) <= vout /\ Cardinality(D) \in Nat
    BY <1>3, <2>1, <2>2, FS_Subset, FS_CardinalityType
  <2> QED BY <2>3
<1> QED BY <1>3, <1>5, <1>6

\* What a daemon that has the output answers to getOutputIndex.
LEMMA IndexOfOutput ==
    ASSUME NEW view \in Views, NEW tx, NEW vout \in DOMAIN IndexesOf(view, tx)
    PROVE  LET index == IndexesOf(view, tx)[vout]
           IN  /\ index \in Nat
               /\ index + 1 \in DOMAIN view.outputs
               /\ view.outputs[index + 1].tx = tx
               /\ view.outputs[index + 1].vout = vout
<1> DEFINE place == CHOOSE i \in Places(view, tx) : view.outputs[i].vout = vout
<1>1. \E i \in Places(view, tx) : view.outputs[i].vout = vout
  BY DEF IndexesOf
<1>2. place \in Places(view, tx) /\ view.outputs[place].vout = vout
  BY <1>1
<1>3. IndexesOf(view, tx)[vout] = place - 1
  BY DEF IndexesOf
<1> HIDE DEF place
<1>4. place \in DOMAIN view.outputs /\ view.outputs[place].tx = tx
  BY <1>2 DEF Places
<1>5. place \in Nat \ {0}
  BY <1>4, ViewType
<1>6. place - 1 \in Nat /\ (place - 1) + 1 = place
  BY <1>5
<1> QED BY <1>2, <1>3, <1>4, <1>6

\* The heights that are asked for: below Past blocks they wrap round to a range no
\* daemon has, otherwise a daemon that has the last of them has them all.
LEMMA HeightsAsked ==
    ASSUME NEW view \in Views, height \in Heights,
           ~(FromHeight > ToHeight \/ ToHeight >= HeightOf(view))
    PROVE  /\ height >= Past
           /\ FromHeight \in Nat /\ ToHeight \in Nat /\ FromHeight <= ToHeight
           /\ ToHeight = height - Recent
           /\ ToHeight + 1 \in DOMAIN view.counts
<1>1. /\ height \in 0 .. Mod - 1 /\ Past \in Nat /\ Recent \in 0 .. Past /\ Mod \in Nat \ {0}
      /\ Len(view.counts) \in Nat /\ Len(view.counts) < Mod - Past
      /\ DOMAIN view.counts = 1 .. Len(view.counts)
  BY ViewType, HeightAssumption
<1>2. height >= Past
  <2> SUFFICES ASSUME height < Past PROVE FALSE
    BY <1>1
  <2>1. height - Past \in Int /\ 0 <= height - Past + Mod /\ height - Past < 0
    BY <1>1
  <2>2. FromHeight = height - Past + Mod
    BY <1>1, <2>1, Wraps DEF FromHeight
  <2>3. CASE height >= Recent
    <3>1. height - Recent \in Int /\ 0 <= height - Recent /\ height - Recent < Mod
      BY <1>1, <2>3
    <3>2. ToHeight = height - Recent
      BY <1>1, <3>1, Wraps DEF ToHeight
    <3> QED BY <1>1, <2>2, <3>2
  <2>4. CASE height < Recent
    <3>1. height - Recent \in Int /\ 0 <= height - Recent + Mod /\ height - Recent < 0
      BY <1>1, <2>4
    <3>2. ToHeight = height - Recent + Mod
      BY <1>1, <3>1, Wraps DEF ToHeight
    <3> QED BY <1>1, <3>2 DEF HeightOf
  <2> QED BY <1>1, <2>3, <2>4
<1>3. /\ height - Past \in Int /\ 0 <= height - Past /\ height - Past < Mod
      /\ height - Recent \in Int /\ 0 <= height - Recent /\ height - Recent < Mod
  BY <1>1, <1>2
<1>4. FromHeight = height - Past /\ ToHeight = height - Recent
  BY <1>1, <1>3, Wraps DEF FromHeight, ToHeight
<1> QED BY <1>1, <1>2, <1>3, <1>4 DEF HeightOf

\* Conversely a daemon refuses only heights it does not have.
LEMMA HeightsRefused ==
    ASSUME NEW view \in Views, height \in Heights,
           FromHeight > ToHeight \/ ToHeight >= HeightOf(view)
    PROVE  height < Past \/ height - Recent >= HeightOf(view)
<1> SUFFICES ASSUME height >= Past PROVE height - Recent >= HeightOf(view)
  BY HeightAssumption
<1>1. height \in 0 .. Mod - 1 /\ Past \in Nat /\ Recent \in 0 .. Past /\ Mod \in Nat \ {0}
  BY ViewType, HeightAssumption
<1>2. /\ height - Past \in Int /\ 0 <= height - Past /\ height - Past < Mod
      /\ height - Recent \in Int /\ 0 <= height - Recent /\ height - Recent < Mod
  BY <1>1
<1>3. FromHeight = height - Past /\ ToHeight = height - Recent
  BY <1>1, <1>2, Wraps DEF FromHeight, ToHeight
<1> QED BY <1>1, <1>3

\* The newest index counts the outputs up to the last height asked for.
LEMMA NewestIndex ==
    ASSUME NEW view \in Views, height \in Heights,
           ~(FromHeight > ToHeight \/ ToHeight >= HeightOf(view))
    PROVE  LET distribution == DistributionAnswer(view).list
           IN  /\ distribution # <<>>
               /\ distribution[Len(distribution)] = Count(view, height - Recent)
               /\ distribution[Len(distribution)] \in Nat \ {0}
<1> DEFINE n == ToHeight - FromHeight + 1
           distribution == [k \in 1 .. n |-> Count(view, FromHeight + k - 1)]
<1>1. DistributionAnswer(view).list = distribution
  BY DEF DistributionAnswer, Ok
<1>2. n \in Nat \ {0} /\ FromHeight + n - 1 = ToHeight
  BY HeightsAsked
<1>4. Len(distribution) = n /\ distribution # <<>>
  BY <1>2
<1>5. distribution[n] = Count(view, ToHeight)
  BY <1>2
<1>6. Count(view, ToHeight) \in Nat \ {0}
  BY HeightsAsked, ViewType DEF Count
<1> QED BY <1>1, <1>4, <1>5, <1>6, HeightsAsked

-----------------------------------------------------------------------------
LEMMA InputInitInv == InputInit => InputInv
<1> SUFFICES ASSUME InputInit PROVE InputInv
  OBVIOUS
<1>1. TypeOK
  BY SizeAssumption, FS_EmptySet DEF InputInit, TypeOK
<1> QED BY <1>1 DEF InputInit, InputInv, IndInv, SelectionInv, RingInv, SumInv, DoneInv,
                    CallInv, RealInv, MaxInv, MembersInv, OutcomeExplained, None

\* A call that fails leaves the selection where it was; that the reason it gives is
\* true is left to be shown.
LEMMA EndKeeps ==
    ASSUME InputInv, NEW outcome \in {"failed", "panic"}, NEW why, End(outcome, why),
           asked' \in Seq(Views), Len(asked') <= 3, OutcomeExplained'
    PROVE  InputInv'
<1>1. IndInv'
  BY DEF End, InputInv, IndInv, TypeOK, SelectionInv, RingInv, SumInv, DoneInv
<1>2. CallInv'
  BY DEF End, InputInv, CallInv
<1>3. RealInv' /\ MaxInv' /\ MembersInv'
  BY DEF End, RealInv, MaxInv, MembersInv
<1> QED BY <1>1, <1>2, <1>3 DEF InputInv

LEMMA AskedType == InputInv => asked \in Seq(Views) /\ Len(asked) <= 3
<1> SUFFICES ASSUME InputInv PROVE Len(asked) <= 3
  BY DEF InputInv, CallInv
<1>1. \/ asked = <<>> \/ Len(asked) = 1 \/ Len(asked) = 2 \/ Len(asked) = 3
      \/ Len(asked) <= 3
  BY Zenon DEF InputInv, CallInv
<1>2. CASE asked = <<>>
  BY <1>2
<1>3. CASE Len(asked) = 1
  BY <1>3
<1>4. CASE Len(asked) = 2
  BY <1>4
<1>5. CASE Len(asked) = 3
  BY <1>5
<1> QED BY <1>1, <1>2, <1>3, <1>4, <1>5

LEMMA AddedAsked ==
    ASSUME InputInv, call = "added"
    PROVE  phase = "done" /\ asked[1] \in Views /\ asked[2] \in Views /\ asked[3] \in Views
<1>1. CallInv
  BY DEF InputInv
<1>2. phase = "done" /\ Len(asked) = 3 /\ asked \in Seq(Views)
  BY <1>1 DEF CallInv
<1>3. \A i \in 1 .. 3 : asked[i] \in Views
  BY <1>2
<1> QED BY <1>2, <1>3

\* The daemon that is asked next is the last of those asked.
LEMMA OneMoreAsked ==
    ASSUME asked \in Seq(Views), NEW view \in Views, asked' = Append(asked, view)
    PROVE  /\ asked' \in Seq(Views) /\ Len(asked') = Len(asked) + 1
           /\ asked'[Len(asked')] = view
           /\ \A i \in 1 .. Len(asked) : asked'[i] = asked[i]
OBVIOUS

LEMMA NoAnswerInv == InputInv /\ NoAnswer => InputInv'
<1> SUFFICES ASSUME InputInv, NoAnswer PROVE InputInv'
  OBVIOUS
<1>1. End("failed", "daemon") /\ asked' = asked
  BY DEF NoAnswer
<1>2. asked' \in Seq(Views) /\ Len(asked') <= 3
  <2>1. asked' = asked
    BY <1>1
  <2> QED BY <2>1, AskedType
<1>3. OutcomeExplained'
  BY <1>1 DEF End, OutcomeExplained
<1> QED BY <1>1, <1>2, <1>3, EndKeeps

LEMMA NonsenseInv == InputInv /\ Nonsense => InputInv'
<1> SUFFICES ASSUME InputInv, Nonsense PROVE InputInv'
  OBVIOUS
<1>1. End("panic", "daemon") /\ \E view \in Views : asked' = Append(asked, view)
  BY DEF Nonsense
<1>2. asked' \in Seq(Views) /\ Len(asked') <= 3
  <2>1. asked \in Seq(Views) /\ Len(asked) <= 2
    BY DEF Nonsense, Calling, RingReady, InputInv, CallInv
  <2>2. PICK view \in Views : asked' = Append(asked, view)
    BY <1>1
  <2>3. asked' \in Seq(Views) /\ Len(asked') = Len(asked) + 1 /\ Len(asked) \in Nat
    BY <2>1, <2>2, OneMoreAsked
  <2> QED BY <2>1, <2>3
<1>3. OutcomeExplained'
  BY <1>1 DEF End, OutcomeExplained
<1> QED BY <1>1, <1>2, <1>3, EndKeeps

LEMMA GetOutputIndexInv == InputInv /\ GetOutputIndex => InputInv'
<1> SUFFICES ASSUME InputInv, GetOutputIndex PROVE InputInv'
  OBVIOUS
<1> DEFINE indexes(view) == TransactionAnswer(view).list
           found(view)   == IndexesOf(view, request.tx)
<1>1. /\ call = "index" /\ phase = "start" /\ asked = <<>>
      /\ request \in Requests
  BY DEF GetOutputIndex, InputInv, CallInv
<1>2. request.vout \in Nat
  BY <1>1, RequestAssumption
<1>3. PICK view \in Views :
        Ask(view, TransactionAnswer(view),
              IF request.vout >= Len(indexes(view)) THEN End("failed", "vout")
              ELSE /\ real' = IndexOfVout(indexes(view))
                   /\ call' = "distribution"
                   /\ UNCHANGED <<request, height, max, phase, selected, attempts, ring, offsets,
                                  indxs, pos, orderIndx, mixins, members, blame>>)
  BY DEF GetOutputIndex
<1>4. asked' = <<view>> /\ asked' \in Seq(Views) /\ Len(asked') = 1 /\ asked'[1] = view
  BY <1>1, <1>3 DEF Ask
<1>5. ~Refused(TransactionAnswer(view))
  BY DEF Refused, TransactionAnswer, Ok, Empty
<1>6. CASE ~TransactionAnswer(view).has
  <2>1. End("panic", "missing")
    BY <1>3, <1>5, <1>6 DEF Ask
  <2>2. DOMAIN found(view) = {}
    BY <1>6 DEF TransactionAnswer, Ok
  <2>3. OutcomeExplained'
    BY <1>4, <2>1, <2>2 DEF OutcomeExplained, End
  <2> QED BY <1>4, <2>1, <2>3, EndKeeps
<1>7. CASE TransactionAnswer(view).has
  <2> DEFINE n == Cardinality(DOMAIN found(view))
  <2>1. indexes(view) = [k \in 1 .. n |-> found(view)[k - 1]]
    BY <1>7 DEF TransactionAnswer, Ok, Empty
  <2>2. n \in Nat
    BY <1>2, NumberedFromZero, FS_CardinalityType
  <2>3. Len(indexes(view)) = n
    BY <2>1, <2>2
  <2>4. request.vout < n <=> request.vout \in DOMAIN found(view)
    BY <1>2, NumberedFromZero
  <2>5. CASE request.vout >= Len(indexes(view))
    <3>1. End("failed", "vout")
      BY <1>3, <1>5, <1>7, <2>5 DEF Ask
    <3>2. request.vout \notin DOMAIN found(view)
      BY <1>2, <2>2, <2>3, <2>4, <2>5
    <3>3. OutcomeExplained'
      BY <1>4, <3>1, <3>2 DEF OutcomeExplained, End
    <3> QED BY <1>4, <3>1, <3>3, EndKeeps
  <2>6. CASE ~(request.vout >= Len(indexes(view)))
    <3>1. /\ real' = IndexOfVout(indexes(view)) /\ call' = "distribution"
          /\ UNCHANGED <<request, height, max, phase, selected, attempts, ring, offsets,
                         indxs, pos, orderIndx, mixins, members, blame>>
      BY <1>3, <1>5, <1>7, <2>6 DEF Ask
    <3>2. request.vout \in DOMAIN found(view) /\ request.vout + 1 \in 1 .. n
      BY <1>2, <2>2, <2>3, <2>4, <2>6
    <3>3. real' = found(view)[request.vout]
      BY <1>2, <2>1, <3>1, <3>2 DEF IndexOfVout
    <3>4. /\ real' \in Nat /\ real' + 1 \in DOMAIN view.outputs
          /\ view.outputs[real' + 1].tx = request.tx
          /\ view.outputs[real' + 1].vout = request.vout
      BY <3>2, <3>3, IndexOfOutput
    <3>5. IndInv'
      BY <1>1, <3>1, <3>4 DEF InputInv, IndInv, TypeOK, SelectionInv, RingInv, SumInv, DoneInv
    <3>6. CallInv' /\ RealInv' /\ MaxInv' /\ MembersInv' /\ OutcomeExplained'
      BY <1>1, <1>4, <3>1, <3>4
         DEF InputInv, CallInv, RealInv, MaxInv, MembersInv, OutcomeExplained
    <3> QED BY <3>5, <3>6 DEF InputInv
  <2> QED BY <2>5, <2>6
<1> QED BY <1>6, <1>7

LEMMA GetMaxGlobalIndexInv == InputInv /\ GetMaxGlobalIndex => InputInv'
<1> SUFFICES ASSUME InputInv, GetMaxGlobalIndex PROVE InputInv'
  OBVIOUS
<1> DEFINE distribution(view) == DistributionAnswer(view).list
           last(view)         == distribution(view)[Len(distribution(view))]
           refuses(view)      == FromHeight > ToHeight \/ ToHeight >= HeightOf(view)
<1>1. /\ call = "distribution" /\ phase = "start" /\ asked \in Seq(Views) /\ Len(asked) = 1
      /\ height \in Heights
  BY DEF GetMaxGlobalIndex, InputInv, CallInv
<1>2. PICK view \in Views :
        Ask(view, DistributionAnswer(view),
              IF distribution(view) = <<>> \/ last(view) = 0 THEN End("failed", "no outputs")
              ELSE /\ max' = last(view) - 1
                   /\ call' = "select"
                   /\ UNCHANGED <<request, height, real, phase, selected, attempts, ring, offsets,
                                  indxs, pos, orderIndx, mixins, members, blame>>)
  BY DEF GetMaxGlobalIndex
<1>3. /\ asked' = Append(asked, view) /\ asked' \in Seq(Views) /\ Len(asked') = 2
      /\ asked'[2] = view /\ asked'[1] = asked[1]
  <2>1. asked' = Append(asked, view)
    BY <1>2 DEF Ask
  <2>2. /\ asked' \in Seq(Views) /\ Len(asked') = Len(asked) + 1
        /\ asked'[Len(asked')] = view
        /\ \A i \in 1 .. Len(asked) : asked'[i] = asked[i]
    BY <1>1, <2>1, OneMoreAsked
  <2> QED BY <1>1, <2>1, <2>2
<1>4. CASE refuses(view)
  <2>1. Refused(DistributionAnswer(view))
    BY <1>4 DEF Refused, DistributionAnswer, Refusal
  <2>2. End("failed", "refusal")
    BY <1>2, <2>1 DEF Ask
  <2>3. height < Past \/ height - Recent >= HeightOf(view)
    BY <1>1, <1>4, HeightsRefused
  <2>4. OutcomeExplained'
    BY <1>3, <2>2, <2>3 DEF OutcomeExplained, End
  <2> QED BY <1>3, <2>2, <2>4, EndKeeps
<1>5. CASE ~refuses(view)
  <2>1. ~Refused(DistributionAnswer(view)) /\ DistributionAnswer(view).has
    BY <1>5 DEF Refused, DistributionAnswer, Ok
  <2>2. /\ distribution(view) # <<>> /\ last(view) = Count(view, height - Recent)
        /\ last(view) \in Nat \ {0}
    BY <1>1, <1>5, NewestIndex
  <2>3. /\ max' = last(view) - 1 /\ call' = "select"
        /\ UNCHANGED <<request, height, real, phase, selected, attempts, ring, offsets,
                       indxs, pos, orderIndx, mixins, members, blame>>
    <3>1. ~(distribution(view) = <<>> \/ last(view) = 0)
      BY <2>2
    <3> QED BY <1>2, <2>1, <3>1 DEF Ask
  <2>4. max' \in Nat
    BY <2>2, <2>3
  <2>5. height >= Past /\ height - Recent + 1 \in DOMAIN view.counts
    BY <1>1, <1>5, HeightsAsked
  <2>6. IndInv'
    BY <1>1, <2>3, <2>4 DEF InputInv, IndInv, TypeOK, SelectionInv, RingInv, SumInv, DoneInv
  <2>7. MaxInv'
    BY <1>3, <2>2, <2>3, <2>5 DEF MaxInv, Count
  <2>8. CallInv' /\ RealInv' /\ MembersInv' /\ OutcomeExplained'
    BY <1>1, <1>3, <2>3
       DEF InputInv, CallInv, RealInv, MembersInv, OutcomeExplained
  <2> QED BY <2>6, <2>7, <2>8 DEF InputInv
<1> QED BY <1>4, <1>5

\* The selection neither asks nor fails for another reason than its own.
LEMMA SelectInv == InputInv /\ Select => InputInv'
<1> SUFFICES ASSUME InputInv, Select PROVE InputInv'
  OBVIOUS
<1>1. /\ call = "select" /\ phase \in {"start", "select", "offsets", "sum"}
      /\ Len(asked) = 2 /\ asked \in Seq(Views)
  BY DEF Select, InputInv, CallInv
<1>2. /\ UNCHANGED <<request, height, asked, members>>
      /\ call' = IF phase' = "failed" THEN "failed" ELSE call
      /\ blame' = IF phase' = "failed" THEN "selection" ELSE blame
  BY DEF Select
<1>3. real' = real /\ max' = max /\ phase' \in {"start", "select", "offsets", "sum", "failed"}
  BY <1>1 DEF Select, RejectShortChain, StartSelection, Attempt, GiveUp, SortRing,
              BuildKeyOffsets, SumOffset, Fail
<1>4. Next
  BY DEF Select, Next
<1>5. IndInv'
  BY <1>4, NextInv DEF InputInv
<1>6. CASE phase' = "failed"
  <2>1. call' = "failed" /\ blame' = "selection"
    BY <1>2, <1>6
  <2>2. CallInv'
    <3>1. request' \in Requests /\ height' \in Heights
      BY <1>2 DEF InputInv, CallInv
    <3>2. asked' \in Seq(Views) /\ Len(asked') <= 3
      <4>1. asked' = asked
        BY <1>2
      <4>2. Len(asked) <= 3
        BY <1>1
      <4> QED BY <1>1, <4>1, <4>2
    <3> QED BY <1>6, <2>1, <3>1, <3>2 DEF CallInv
  <2>3. RealInv' /\ MaxInv' /\ MembersInv' /\ OutcomeExplained'
    BY <2>1 DEF RealInv, MaxInv, MembersInv, OutcomeExplained
  <2> QED BY <1>5, <2>2, <2>3 DEF InputInv
<1>7. CASE phase' # "failed"
  <2>1. CallInv' /\ RealInv' /\ MaxInv' /\ MembersInv'
    BY <1>1, <1>2, <1>3, <1>7 DEF InputInv, CallInv, RealInv, MaxInv, MembersInv
  <2>2. OutcomeExplained'
    BY <1>1, <1>2, <1>7 DEF OutcomeExplained
  <2> QED BY <1>5, <2>1, <2>2 DEF InputInv
<1> QED BY <1>6, <1>7

\* At the end of the sums the indexes are those of the ring, and the real one is
\* among them.
LEMMA RingSummed ==
    ASSUME InputInv, RingReady
    PROVE  /\ phase = "sum" /\ pos = RingSize + 1
           /\ ring \in [Positions -> Nat] /\ indxs = ring
           /\ RealPositions # {}
<1>1. call = "select" /\ phase = "sum" /\ pos > RingSize
  BY DEF RingReady
<1>2. TypeOK /\ SelectionInv /\ RingInv /\ SumInv
  BY DEF InputInv, IndInv
<1>3. ring \in [Positions -> selected] /\ selected \subseteq Nat /\ real \in selected
  BY <1>1, <1>2 DEF TypeOK, SelectionInv, RingInv
<1>4. ring \in [Positions -> Nat]
  BY <1>3
<1>5. /\ pos \in 2 .. RingSize + 1 /\ indxs \in [Positions -> Nat]
      /\ \A i \in Positions : indxs[i] = IF i < pos THEN ring[i] ELSE Offset(i)
  BY <1>1, <1>2, Zenon DEF SumInv
<1>6. pos = RingSize + 1 /\ \A i \in Positions : i < pos
  BY <1>1, <1>5, SizeAssumption DEF Positions
<1>7. indxs = ring
  BY <1>4, <1>5, <1>6
<1>8. \E i \in Positions : ring[i] = real
  BY <1>1, <1>2, <1>3 DEF RingInv
<1> QED BY <1>1, <1>4, <1>6, <1>7, <1>8 DEF RealPositions

LEMMA AddInputInv == InputInv /\ AddInput => InputInv'
<1> SUFFICES ASSUME InputInv, AddInput PROVE InputInv'
  OBVIOUS
<1> DEFINE outs(view) == OutsAnswer(view, indxs)
           missing(view) == \E i \in DOMAIN indxs : indxs[i] >= Len(view.outputs)
<1>1. /\ RingReady /\ call = "select" /\ Len(asked) = 2 /\ asked \in Seq(Views)
  BY DEF AddInput, RingReady, InputInv, CallInv
<1>2. /\ phase = "sum" /\ ring \in [Positions -> Nat] /\ indxs = ring
      /\ RealPositions # {}
  BY <1>1, RingSummed
<1>3. PICK view \in Views :
        Ask(view, outs(view),
              IF RealPositions = {} THEN End("failed", "keys")
              ELSE IF ~KeysUsable THEN End(IF Keyless THEN "panic" ELSE "failed", "keys")
              ELSE /\ GetMixins
                   /\ members' = outs(view).list
                   /\ call' = "added"
                   /\ UNCHANGED <<request, height, blame>>)
  BY DEF AddInput
<1>4. /\ asked' \in Seq(Views) /\ Len(asked') = 3
      /\ asked'[3] = view /\ asked'[1] = asked[1] /\ asked'[2] = asked[2]
  <2>1. asked' = Append(asked, view)
    BY <1>3 DEF Ask
  <2>2. /\ asked' \in Seq(Views) /\ Len(asked') = Len(asked) + 1
        /\ asked'[Len(asked')] = view
        /\ \A i \in 1 .. Len(asked) : asked'[i] = asked[i]
    BY <1>1, <2>1, OneMoreAsked
  <2> QED BY <1>1, <2>2
<1>5. CASE missing(view)
  <2>1. Refused(outs(view))
    BY <1>5 DEF Refused, OutsAnswer, Refusal
  <2>2. End("failed", "refusal")
    BY <1>3, <2>1 DEF Ask
  <2>3. ring' = ring /\ \E i \in Positions : ring'[i] >= Len(view.outputs)
    BY <1>2, <1>5, <2>2 DEF End
  <2>4. OutcomeExplained'
    BY <1>4, <2>2, <2>3 DEF OutcomeExplained, End, Positions
  <2> QED BY <1>4, <2>2, <2>4, EndKeeps
<1>6. CASE ~missing(view)
  <2>1. ~Refused(outs(view)) /\ outs(view).has
    BY <1>6 DEF Refused, OutsAnswer, Ok
  <2>2. CASE ~KeysUsable
    <3>1. PICK outcome \in {"failed", "panic"} :
             End(outcome, "keys") /\ (outcome = "panic" <=> Keyless)
      BY <1>2, <1>3, <2>1, <2>2 DEF Ask
    <3>2. Keyless' = Keyless /\ request' = request
      BY <3>1 DEF End, Keyless
    <3>3. OutcomeExplained'
      BY <1>4, <2>2, <3>1, <3>2 DEF OutcomeExplained, End, KeysUsable
    <3> QED BY <1>4, <3>1, <3>3, EndKeeps
  <2>3. CASE KeysUsable
    <3>1. /\ GetMixins /\ members' = outs(view).list /\ call' = "added"
          /\ UNCHANGED <<request, height, blame>>
      BY <1>2, <1>3, <2>1, <2>3 DEF Ask
    <3>2. /\ UNCHANGED <<real, max, ring, indxs>> /\ phase' = "done"
      BY <3>1 DEF GetMixins
    <3>3. IndInv'
      BY <3>1, NextInv DEF InputInv, Next
    <3>4. outs(view).list = [i \in Positions |-> view.outputs[indxs[i] + 1]]
      BY <1>2, <1>6 DEF OutsAnswer, Ok
    <3>5. \A i \in Positions : indxs[i] + 1 \in DOMAIN view.outputs
      <4>1. DOMAIN view.outputs = 1 .. Len(view.outputs) /\ Len(view.outputs) \in Nat
        BY ViewType
      <4> QED BY <1>2, <1>6, <4>1
    <3>6. MembersInv'
      BY <1>4, <3>1, <3>2, <3>4, <3>5 DEF MembersInv, Positions
    <3>7. CallInv'
      BY <1>4, <3>1, <3>2 DEF InputInv, CallInv
    <3>8. RealInv' /\ MaxInv'
      BY <1>1, <1>4, <3>1, <3>2 DEF InputInv, RealInv, MaxInv, Count
    <3>9. OutcomeExplained'
      BY <1>1, <2>3, <3>1, <3>8 DEF OutcomeExplained, MaxInv, KeysUsable, Keyless
    <3> QED BY <3>3, <3>6, <3>7, <3>8, <3>9 DEF InputInv
  <2> QED BY <2>2, <2>3
<1> QED BY <1>5, <1>6

LEMMA InputNextInv == InputInv /\ [InputNext]_allVars => InputInv'
<1> SUFFICES ASSUME InputInv, [InputNext]_allVars PROVE InputInv'
  OBVIOUS
<1>1. CASE InputNext
  BY <1>1, NoAnswerInv, NonsenseInv, GetOutputIndexInv, GetMaxGlobalIndexInv, SelectInv,
     AddInputInv DEF InputNext
<1>2. CASE UNCHANGED allVars
  <2>1. IndInv'
    BY <1>2, NextInv DEF InputInv, allVars
  <2>2. UNCHANGED inputVars /\ UNCHANGED vars
    BY <1>2 DEF allVars
  <2>3. (CallInv /\ RealInv /\ MaxInv /\ MembersInv /\ OutcomeExplained)'
    BY <2>2 DEF inputVars, vars, InputInv, CallInv, RealInv, MaxInv, MembersInv,
                OutcomeExplained, Count, Positions, Keyless, KeysUsable
  <2> QED BY <2>1, <2>3 DEF InputInv
<1> QED BY <1>1, <1>2

LEMMA InputInvariance == InputSpec => []InputInv
BY InputInitInv, InputNextInv, PTL DEF InputSpec

-----------------------------------------------------------------------------
\* The variables keep their types; no more than three daemons are asked, and the
\* input has as many members as the ring.
THEOREM InputTypeCorrect == InputSpec => []InputTypeOK
<1>1. InputInv => InputTypeOK
  <2> SUFFICES ASSUME InputInv PROVE InputTypeOK
    OBVIOUS
  <2>1. TypeOK /\ CallInv /\ MembersInv
    BY DEF InputInv, IndInv
  <2>2. asked \in Seq(Views) /\ Len(asked) <= 3
    BY AskedType
  <2>3. call = "added" => members \in [Positions -> Output]
    <3> SUFFICES ASSUME call = "added" PROVE members \in [Positions -> Output]
      OBVIOUS
    <3>1. asked[3] \in Views
      BY AddedAsked
    <3>2. \A i \in Positions : asked[3].outputs[indxs[i] + 1] \in Output
      BY <2>1, <3>1, ViewType DEF MembersInv
    <3> QED BY <2>1, <3>2 DEF MembersInv
  <2>4. call \in {"index", "distribution", "select", "added", "failed", "panic"}
    BY <2>1 DEF CallInv
  <2> QED BY <2>1, <2>2, <2>3, <2>4 DEF InputTypeOK
<1> QED BY <1>1, InputInvariance, PTL

\* The ring of every input is full, increasing, holds the real index and otherwise
\* indexes below the newest, whatever the daemons answered.
THEOREM InputRingCorrect == InputSpec => []RingSound
<1>1. InputInv => RingSound
  BY InvariantRing DEF InputInv
<1> QED BY <1>1, InputInvariance, PTL

\* The third daemon is asked for the ring in its order.
THEOREM InputOffsetsCorrect == InputSpec => []OffsetsRecoverRing
<1>1. InputInv => OffsetsRecoverRing
  BY InvariantOffsets DEF InputInv
<1> QED BY <1>1, InputInvariance, PTL

\* The member at the secret position is the output that was asked for, if the first
\* daemon and the third agree on the chain up to its block.
THEOREM SecretMemberIsRequested == InputSpec => []SecretMemberOpens
<1>1. InputInv => SecretMemberOpens
  <2> SUFFICES ASSUME InputInv, call = "added", NEW b \in DOMAIN asked[1].counts,
                      SameUpTo(asked[1], asked[3], b), real < asked[1].counts[b]
               PROVE  LET member == members[orderIndx]
                      IN  /\ member.tx = request.tx /\ member.vout = request.vout
                          /\ member = DerivedKey <=>
                                request.extra = request.tx /\ request.owner = member.owner
    BY DEF SecretMemberOpens
  <2>1. /\ phase = "done" /\ real \in Nat /\ asked[1] \in Views /\ asked[3] \in Views
        /\ RealInv /\ MembersInv /\ DoneInv
    BY AddedAsked DEF InputInv, IndInv, TypeOK
  <2>2. orderIndx \in Positions /\ indxs[orderIndx] = real
    BY <2>1 DEF DoneInv, RealPositions
  <2>3. members[orderIndx] = asked[3].outputs[real + 1]
    BY <2>1, <2>2 DEF MembersInv
  <2>4. asked[1].outputs[real + 1] = asked[3].outputs[real + 1]
    <3>1. asked[1].counts[b] \in Nat
      BY <2>1, ViewType
    <3>2. real + 1 \in 1 .. asked[1].counts[b]
      BY <2>1, <3>1
    <3> QED BY <3>2 DEF SameUpTo
  <2>5. /\ members[orderIndx].tx = request.tx /\ members[orderIndx].vout = request.vout
        /\ real + 1 \in DOMAIN asked[1].outputs
    BY <2>1, <2>3, <2>4 DEF RealInv
  <2>6. members[orderIndx] \in Output
    BY <2>1, <2>3, <2>4, <2>5, ViewType
  <2>7. members[orderIndx] = [tx |-> members[orderIndx].tx, vout |-> members[orderIndx].vout,
                              owner |-> members[orderIndx].owner]
    BY <2>6 DEF Output
  <2> QED BY <2>5, <2>7 DEF DerivedKey
<1> QED BY <1>1, InputInvariance, PTL

\* All decoys are at least Recent blocks old for a third daemon that agrees with
\* the second on the blocks up to then.
THEOREM DecoysAreSpendable == InputSpec => []DecoysAreOld
<1>1. InputInv => DecoysAreOld
  <2> SUFFICES ASSUME InputInv, call = "added",
                      SameUpTo(asked[2], asked[3], height - Recent + 1),
                      NEW i \in Positions \ {orderIndx}
               PROVE  ring[i] < Count(asked[3], height - Recent)
    BY DEF DecoysAreOld
  <2>1. phase = "done" /\ asked[2] \in Views /\ height \in Heights
    BY AddedAsked DEF InputInv, CallInv
  <2>2. /\ IndInv /\ RingSound /\ OffsetsRecoverRing /\ MaxInv
    BY InvariantRing, InvariantOffsets DEF InputInv
  <2>3. ring[orderIndx] = real /\ orderIndx \in Positions
    BY <2>1, <2>2 DEF OffsetsRecoverRing, OutAt
  <2>4. Increasing(ring) /\ DOMAIN ring = Positions /\ ring \in [Positions -> Nat]
    BY <2>1, <2>2 DEF IndInv, RingInv, TypeOK
  <2>5. ring[i] # real
    BY <2>3, <2>4, SizeAssumption DEF Increasing, Positions
  <2>6. ring[i] < max
    BY <2>1, <2>2, <2>5 DEF RingSound
  <2>7. max = Count(asked[2], height - Recent) - 1
    BY <2>2 DEF MaxInv
  <2>8. /\ Count(asked[2], height - Recent) = Count(asked[3], height - Recent)
        /\ Count(asked[2], height - Recent) \in Nat \ {0}
    <3>1. /\ height - Recent + 1 \in DOMAIN asked[2].counts
      BY <2>2 DEF MaxInv
    <3>2. asked[2].counts[height - Recent + 1] \in Nat \ {0}
      BY <2>1, <3>1, ViewType
    <3>3. height - Recent + 1 \in 1 .. height - Recent + 1
      BY <2>1, <3>1, ViewType
    <3> QED BY <3>2, <3>3 DEF SameUpTo, Count
  <2>9. ring[i] \in Nat
    BY <2>4
  <2> QED BY <2>6, <2>7, <2>8, <2>9
<1> QED BY <1>1, InputInvariance, PTL

\* What a failure or the end of the program says of the request and of the daemons
\* asked, and that no height below Past leads to an input.
THEOREM OutcomesAreExplained == InputSpec => []OutcomeExplained
<1>1. InputInv => OutcomeExplained
  BY DEF InputInv
<1> QED BY <1>1, InputInvariance, PTL
=============================================================================
