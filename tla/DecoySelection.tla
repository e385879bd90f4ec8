---------------------------- MODULE DecoySelection ----------------------------
(* How writeInput2 (types/tx2.go) hides a real output in a ring: SelectDecoys,  *)
(* BuildKeyOffsets and GetMixins of types/gamma_selector.go, from the moment    *)
(* the daemon has given the global index of the real output and the newest      *)
(* index of the chain.  The attempt loop of SelectDecoys and the summation loop *)
(* of GetMixins are one step per iteration.                                     *)
EXTENDS Integers, Sequences, FiniteSets

CONSTANTS
    RingSize,       \* ringSize, 16 in the code
    MaxAttempts,    \* maxAttempts, 10000 in the code
    JitterRange,    \* BlocksPerDay * 0.1 = 72 in the code
    MaxAge,         \* MaxGammaDays * BlocksPerDay: ageBlocks is at most this
    RealIndexes,    \* values of realGlobalIndex and maxGlobalIndex: two answers
    MaxIndexes      \* of daemons, so neither bounds the other

ASSUME SizeAssumption  == RingSize \in Nat \ {0, 1} /\ MaxAttempts \in Nat
ASSUME DrawAssumption  == JitterRange \in Nat \ {0} /\ MaxAge \in Nat
ASSUME IndexAssumption == RealIndexes \subseteq Nat /\ MaxIndexes \subseteq Nat

VARIABLES
    real, max,      \* realGlobalIndex, maxGlobalIndex
    phase,          \* the call that is running
    selected,       \* the set of indexes drawn so far
    attempts,
    ring,           \* result of SelectDecoys
    offsets,        \* result of BuildKeyOffsets
    indxs,          \* the slice GetMixins sums up in place
    pos,           \* its loop variable, counted from 1
    orderIndx,      \* OrderIndx, counted from 1 (0: not found)
    mixins          \* the outputs GetOuts returned

vars == <<real, max, phase, selected, attempts, ring, offsets, indxs, pos, orderIndx, mixins>>

Positions == 1 .. RingSize
Increasing(r) == \A i, j \in DOMAIN r : i < j => r[i] < r[j]

\* An output is known by its global index.
OutAt(index) == index

-----------------------------------------------------------------------------
Init ==
    /\ real \in RealIndexes /\ max \in MaxIndexes
    /\ phase = "start"
    /\ selected = {} /\ attempts = 0
    /\ ring = <<>> /\ offsets = <<>> /\ indxs = <<>> /\ pos = 0
    /\ orderIndx = 0 /\ mixins = <<>>

Fail == phase' = "failed"

\* "not enough outputs"
RejectShortChain ==
    /\ phase = "start"
    /\ max + 1 < RingSize
    /\ Fail
    /\ UNCHANGED <<real, max, selected, attempts, ring, offsets, indxs, pos, orderIndx, mixins>>

StartSelection ==
    /\ phase = "start"
    /\ max + 1 >= RingSize
    /\ selected' = {real}
    /\ phase' = "select"
    /\ UNCHANGED <<real, max, attempts, ring, offsets, indxs, pos, orderIndx, mixins>>

\* A tenth of the chain stands for outputs older than the chain.
SampleRange == IF max \div 10 < 1 THEN 1 ELSE max \div 10

\* Bug: the newest output can be drawn.
Clamp_Newest(candidate) ==
    IF candidate <= 0 THEN 0 ELSE IF candidate > max THEN max ELSE candidate

Clamp(candidate) ==
    IF candidate <= 0 THEN 0 ELSE IF candidate >= max THEN max - 1 ELSE candidate

\* The indexes one attempt can draw once the age is drawn.  The two ways to draw
\* an age differ in distribution only: either may give any age.
Draws(ageBlocks) ==
    IF ageBlocks >= max
    THEN 0 .. SampleRange - 1
    ELSE {Clamp(max - ageBlocks + jitter) : jitter \in -JitterRange .. JitterRange - 1}

\* Bug: one attempt too many.
Attempt_OneMore ==
    /\ phase = "select"
    /\ Cardinality(selected) < RingSize
    /\ attempts <= MaxAttempts
    /\ attempts' = attempts + 1
    /\ \E ageBlocks \in 0 .. MaxAge : \E gi \in Draws(ageBlocks) : selected' = selected \cup {gi}
    /\ UNCHANGED <<real, max, phase, ring, offsets, indxs, pos, orderIndx, mixins>>

\* Bug: an attempt that draws a duplicate is not counted.
Attempt_CountsNew ==
    /\ phase = "select"
    /\ Cardinality(selected) < RingSize
    /\ attempts < MaxAttempts
    /\ \E ageBlocks \in 0 .. MaxAge : \E gi \in Draws(ageBlocks) :
          /\ selected' = selected \cup {gi}
          /\ attempts' = IF gi \in selected THEN attempts ELSE attempts + 1
    /\ UNCHANGED <<real, max, phase, ring, offsets, indxs, pos, orderIndx, mixins>>

\* An index that is the real one or drawn already leaves the set as it is.
Attempt ==
    /\ phase = "select"
    /\ Cardinality(selected) < RingSize
    /\ attempts < MaxAttempts
    /\ attempts' = attempts + 1
    /\ \E ageBlocks \in 0 .. MaxAge : \E gi \in Draws(ageBlocks) : selected' = selected \cup {gi}
    /\ UNCHANGED <<real, max, phase, ring, offsets, indxs, pos, orderIndx, mixins>>

\* "failed to select enough unique decoys"
GiveUp ==
    /\ phase = "select"
    /\ Cardinality(selected) < RingSize
    /\ attempts >= MaxAttempts
    /\ Fail
    /\ UNCHANGED <<real, max, selected, attempts, ring, offsets, indxs, pos, orderIndx, mixins>>

\* The keys of the map, sorted.
SortRing ==
    /\ phase = "select"
    /\ Cardinality(selected) >= RingSize
    /\ ring' \in {r \in [1 .. Cardinality(selected) -> selected] :
                    Increasing(r) /\ \A gi \in selected : \E i \in DOMAIN r : r[i] = gi}
    /\ phase' = "offsets"
    /\ UNCHANGED <<real, max, selected, attempts, offsets, indxs, pos, orderIndx, mixins>>

Offset(i) == IF i = 1 THEN ring[1] ELSE ring[i] - ring[i - 1]

\* The copy BuildKeyOffsets sorts is sorted already.  writeInput2 then insists on
\* a full ring, and GetMixins copies the offsets.
BuildKeyOffsets ==
    /\ phase = "offsets"
    /\ \A i \in DOMAIN ring \ {1} : ring[i] # ring[i - 1]
    /\ Len(ring) = RingSize
    /\ offsets' = [i \in Positions |-> Offset(i)]
    /\ indxs' = offsets'
    /\ pos' = 2
    /\ phase' = "sum"
    /\ UNCHANGED <<real, max, selected, attempts, ring, orderIndx, mixins>>

\* Bug: offsets are summed in pairs.
SumOffset_Pairs ==
    /\ phase = "sum"
    /\ pos <= RingSize
    /\ indxs' = [indxs EXCEPT ![pos] = @ + offsets[pos - 1]]
    /\ pos' = pos + 1
    /\ UNCHANGED <<real, max, phase, selected, attempts, ring, offsets, orderIndx, mixins>>

\* indxs[i] = indxs[i] + indxs[i-1]
SumOffset ==
    /\ phase = "sum"
    /\ pos <= RingSize
    /\ indxs' = [indxs EXCEPT ![pos] = @ + indxs[pos - 1]]
    /\ pos' = pos + 1
    /\ UNCHANGED <<real, max, phase, selected, attempts, ring, offsets, orderIndx, mixins>>

\* The first position that holds the real index; GetOuts; the input is complete.
RealPositions == {i \in Positions : indxs[i] = real}

GetMixins ==
    /\ phase = "sum"
    /\ pos > RingSize
    /\ orderIndx' \in {i \in RealPositions : \A j \in RealPositions : i <= j}
    /\ mixins' = [i \in Positions |-> OutAt(indxs[i])]
    /\ phase' = "done"
    /\ UNCHANGED <<real, max, selected, attempts, ring, offsets, indxs, pos>>

\* The daemon does not answer, or "real output index not found".
GetMixinsFails ==
    /\ phase = "sum"
    /\ pos > RingSize
    /\ Fail
    /\ UNCHANGED <<real, max, selected, attempts, ring, offsets, indxs, pos, orderIndx, mixins>>

Next ==
    \/ RejectShortChain
    \/ StartSelection
    \/ Attempt
    \/ GiveUp
    \/ SortRing
    \/ BuildKeyOffsets
    \/ SumOffset
    \/ GetMixins
    \/ GetMixinsFails

Spec == Init /\ [][Next]_vars

\* The calls run on the caller's goroutine and each loop iteration returns.
FairSpec == Spec /\ WF_vars(Next)

-----------------------------------------------------------------------------
(* Properties.                                                              *)

TypeOK ==
    /\ real \in Nat /\ max \in Nat
    /\ phase \in {"start", "select", "offsets", "sum", "done", "failed"}
    /\ selected \subseteq Nat /\ IsFiniteSet(selected)
    /\ attempts \in 0 .. MaxAttempts
    /\ ring \in Seq(Nat) /\ offsets \in Seq(Nat) /\ indxs \in Seq(Nat) /\ mixins \in Seq(Nat)
    /\ pos \in 0 .. RingSize + 1 /\ orderIndx \in 0 .. RingSize

\* The ring an input ends up with is full, strictly increasing, holds the real
\* output, and every other member is an output older than the newest the daemon
\* reported, so it exists even when the daemon lags behind the real output.
RingSound ==
    phase \in {"offsets", "sum", "done"} =>
        /\ Len(ring) = RingSize
        /\ Increasing(ring)
        /\ \E i \in Positions : ring[i] = real
        /\ \A i \in Positions : ring[i] # real => ring[i] < max

\* The offsets that are serialised sum up to the ring again, the daemon was asked
\* for the ring's members in that order, and the secret position OrderIndx is that
\* of the real output: the position of the key the signer knows.
OffsetsRecoverRing ==
    phase = "done" =>
        /\ indxs = ring
        /\ mixins = [i \in Positions |-> OutAt(ring[i])]
        /\ orderIndx \in Positions
        /\ mixins[orderIndx] = OutAt(real)

\* The loop ends whatever is drawn, duplicates included.
Terminates == <>(phase \in {"done", "failed"})

\* The check at the start admits chains that have enough outputs for a ring
\* ("not enough outputs: max=%d, need=%d").
ChainSuffices ==
    phase = "select" =>
        Cardinality({real} \cup UNION {Draws(ageBlocks) : ageBlocks \in 0 .. MaxAge}) >= RingSize
=============================================================================
