----------------------------- MODULE LevinProofs -----------------------------
(* Proofs about LevinClient, for every size of header and payload, any number   *)
(* of callers and any mix of messages: who a message on the wire was written    *)
(* by, how the bytes of a stream lie next to one another, and from that the     *)
(* four invariants of the connection.  At the end, that VarInt writes sizes as  *)
(* bytes and reads them back.                                                   *)
EXTENDS LevinClient, VarInt, SequenceTheorems, TLAPS

-----------------------------------------------------------------------------
(* Types.                                                                      *)

Messages == [id : Nat \ {0}, command : Commands, length : Nat, expects : BOOLEAN, to : Nat]
Bytes    == [msg : Messages, at : Nat \ {0}]
Slots    == Messages \cup {None}
Size(m)  == HeaderSize + m.length

MainStates == {"start", "hsPayload", "hsHeader", "hsBody", "ready", "body", "answer",
               "answerPayload", "failed"}

\* The states in which "header" is a message, and those in which main reads one next.
Holding == {"hsPayload", "hsBody", "body", "answer", "answerPayload"}
Reading == {"hsHeader", "ready"}

TypeOK ==
    /\ main \in MainStates /\ header \in Slots /\ (main \in Holding => header \in Messages)
    /\ writing \in [Callers -> Slots]
    /\ toPeer \in Seq(Bytes) /\ toClient \in Seq(Bytes)
    /\ closed \in BOOLEAN /\ rejected \in BOOLEAN /\ overlap \in BOOLEAN
    /\ node \in Slots
    /\ sent \in Seq(Messages) /\ peerSent \in Seq(Messages) /\ peerGot \in Seq(Messages)
    /\ received \in Seq([msg : Messages, bytes : Seq(Bytes)]) /\ dropped \in Seq(Messages)

-----------------------------------------------------------------------------
(* Where messages come from: a number names one message of each side.          *)

In(m, messages) == m.id \in DOMAIN messages /\ messages[m.id] = m

ClientMessages ==
    /\ \A i \in DOMAIN sent : sent[i].id = i
    /\ \A k \in DOMAIN toPeer : In(toPeer[k].msg, sent)
    /\ \A i \in DOMAIN peerGot : In(peerGot[i], sent)
    /\ \A c \in Callers : writing[c] # None => In(writing[c], sent)
    /\ main \in {"hsPayload", "answerPayload"} => In(header, sent)

\* A handshake of the peer's is the answer to one it has read.
PeersOwn ==
    /\ \A i \in DOMAIN peerSent :
          /\ peerSent[i].id = i
          /\ peerSent[i].command = "Handshake" =>
                \E j \in DOMAIN peerGot :
                   peerGot[j].id = peerSent[i].to /\ peerGot[j].command = "Handshake"
    /\ \A k \in DOMAIN toClient : In(toClient[k].msg, peerSent)
    /\ main \in {"hsBody", "body", "answer"} => In(header, peerSent)
    /\ node # None => node.command = "Handshake" /\ In(node, peerSent)

-----------------------------------------------------------------------------
(* The stream to the peer.  While no two calls have written at the same time,   *)
(* it is whole messages, but for one whose payload is still to be written.      *)

Pending(m) ==
    \/ main \in {"hsPayload", "answerPayload"} /\ header = m
    \/ \E c \in Callers : writing[c] = m /\ m # None

\* Two writers would be two even if they wrote the same message.
OneWriter ==
    /\ \A c, d \in Callers : writing[c] # None /\ writing[d] # None => c = d
    /\ main \in {"hsPayload", "answerPayload"} => \A c \in Callers : writing[c] = None

\* Byte k is part of a message that begins at "start" and is all there, or all but
\* its payload.
FramedAt(k) ==
    LET m     == toPeer[k].msg
        start == k - toPeer[k].at + 1
    IN  /\ start >= 1 /\ k < start + Size(m)
        /\ start + HeaderSize - 1 <= Len(toPeer)
        /\ \A j \in DOMAIN toPeer :
              start <= j /\ j < start + Size(m) => toPeer[j] = [msg |-> m, at |-> j - start + 1]
        /\ \/ start + Size(m) - 1 <= Len(toPeer)
           \/ Pending(m) /\ start + HeaderSize - 1 = Len(toPeer)

\* The payload is written where the header ends.
PendingLast ==
    \A m \in Messages :
       Pending(m) /\ m.length > 0 =>
          Len(toPeer) > 0 /\ toPeer[Len(toPeer)] = [msg |-> m, at |-> HeaderSize]

PeerFramed == ~closed /\ ~overlap => OneWriter /\ PendingLast /\ \A k \in DOMAIN toPeer : FramedAt(k)

-----------------------------------------------------------------------------
(* The stream to the client.  The peer's messages follow one another, whole     *)
(* but for the beginning of the first, when the client has fallen out of step,  *)
(* and the end of the last, when the connection has broken.                     *)

Consistent(s) ==
    \A k \in DOMAIN s :
       /\ s[k].at <= Size(s[k].msg)
       /\ \A j \in DOMAIN s :
             1 <= j - k + s[k].at /\ j - k + s[k].at <= Size(s[k].msg) =>
                s[j] = [msg |-> s[k].msg, at |-> j - k + s[k].at]

\* Later bytes are of later messages, or further on in the same one.
Ascending(s) ==
    \A j, k \in DOMAIN s :
       j < k => \/ s[j].msg.id < s[k].msg.id
                \/ s[j].msg = s[k].msg /\ s[k].at - s[j].at = k - j

\* Where one message ends the next one begins.
Adjacent(s) ==
    \A k \in DOMAIN s :
       k + 1 \in DOMAIN s /\ s[k].at = Size(s[k].msg) =>
          s[k + 1].at = 1 /\ s[k + 1].msg.id = s[k].msg.id + 1

\* Until the connection closes nothing that was sent is missing at the end.
Complete(s, messages) ==
    Len(s) > 0 => s[Len(s)].msg.id = Len(messages) /\ s[Len(s)].at = Size(s[Len(s)].msg)

ClientStream ==
    /\ Consistent(toClient) /\ Ascending(toClient) /\ Adjacent(toClient)
    /\ ~closed => Complete(toClient, peerSent)

\* After a header comes its own payload.
BodyNext ==
    main \in {"hsBody", "body"} =>
        /\ \A i \in DOMAIN toClient :
              i <= header.length => toClient[i] = [msg |-> header, at |-> HeaderSize + i]
        /\ ~closed => Len(toClient) >= header.length

\* The messages that begin in the stream are later than those read from it.
BeginsLater(s, m) == \A k \in DOMAIN s : s[k].at = 1 => m.id < s[k].msg.id

ReadBefore ==
    /\ \A i \in DOMAIN received : BeginsLater(toClient, received[i].msg)
    /\ \A i \in DOMAIN received : In(received[i].msg, peerSent)
    /\ main = "body" => /\ BeginsLater(toClient, header)
                        /\ \A i \in DOMAIN received : received[i].msg.id < header.id

-----------------------------------------------------------------------------
(* In step.                                                                    *)

AllKnown == \A i \in DOMAIN peerSent : peerSent[i].command # "unknown"

Answered == IF node = None THEN <<>> ELSE <<node>>
ReadSoFar == dropped \o Answered \o MessagesOf(received)

NothingBefore ==
    main \in {"start", "hsPayload", "hsHeader", "hsBody"} => node = None /\ received = <<>>

\* Byte k, if it has arrived, begins the message after number n.
BeginsNext(s, k, n) == Len(s) >= k => s[k].at = 1 /\ s[k].msg.id = n + 1

InStep ==
    AllKnown =>
       /\ main \notin {"hsBody", "body", "failed"} =>
             /\ BeginsNext(toClient, 1, Len(ReadSoFar))
             /\ ~closed /\ Len(toClient) = 0 => Len(ReadSoFar) = Len(peerSent)
       /\ main \in {"hsBody", "body"} =>
             /\ header.id = Len(ReadSoFar) + 1
             /\ BeginsNext(toClient, header.length + 1, header.id)
             /\ ~closed /\ Len(toClient) = header.length => header.id = Len(peerSent)

-----------------------------------------------------------------------------
(* Lemmas about sequences of bytes.                                            *)

LEMMA HeaderIsBytes ==
    ASSUME NEW m \in Messages
    PROVE  /\ HeaderBytes(m) \in Seq(Bytes) /\ Len(HeaderBytes(m)) = HeaderSize
           /\ \A i \in 1 .. HeaderSize : HeaderBytes(m)[i] = [msg |-> m, at |-> i]
<1>1. HeaderSize \in Nat
  BY SizeAssumption
<1>2. \A i \in 1 .. HeaderSize : [msg |-> m, at |-> i] \in Bytes
  BY <1>1 DEF Bytes
<1>3. HeaderBytes(m) \in [1 .. HeaderSize -> Bytes]
  BY <1>2 DEF HeaderBytes
<1>4. HeaderBytes(m) \in Seq(Bytes)
  BY <1>1, <1>3, SeqDef
<1>5. Len(HeaderBytes(m)) = HeaderSize
  BY <1>1, <1>3, <1>4, LenProperties
<1> QED BY <1>4, <1>5 DEF HeaderBytes

LEMMA BodyIsBytes ==
    ASSUME NEW m \in Messages
    PROVE  /\ BodyBytes(m) \in Seq(Bytes) /\ Len(BodyBytes(m)) = m.length
           /\ \A i \in 1 .. m.length : BodyBytes(m)[i] = [msg |-> m, at |-> HeaderSize + i]
<1>1. HeaderSize \in Nat /\ m.length \in Nat
  BY SizeAssumption DEF Messages
<1>2. \A i \in 1 .. m.length : [msg |-> m, at |-> HeaderSize + i] \in Bytes
  BY <1>1 DEF Bytes
<1>3. BodyBytes(m) \in [1 .. m.length -> Bytes]
  BY <1>2 DEF BodyBytes
<1>4. BodyBytes(m) \in Seq(Bytes)
  BY <1>1, <1>3, SeqDef
<1>5. Len(BodyBytes(m)) = m.length
  BY <1>1, <1>3, <1>4, LenProperties
<1> QED BY <1>4, <1>5 DEF BodyBytes

LEMMA SizeIsNat == \A m \in Messages : Size(m) \in Nat /\ Size(m) >= HeaderSize /\ m.length \in Nat
BY SizeAssumption DEF Messages, Size

LEMMA MessageIsBytes ==
    ASSUME NEW m \in Messages
    PROVE  /\ Message(m) \in Seq(Bytes) /\ Len(Message(m)) = Size(m)
           /\ \A i \in 1 .. Size(m) : Message(m)[i] = [msg |-> m, at |-> i]
<1>1. HeaderSize \in Nat /\ m.length \in Nat
  BY SizeAssumption DEF Messages
<1>2. /\ HeaderBytes(m) \in Seq(Bytes) /\ Len(HeaderBytes(m)) = HeaderSize
      /\ BodyBytes(m) \in Seq(Bytes) /\ Len(BodyBytes(m)) = m.length
  BY HeaderIsBytes, BodyIsBytes
<1>3. /\ Message(m) \in Seq(Bytes) /\ Len(Message(m)) = Size(m)
      /\ \A i \in 1 .. Size(m) :
            Message(m)[i] = IF i <= HeaderSize THEN HeaderBytes(m)[i] ELSE BodyBytes(m)[i - HeaderSize]
  <2>1. Message(m) = HeaderBytes(m) \o BodyBytes(m) /\ Size(m) = Len(HeaderBytes(m)) + Len(BodyBytes(m))
    BY <1>2 DEF Message, Size
  <2>2. /\ HeaderBytes(m) \o BodyBytes(m) \in Seq(Bytes)
        /\ Len(HeaderBytes(m) \o BodyBytes(m)) = Len(HeaderBytes(m)) + Len(BodyBytes(m))
        /\ \A i \in 1 .. Len(HeaderBytes(m)) + Len(BodyBytes(m)) :
              (HeaderBytes(m) \o BodyBytes(m))[i] =
                 IF i <= Len(HeaderBytes(m)) THEN HeaderBytes(m)[i]
                                             ELSE BodyBytes(m)[i - Len(HeaderBytes(m))]
    BY <1>2, ConcatProperties
  <2> QED BY <1>2, <2>1, <2>2
<1>4. ASSUME NEW i \in 1 .. Size(m) PROVE Message(m)[i] = [msg |-> m, at |-> i]
  <2>1. CASE i <= HeaderSize
    <3>1. i \in 1 .. HeaderSize
      BY <1>1, <2>1
    <3>2. HeaderBytes(m)[i] = [msg |-> m, at |-> i]
      BY <3>1, HeaderIsBytes
    <3> QED BY <1>3, <2>1, <3>2
  <2>2. CASE i > HeaderSize
    <3>1. i - HeaderSize \in 1 .. m.length /\ HeaderSize + (i - HeaderSize) = i
      BY <1>1, <2>2 DEF Size
    <3>2. BodyBytes(m)[i - HeaderSize] = [msg |-> m, at |-> HeaderSize + (i - HeaderSize)]
      BY <3>1, BodyIsBytes
    <3> QED BY <1>1, <1>3, <2>2, <3>1, <3>2
  <2> QED BY <1>1, <2>1, <2>2
<1> QED BY <1>3, <1>4

LEMMA SeqFacts ==
    ASSUME NEW S, NEW s \in Seq(S)
    PROVE  Len(s) \in Nat /\ DOMAIN s = 1 .. Len(s) /\ \A i \in 1 .. Len(s) : s[i] \in S
OBVIOUS

LEMMA DropFacts ==
    ASSUME NEW S, NEW s \in Seq(S), NEW n \in Nat, n <= Len(s)
    PROVE  /\ Drop(s, n) \in Seq(S) /\ Len(Drop(s, n)) = Len(s) - n
           /\ \A i \in 1 .. Len(s) - n : Drop(s, n)[i] = s[i + n]
<1>1. Len(s) \in Nat /\ \A i \in n + 1 .. Len(s) : s[i] \in S
  BY SeqFacts
<1>2. /\ SubSeq(s, n + 1, Len(s)) \in Seq(S)
      /\ Len(SubSeq(s, n + 1, Len(s))) =
            IF n + 1 <= Len(s) THEN Len(s) - (n + 1) + 1 ELSE 0
      /\ \A i \in 1 .. Len(s) - (n + 1) + 1 : SubSeq(s, n + 1, Len(s))[i] = s[(n + 1) + i - 1]
  BY <1>1, SubSeqProperties, n + 1 \in Int, Len(s) \in Int
<1> QED BY <1>1, <1>2 DEF Drop

LEMMA TakeFacts ==
    ASSUME NEW S, NEW s \in Seq(S), NEW n \in Nat, n <= Len(s)
    PROVE  /\ Take(s, n) \in Seq(S) /\ Len(Take(s, n)) = n
           /\ \A i \in 1 .. n : Take(s, n)[i] = s[i]
<1>1. Len(s) \in Nat /\ \A i \in 1 .. n : s[i] \in S
  BY SeqFacts
<1>2. /\ SubSeq(s, 1, n) \in Seq(S)
      /\ Len(SubSeq(s, 1, n)) = IF 1 <= n THEN n - 1 + 1 ELSE 0
      /\ \A i \in 1 .. n - 1 + 1 : SubSeq(s, 1, n)[i] = s[1 + i - 1]
  BY <1>1, SubSeqProperties, 1 \in Int, n \in Int
<1> QED BY <1>1, <1>2 DEF Take

LEMMA ConcatFacts ==
    ASSUME NEW S, NEW s \in Seq(S), NEW t \in Seq(S)
    PROVE  /\ s \o t \in Seq(S) /\ Len(s \o t) = Len(s) + Len(t)
           /\ \A i \in 1 .. Len(s) : (s \o t)[i] = s[i]
           /\ \A i \in 1 .. Len(t) : (s \o t)[Len(s) + i] = t[i]
<1>1. Len(s) \in Nat /\ Len(t) \in Nat
  OBVIOUS
<1>2. /\ s \o t \in Seq(S) /\ Len(s \o t) = Len(s) + Len(t)
      /\ \A i \in 1 .. Len(s) + Len(t) :
            (s \o t)[i] = IF i <= Len(s) THEN s[i] ELSE t[i - Len(s)]
  BY ConcatProperties
<1>3. ASSUME NEW i \in 1 .. Len(t) PROVE (s \o t)[Len(s) + i] = t[i]
  <2>1. Len(s) + i \in 1 .. Len(s) + Len(t) /\ ~(Len(s) + i <= Len(s)) /\ (Len(s) + i) - Len(s) = i
    BY <1>1
  <2> QED BY <1>2, <2>1
<1> QED BY <1>1, <1>2, <1>3

LEMMA HeaderTaken ==
    ASSUME NEW s \in Seq(Bytes), Len(s) >= HeaderSize
    PROVE  /\ s[1].msg \in Messages /\ 1 \in 1 .. HeaderSize
           /\ Take(s, HeaderSize)[1] = s[1]
           /\ IsHeader(Take(s, HeaderSize)) <=>
                 \A i \in 1 .. HeaderSize : s[i] = [msg |-> s[1].msg, at |-> i]
<1> DEFINE t == Take(s, HeaderSize)
<1>1. HeaderSize \in Nat /\ 1 \in 1 .. HeaderSize
  BY SizeAssumption
<1>2. s[1] \in Bytes /\ s[1].msg \in Messages
  <2>1. 1 \in 1 .. Len(s)
    BY <1>1, SeqFacts
  <2>2. s[1] \in Bytes
    BY <2>1, ElementOfSeq
  <2> QED BY <2>2 DEF Bytes
<1>3. /\ t \in Seq(Bytes) /\ Len(t) = HeaderSize
      /\ \A i \in 1 .. HeaderSize : t[i] = s[i]
  BY <1>1, TakeFacts
<1>4. /\ HeaderBytes(s[1].msg) \in Seq(Bytes) /\ Len(HeaderBytes(s[1].msg)) = HeaderSize
      /\ \A i \in 1 .. HeaderSize : HeaderBytes(s[1].msg)[i] = [msg |-> s[1].msg, at |-> i]
  BY <1>2, HeaderIsBytes
<1>5. t[1] = s[1]
  BY <1>1, <1>3
<1>6. IsHeader(t) <=> t = HeaderBytes(s[1].msg)
  BY <1>5 DEF IsHeader
<1>7. ASSUME \A i \in 1 .. HeaderSize : s[i] = [msg |-> s[1].msg, at |-> i]
      PROVE  t = HeaderBytes(s[1].msg)
  <2>1. \A i \in 1 .. Len(t) : t[i] = HeaderBytes(s[1].msg)[i]
    BY <1>3, <1>4, <1>7
  <2>2. Len(t) = Len(HeaderBytes(s[1].msg))
    BY <1>3, <1>4
  <2> HIDE DEF t
  <2> QED BY <1>3, <1>4, <2>1, <2>2, SeqEqual
<1>8. t = HeaderBytes(s[1].msg) =>
         \A i \in 1 .. HeaderSize : s[i] = [msg |-> s[1].msg, at |-> i]
  BY <1>3, <1>4
<1> QED BY <1>1, <1>2, <1>5, <1>6, <1>7, <1>8

LEMMA ByteFacts ==
    ASSUME NEW s \in Seq(Bytes)
    PROVE  /\ Len(s) \in Nat /\ DOMAIN s = 1 .. Len(s)
           /\ \A k \in 1 .. Len(s) :
                 /\ s[k] \in Bytes /\ s[k].msg \in Messages /\ s[k].at \in Nat \ {0}
                 /\ s[k].msg.id \in Nat \ {0} /\ s[k].msg.length \in Nat
                 /\ Size(s[k].msg) \in Nat /\ Size(s[k].msg) >= HeaderSize
                 /\ s[k] = [msg |-> s[k].msg, at |-> s[k].at]
<1>1. Len(s) \in Nat /\ DOMAIN s = 1 .. Len(s) /\ \A k \in 1 .. Len(s) : s[k] \in Bytes
  BY SeqFacts
<1>2. \A b \in Bytes : /\ b.msg \in Messages /\ b.at \in Nat \ {0}
                       /\ b = [msg |-> b.msg, at |-> b.at]
  BY DEF Bytes
<1>3. \A m \in Messages : m.id \in Nat \ {0}
  BY DEF Messages
<1> QED BY <1>1, <1>2, <1>3, SizeIsNat

-----------------------------------------------------------------------------
(* What the client does to a stream, and what the peer does, keeps its shape.   *)

LEMMA StreamDrop ==
    ASSUME NEW s \in Seq(Bytes), NEW n \in Nat, n <= Len(s),
           Consistent(s), Ascending(s), Adjacent(s)
    PROVE  /\ Consistent(Drop(s, n)) /\ Ascending(Drop(s, n)) /\ Adjacent(Drop(s, n))
           /\ \A messages : Complete(s, messages) => Complete(Drop(s, n), messages)
<1> DEFINE t == Drop(s, n)
<1>1. /\ t \in Seq(Bytes) /\ Len(t) = Len(s) - n
      /\ \A i \in 1 .. Len(s) - n : t[i] = s[i + n]
  BY DropFacts
<1>2. Len(s) \in Nat /\ DOMAIN s = 1 .. Len(s) /\ DOMAIN t = 1 .. Len(s) - n
  BY <1>1, ByteFacts
<1>3. \A i \in DOMAIN t : i + n \in DOMAIN s /\ t[i] = s[i + n] /\ i \in Nat
  BY <1>1, <1>2
<1> HIDE DEF t
<1>4. Consistent(t)
  <2> SUFFICES ASSUME NEW k \in DOMAIN t
               PROVE  /\ t[k].at <= Size(t[k].msg)
                      /\ \A j \in DOMAIN t :
                            1 <= j - k + t[k].at /\ j - k + t[k].at <= Size(t[k].msg) =>
                               t[j] = [msg |-> t[k].msg, at |-> j - k + t[k].at]
    BY DEF Consistent
  <2>1. k + n \in DOMAIN s /\ t[k] = s[k + n] /\ k \in Nat
    BY <1>3
  <2>2. /\ s[k + n].at <= Size(s[k + n].msg)
        /\ \A j \in DOMAIN s :
              1 <= j - (k + n) + s[k + n].at /\ j - (k + n) + s[k + n].at <= Size(s[k + n].msg) =>
                 s[j] = [msg |-> s[k + n].msg, at |-> j - (k + n) + s[k + n].at]
    BY <2>1 DEF Consistent
  <2>3. ASSUME NEW j \in DOMAIN t,
               1 <= j - k + t[k].at, j - k + t[k].at <= Size(t[k].msg)
        PROVE  t[j] = [msg |-> t[k].msg, at |-> j - k + t[k].at]
    <3>1. j + n \in DOMAIN s /\ t[j] = s[j + n] /\ j \in Nat
      BY <1>3
    <3>2. (j + n) - (k + n) + t[k].at = j - k + t[k].at
      BY <2>1, <3>1, <1>2, ByteFacts
    <3> QED BY <2>1, <2>2, <2>3, <3>1, <3>2
  <2> QED BY <2>1, <2>2, <2>3
<1>5. Ascending(t)
  <2> SUFFICES ASSUME NEW j \in DOMAIN t, NEW k \in DOMAIN t, j < k
               PROVE  \/ t[j].msg.id < t[k].msg.id
                      \/ t[j].msg = t[k].msg /\ t[k].at - t[j].at = k - j
    BY DEF Ascending
  <2>1. /\ j + n \in DOMAIN s /\ t[j] = s[j + n] /\ j \in Nat
        /\ k + n \in DOMAIN s /\ t[k] = s[k + n] /\ k \in Nat
    BY <1>3
  <2>2. j + n < k + n /\ (k + n) - (j + n) = k - j
    BY <2>1
  <2>3. \/ s[j + n].msg.id < s[k + n].msg.id
        \/ s[j + n].msg = s[k + n].msg /\ s[k + n].at - s[j + n].at = (k + n) - (j + n)
    BY <2>1, <2>2 DEF Ascending
  <2> QED BY <2>1, <2>2, <2>3
<1>6. Adjacent(t)
  <2> SUFFICES ASSUME NEW k \in DOMAIN t, k + 1 \in DOMAIN t, t[k].at = Size(t[k].msg)
               PROVE  t[k + 1].at = 1 /\ t[k + 1].msg.id = t[k].msg.id + 1
    BY DEF Adjacent
  <2>1. /\ k + n \in DOMAIN s /\ t[k] = s[k + n] /\ k \in Nat
        /\ (k + 1) + n \in DOMAIN s /\ t[k + 1] = s[(k + 1) + n]
    BY <1>3
  <2>2. (k + 1) + n = (k + n) + 1
    BY <2>1
  <2> QED BY <2>1, <2>2 DEF Adjacent
<1>7. ASSUME NEW messages, Complete(s, messages) PROVE Complete(t, messages)
  <2> SUFFICES ASSUME Len(t) > 0
               PROVE  t[Len(t)].msg.id = Len(messages) /\ t[Len(t)].at = Size(t[Len(t)].msg)
    BY DEF Complete
  <2>1. Len(t) \in 1 .. Len(s) - n /\ Len(t) + n = Len(s) /\ Len(s) > 0
    BY <1>1, <1>2
  <2>2. t[Len(t)] = s[Len(s)]
    BY <1>1, <2>1
  <2> QED BY <1>7, <2>1, <2>2 DEF Complete
<1> QED BY <1>4, <1>5, <1>6, <1>7 DEF t

LEMMA StreamTake ==
    ASSUME NEW s \in Seq(Bytes), NEW n \in Nat, n <= Len(s),
           Consistent(s), Ascending(s), Adjacent(s)
    PROVE  Consistent(Take(s, n)) /\ Ascending(Take(s, n)) /\ Adjacent(Take(s, n))
<1> DEFINE t == Take(s, n)
<1>1. t \in Seq(Bytes) /\ Len(t) = n /\ \A i \in 1 .. n : t[i] = s[i]
  BY TakeFacts
<1>2. DOMAIN s = 1 .. Len(s) /\ Len(s) \in Nat /\ DOMAIN t = 1 .. n
  BY <1>1, ByteFacts
<1>3. \A i \in DOMAIN t : i \in DOMAIN s /\ t[i] = s[i]
  BY <1>1, <1>2
<1> HIDE DEF t
<1>4. Consistent(t)
  BY <1>3, Zenon DEF Consistent
<1>5. Ascending(t)
  BY <1>3, ZenonT(30) DEF Ascending
<1>6. Adjacent(t)
  BY <1>3, Zenon DEF Adjacent
<1> QED BY <1>4, <1>5, <1>6 DEF t

\* In a complete stream every message is there to its end.
LEMMA WholeThere ==
    ASSUME NEW s \in Seq(Bytes), NEW messages, Consistent(s), Complete(s, messages),
           NEW k \in 1 .. Len(s)
    PROVE  k - s[k].at + Size(s[k].msg) <= Len(s)
<1> DEFINE n == Len(s)
<1>1. /\ s[k].at \in Nat \ {0} /\ Size(s[k].msg) \in Nat /\ k \in 1 .. n /\ n \in Nat
      /\ DOMAIN s = 1 .. n
  BY ByteFacts
<1> HIDE DEF n
<1>2. n \in 1 .. n /\ s[n].at = Size(s[n].msg)
  BY <1>1 DEF Complete, n
<1>3. s[k].at <= Size(s[k].msg)
  BY <1>1 DEF Consistent
<1>4. CASE n - k + s[k].at <= Size(s[k].msg)
  <2>1. 1 <= n - k + s[k].at
    BY <1>1
  <2>2. s[n] = [msg |-> s[k].msg, at |-> n - k + s[k].at]
    BY <1>1, <1>2, <1>4, <2>1 DEF Consistent
  <2>3. n - k + s[k].at = Size(s[k].msg)
    BY <1>2, <2>2
  <2> QED BY <1>1, <2>3 DEF n
<1>5. CASE ~(n - k + s[k].at <= Size(s[k].msg))
  BY <1>1, <1>5 DEF n
<1> QED BY <1>4, <1>5

\* A message that begins the stream is what it begins with.
LEMMA FirstMessage ==
    ASSUME NEW s \in Seq(Bytes), Consistent(s), Len(s) > 0, s[1].at = 1
    PROVE  \A i \in DOMAIN s : i <= Size(s[1].msg) => s[i] = [msg |-> s[1].msg, at |-> i]
<1>1. DOMAIN s = 1 .. Len(s) /\ Len(s) \in Nat
  BY SeqFacts
<1> SUFFICES ASSUME NEW i \in DOMAIN s, i <= Size(s[1].msg)
             PROVE  s[i] = [msg |-> s[1].msg, at |-> i]
  OBVIOUS
<1>2. i - 1 + s[1].at = i /\ 1 <= i /\ 1 \in DOMAIN s
  BY <1>1
<1> QED BY <1>2 DEF Consistent

\* The peer sends message m, with the next number, on a stream that is complete.
LEMMA StreamAppend ==
    ASSUME NEW s \in Seq(Bytes), NEW messages \in Seq(Messages), NEW m \in Messages,
           Consistent(s), Ascending(s), Adjacent(s), Complete(s, messages),
           m.id = Len(messages) + 1, \A k \in DOMAIN s : In(s[k].msg, messages)
    PROVE  /\ Consistent(s \o Message(m)) /\ Ascending(s \o Message(m))
           /\ Adjacent(s \o Message(m)) /\ Complete(s \o Message(m), Append(messages, m))
<1> DEFINE t == s \o Message(m)
           n == Len(s)
<1>1. /\ Message(m) \in Seq(Bytes) /\ Len(Message(m)) = Size(m)
      /\ \A i \in 1 .. Size(m) : Message(m)[i] = [msg |-> m, at |-> i]
  BY MessageIsBytes
<1>2. /\ t \in Seq(Bytes) /\ Len(t) = n + Size(m)
      /\ \A i \in 1 .. n : t[i] = s[i]
      /\ \A i \in 1 .. Size(m) : t[n + i] = [msg |-> m, at |-> i]
  <2>1. Message(m) \in Seq(Bytes)
    BY <1>1
  <2>2. /\ t \in Seq(Bytes) /\ Len(t) = n + Len(Message(m))
        /\ \A i \in 1 .. n : t[i] = s[i]
        /\ \A i \in 1 .. Len(Message(m)) : t[n + i] = Message(m)[i]
    BY <2>1, ConcatFacts
  <2> QED BY <1>1, <2>2
<1>3. n \in Nat /\ Size(m) \in Nat /\ Size(m) >= HeaderSize /\ HeaderSize \in Nat \ {0}
  BY ByteFacts, SizeIsNat, SizeAssumption
<1>4. DOMAIN t = 1 .. n + Size(m) /\ DOMAIN s = 1 .. n
  BY <1>2, ByteFacts
<1>5. \A k \in 1 .. n : /\ t[k] = s[k] /\ s[k] = [msg |-> s[k].msg, at |-> s[k].at]
                        /\ s[k].msg.id \in Nat /\ s[k].msg.id < m.id
                        /\ s[k].at \in Nat \ {0} /\ Size(s[k].msg) \in Nat
  <2>1. Len(messages) \in Nat /\ DOMAIN messages = 1 .. Len(messages)
    BY SeqFacts
  <2>2. \A k \in 1 .. n : s[k].msg.id \in 1 .. Len(messages)
    BY <1>4, <2>1 DEF In
  <2> QED BY <1>2, <2>1, <2>2, ByteFacts
<1>6. \A k \in DOMAIN t : k > n => /\ k - n \in 1 .. Size(m) /\ t[k] = [msg |-> m, at |-> k - n]
                                   /\ t[k].msg = m /\ t[k].at = k - n
  <2> SUFFICES ASSUME NEW k \in DOMAIN t, k > n
               PROVE  /\ k - n \in 1 .. Size(m) /\ t[k] = [msg |-> m, at |-> k - n]
                      /\ t[k].msg = m /\ t[k].at = k - n
    BY Zenon
  <2>1. k - n \in 1 .. Size(m) /\ n + (k - n) = k
    BY <1>3, <1>4
  <2>2. t[k] = [msg |-> m, at |-> k - n]
    BY <1>2, <2>1
  <2> QED BY <2>1, <2>2
<1>7. \A k \in 1 .. n : k - s[k].at + Size(s[k].msg) <= n
  BY WholeThere
<1> HIDE DEF t, n
<1>8. Consistent(t)
  <2> SUFFICES ASSUME NEW k \in DOMAIN t
               PROVE  /\ t[k].at <= Size(t[k].msg)
                      /\ \A j \in DOMAIN t :
                            1 <= j - k + t[k].at /\ j - k + t[k].at <= Size(t[k].msg) =>
                               t[j] = [msg |-> t[k].msg, at |-> j - k + t[k].at]
    BY DEF Consistent
  <2>1. CASE k <= n
    <3>1. k \in 1 .. n /\ t[k] = s[k]
      BY <1>3, <1>4, <1>5, <2>1
    <3>2. t[k].at <= Size(t[k].msg)
      BY <1>4, <3>1 DEF Consistent
    <3>3. ASSUME NEW j \in DOMAIN t,
                 1 <= j - k + t[k].at, j - k + t[k].at <= Size(t[k].msg)
          PROVE  t[j] = [msg |-> t[k].msg, at |-> j - k + t[k].at]
      <4>1. j \in 1 .. n
        <5>1. k - t[k].at + Size(t[k].msg) <= n /\ t[k].at \in Nat /\ Size(t[k].msg) \in Nat
          BY <1>5, <1>7, <3>1
        <5> QED BY <1>3, <1>4, <3>1, <3>3, <5>1
      <4>2. s[j] = [msg |-> s[k].msg, at |-> j - k + s[k].at]
        BY <1>4, <3>1, <3>3, <4>1 DEF Consistent
      <4> QED BY <1>5, <3>1, <4>1, <4>2
    <3> QED BY <3>2, <3>3
  <2>2. CASE k > n
    <3>1. k - n \in 1 .. Size(m) /\ t[k].msg = m /\ t[k].at = k - n
      BY <1>6, <2>2
    <3>2. ASSUME NEW j \in DOMAIN t,
                 1 <= j - k + t[k].at, j - k + t[k].at <= Size(t[k].msg)
          PROVE  t[j] = [msg |-> t[k].msg, at |-> j - k + t[k].at]
      <4>1. j > n /\ j - k + t[k].at = j - n
        BY <1>3, <1>4, <3>1, <3>2
      <4> QED BY <1>6, <3>1, <4>1
    <3> QED BY <1>3, <3>1, <3>2
  <2> QED BY <1>3, <1>4, <2>1, <2>2
<1>9. Ascending(t)
  <2> SUFFICES ASSUME NEW j \in DOMAIN t, NEW k \in DOMAIN t, j < k
               PROVE  \/ t[j].msg.id < t[k].msg.id
                      \/ t[j].msg = t[k].msg /\ t[k].at - t[j].at = k - j
    BY DEF Ascending
  <2>1. CASE k <= n
    <3>1. j \in 1 .. n /\ k \in 1 .. n
      BY <1>3, <1>4, <2>1
    <3> QED BY <1>4, <1>5, <3>1, SMTT(30) DEF Ascending
  <2>2. CASE j <= n /\ k > n
    <3>1. j \in 1 .. n
      BY <1>3, <1>4, <2>2
    <3> QED BY <1>5, <1>6, <2>2, <3>1
  <2>3. CASE j > n
    <3>1. t[j].msg = m /\ t[j].at = j - n /\ t[k].msg = m /\ t[k].at = k - n
      BY <1>3, <1>4, <1>6, <2>3
    <3> QED BY <1>3, <1>4, <3>1
  <2> QED BY <1>3, <1>4, <2>1, <2>2, <2>3
<1>10. Adjacent(t)
  <2> SUFFICES ASSUME NEW k \in DOMAIN t, k + 1 \in DOMAIN t, t[k].at = Size(t[k].msg)
               PROVE  t[k + 1].at = 1 /\ t[k + 1].msg.id = t[k].msg.id + 1
    BY DEF Adjacent
  <2>1. CASE k < n
    <3>1. k \in 1 .. n /\ k + 1 \in 1 .. n
      BY <1>3, <1>4, <2>1
    <3> QED BY <1>4, <1>5, <3>1 DEF Adjacent
  <2>2. CASE k = n
    <3>1. k \in 1 .. n /\ t[k] = s[n] /\ n > 0 /\ k + 1 > n /\ (k + 1) - n = 1
      BY <1>3, <1>4, <1>5, <2>2
    <3>2. t[k + 1].msg = m /\ t[k + 1].at = 1
      BY <1>6, <3>1
    <3>3. s[n].msg.id = Len(messages)
      BY <3>1 DEF Complete, n
    <3> QED BY <3>1, <3>2, <3>3
  <2>3. CASE k > n
    <3>1. k + 1 > n /\ (k + 1) - n \in 1 .. Size(m) /\ k - n \in 1 .. Size(m) /\ k - n = Size(m)
      BY <1>3, <1>4, <1>6, <2>3
    <3> QED BY <1>3, <1>4, <3>1
  <2> QED BY <1>3, <1>4, <2>1, <2>2, <2>3
<1>11. Complete(t, Append(messages, m))
  <2>1. Len(Append(messages, m)) = m.id
    BY AppendProperties
  <2>2. Len(t) \in DOMAIN t /\ Len(t) > n /\ Len(t) - n = Size(m)
    BY <1>2, <1>3, <1>4 DEF n
  <2>3. t[Len(t)].msg = m /\ t[Len(t)].at = Size(m)
    BY <1>6, <2>2
  <2> QED BY <2>1, <2>3 DEF Complete
<1> QED BY <1>8, <1>9, <1>10, <1>11 DEF t

-----------------------------------------------------------------------------
(* Type correctness.                                                           *)

Received == [msg : Messages, bytes : Seq(Bytes)]

LEMMA NoneIsNoMessage == None \notin Messages /\ None.id = 0
BY DEF None, Messages

LEMMA NewMessageType ==
    ASSUME NEW command \in Commands, NEW length \in Nat, NEW expects \in BOOLEAN, NEW to \in Nat,
           sent \in Seq(Messages)
    PROVE  /\ NewMessage(command, length, expects, to) \in Messages
           /\ NewMessage(command, length, expects, to).id = Len(sent) + 1
           /\ NewMessage(command, length, expects, to).to = to
BY DEF NewMessage, Messages

LEMMA PeerMessageType ==
    ASSUME NEW command \in Commands, NEW length \in Nat, NEW expects \in BOOLEAN, NEW to \in Nat,
           peerSent \in Seq(Messages)
    PROVE  /\ PeerMessage(command, length, expects, to) \in Messages
           /\ PeerMessage(command, length, expects, to).id = Len(peerSent) + 1
           /\ PeerMessage(command, length, expects, to).to = to
           /\ PeerMessage(command, length, expects, to).command = command
BY DEF PeerMessage, Messages

\* What is written is one message of the client's, and what arrives one of the
\* peer's; every action leaves the rest of the two streams alone or shortens it.
LEMMA HeaderWritten ==
    ASSUME TypeOK, NEW m \in Messages, WriteHeader(m)
    PROVE  /\ toPeer' \in Seq(Bytes) /\ sent' \in Seq(Messages) /\ overlap' \in BOOLEAN
           /\ Len(toPeer') = Len(toPeer) + HeaderSize
           /\ \A k \in 1 .. Len(toPeer) : toPeer'[k] = toPeer[k]
           /\ \A k \in 1 .. HeaderSize : toPeer'[Len(toPeer) + k] = [msg |-> m, at |-> k]
           /\ Len(sent') = Len(sent) + 1 /\ sent'[Len(sent) + 1] = m
           /\ \A i \in 1 .. Len(sent) : sent'[i] = sent[i]
<1>1. toPeer \in Seq(Bytes) /\ sent \in Seq(Messages) /\ overlap \in BOOLEAN
  BY Zenon DEF TypeOK
<1>2. toPeer' = toPeer \o HeaderBytes(m) /\ sent' = Append(sent, m) /\ overlap' \in BOOLEAN
  BY <1>1, Zenon DEF WriteHeader, BetweenWrites
<1>3. /\ HeaderBytes(m) \in Seq(Bytes) /\ Len(HeaderBytes(m)) = HeaderSize
      /\ \A i \in 1 .. HeaderSize : HeaderBytes(m)[i] = [msg |-> m, at |-> i]
  BY HeaderIsBytes
<1>4. /\ toPeer' \in Seq(Bytes) /\ Len(toPeer') = Len(toPeer) + Len(HeaderBytes(m))
      /\ \A k \in 1 .. Len(toPeer) : toPeer'[k] = toPeer[k]
      /\ \A k \in 1 .. Len(HeaderBytes(m)) : toPeer'[Len(toPeer) + k] = HeaderBytes(m)[k]
  <2>1. HeaderBytes(m) \in Seq(Bytes)
    BY <1>3
  <2> QED BY <1>1, <1>2, <2>1, ConcatFacts
<1>5. /\ sent' \in Seq(Messages) /\ Len(sent') = Len(sent) + 1 /\ sent'[Len(sent) + 1] = m
      /\ \A i \in 1 .. Len(sent) : sent'[i] = sent[i]
  BY <1>1, <1>2, AppendProperties
<1> QED BY <1>2, <1>3, <1>4, <1>5

LEMMA PayloadWritten ==
    ASSUME TypeOK, NEW m \in Messages, WritePayload(m)
    PROVE  /\ toPeer' \in Seq(Bytes) /\ sent' = sent /\ overlap' = overlap
           /\ Len(toPeer') = Len(toPeer) + m.length
           /\ \A k \in 1 .. Len(toPeer) : toPeer'[k] = toPeer[k]
           /\ \A k \in 1 .. m.length :
                 toPeer'[Len(toPeer) + k] = [msg |-> m, at |-> HeaderSize + k]
<1>1. toPeer \in Seq(Bytes)
  BY Zenon DEF TypeOK
<1>2. toPeer' = toPeer \o BodyBytes(m) /\ sent' = sent /\ overlap' = overlap
  BY Zenon DEF WritePayload
<1>3. /\ BodyBytes(m) \in Seq(Bytes) /\ Len(BodyBytes(m)) = m.length
      /\ \A i \in 1 .. m.length : BodyBytes(m)[i] = [msg |-> m, at |-> HeaderSize + i]
  BY BodyIsBytes
<1>4. /\ toPeer' \in Seq(Bytes) /\ Len(toPeer') = Len(toPeer) + Len(BodyBytes(m))
      /\ \A k \in 1 .. Len(toPeer) : toPeer'[k] = toPeer[k]
      /\ \A k \in 1 .. Len(BodyBytes(m)) : toPeer'[Len(toPeer) + k] = BodyBytes(m)[k]
  <2>1. BodyBytes(m) \in Seq(Bytes)
    BY <1>3
  <2> QED BY <1>1, <1>2, <2>1, ConcatFacts
<1> QED BY <1>2, <1>3, <1>4

LEMMA PeerWritten ==
    ASSUME TypeOK, NEW m \in Messages, PeerWrites(m)
    PROVE  /\ toClient' \in Seq(Bytes) /\ peerSent' \in Seq(Messages)
           /\ Len(toClient') = Len(toClient) + Size(m)
           /\ \A k \in 1 .. Len(toClient) : toClient'[k] = toClient[k]
           /\ \A k \in 1 .. Size(m) : toClient'[Len(toClient) + k] = [msg |-> m, at |-> k]
           /\ Len(peerSent') = Len(peerSent) + 1 /\ peerSent'[Len(peerSent) + 1] = m
           /\ \A i \in 1 .. Len(peerSent) : peerSent'[i] = peerSent[i]
<1>1. toClient \in Seq(Bytes) /\ peerSent \in Seq(Messages)
  BY Zenon DEF TypeOK
<1>2. toClient' = toClient \o Message(m) /\ peerSent' = Append(peerSent, m)
  BY Zenon DEF PeerWrites
<1>3. /\ Message(m) \in Seq(Bytes) /\ Len(Message(m)) = Size(m)
      /\ \A i \in 1 .. Size(m) : Message(m)[i] = [msg |-> m, at |-> i]
  BY MessageIsBytes
<1>4. /\ toClient' \in Seq(Bytes) /\ Len(toClient') = Len(toClient) + Len(Message(m))
      /\ \A k \in 1 .. Len(toClient) : toClient'[k] = toClient[k]
      /\ \A k \in 1 .. Len(Message(m)) : toClient'[Len(toClient) + k] = Message(m)[k]
  <2>1. Message(m) \in Seq(Bytes)
    BY <1>3
  <2> QED BY <1>1, <1>2, <2>1, ConcatFacts
<1>5. /\ peerSent' \in Seq(Messages) /\ Len(peerSent') = Len(peerSent) + 1
      /\ peerSent'[Len(peerSent) + 1] = m
      /\ \A i \in 1 .. Len(peerSent) : peerSent'[i] = peerSent[i]
  BY <1>1, <1>2, AppendProperties
<1> QED BY <1>3, <1>4, <1>5

\* The first HeaderSize bytes parse: they are a header, and its message is known.
LEMMA HeaderRead ==
    ASSUME TypeOK, HeaderArrived
    PROVE  /\ toClient[1].msg \in Messages
           /\ Drop(toClient, HeaderSize) \in Seq(Bytes)
           /\ Len(Drop(toClient, HeaderSize)) = Len(toClient) - HeaderSize
           /\ \A i \in 1 .. Len(toClient) - HeaderSize :
                 Drop(toClient, HeaderSize)[i] = toClient[i + HeaderSize]
           /\ NewHeaderFromBytes(Take(toClient, HeaderSize)) <=>
                 /\ \A i \in 1 .. HeaderSize : toClient[i] = [msg |-> toClient[1].msg, at |-> i]
                 /\ toClient[1].msg.command # "unknown"
<1>1. toClient \in Seq(Bytes) /\ Len(toClient) >= HeaderSize /\ HeaderSize \in Nat
  BY SizeAssumption DEF TypeOK, HeaderArrived
<1>2. /\ toClient[1].msg \in Messages /\ 1 \in 1 .. HeaderSize
      /\ Take(toClient, HeaderSize)[1] = toClient[1]
      /\ IsHeader(Take(toClient, HeaderSize)) <=>
            \A i \in 1 .. HeaderSize : toClient[i] = [msg |-> toClient[1].msg, at |-> i]
  BY <1>1, HeaderTaken
<1>3. Len(toClient) \in Nat /\ HeaderSize <= Len(toClient)
  BY <1>1, SeqFacts
<1>4. /\ Drop(toClient, HeaderSize) \in Seq(Bytes)
      /\ Len(Drop(toClient, HeaderSize)) = Len(toClient) - HeaderSize
      /\ \A i \in 1 .. Len(toClient) - HeaderSize :
            Drop(toClient, HeaderSize)[i] = toClient[i + HeaderSize]
  BY <1>1, <1>3, DropFacts
<1> QED BY <1>2, <1>4, Zenon DEF NewHeaderFromBytes, IsValidCommand

LEMMA BodyRead ==
    ASSUME TypeOK, BodyArrived, header \in Messages
    PROVE  /\ Drop(toClient, header.length) \in Seq(Bytes)
           /\ Len(Drop(toClient, header.length)) = Len(toClient) - header.length
           /\ \A i \in 1 .. Len(toClient) - header.length :
                 Drop(toClient, header.length)[i] = toClient[i + header.length]
           /\ Take(toClient, header.length) \in Seq(Bytes)
           /\ Len(Take(toClient, header.length)) = header.length
           /\ \A i \in 1 .. header.length : Take(toClient, header.length)[i] = toClient[i]
<1>1. toClient \in Seq(Bytes) /\ header.length \in Nat /\ header.length <= Len(toClient)
  BY SizeIsNat DEF TypeOK, BodyArrived
<1> QED BY <1>1, DropFacts, TakeFacts, ZenonT(30)

LEMMA LengthsAreNat ==
    /\ HeaderSize \in Nat \ {0} /\ HandshakeLength \in Nat /\ AnswerLength \in Nat
    /\ \A r \in Requests : /\ r.command \in Commands /\ r.length \in Nat
    /\ \A p \in PeerMessages : /\ p.command \in Commands /\ p.length \in Nat /\ p.expects \in BOOLEAN
                               /\ p.command # "Handshake"
    /\ "Handshake" \in Commands
BY SizeAssumption, MessageAssumption DEF Commands

LEMMA MessageFields ==
    \A m \in Messages : /\ m.command \in Commands /\ m.id \in Nat \ {0} /\ m.length \in Nat
                        /\ m.to \in Nat /\ m.expects \in BOOLEAN
BY DEF Messages

LEMMA InitTypes == Init => TypeOK
<1>1. /\ \A S : <<>> \in Seq(S)
      /\ None \in Slots /\ "start" \in MainStates /\ "start" \notin Holding
      /\ [c \in Callers |-> None] \in [Callers -> Slots]
  BY EmptySeq DEF Slots, MainStates, Holding
<1> QED BY <1>1, Zenon DEF Init, TypeOK

\* Which message each write is of.
LEMMA WritesOf ==
    ASSUME TypeOK
    PROVE  /\ HandshakeWritesHeader =>
                 /\ header' \in Messages /\ header'.id = Len(sent) + 1 /\ WriteHeader(header')
           /\ AnswerWritesHeader =>
                 /\ header' \in Messages /\ header'.id = Len(sent) + 1 /\ WriteHeader(header')
           /\ \A c \in Callers : RequestWritesHeader(c) =>
                 /\ writing'[c] \in Messages /\ writing'[c].id = Len(sent) + 1
                 /\ WriteHeader(writing'[c]) /\ writing' = [writing EXCEPT ![c] = writing'[c]]
           /\ PeerSends =>
                 \E m \in Messages : m.id = Len(peerSent) + 1 /\ PeerWrites(m) /\ m.command # "Handshake"
           /\ PeerAnswers =>
                 \E m \in Messages : /\ m.id = Len(peerSent) + 1 /\ PeerWrites(m)
                                     /\ \E n \in ToSet(peerGot) : m.to = n.id /\ m.command = n.command
<1>1. sent \in Seq(Messages) /\ peerSent \in Seq(Messages) /\ peerGot \in Seq(Messages)
  BY Zenon DEF TypeOK
<1>2. HandshakeWritesHeader =>
         header' \in Messages /\ header'.id = Len(sent) + 1 /\ WriteHeader(header')
  <2>1. "Handshake" \in Commands /\ HandshakeLength \in Nat
    BY LengthsAreNat
  <2>2. /\ NewMessage("Handshake", HandshakeLength, TRUE, 0) \in Messages
        /\ NewMessage("Handshake", HandshakeLength, TRUE, 0).id = Len(sent) + 1
    BY <1>1, <2>1, NewMessageType, 0 \in Nat, TRUE \in BOOLEAN
  <2> QED BY <2>2, Zenon DEF HandshakeWritesHeader
<1>3. ASSUME AnswerWritesHeader
      PROVE  header' \in Messages /\ header'.id = Len(sent) + 1 /\ WriteHeader(header')
  <2>1. header \in Messages
    BY <1>3, Zenon DEF AnswerWritesHeader, TypeOK, Holding
  <2>2. header.command \in Commands /\ header.id \in Nat
    BY <2>1, MessageFields
  <2> QED BY <1>1, <1>3, <2>2, LengthsAreNat, NewMessageType, FALSE \in BOOLEAN DEF AnswerWritesHeader
<1>4. ASSUME NEW c \in Callers, RequestWritesHeader(c)
      PROVE  /\ writing'[c] \in Messages /\ writing'[c].id = Len(sent) + 1
             /\ WriteHeader(writing'[c]) /\ writing' = [writing EXCEPT ![c] = writing'[c]]
  <2>1. PICK r \in Requests :
           LET m == NewMessage(r.command, r.length, r.command # "NotifyRequestChain", 0)
           IN  WriteHeader(m) /\ writing' = [writing EXCEPT ![c] = m]
    BY <1>4, Zenon DEF RequestWritesHeader
  <2> DEFINE m == NewMessage(r.command, r.length, r.command # "NotifyRequestChain", 0)
  <2>2. r.command \in Commands /\ r.length \in Nat /\ (r.command # "NotifyRequestChain") \in BOOLEAN
    BY LengthsAreNat
  <2>3. m \in Messages /\ m.id = Len(sent) + 1
    BY <1>1, <2>2, NewMessageType, 0 \in Nat
  <2>4. writing \in [Callers -> Slots]
    BY Zenon DEF TypeOK
  <2>5. WriteHeader(m) /\ writing' = [writing EXCEPT ![c] = m]
    BY <2>1
  <2> HIDE DEF m
  <2>6. writing'[c] = m
    BY <2>4, <2>5
  <2> QED BY <2>3, <2>5, <2>6, Zenon
<1>5. ASSUME PeerSends
      PROVE  \E m \in Messages : m.id = Len(peerSent) + 1 /\ PeerWrites(m) /\ m.command # "Handshake"
  <2>1. PICK p \in PeerMessages : PeerWrites(PeerMessage(p.command, p.length, p.expects, 0))
    BY <1>5, Zenon DEF PeerSends
  <2>2. /\ p.command \in Commands /\ p.length \in Nat /\ p.expects \in BOOLEAN
        /\ p.command # "Handshake"
    BY LengthsAreNat
  <2> DEFINE m == PeerMessage(p.command, p.length, p.expects, 0)
  <2>3. m \in Messages /\ m.id = Len(peerSent) + 1 /\ m.command = p.command
    BY <1>1, <2>2, PeerMessageType, 0 \in Nat
  <2> QED BY <2>1, <2>2, <2>3, Zenon
<1>6. ASSUME PeerAnswers
      PROVE  \E m \in Messages : /\ m.id = Len(peerSent) + 1 /\ PeerWrites(m)
                                 /\ \E n \in ToSet(peerGot) : m.to = n.id /\ m.command = n.command
  <2>1. PICK n \in ToAnswer : PeerWrites(PeerMessage(n.command, AnswerLength, FALSE, n.id))
    BY <1>6, Zenon DEF PeerAnswers
  <2>2. n \in ToSet(peerGot) /\ n \in Messages
    BY <1>1, SeqFacts DEF ToAnswer, ToSet
  <2>3. n.command \in Commands /\ n.id \in Nat
    BY <2>2, MessageFields
  <2> DEFINE m == PeerMessage(n.command, AnswerLength, FALSE, n.id)
  <2>4. m \in Messages /\ m.id = Len(peerSent) + 1 /\ m.to = n.id /\ m.command = n.command
    <3>1. AnswerLength \in Nat /\ FALSE \in BOOLEAN
      BY LengthsAreNat
    <3>2. Len(peerSent) \in Nat
      BY <1>1, SeqFacts
    <3> QED BY <2>3, <3>1, <3>2 DEF PeerMessage, Messages
  <2> QED BY <2>1, <2>2, <2>4, Zenon
<1> QED BY <1>2, <1>3, <1>4, <1>5, <1>6, Zenon

LEMMA NextTypes == TypeOK /\ [Next]_vars => TypeOK'
<1> SUFFICES ASSUME TypeOK, [Next]_vars PROVE TypeOK'
  OBVIOUS
<1> USE DEF MainStates, Holding
<1>1. CASE HandshakeWritesHeader
  <2>1. /\ header' \in Messages /\ header' \in Slots
        /\ toPeer' \in Seq(Bytes) /\ sent' \in Seq(Messages) /\ overlap' \in BOOLEAN
    BY <1>1, WritesOf, HeaderWritten DEF Slots
  <2> QED BY <1>1, <2>1, Zenon DEF HandshakeWritesHeader, TypeOK, peerVars
<1>2. CASE HandshakeWritesPayload
  <2>1. header \in Messages
    BY <1>2, Zenon DEF HandshakeWritesPayload, TypeOK
  <2>2. /\ toPeer' \in Seq(Bytes) /\ sent' \in Seq(Messages) /\ overlap' \in BOOLEAN
        /\ None \in Slots
    BY <1>2, <2>1, PayloadWritten, Zenon DEF HandshakeWritesPayload, TypeOK, Slots
  <2> QED BY <1>2, <2>2, Zenon DEF HandshakeWritesPayload, TypeOK, peerVars
<1>3. CASE AnswerWritesHeader
  <2>1. /\ header' \in Messages /\ header' \in Slots
        /\ toPeer' \in Seq(Bytes) /\ sent' \in Seq(Messages) /\ overlap' \in BOOLEAN
    BY <1>3, WritesOf, HeaderWritten DEF Slots
  <2> QED BY <1>3, <2>1, Zenon DEF AnswerWritesHeader, TypeOK, peerVars
<1>4. CASE AnswerWritesPayload
  <2>1. header \in Messages
    BY <1>4, Zenon DEF AnswerWritesPayload, TypeOK
  <2>2. /\ toPeer' \in Seq(Bytes) /\ sent' \in Seq(Messages) /\ overlap' \in BOOLEAN
        /\ None \in Slots
    BY <1>4, <2>1, PayloadWritten, Zenon DEF AnswerWritesPayload, TypeOK, Slots
  <2> QED BY <1>4, <2>2, Zenon DEF AnswerWritesPayload, TypeOK, peerVars
<1>5. ASSUME NEW c \in Callers, RequestWritesHeader(c) PROVE TypeOK'
  <2>1. writing'[c] \in Messages /\ WriteHeader(writing'[c])
        /\ writing' = [writing EXCEPT ![c] = writing'[c]]
    BY <1>5, WritesOf
  <2>2. toPeer' \in Seq(Bytes) /\ sent' \in Seq(Messages) /\ overlap' \in BOOLEAN
    BY <2>1, HeaderWritten
  <2>3. writing \in [Callers -> Slots] /\ writing'[c] \in Slots
    BY <2>1, Zenon DEF TypeOK, Slots
  <2>4. writing' \in [Callers -> Slots]
    BY <2>1, <2>3
  <2> QED BY <1>5, <2>2, <2>4, Zenon DEF RequestWritesHeader, TypeOK, peerVars
<1>6. ASSUME NEW c \in Callers, RequestWritesPayload(c) PROVE TypeOK'
  <2>1. writing \in [Callers -> Slots] /\ writing[c] # None /\ None \in Slots
    BY <1>6, Zenon DEF TypeOK, Slots, RequestWritesPayload
  <2>2. writing[c] \in Messages
    BY <2>1 DEF Slots
  <2>3. toPeer' \in Seq(Bytes) /\ sent' \in Seq(Messages) /\ overlap' \in BOOLEAN
    BY <1>6, <2>2, PayloadWritten, Zenon DEF RequestWritesPayload, TypeOK
  <2>4. writing' \in [Callers -> Slots]
    BY <1>6, <2>1 DEF RequestWritesPayload
  <2> QED BY <1>6, <2>3, <2>4, Zenon DEF RequestWritesPayload, TypeOK, peerVars
<1>7. ASSUME NEW c \in Callers, RequestFails(c) PROVE TypeOK'
  <2>1. writing \in [Callers -> Slots] /\ None \in Slots
    BY Zenon DEF TypeOK, Slots
  <2>2. writing' \in [Callers -> Slots]
    BY <1>7, <2>1 DEF RequestFails
  <2> QED BY <1>7, <2>2, Zenon DEF RequestFails, TypeOK, peerVars
<1>8. CASE HandshakeReadsHeader \/ ReadMessageHeader
  <2>1. toClient' \in Seq(Bytes) /\ toClient[1].msg \in Messages /\ toClient[1].msg \in Slots
    BY <1>8, HeaderRead DEF HandshakeReadsHeader, ReadMessageHeader, Slots
  <2>2. CASE HandshakeReadsHeader
    BY <2>1, <2>2, Zenon DEF HandshakeReadsHeader, ReadUnchanged, TypeOK, peerVars
  <2>3. CASE ReadMessageHeader
    BY <2>1, <2>3, Zenon DEF ReadMessageHeader, ReadUnchanged, TypeOK, peerVars
  <2> QED BY <1>8, <2>2, <2>3
<1>9. CASE HandshakeReadsBody
  <2>1. header \in Messages /\ header \in Slots /\ None \in Slots /\ BodyArrived
    BY <1>9, Zenon DEF HandshakeReadsBody, TypeOK, Slots
  <2>2. toClient' \in Seq(Bytes)
    BY <1>9, <2>1, BodyRead DEF HandshakeReadsBody
  <2>3. Append(dropped, header) \in Seq(Messages)
    <3>1. dropped \in Seq(Messages)
      BY Zenon DEF TypeOK
    <3> QED BY <2>1, <3>1, AppendProperties
  <2> QED BY <1>9, <2>1, <2>2, <2>3, Zenon DEF HandshakeReadsBody, ReadUnchanged, TypeOK, peerVars
<1>10. CASE ReadMessageBody
  <2>1. header \in Messages /\ BodyArrived /\ received \in Seq(Received)
    BY <1>10, Zenon DEF ReadMessageBody, TypeOK, Received
  <2>2. toClient' \in Seq(Bytes) /\ Take(toClient, header.length) \in Seq(Bytes)
    BY <1>10, <2>1, BodyRead DEF ReadMessageBody
  <2> DEFINE r == [msg |-> header, bytes |-> HeaderBytes(header) \o Take(toClient, header.length)]
  <2>3. HeaderBytes(header) \in Seq(Bytes)
    BY <2>1, HeaderIsBytes
  <2>4. HeaderBytes(header) \o Take(toClient, header.length) \in Seq(Bytes)
    BY <2>2, <2>3, ConcatProperties
  <2>5. r \in Received
    BY <2>1, <2>4 DEF Received
  <2>6. received' = Append(received, r)
    BY <1>10, Zenon DEF ReadMessageBody
  <2> HIDE DEF r
  <2>7. received' \in Seq(Received)
    BY <2>1, <2>5, <2>6, AppendProperties
  <2> QED BY <1>10, <2>2, <2>7, Zenon DEF ReadMessageBody, ReadUnchanged, TypeOK, Received, peerVars
<1>11. CASE MainFails
  BY <1>11, Zenon DEF MainFails, ReadUnchanged, TypeOK, peerVars
<1>12. CASE Close
  <2>1. <<>> \in Seq(Bytes)
    BY EmptySeq
  <2> QED BY <1>12, <2>1, Zenon DEF Close, TypeOK, clientVars, peerVars
<1>13. CASE PeerSends \/ PeerAnswers
  <2>1. PICK m \in Messages : PeerWrites(m)
    BY <1>13, WritesOf, Zenon
  <2>2. toClient' \in Seq(Bytes) /\ peerSent' \in Seq(Messages)
    BY <2>1, PeerWritten
  <2> QED BY <1>13, <2>2, Zenon DEF PeerSends, PeerAnswers, TypeOK, clientVars
<1>14. CASE PeerReads
  <2>1. /\ UNCHANGED <<clientVars, toClient, peerSent, sent, received, dropped, overlap>>
        /\ Len(toPeer) >= HeaderSize
    BY <1>14, Zenon DEF PeerReads
  <2>2. toPeer \in Seq(Bytes) /\ peerGot \in Seq(Messages) /\ HeaderSize \in Nat \ {0}
    BY LengthsAreNat, Zenon DEF TypeOK
  <2>3. toPeer[1].msg \in Messages
    <3>1. 1 \in 1 .. Len(toPeer)
      BY <2>1, <2>2, SeqFacts
    <3> QED BY <2>2, <3>1, ByteFacts
  <2>4. /\ toPeer' \in Seq(Bytes) /\ peerGot' \in Seq(Messages)
        /\ closed' \in BOOLEAN /\ rejected' \in BOOLEAN
    <3> DEFINE m == toPeer[1].msg
               whole == Take(toPeer, HeaderSize) = HeaderBytes(m)
    <3>1. /\ whole => Len(toPeer) >= HeaderSize + m.length
          /\ IF whole /\ Take(toPeer, HeaderSize + m.length) = Message(m)
             THEN /\ toPeer' = Drop(toPeer, HeaderSize + m.length)
                  /\ peerGot' = Append(peerGot, m)
                  /\ UNCHANGED <<closed, rejected>>
             ELSE /\ closed' = TRUE /\ rejected' = TRUE
                  /\ UNCHANGED <<toPeer, peerGot>>
      BY <1>14, Zenon DEF PeerReads
    <3>2. CASE whole /\ Take(toPeer, HeaderSize + m.length) = Message(m)
      <4>1. HeaderSize + m.length \in Nat /\ HeaderSize + m.length <= Len(toPeer)
        BY <2>2, <2>3, <3>1, <3>2, SeqFacts, MessageFields
      <4>2. Drop(toPeer, HeaderSize + m.length) \in Seq(Bytes)
        BY <2>2, <4>1, DropFacts
      <4>3. Append(peerGot, m) \in Seq(Messages)
        BY <2>2, <2>3, AppendProperties
      <4> QED BY <3>1, <3>2, <4>2, <4>3, Zenon DEF TypeOK
    <3>3. CASE ~(whole /\ Take(toPeer, HeaderSize + m.length) = Message(m))
      BY <3>1, <3>3, Zenon DEF TypeOK
    <3> QED BY <3>2, <3>3
  <2> QED BY <2>1, <2>4, Zenon DEF TypeOK, clientVars
<1>15. CASE PeerCloses
  <2>1. PICK n \in 0 .. Len(toClient) : toClient' = Take(toClient, n)
    BY <1>15, Zenon DEF PeerCloses
  <2>2. toClient \in Seq(Bytes) /\ n \in Nat /\ n <= Len(toClient)
    <3>1. toClient \in Seq(Bytes)
      BY Zenon DEF TypeOK
    <3>2. Len(toClient) \in Nat
      BY <3>1, SeqFacts
    <3> QED BY <2>1, <3>1, <3>2
  <2>3. toClient' \in Seq(Bytes)
    BY <2>1, <2>2, TakeFacts
  <2> QED BY <1>15, <2>3, Zenon DEF PeerCloses, TypeOK, clientVars, peerVars
<1>16. CASE UNCHANGED vars
  BY <1>16, Zenon DEF vars, TypeOK, clientVars, peerVars
<1> QED
  BY <1>1, <1>2, <1>3, <1>4, <1>5, <1>6, <1>7, <1>8, <1>9, <1>10, <1>11, <1>12, <1>13, <1>14, <1>15,
     <1>16, Zenon DEF Next, Main, Caller

\* Types.
THEOREM Typing == Spec => []TypeOK
BY InitTypes, NextTypes, PTL DEF Spec

-----------------------------------------------------------------------------
(* Where messages come from.                                                   *)

LEMMA InLonger ==
    ASSUME NEW s \in Seq(Messages), NEW t \in Seq(Messages),
           Len(s) <= Len(t), \A i \in 1 .. Len(s) : t[i] = s[i], NEW m, In(m, s)
    PROVE  In(m, t)
<1>1. /\ DOMAIN s = 1 .. Len(s) /\ DOMAIN t = 1 .. Len(t) /\ Len(s) \in Nat /\ Len(t) \in Nat
  BY SeqFacts
<1> QED BY <1>1 DEF In

LEMMA HeaderOwn ==
    ASSUME TypeOK, ClientMessages, NEW m \in Messages, m.id = Len(sent) + 1, WriteHeader(m)
    PROVE  /\ \A i \in DOMAIN sent' : sent'[i].id = i
           /\ \A k \in DOMAIN toPeer' : In(toPeer'[k].msg, sent')
           /\ In(m, sent') /\ \A x : In(x, sent) => In(x, sent')
<1>1. /\ sent \in Seq(Messages) /\ sent' \in Seq(Messages)
      /\ toPeer \in Seq(Bytes) /\ toPeer' \in Seq(Bytes)
  BY HeaderWritten DEF TypeOK
<1>2. /\ Len(toPeer') = Len(toPeer) + HeaderSize
      /\ \A k \in 1 .. Len(toPeer) : toPeer'[k] = toPeer[k]
      /\ \A k \in 1 .. HeaderSize : toPeer'[Len(toPeer) + k] = [msg |-> m, at |-> k]
      /\ Len(sent') = Len(sent) + 1 /\ sent'[Len(sent) + 1] = m
      /\ \A i \in 1 .. Len(sent) : sent'[i] = sent[i]
  BY HeaderWritten
<1>3. /\ Len(sent) \in Nat /\ DOMAIN sent = 1 .. Len(sent) /\ DOMAIN sent' = 1 .. Len(sent')
      /\ Len(toPeer) \in Nat /\ DOMAIN toPeer = 1 .. Len(toPeer) /\ DOMAIN toPeer' = 1 .. Len(toPeer')
      /\ HeaderSize \in Nat
  BY <1>1, SeqFacts, LengthsAreNat
<1>4. \A i \in DOMAIN sent' : sent'[i].id = i
  <2> SUFFICES ASSUME NEW i \in DOMAIN sent' PROVE sent'[i].id = i
    OBVIOUS
  <2>1. i = Len(sent) + 1 \/ i \in DOMAIN sent
    BY <1>2, <1>3
  <2> QED BY <1>2, <1>3, <2>1 DEF ClientMessages
<1>5. In(m, sent')
  BY <1>2, <1>3 DEF In
<1>6. \A x : In(x, sent) => In(x, sent')
  <2>1. Len(sent) <= Len(sent')
    BY <1>2, <1>3
  <2> QED BY <1>1, <1>2, <2>1, InLonger
<1>7. ASSUME NEW k \in DOMAIN toPeer' PROVE In(toPeer'[k].msg, sent')
  <2>1. CASE k <= Len(toPeer)
    <3>1. k \in DOMAIN toPeer /\ toPeer'[k] = toPeer[k]
      BY <1>2, <1>3, <2>1
    <3> QED BY <1>6, <3>1 DEF ClientMessages
  <2>2. CASE k > Len(toPeer)
    <3>1. k - Len(toPeer) \in 1 .. HeaderSize /\ Len(toPeer) + (k - Len(toPeer)) = k
      BY <1>2, <1>3, <2>2
    <3>2. toPeer'[k] = [msg |-> m, at |-> k - Len(toPeer)]
      BY <1>2, <3>1
    <3> QED BY <1>5, <3>2
  <2> QED BY <1>3, <2>1, <2>2
<1> QED BY <1>4, <1>5, <1>6, <1>7

LEMMA PayloadOwn ==
    ASSUME TypeOK, ClientMessages, NEW m \in Messages, In(m, sent), WritePayload(m)
    PROVE  sent' = sent /\ \A k \in DOMAIN toPeer' : In(toPeer'[k].msg, sent)
<1>1. /\ sent' = sent /\ toPeer' \in Seq(Bytes) /\ toPeer \in Seq(Bytes)
      /\ Len(toPeer') = Len(toPeer) + m.length
      /\ \A k \in 1 .. Len(toPeer) : toPeer'[k] = toPeer[k]
      /\ \A k \in 1 .. m.length :
            toPeer'[Len(toPeer) + k] = [msg |-> m, at |-> HeaderSize + k]
  BY PayloadWritten DEF TypeOK
<1>2. /\ Len(toPeer) \in Nat /\ DOMAIN toPeer = 1 .. Len(toPeer) /\ DOMAIN toPeer' = 1 .. Len(toPeer')
      /\ m.length \in Nat
  BY <1>1, SeqFacts, MessageFields
<1>3. ASSUME NEW k \in DOMAIN toPeer' PROVE In(toPeer'[k].msg, sent)
  <2>1. CASE k <= Len(toPeer)
    <3>1. k \in DOMAIN toPeer /\ toPeer'[k] = toPeer[k]
      BY <1>1, <1>2, <2>1
    <3> QED BY <3>1 DEF ClientMessages
  <2>2. CASE k > Len(toPeer)
    <3>1. k - Len(toPeer) \in 1 .. m.length /\ Len(toPeer) + (k - Len(toPeer)) = k
      BY <1>1, <1>2, <2>2
    <3>2. toPeer'[k] = [msg |-> m, at |-> HeaderSize + (k - Len(toPeer))]
      BY <1>1, <3>1
    <3> QED BY <3>2
  <2> QED BY <1>2, <2>1, <2>2
<1> QED BY <1>1, <1>3

\* The peer takes a whole message off its stream, or hangs up on what is none.
LEMMA PeerReadsWhat ==
    ASSUME TypeOK, PeerReads
    PROVE  /\ toPeer[1].msg \in Messages /\ Len(toPeer) >= HeaderSize /\ ~closed
           /\ UNCHANGED <<clientVars, toClient, peerSent, sent, received, dropped, overlap>>
           /\ \/ /\ Size(toPeer[1].msg) <= Len(toPeer)
                 /\ \A i \in 1 .. Size(toPeer[1].msg) :
                       toPeer[i] = [msg |-> toPeer[1].msg, at |-> i]
                 /\ Len(toPeer') = Len(toPeer) - Size(toPeer[1].msg)
                 /\ \A i \in 1 .. Len(toPeer) - Size(toPeer[1].msg) :
                       toPeer'[i] = toPeer[i + Size(toPeer[1].msg)]
                 /\ Len(peerGot') = Len(peerGot) + 1 /\ peerGot'[Len(peerGot) + 1] = toPeer[1].msg
                 /\ \A i \in 1 .. Len(peerGot) : peerGot'[i] = peerGot[i]
                 /\ closed' = closed /\ rejected' = rejected
              \/ /\ ~ (/\ Size(toPeer[1].msg) <= Len(toPeer)
                       /\ \A i \in 1 .. Size(toPeer[1].msg) :
                             toPeer[i] = [msg |-> toPeer[1].msg, at |-> i])
                 /\ (\A i \in 1 .. HeaderSize : toPeer[i] = [msg |-> toPeer[1].msg, at |-> i]) =>
                       Size(toPeer[1].msg) <= Len(toPeer)
                 /\ closed' = TRUE /\ rejected' = TRUE /\ toPeer' = toPeer /\ peerGot' = peerGot
<1> DEFINE m == toPeer[1].msg
           whole == Take(toPeer, HeaderSize) = HeaderBytes(m)
<1>1. toPeer \in Seq(Bytes) /\ peerGot \in Seq(Messages) /\ HeaderSize \in Nat
  BY LengthsAreNat, Zenon DEF TypeOK
<1>2. /\ ~closed /\ Len(toPeer) >= HeaderSize
      /\ UNCHANGED <<clientVars, toClient, peerSent, sent, received, dropped, overlap>>
      /\ whole => Len(toPeer) >= HeaderSize + m.length
      /\ IF whole /\ Take(toPeer, HeaderSize + m.length) = Message(m)
         THEN /\ toPeer' = Drop(toPeer, HeaderSize + m.length)
              /\ peerGot' = Append(peerGot, m)
              /\ UNCHANGED <<closed, rejected>>
         ELSE /\ closed' = TRUE /\ rejected' = TRUE
              /\ UNCHANGED <<toPeer, peerGot>>
  BY Zenon DEF PeerReads
<1>3. /\ m \in Messages /\ 1 \in 1 .. HeaderSize
      /\ Take(toPeer, HeaderSize)[1] = toPeer[1]
      /\ IsHeader(Take(toPeer, HeaderSize)) <=>
            \A i \in 1 .. HeaderSize : toPeer[i] = [msg |-> m, at |-> i]
  BY <1>1, <1>2, HeaderTaken
<1>4. whole <=> \A i \in 1 .. HeaderSize : toPeer[i] = [msg |-> m, at |-> i]
  BY <1>3, Zenon DEF IsHeader
<1>5. Size(m) = HeaderSize + m.length /\ Size(m) \in Nat /\ Size(m) >= HeaderSize /\ Len(toPeer) \in Nat
  BY <1>1, <1>3, SizeIsNat, SeqFacts DEF Size
<1>6. ASSUME Size(m) <= Len(toPeer)
      PROVE  Take(toPeer, Size(m)) = Message(m) <=>
                \A i \in 1 .. Size(m) : toPeer[i] = [msg |-> m, at |-> i]
  <2>1. /\ Take(toPeer, Size(m)) \in Seq(Bytes) /\ Len(Take(toPeer, Size(m))) = Size(m)
        /\ \A i \in 1 .. Size(m) : Take(toPeer, Size(m))[i] = toPeer[i]
    BY <1>1, <1>5, <1>6, TakeFacts
  <2>2. /\ Message(m) \in Seq(Bytes) /\ Len(Message(m)) = Size(m)
        /\ \A i \in 1 .. Size(m) : Message(m)[i] = [msg |-> m, at |-> i]
    BY <1>3, MessageIsBytes
  <2>3. ASSUME \A i \in 1 .. Size(m) : toPeer[i] = [msg |-> m, at |-> i]
        PROVE  Take(toPeer, Size(m)) = Message(m)
    <3>1. \A i \in 1 .. Len(Take(toPeer, Size(m))) : Take(toPeer, Size(m))[i] = Message(m)[i]
      BY <2>1, <2>2, <2>3
    <3>2. Len(Take(toPeer, Size(m))) = Len(Message(m))
      BY <2>1, <2>2
    <3> QED BY <2>1, <2>2, <3>1, <3>2, SeqEqual
  <2> QED BY <2>1, <2>2, <2>3
<1>7. CASE whole /\ Take(toPeer, HeaderSize + m.length) = Message(m)
  <2>1. Size(m) <= Len(toPeer) /\ \A i \in 1 .. Size(m) : toPeer[i] = [msg |-> m, at |-> i]
    BY <1>2, <1>5, <1>6, <1>7
  <2>2. toPeer' = Drop(toPeer, Size(m)) /\ peerGot' = Append(peerGot, m) /\ UNCHANGED <<closed, rejected>>
    BY <1>2, <1>5, <1>7
  <2>3. /\ Len(Drop(toPeer, Size(m))) = Len(toPeer) - Size(m)
        /\ \A i \in 1 .. Len(toPeer) - Size(m) : Drop(toPeer, Size(m))[i] = toPeer[i + Size(m)]
    BY <1>1, <1>5, <2>1, DropFacts, ZenonT(30)
  <2>4. /\ Len(Append(peerGot, m)) = Len(peerGot) + 1 /\ Append(peerGot, m)[Len(peerGot) + 1] = m
        /\ \A i \in 1 .. Len(peerGot) : Append(peerGot, m)[i] = peerGot[i]
    BY <1>1, <1>3, AppendProperties
  <2> QED BY <1>2, <1>3, <2>1, <2>2, <2>3, <2>4, Zenon
<1>8. CASE ~(whole /\ Take(toPeer, HeaderSize + m.length) = Message(m))
  <2>1. closed' = TRUE /\ rejected' = TRUE /\ toPeer' = toPeer /\ peerGot' = peerGot
    BY <1>2, <1>8, Zenon
  <2>2. (\A i \in 1 .. HeaderSize : toPeer[i] = [msg |-> m, at |-> i]) => Size(m) <= Len(toPeer)
    BY <1>2, <1>4, <1>5
  <2>3. ~ (Size(m) <= Len(toPeer) /\ \A i \in 1 .. Size(m) : toPeer[i] = [msg |-> m, at |-> i])
    <3> SUFFICES ASSUME Size(m) <= Len(toPeer), \A i \in 1 .. Size(m) : toPeer[i] = [msg |-> m, at |-> i]
                 PROVE  FALSE
      OBVIOUS
    <3>1. \A i \in 1 .. HeaderSize : toPeer[i] = [msg |-> m, at |-> i]
      BY <1>1, <1>5
    <3> QED BY <1>4, <1>5, <1>6, <1>8, <3>1
  <2> QED BY <1>2, <1>3, <2>1, <2>2, <2>3, Zenon
<1> QED BY <1>7, <1>8

LEMMA InitClientMessages == Init => ClientMessages
<1> SUFFICES ASSUME Init PROVE ClientMessages
  OBVIOUS
<1>1. /\ sent = <<>> /\ toPeer = <<>> /\ peerGot = <<>> /\ main = "start"
      /\ writing = [c \in Callers |-> None]
  BY Zenon DEF Init
<1>2. DOMAIN sent = {} /\ DOMAIN toPeer = {} /\ DOMAIN peerGot = {}
  BY <1>1
<1>3. \A c \in Callers : writing[c] = None
  BY <1>1
<1> QED BY <1>1, <1>2, <1>3 DEF ClientMessages

\* The steps that write nothing and leave what main and the callers write alone.
LEMMA OwnUnchanged ==
    ASSUME ClientMessages, UNCHANGED <<sent, toPeer, peerGot, writing>>,
           main' \in {"hsPayload", "answerPayload"} => main' = main /\ header' = header
    PROVE  ClientMessages'
BY DEF ClientMessages, In

LEMMA NextClientMessages == TypeOK /\ ClientMessages /\ [Next]_vars => ClientMessages'
<1> SUFFICES ASSUME TypeOK, ClientMessages, [Next]_vars PROVE ClientMessages'
  OBVIOUS
<1>0. TypeOK'
  BY NextTypes
<1>1. CASE HandshakeWritesHeader \/ AnswerWritesHeader
  <2>1. header' \in Messages /\ header'.id = Len(sent) + 1 /\ WriteHeader(header')
    BY <1>1, WritesOf
  <2>2. /\ \A i \in DOMAIN sent' : sent'[i].id = i
        /\ \A k \in DOMAIN toPeer' : In(toPeer'[k].msg, sent')
        /\ In(header', sent') /\ \A x : In(x, sent) => In(x, sent')
    BY <2>1, HeaderOwn
  <2>3. writing' = writing /\ peerGot' = peerGot
    BY <1>1, Zenon DEF HandshakeWritesHeader, AnswerWritesHeader, peerVars
  <2>4. /\ \A i \in DOMAIN peerGot : In(peerGot[i], sent)
        /\ \A c \in Callers : writing[c] # None => In(writing[c], sent)
    BY Zenon DEF ClientMessages
  <2> QED BY <2>2, <2>3, <2>4, Zenon DEF ClientMessages, In
<1>2. ASSUME NEW c \in Callers, RequestWritesHeader(c) PROVE ClientMessages'
  <2>1. /\ writing'[c] \in Messages /\ writing'[c].id = Len(sent) + 1
        /\ WriteHeader(writing'[c]) /\ writing' = [writing EXCEPT ![c] = writing'[c]]
    BY <1>2, WritesOf
  <2>2. /\ \A i \in DOMAIN sent' : sent'[i].id = i
        /\ \A k \in DOMAIN toPeer' : In(toPeer'[k].msg, sent')
        /\ In(writing'[c], sent') /\ \A x : In(x, sent) => In(x, sent')
    BY <2>1, HeaderOwn
  <2>3. main' = main /\ header' = header /\ peerGot' = peerGot
    BY <1>2, Zenon DEF RequestWritesHeader, peerVars
  <2>4. \A d \in Callers : d # c => writing'[d] = writing[d]
    BY <2>1 DEF TypeOK
  <2>5. /\ \A i \in DOMAIN peerGot : In(peerGot[i], sent)
        /\ \A d \in Callers : writing[d] # None => In(writing[d], sent)
        /\ main \in {"hsPayload", "answerPayload"} => In(header, sent)
    BY Zenon DEF ClientMessages
  <2> QED BY <2>2, <2>3, <2>4, <2>5, Zenon DEF ClientMessages, In
<1>3. CASE HandshakeWritesPayload \/ AnswerWritesPayload
  <2>1. header \in Messages /\ In(header, sent) /\ WritePayload(header)
    BY <1>3, Zenon DEF HandshakeWritesPayload, AnswerWritesPayload, TypeOK, ClientMessages, Holding
  <2>2. sent' = sent /\ \A k \in DOMAIN toPeer' : In(toPeer'[k].msg, sent)
    BY <2>1, PayloadOwn
  <2>3. writing' = writing /\ peerGot' = peerGot /\ main' \in {"hsHeader", "ready"}
    BY <1>3, Zenon DEF HandshakeWritesPayload, AnswerWritesPayload, peerVars
  <2>4. main' # "hsPayload" /\ main' # "answerPayload"
    BY <2>3
  <2> QED BY <2>2, <2>3, <2>4, Zenon DEF ClientMessages, In
<1>4. ASSUME NEW c \in Callers, RequestWritesPayload(c) \/ RequestFails(c) PROVE ClientMessages'
  <2>1. /\ writing' = [writing EXCEPT ![c] = None] /\ main' = main /\ header' = header
        /\ peerGot' = peerGot /\ writing[c] # None /\ writing \in [Callers -> Slots]
    BY <1>4, Zenon DEF RequestWritesPayload, RequestFails, peerVars, TypeOK
  <2>2. \A d \in Callers : writing'[d] = (IF d = c THEN None ELSE writing[d])
    BY <2>1
  <2>3. sent' = sent /\ \A k \in DOMAIN toPeer' : In(toPeer'[k].msg, sent)
    <3>1. CASE RequestWritesPayload(c)
      <4>1. writing[c] \in Messages /\ In(writing[c], sent) /\ WritePayload(writing[c])
        BY <2>1, <3>1 DEF Slots, ClientMessages, RequestWritesPayload
      <4> QED BY <4>1, PayloadOwn
    <3>2. CASE RequestFails(c)
      BY <3>2, Zenon DEF RequestFails, ClientMessages
    <3> QED BY <1>4, <3>1, <3>2
  <2> QED BY <2>1, <2>2, <2>3, Zenon DEF ClientMessages, In
<1>5. CASE HandshakeReadsHeader \/ ReadMessageHeader \/ HandshakeReadsBody \/ ReadMessageBody
           \/ MainFails
  <2>1. UNCHANGED <<sent, toPeer, peerGot, writing>>
    BY <1>5, Zenon DEF HandshakeReadsHeader, ReadMessageHeader, HandshakeReadsBody,
                       ReadMessageBody, MainFails, ReadUnchanged, peerVars
  <2>2. main' \in {"hsBody", "failed", "ready", "hsHeader", "body", "answer"}
    BY <1>5, Zenon DEF HandshakeReadsHeader, ReadMessageHeader, HandshakeReadsBody,
                       ReadMessageBody, MainFails
  <2>3. main' # "hsPayload" /\ main' # "answerPayload"
    BY <2>2
  <2> QED BY <2>1, <2>3, OwnUnchanged
<1>6. CASE Close \/ PeerSends \/ PeerAnswers \/ PeerCloses \/ UNCHANGED vars
  BY <1>6, OwnUnchanged, Zenon DEF Close, PeerSends, PeerAnswers, PeerCloses, vars, clientVars,
                                   peerVars, PeerWrites
<1>7. CASE PeerReads
  <2> DEFINE m == toPeer[1].msg
  <2>1. /\ main' = main /\ header' = header /\ writing' = writing /\ sent' = sent
        /\ m \in Messages /\ Len(toPeer) >= HeaderSize
        /\ \/ /\ Size(m) <= Len(toPeer) /\ Len(toPeer') = Len(toPeer) - Size(m)
              /\ \A i \in 1 .. Len(toPeer) - Size(m) : toPeer'[i] = toPeer[i + Size(m)]
              /\ Len(peerGot') = Len(peerGot) + 1 /\ peerGot'[Len(peerGot) + 1] = m
              /\ \A i \in 1 .. Len(peerGot) : peerGot'[i] = peerGot[i]
           \/ toPeer' = toPeer /\ peerGot' = peerGot
    BY <1>7, PeerReadsWhat DEF clientVars
  <2>2. /\ Size(m) \in Nat /\ Len(toPeer) \in Nat /\ Len(toPeer') \in Nat
        /\ DOMAIN toPeer = 1 .. Len(toPeer) /\ DOMAIN toPeer' = 1 .. Len(toPeer')
        /\ Len(peerGot) \in Nat /\ DOMAIN peerGot = 1 .. Len(peerGot)
        /\ DOMAIN peerGot' = 1 .. Len(peerGot')
    <3>1. /\ toPeer \in Seq(Bytes) /\ toPeer' \in Seq(Bytes)
          /\ peerGot \in Seq(Messages) /\ peerGot' \in Seq(Messages)
      BY <1>0, Zenon DEF TypeOK
    <3> QED BY <2>1, <3>1, SeqFacts, SizeIsNat
  <2> HIDE DEF m
  <2>3. In(m, sent)
    <3>1. Len(toPeer) >= HeaderSize /\ Len(toPeer) \in Nat /\ DOMAIN toPeer = 1 .. Len(toPeer)
      BY <2>1, <2>2, Zenon
    <3>2. 1 \in DOMAIN toPeer
      BY <3>1, LengthsAreNat
    <3> QED BY <3>2 DEF ClientMessages, m
  <2>4. \A k \in DOMAIN toPeer' : In(toPeer'[k].msg, sent)
    <3>1. CASE toPeer' = toPeer
      BY <3>1 DEF ClientMessages
    <3>2. CASE toPeer' # toPeer
      <4>1. /\ Size(m) <= Len(toPeer) /\ Len(toPeer') = Len(toPeer) - Size(m)
            /\ \A i \in 1 .. Len(toPeer) - Size(m) : toPeer'[i] = toPeer[i + Size(m)]
        BY <2>1, <3>2, Zenon
      <4>2. \A k \in DOMAIN toPeer' : k + Size(m) \in DOMAIN toPeer /\ toPeer'[k] = toPeer[k + Size(m)]
        BY <2>2, <4>1
      <4> QED BY <4>2 DEF ClientMessages
    <3> QED BY <3>1, <3>2
  <2>5. \A i \in DOMAIN peerGot' : In(peerGot'[i], sent)
    <3>1. CASE peerGot' = peerGot
      BY <3>1 DEF ClientMessages
    <3>2. CASE peerGot' # peerGot
      <4>1. /\ Len(peerGot') = Len(peerGot) + 1 /\ peerGot'[Len(peerGot) + 1] = m
            /\ \A i \in 1 .. Len(peerGot) : peerGot'[i] = peerGot[i]
        BY <2>1, <3>2, Zenon
      <4>2. \A i \in DOMAIN peerGot' : peerGot'[i] = m \/ (i \in DOMAIN peerGot /\ peerGot'[i] = peerGot[i])
        BY <2>2, <4>1
      <4> QED BY <2>3, <4>2 DEF ClientMessages
    <3> QED BY <3>1, <3>2
  <2> QED BY <2>1, <2>4, <2>5, Zenon DEF ClientMessages, In
<1> QED BY <1>1, <1>2, <1>3, <1>4, <1>5, <1>6, <1>7, Zenon DEF Next, Main, Caller

\* Every byte and message of the client's side belongs to one message it began.
LEMMA AlwaysClientMessages == Spec => [](TypeOK /\ ClientMessages)
<1>1. Init => TypeOK /\ ClientMessages
  BY InitTypes, InitClientMessages
<1>2. (TypeOK /\ ClientMessages) /\ [Next]_vars => (TypeOK /\ ClientMessages)'
  BY NextTypes, NextClientMessages
<1> QED BY <1>1, <1>2, PTL DEF Spec

LEMMA InitPeersOwn == Init => PeersOwn
<1> SUFFICES ASSUME Init PROVE PeersOwn
  OBVIOUS
<1>1. /\ peerSent = <<>> /\ toClient = <<>> /\ main = "start" /\ node = None
  BY Zenon DEF Init
<1>2. DOMAIN peerSent = {} /\ DOMAIN toClient = {}
  BY <1>1
<1> QED BY <1>1, <1>2 DEF PeersOwn

\* The parts of PeersOwn, for the steps that change only some of them.
Answers(messages, got) ==
    \A i \in DOMAIN messages :
       /\ messages[i].id = i
       /\ messages[i].command = "Handshake" =>
             \E j \in DOMAIN got : got[j].id = messages[i].to /\ got[j].command = "Handshake"
AllIn(s, messages) == \A k \in DOMAIN s : In(s[k].msg, messages)

LEMMA PeersOwnParts ==
    PeersOwn <=> /\ Answers(peerSent, peerGot) /\ AllIn(toClient, peerSent)
                 /\ main \in {"hsBody", "body", "answer"} => In(header, peerSent)
                 /\ node # None => node.command = "Handshake" /\ In(node, peerSent)
BY Zenon DEF PeersOwn, Answers, AllIn

LEMMA DroppedOwn ==
    ASSUME NEW s \in Seq(Bytes), NEW n \in Nat, n <= Len(s), NEW messages, AllIn(s, messages)
    PROVE  AllIn(Drop(s, n), messages)
<1>1. /\ Drop(s, n) \in Seq(Bytes) /\ Len(Drop(s, n)) = Len(s) - n
      /\ \A i \in 1 .. Len(s) - n : Drop(s, n)[i] = s[i + n]
  BY DropFacts
<1>2. DOMAIN s = 1 .. Len(s) /\ DOMAIN Drop(s, n) = 1 .. Len(Drop(s, n)) /\ Len(s) \in Nat
  BY <1>1, SeqFacts
<1>3. \A k \in DOMAIN Drop(s, n) : k + n \in DOMAIN s /\ Drop(s, n)[k] = s[k + n]
  BY <1>1, <1>2
<1> QED BY <1>3 DEF AllIn

LEMMA TakenOwn ==
    ASSUME NEW s \in Seq(Bytes), NEW n \in Nat, n <= Len(s), NEW messages, AllIn(s, messages)
    PROVE  AllIn(Take(s, n), messages)
<1>1. /\ Take(s, n) \in Seq(Bytes) /\ Len(Take(s, n)) = n /\ \A i \in 1 .. n : Take(s, n)[i] = s[i]
  BY TakeFacts
<1>2. DOMAIN s = 1 .. Len(s) /\ DOMAIN Take(s, n) = 1 .. Len(Take(s, n)) /\ Len(s) \in Nat
  BY <1>1, SeqFacts
<1>3. \A k \in DOMAIN Take(s, n) : k \in DOMAIN s /\ Take(s, n)[k] = s[k]
  BY <1>1, <1>2
<1> QED BY <1>3 DEF AllIn

\* What the peer sends gets the next number; the streams it was sent on grow by it.
LEMMA PeerWrittenOwn ==
    ASSUME TypeOK, PeersOwn, NEW m \in Messages, m.id = Len(peerSent) + 1, PeerWrites(m),
           m.command = "Handshake" =>
              \E j \in DOMAIN peerGot : peerGot[j].id = m.to /\ peerGot[j].command = "Handshake"
    PROVE  /\ Answers(peerSent', peerGot) /\ AllIn(toClient', peerSent')
           /\ \A x : In(x, peerSent) => In(x, peerSent')
<1>1. /\ toClient' \in Seq(Bytes) /\ peerSent' \in Seq(Messages)
      /\ Len(toClient') = Len(toClient) + Size(m)
      /\ \A k \in 1 .. Len(toClient) : toClient'[k] = toClient[k]
      /\ \A k \in 1 .. Size(m) : toClient'[Len(toClient) + k] = [msg |-> m, at |-> k]
      /\ Len(peerSent') = Len(peerSent) + 1 /\ peerSent'[Len(peerSent) + 1] = m
      /\ \A i \in 1 .. Len(peerSent) : peerSent'[i] = peerSent[i]
  BY PeerWritten
<1>2. toClient \in Seq(Bytes) /\ peerSent \in Seq(Messages)
  BY Zenon DEF TypeOK
<1>3. /\ Len(peerSent) \in Nat /\ DOMAIN peerSent = 1 .. Len(peerSent)
      /\ DOMAIN peerSent' = 1 .. Len(peerSent') /\ Len(toClient) \in Nat
      /\ DOMAIN toClient = 1 .. Len(toClient) /\ DOMAIN toClient' = 1 .. Len(toClient')
      /\ Size(m) \in Nat
  BY <1>1, <1>2, SeqFacts, SizeIsNat
<1>4. \A x : In(x, peerSent) => In(x, peerSent')
  <2>1. Len(peerSent) <= Len(peerSent')
    BY <1>1, <1>3
  <2> QED BY <1>1, <1>2, <2>1, InLonger
<1>5. In(m, peerSent')
  BY <1>1, <1>3 DEF In
<1>6. Answers(peerSent', peerGot)
  <2>1. Answers(peerSent, peerGot)
    BY PeersOwnParts
  <2> SUFFICES ASSUME NEW i \in DOMAIN peerSent'
               PROVE  /\ peerSent'[i].id = i
                      /\ peerSent'[i].command = "Handshake" =>
                            \E j \in DOMAIN peerGot : /\ peerGot[j].id = peerSent'[i].to
                                                      /\ peerGot[j].command = "Handshake"
    BY DEF Answers
  <2>2. CASE i \in 1 .. Len(peerSent)
    <3>1. peerSent'[i] = peerSent[i] /\ i \in DOMAIN peerSent
      BY <1>1, <1>3, <2>2
    <3> QED BY <2>1, <3>1 DEF Answers
  <2>3. CASE i = Len(peerSent) + 1
    BY <1>1, <2>3
  <2> QED BY <1>1, <1>3, <2>2, <2>3
<1>7. AllIn(toClient', peerSent')
  <2>1. AllIn(toClient, peerSent)
    BY PeersOwnParts
  <2> SUFFICES ASSUME NEW k \in DOMAIN toClient' PROVE In(toClient'[k].msg, peerSent')
    BY DEF AllIn
  <2>2. CASE k <= Len(toClient)
    <3>1. k \in DOMAIN toClient /\ toClient'[k] = toClient[k]
      BY <1>1, <1>3, <2>2
    <3> QED BY <1>4, <2>1, <3>1 DEF AllIn
  <2>3. CASE k > Len(toClient)
    <3>1. k - Len(toClient) \in 1 .. Size(m) /\ Len(toClient) + (k - Len(toClient)) = k
      BY <1>1, <1>3, <2>3
    <3>2. toClient'[k] = [msg |-> m, at |-> k - Len(toClient)]
      BY <1>1, <3>1
    <3> QED BY <1>5, <3>2
  <2> QED BY <1>3, <2>2, <2>3
<1> QED BY <1>4, <1>6, <1>7

LEMMA NextPeersOwn == TypeOK /\ PeersOwn /\ [Next]_vars => PeersOwn'
<1> SUFFICES ASSUME TypeOK, PeersOwn, [Next]_vars PROVE PeersOwn'
  OBVIOUS
<1>0. /\ Answers(peerSent, peerGot) /\ AllIn(toClient, peerSent)
      /\ main \in {"hsBody", "body", "answer"} => In(header, peerSent)
      /\ node # None => node.command = "Handshake" /\ In(node, peerSent)
      /\ toClient \in Seq(Bytes) /\ peerGot \in Seq(Messages) /\ HeaderSize \in Nat \ {0}
  BY PeersOwnParts, LengthsAreNat, Zenon DEF TypeOK
<1> DEFINE Goal == /\ Answers(peerSent', peerGot') /\ AllIn(toClient', peerSent')
                   /\ main' \in {"hsBody", "body", "answer"} => In(header', peerSent')
                   /\ node' # None => node'.command = "Handshake" /\ In(node', peerSent')
<1> SUFFICES Goal
  BY Zenon DEF PeersOwn, Answers, AllIn, In
<1>1. CASE HandshakeWritesHeader \/ AnswerWritesHeader \/ HandshakeWritesPayload
           \/ AnswerWritesPayload \/ MainFails
  <2>1. /\ UNCHANGED <<peerSent, peerGot, toClient, node>>
        /\ main' \in {"hsPayload", "answerPayload", "hsHeader", "ready", "failed"}
    BY <1>1, Zenon DEF HandshakeWritesHeader, AnswerWritesHeader, HandshakeWritesPayload,
                       AnswerWritesPayload, MainFails, ReadUnchanged, peerVars
  <2>2. main' \notin {"hsBody", "body", "answer"}
    BY <2>1
  <2> QED BY <1>0, <2>1, <2>2, Zenon
<1>2. CASE (\E c \in Callers : RequestWritesHeader(c) \/ Caller(c)) \/ UNCHANGED vars
  BY <1>0, <1>2, Zenon DEF RequestWritesHeader, Caller, RequestWritesPayload, RequestFails, vars,
                           clientVars, peerVars
<1>3. CASE HandshakeReadsHeader \/ ReadMessageHeader
  <2>1. HeaderArrived /\ toClient' = Drop(toClient, HeaderSize) /\ UNCHANGED <<peerSent, peerGot, node>>
        /\ (header' = toClient[1].msg \/ main' \in {"failed", "ready"})
    BY <1>3, Zenon DEF HandshakeReadsHeader, ReadMessageHeader, ReadUnchanged, peerVars
  <2>2. HeaderSize <= Len(toClient) /\ 1 \in DOMAIN toClient
    <3>1. Len(toClient) >= HeaderSize /\ Len(toClient) \in Nat /\ DOMAIN toClient = 1 .. Len(toClient)
      BY <1>0, <2>1, SeqFacts DEF HeaderArrived
    <3> QED BY <1>0, <3>1
  <2>3. AllIn(toClient', peerSent)
    BY <1>0, <2>1, <2>2, DroppedOwn
  <2>4. In(toClient[1].msg, peerSent)
    BY <1>0, <2>2 DEF AllIn
  <2>5. main' \in {"failed", "ready"} => main' \notin {"hsBody", "body", "answer"}
    OBVIOUS
  <2> QED BY <1>0, <2>1, <2>3, <2>4, <2>5, Zenon
<1>4. CASE HandshakeReadsBody
  <2>1. /\ BodyArrived /\ main = "hsBody" /\ header \in Messages
        /\ toClient' = Drop(toClient, header.length) /\ UNCHANGED <<peerSent, peerGot>>
        /\ main' \in {"ready", "hsHeader"}
        /\ (node' = node \/ (node' = header /\ header.command = "Handshake"))
    BY <1>4, Zenon DEF HandshakeReadsBody, IsAnswer, ReadUnchanged, peerVars, TypeOK, Holding
  <2>2. header.length \in Nat /\ header.length <= Len(toClient)
    BY <1>0, <2>1, MessageFields, SeqFacts DEF BodyArrived
  <2>3. AllIn(toClient', peerSent)
    BY <1>0, <2>1, <2>2, DroppedOwn
  <2>4. main' \notin {"hsBody", "body", "answer"} /\ main \in {"hsBody", "body", "answer"}
    BY <2>1
  <2> QED BY <1>0, <2>1, <2>3, <2>4, Zenon
<1>5. CASE ReadMessageBody
  <2>1. /\ BodyArrived /\ main = "body" /\ header \in Messages /\ header' = header
        /\ toClient' = Drop(toClient, header.length) /\ UNCHANGED <<peerSent, peerGot, node>>
    BY <1>5, Zenon DEF ReadMessageBody, ReadUnchanged, peerVars, TypeOK, Holding
  <2>2. header.length \in Nat /\ header.length <= Len(toClient)
    BY <1>0, <2>1, MessageFields, SeqFacts DEF BodyArrived
  <2>3. AllIn(toClient', peerSent)
    BY <1>0, <2>1, <2>2, DroppedOwn
  <2> QED BY <1>0, <2>1, <2>3
<1>6. CASE Close
  <2>1. toClient' = <<>> /\ UNCHANGED <<main, header, node, peerSent, peerGot>>
    BY <1>6, Zenon DEF Close, clientVars, peerVars
  <2>2. AllIn(toClient', peerSent)
    BY <2>1 DEF AllIn
  <2> QED BY <1>0, <2>1, <2>2, Zenon
<1>7. CASE PeerCloses
  <2>1. PICK n \in 0 .. Len(toClient) : toClient' = Take(toClient, n)
    BY <1>7, Zenon DEF PeerCloses
  <2>2. n \in Nat /\ n <= Len(toClient) /\ Len(toClient) \in Nat
    BY <1>0, <2>1, SeqFacts
  <2>3. AllIn(toClient', peerSent)
    BY <1>0, <2>1, <2>2, TakenOwn
  <2> QED BY <1>0, <1>7, <2>3, Zenon DEF PeerCloses, clientVars, peerVars
<1>8. CASE PeerSends \/ PeerAnswers
  <2>1. UNCHANGED <<main, header, node, peerGot>>
    BY <1>8, Zenon DEF PeerSends, PeerAnswers, clientVars
  <2>2. PICK m \in Messages :
           /\ m.id = Len(peerSent) + 1 /\ PeerWrites(m)
           /\ m.command = "Handshake" => \E n \in ToSet(peerGot) : m.to = n.id /\ m.command = n.command
    BY <1>8, WritesOf, Zenon
  <2>3. m.command = "Handshake" =>
           \E j \in DOMAIN peerGot : peerGot[j].id = m.to /\ peerGot[j].command = "Handshake"
    BY <2>2 DEF ToSet
  <2>4. /\ Answers(peerSent', peerGot) /\ AllIn(toClient', peerSent')
        /\ \A x : In(x, peerSent) => In(x, peerSent')
    BY <2>2, <2>3, PeerWrittenOwn
  <2> QED BY <1>0, <2>1, <2>4, Zenon
<1>9. CASE PeerReads
  <2>1. /\ UNCHANGED <<main, header, node, toClient, peerSent>>
        /\ \/ /\ Len(peerGot') = Len(peerGot) + 1
              /\ \A i \in 1 .. Len(peerGot) : peerGot'[i] = peerGot[i]
           \/ peerGot' = peerGot
    BY <1>9, PeerReadsWhat, Zenon DEF clientVars
  <2>2. /\ Len(peerGot) \in Nat /\ DOMAIN peerGot = 1 .. Len(peerGot)
        /\ DOMAIN peerGot' = 1 .. Len(peerGot')
    <3>1. peerGot' \in Seq(Messages)
      BY NextTypes, Zenon DEF TypeOK
    <3> QED BY <1>0, <3>1, SeqFacts
  <2>3. ASSUME NEW j \in DOMAIN peerGot PROVE j \in DOMAIN peerGot' /\ peerGot'[j] = peerGot[j]
    <3>1. CASE peerGot' = peerGot
      BY <3>1
    <3>2. CASE /\ Len(peerGot') = Len(peerGot) + 1
               /\ \A i \in 1 .. Len(peerGot) : peerGot'[i] = peerGot[i]
      BY <2>2, <3>2
    <3> QED BY <2>1, <3>1, <3>2
  <2>4. Answers(peerSent, peerGot')
    BY <1>0, <2>3 DEF Answers
  <2> QED BY <1>0, <2>1, <2>4, Zenon
<1> QED BY <1>1, <1>2, <1>3, <1>4, <1>5, <1>6, <1>7, <1>8, <1>9, Zenon DEF Next, Main

LEMMA AlwaysPeersOwn == Spec => [](TypeOK /\ ClientMessages /\ PeersOwn)
<1>1. Init => TypeOK /\ ClientMessages /\ PeersOwn
  BY InitTypes, InitClientMessages, InitPeersOwn
<1>2. (TypeOK /\ ClientMessages /\ PeersOwn) /\ [Next]_vars => (TypeOK /\ ClientMessages /\ PeersOwn)'
  BY NextTypes, NextClientMessages, NextPeersOwn
<1> QED BY <1>1, <1>2, PTL DEF Spec

\* What Handshake returns is the peer's response to this handshake, whatever other
\* messages, and answers to other requests, the connection carried.
THEOREM HandshakeAnswered == Spec => []NodeIsAnswer
<1>1. TypeOK /\ ClientMessages /\ PeersOwn => NodeIsAnswer
  <2> SUFFICES ASSUME TypeOK, ClientMessages, PeersOwn, node # None
               PROVE  /\ node.to # 0 /\ sent[node.to].command = "Handshake"
                      /\ sent[node.to] \in ToSet(peerGot)
    BY DEF NodeIsAnswer
  <2>1. node.command = "Handshake" /\ node.id \in DOMAIN peerSent /\ peerSent[node.id] = node
    BY DEF PeersOwn, In
  <2>2. PICK j \in DOMAIN peerGot : peerGot[j].id = node.to /\ peerGot[j].command = "Handshake"
    BY <2>1 DEF PeersOwn
  <2>3. peerGot[j].id \in DOMAIN sent /\ sent[peerGot[j].id] = peerGot[j]
    BY DEF ClientMessages, In
  <2>4. peerGot[j].id # 0
    <3>1. peerGot \in Seq(Messages)
      BY Zenon DEF TypeOK
    <3>2. peerGot[j] \in Messages
      BY <3>1, SeqFacts
    <3> QED BY <3>2, MessageFields
  <2>5. peerGot[j] \in ToSet(peerGot)
    BY DEF ToSet
  <2> QED BY <2>2, <2>3, <2>4, <2>5
<1> QED BY <1>1, AlwaysPeersOwn, PTL

-----------------------------------------------------------------------------
(* The stream to the peer.                                                     *)

Payloads == {"hsPayload", "answerPayload"}

LEMMA InitPeerFramed == Init => PeerFramed
<1> SUFFICES ASSUME Init PROVE PeerFramed
  OBVIOUS
<1>1. toPeer = <<>> /\ main = "start" /\ writing = [c \in Callers |-> None]
  BY Zenon DEF Init
<1>2. DOMAIN toPeer = {} /\ main \notin Payloads /\ \A c \in Callers : writing[c] = None
  BY <1>1 DEF Payloads
<1>3. \A m : ~Pending(m)
  BY <1>2 DEF Pending, Payloads
<1> QED BY <1>2, <1>3 DEF PeerFramed, OneWriter, PendingLast, Payloads

\* One call at a time: what is pending is what the one that writes is writing.
LEMMA PendingIsOne ==
    ASSUME OneWriter, NEW m, NEW n, Pending(m), Pending(n)
    PROVE  m = n
BY DEF OneWriter, Pending

LEMMA FramedUnchanged ==
    ASSUME TypeOK, PeerFramed, UNCHANGED <<toPeer, writing, overlap>>, closed => closed',
           \/ main \notin Payloads /\ main' \notin Payloads
           \/ main' = main /\ header' = header
    PROVE  PeerFramed'
<1>1. \A m : Pending(m)' <=> Pending(m)
  BY DEF Pending, Payloads
<1>2. (main' \in Payloads <=> main \in Payloads) /\ closed \in BOOLEAN
  BY Zenon DEF TypeOK
<1> SUFFICES ASSUME ~closed', ~overlap' PROVE (OneWriter /\ PendingLast /\ \A k \in DOMAIN toPeer : FramedAt(k))'
  BY DEF PeerFramed
<1>3. OneWriter /\ PendingLast /\ \A k \in DOMAIN toPeer : FramedAt(k)
  BY DEF PeerFramed
<1>4. OneWriter'
  BY <1>2, <1>3, Zenon DEF OneWriter, Payloads
<1>5. PendingLast'
  BY <1>1, <1>3, Zenon DEF PendingLast
<1>6. ASSUME NEW k \in DOMAIN toPeer' PROVE FramedAt(k)'
  <2>1. FramedAt(k)
    BY <1>3
  <2> QED BY <1>1, <2>1 DEF FramedAt
<1> QED BY <1>4, <1>5, <1>6

LEMMA FramedByHeader ==
    ASSUME TypeOK, PeerFramed, NEW m \in Messages, WriteHeader(m),
           ~BetweenWrites => OneWriter' /\ Pending(m)' /\ \A n : Pending(n)' => n = m,
           closed' = closed
    PROVE  PeerFramed'
<1> SUFFICES ASSUME ~closed', ~overlap' PROVE (OneWriter /\ PendingLast /\ \A k \in DOMAIN toPeer : FramedAt(k))'
  BY DEF PeerFramed
<1>1. ~overlap /\ ~BetweenWrites /\ ~closed
  BY DEF WriteHeader
<1>2. OneWriter' /\ Pending(m)' /\ \A n : Pending(n)' => n = m
  BY <1>1
<1>3. \A n : ~Pending(n)
  BY <1>1 DEF BetweenWrites, Pending
<1>4. \A k \in DOMAIN toPeer : FramedAt(k)
  BY <1>1 DEF PeerFramed
<1>5. /\ toPeer \in Seq(Bytes) /\ toPeer' \in Seq(Bytes)
      /\ Len(toPeer') = Len(toPeer) + HeaderSize
      /\ \A k \in 1 .. Len(toPeer) : toPeer'[k] = toPeer[k]
      /\ \A k \in 1 .. HeaderSize : toPeer'[Len(toPeer) + k] = [msg |-> m, at |-> k]
  BY HeaderWritten DEF TypeOK
<1>6. /\ Len(toPeer) \in Nat /\ DOMAIN toPeer = 1 .. Len(toPeer)
      /\ DOMAIN toPeer' = 1 .. Len(toPeer) + HeaderSize
      /\ HeaderSize \in Nat \ {0} /\ Size(m) \in Nat /\ Size(m) >= HeaderSize
  BY <1>5, SeqFacts, LengthsAreNat, SizeIsNat
<1>7. \A k \in DOMAIN toPeer' : k > Len(toPeer) =>
         /\ toPeer'[k] = [msg |-> m, at |-> k - Len(toPeer)]
         /\ toPeer'[k].msg = m /\ toPeer'[k].at = k - Len(toPeer)
  <2> SUFFICES ASSUME NEW k \in DOMAIN toPeer', k > Len(toPeer)
               PROVE  /\ toPeer'[k] = [msg |-> m, at |-> k - Len(toPeer)]
                      /\ toPeer'[k].msg = m /\ toPeer'[k].at = k - Len(toPeer)
    BY Zenon
  <2>1. k - Len(toPeer) \in 1 .. HeaderSize /\ Len(toPeer) + (k - Len(toPeer)) = k
    BY <1>6
  <2>2. toPeer'[k] = [msg |-> m, at |-> k - Len(toPeer)]
    BY <1>5, <2>1
  <2> QED BY <2>2
<1>8. PendingLast'
  <2> SUFFICES ASSUME NEW n \in Messages, Pending(n)'
               PROVE  Len(toPeer') > 0 /\ toPeer'[Len(toPeer')] = [msg |-> n, at |-> HeaderSize]
    BY DEF PendingLast
  <2>1. n = m
    BY <1>2
  <2>2. Len(toPeer') \in DOMAIN toPeer' /\ Len(toPeer') > Len(toPeer) /\ Len(toPeer') - Len(toPeer) = HeaderSize
    BY <1>5, <1>6
  <2> QED BY <1>6, <1>7, <2>1, <2>2
<1>9. ASSUME NEW k \in DOMAIN toPeer' PROVE FramedAt(k)'
  <2> SUFFICES ASSUME NEW n, n = toPeer'[k].msg, NEW start, start = k - toPeer'[k].at + 1
      PROVE    /\ start >= 1 /\ k < start + Size(n)
               /\ start + HeaderSize - 1 <= Len(toPeer')
               /\ \A j \in DOMAIN toPeer' :
                     start <= j /\ j < start + Size(n) =>
                        toPeer'[j] = [msg |-> n, at |-> j - start + 1]
               /\ \/ start + Size(n) - 1 <= Len(toPeer')
                  \/ Pending(n)' /\ start + HeaderSize - 1 = Len(toPeer')
    BY Zenon DEF FramedAt, Pending
  <2>1. CASE k <= Len(toPeer)
    <3>1. k \in DOMAIN toPeer /\ toPeer'[k] = toPeer[k]
      BY <1>5, <1>6, <2>1
    <3>2. n \in Messages /\ Size(n) \in Nat /\ toPeer[k].at \in Nat /\ start \in Int
      <4>1. toPeer[k].msg \in Messages /\ Size(toPeer[k].msg) \in Nat /\ toPeer[k].at \in Nat /\ k \in Nat
        <5>1. toPeer \in Seq(Bytes) /\ k \in 1 .. Len(toPeer)
          BY <1>5, <1>6, <3>1
        <5>2. k \in Nat
          BY <1>6, <5>1
        <5> QED BY <5>1, <5>2, ByteFacts
      <4> QED BY <3>1, <4>1
    <3>3. /\ start >= 1 /\ k < start + Size(n)
          /\ start + HeaderSize - 1 <= Len(toPeer)
          /\ \A j \in DOMAIN toPeer :
                start <= j /\ j < start + Size(n) =>
                   toPeer[j] = [msg |-> n, at |-> j - start + 1]
          /\ \/ start + Size(n) - 1 <= Len(toPeer)
             \/ Pending(n) /\ start + HeaderSize - 1 = Len(toPeer)
      BY <1>4, <3>1 DEF FramedAt
    <3>4. start + Size(n) - 1 <= Len(toPeer)
      BY <1>3, <3>3
    <3>5. \A j \in DOMAIN toPeer' : start <= j /\ j < start + Size(n) => j \in DOMAIN toPeer
      BY <1>6, <3>2, <3>4
    <3>6. ASSUME NEW j \in DOMAIN toPeer', start <= j, j < start + Size(n)
          PROVE  toPeer'[j] = [msg |-> n, at |-> j - start + 1]
      <4>1. j \in DOMAIN toPeer /\ toPeer'[j] = toPeer[j]
        BY <1>5, <1>6, <3>5, <3>6
      <4> QED BY <3>3, <3>6, <4>1
    <3>7. start + HeaderSize - 1 <= Len(toPeer') /\ start + Size(n) - 1 <= Len(toPeer')
      BY <1>5, <1>6, <3>2, <3>3, <3>4
    <3> QED BY <3>3, <3>6, <3>7
  <2>2. CASE k > Len(toPeer)
    <3>1. n = m /\ start = Len(toPeer) + 1
      BY <1>6, <1>7, <2>2
    <3>2. start >= 1 /\ k < start + Size(n) /\ start + HeaderSize - 1 = Len(toPeer')
      BY <1>5, <1>6, <3>1, SMTT(30)
    <3>3. ASSUME NEW j \in DOMAIN toPeer', start <= j
          PROVE  toPeer'[j] = [msg |-> n, at |-> j - start + 1]
      <4>1. j > Len(toPeer) /\ j - Len(toPeer) = j - start + 1
        BY <1>6, <3>1, <3>3
      <4> QED BY <1>7, <3>1, <4>1
    <3>4. start + HeaderSize - 1 <= Len(toPeer')
      BY <1>5, <1>6, <3>2
    <3> QED BY <1>2, <3>1, <3>2, <3>3, <3>4
  <2> QED BY <1>6, <2>1, <2>2
<1> QED BY <1>2, <1>8, <1>9

LEMMA FramedByPayload ==
    ASSUME TypeOK, PeerFramed, NEW m \in Messages, Pending(m), WritePayload(m),
           OneWriter => OneWriter' /\ \A n : ~Pending(n)',
           closed' = closed
    PROVE  PeerFramed'
<1> SUFFICES ASSUME ~closed', ~overlap' PROVE (OneWriter /\ PendingLast /\ \A k \in DOMAIN toPeer : FramedAt(k))'
  BY DEF PeerFramed
<1>1. ~overlap /\ ~closed
  BY DEF WritePayload
<1>2. OneWriter /\ PendingLast /\ \A k \in DOMAIN toPeer : FramedAt(k)
  BY <1>1 DEF PeerFramed
<1>3. OneWriter' /\ \A n : ~Pending(n)'
  BY <1>2
<1>4. PendingLast'
  BY <1>3 DEF PendingLast
<1>5. /\ toPeer \in Seq(Bytes) /\ toPeer' \in Seq(Bytes)
      /\ Len(toPeer') = Len(toPeer) + m.length
      /\ \A k \in 1 .. Len(toPeer) : toPeer'[k] = toPeer[k]
      /\ \A k \in 1 .. m.length : toPeer'[Len(toPeer) + k] = [msg |-> m, at |-> HeaderSize + k]
  BY PayloadWritten DEF TypeOK
<1>6. /\ Len(toPeer) \in Nat /\ DOMAIN toPeer = 1 .. Len(toPeer) /\ m.length \in Nat
      /\ DOMAIN toPeer' = 1 .. Len(toPeer) + m.length
      /\ HeaderSize \in Nat \ {0} /\ Size(m) = HeaderSize + m.length
  BY <1>5, SeqFacts, LengthsAreNat, MessageFields DEF Size
<1>7. \A k \in DOMAIN toPeer' : k > Len(toPeer) =>
         /\ toPeer'[k] = [msg |-> m, at |-> HeaderSize + (k - Len(toPeer))]
         /\ toPeer'[k].msg = m /\ toPeer'[k].at = HeaderSize + (k - Len(toPeer))
  <2> SUFFICES ASSUME NEW k \in DOMAIN toPeer', k > Len(toPeer)
               PROVE  /\ toPeer'[k] = [msg |-> m, at |-> HeaderSize + (k - Len(toPeer))]
                      /\ toPeer'[k].msg = m /\ toPeer'[k].at = HeaderSize + (k - Len(toPeer))
    BY Zenon
  <2>1. k - Len(toPeer) \in 1 .. m.length /\ Len(toPeer) + (k - Len(toPeer)) = k
    BY <1>6
  <2>2. toPeer'[k] = [msg |-> m, at |-> HeaderSize + (k - Len(toPeer))]
    BY <1>5, <2>1
  <2> QED BY <2>2
\* The message whose payload it is begins HeaderSize bytes before it.
<1>8. m.length > 0 =>
         /\ Len(toPeer) - HeaderSize + 1 >= 1
         /\ \A j \in DOMAIN toPeer :
               Len(toPeer) - HeaderSize + 1 <= j =>
                  toPeer[j] = [msg |-> m, at |-> j - (Len(toPeer) - HeaderSize + 1) + 1]
  <2> SUFFICES ASSUME m.length > 0
               PROVE  /\ Len(toPeer) - HeaderSize + 1 >= 1
                      /\ \A j \in DOMAIN toPeer :
                            Len(toPeer) - HeaderSize + 1 <= j =>
                               toPeer[j] = [msg |-> m, at |-> j - (Len(toPeer) - HeaderSize + 1) + 1]
    OBVIOUS
  <2>1. Len(toPeer) > 0 /\ toPeer[Len(toPeer)] = [msg |-> m, at |-> HeaderSize]
    BY <1>2 DEF PendingLast
  <2>2. Len(toPeer) \in DOMAIN toPeer /\ toPeer[Len(toPeer)].msg = m
        /\ toPeer[Len(toPeer)].at = HeaderSize
    BY <1>6, <2>1
  <2>3. /\ Len(toPeer) - HeaderSize + 1 >= 1
        /\ \A j \in DOMAIN toPeer :
              Len(toPeer) - HeaderSize + 1 <= j /\ j < Len(toPeer) - HeaderSize + 1 + Size(m) =>
                 toPeer[j] = [msg |-> m, at |-> j - (Len(toPeer) - HeaderSize + 1) + 1]
    BY <1>2, <2>2 DEF FramedAt
  <2>4. \A j \in DOMAIN toPeer : j < Len(toPeer) - HeaderSize + 1 + Size(m)
    BY <1>6
  <2> QED BY <2>3, <2>4
<1>9. ASSUME NEW k \in DOMAIN toPeer' PROVE FramedAt(k)'
  <2>0. SUFFICES ASSUME NEW n, NEW start, n = toPeer'[k].msg, start = k - toPeer'[k].at + 1
      PROVE    /\ start >= 1 /\ k < start + Size(n)
               /\ start + HeaderSize - 1 <= Len(toPeer')
               /\ \A j \in DOMAIN toPeer' :
                     start <= j /\ j < start + Size(n) =>
                        toPeer'[j] = [msg |-> n, at |-> j - start + 1]
               /\ start + Size(n) - 1 <= Len(toPeer')
    BY Zenon DEF FramedAt, Pending
  <2>1. CASE k <= Len(toPeer)
    <3>1. k \in DOMAIN toPeer /\ toPeer'[k] = toPeer[k]
      BY <1>5, <1>6, <2>1
    <3>2. n \in Messages /\ Size(n) \in Nat /\ toPeer[k].at \in Nat /\ start \in Int
      <4>1. toPeer[k].msg \in Messages /\ Size(toPeer[k].msg) \in Nat /\ toPeer[k].at \in Nat /\ k \in Nat
        <5>1. toPeer \in Seq(Bytes) /\ k \in 1 .. Len(toPeer)
          BY <1>5, <1>6, <3>1
        <5>2. k \in Nat
          BY <1>6, <5>1
        <5> QED BY <5>1, <5>2, ByteFacts
      <4> QED BY <2>0, <3>1, <4>1
    <3>3. /\ start >= 1 /\ k < start + Size(n)
          /\ start + HeaderSize - 1 <= Len(toPeer)
          /\ \A j \in DOMAIN toPeer :
                start <= j /\ j < start + Size(n) =>
                   toPeer[j] = [msg |-> n, at |-> j - start + 1]
          /\ \/ start + Size(n) - 1 <= Len(toPeer)
             \/ Pending(n) /\ start + HeaderSize - 1 = Len(toPeer)
      BY <1>2, <2>0, <3>1 DEF FramedAt
    <3>4. \/ start + Size(n) - 1 <= Len(toPeer)
          \/ n = m /\ start + HeaderSize - 1 = Len(toPeer)
      BY <1>2, <3>3, PendingIsOne
    <3>5. ASSUME NEW j \in DOMAIN toPeer', start <= j, j < start + Size(n)
          PROVE  toPeer'[j] = [msg |-> n, at |-> j - start + 1]
      <4>1. CASE j <= Len(toPeer)
        <5>1. j \in DOMAIN toPeer /\ toPeer'[j] = toPeer[j]
          BY <1>5, <1>6, <4>1
        <5> QED BY <3>3, <3>5, <5>1
      <4>2. CASE j > Len(toPeer)
        <5>1. n = m /\ HeaderSize + (j - Len(toPeer)) = j - start + 1
          BY <1>6, <3>2, <3>4, <3>5, <4>2, SMTT(30)
        <5> QED BY <1>7, <4>2, <5>1
      <4> QED BY <1>6, <4>1, <4>2
    <3>6. start + HeaderSize - 1 <= Len(toPeer') /\ start + Size(n) - 1 <= Len(toPeer')
      <4>1. n = m => Size(n) = HeaderSize + m.length
        BY <1>6
      <4>2. Len(toPeer') = Len(toPeer) + m.length /\ m.length \in Nat /\ Len(toPeer) \in Nat
            /\ HeaderSize \in Nat
        BY <1>5, <1>6
      <4>3. start + HeaderSize - 1 <= Len(toPeer)
        BY <3>3, Zenon
      <4>4. \/ start + Size(n) - 1 <= Len(toPeer)
            \/ Size(n) = HeaderSize + m.length /\ start + HeaderSize - 1 = Len(toPeer)
        BY <3>4, <4>1, Zenon
      <4>5. start \in Int /\ Size(n) \in Nat
        BY <3>2
      <4>6. CASE start + Size(n) - 1 <= Len(toPeer)
        BY <4>2, <4>3, <4>5, <4>6
      <4>7. CASE Size(n) = HeaderSize + m.length /\ start + HeaderSize - 1 = Len(toPeer)
        BY <4>2, <4>5, <4>7, SMTT(30)
      <4> QED BY <4>4, <4>6, <4>7
    <3> QED BY <3>3, <3>5, <3>6
  <2>2. CASE k > Len(toPeer)
    <3>0. /\ m.length \in Nat /\ Len(toPeer) \in Nat /\ HeaderSize \in Nat \ {0} /\ k \in Nat
          /\ m.length > 0 /\ k <= Len(toPeer) + m.length
      BY <1>6, <2>2
    <3>1. n = m /\ toPeer'[k].at = HeaderSize + (k - Len(toPeer))
      BY <1>7, <2>0, <2>2
    <3>2. start = Len(toPeer) - HeaderSize + 1 /\ start \in Int
      BY <2>0, <3>0, <3>1
    <3>6. Size(n) = HeaderSize + m.length /\ Len(toPeer') = Len(toPeer) + m.length
      BY <1>5, <1>6, <3>1
    <3>3. start >= 1 /\ k < start + Size(n) /\ start + Size(n) - 1 = Len(toPeer')
      <4>1. Len(toPeer) - HeaderSize + 1 >= 1
        BY <1>8, <3>0, Zenon
      <4> QED BY <3>0, <3>2, <3>6, <4>1
    <3>4. ASSUME NEW j \in DOMAIN toPeer', start <= j
          PROVE  toPeer'[j] = [msg |-> n, at |-> j - start + 1]
      <4>1. CASE j <= Len(toPeer)
        <5>1. j \in DOMAIN toPeer /\ toPeer'[j] = toPeer[j]
          BY <1>5, <1>6, <4>1
        <5>2. toPeer[j] = [msg |-> m, at |-> j - (Len(toPeer) - HeaderSize + 1) + 1]
          <6>1. Len(toPeer) - HeaderSize + 1 <= j
            BY <3>2, <3>4
          <6> QED BY <1>8, <3>0, <5>1, <6>1, Zenon
        <5> QED BY <3>1, <3>2, <5>1, <5>2
      <4>2. CASE j > Len(toPeer)
        <5>1. HeaderSize + (j - Len(toPeer)) = j - start + 1
          BY <1>6, <3>0, <3>2
        <5> QED BY <1>7, <3>1, <4>2, <5>1
      <4> QED BY <1>6, <4>1, <4>2
    <3>5. start + HeaderSize - 1 <= Len(toPeer') /\ start + Size(n) - 1 <= Len(toPeer')
      BY <3>0, <3>2, <3>3, <3>6, SMTT(30)
    <3> QED BY <3>3, <3>4, <3>5
  <2> QED BY <1>6, <2>1, <2>2
<1> QED BY <1>3, <1>4, <1>9

\* With the stream in order the peer finds a whole message where it reads.
LEMMA FirstIsWhole ==
    ASSUME TypeOK, PeerFramed, ~closed, ~overlap, Len(toPeer) >= HeaderSize
    PROVE  \A i \in DOMAIN toPeer :
              i <= Size(toPeer[1].msg) => toPeer[i] = [msg |-> toPeer[1].msg, at |-> i]
<1>1. /\ toPeer \in Seq(Bytes) /\ HeaderSize \in Nat \ {0}
  BY LengthsAreNat, Zenon DEF TypeOK
<1>2. Len(toPeer) \in Nat /\ DOMAIN toPeer = 1 .. Len(toPeer) /\ 1 \in 1 .. Len(toPeer)
  BY <1>1, SeqFacts
<1>3. toPeer[1].at \in Nat \ {0}
  BY <1>1, <1>2, ByteFacts
<1>4. FramedAt(1)
  BY <1>2 DEF PeerFramed
<1>5. 1 - toPeer[1].at + 1 >= 1
  BY <1>4 DEF FramedAt
<1>6. toPeer[1].at = 1
  BY <1>3, <1>5
<1>7. \A j \in DOMAIN toPeer :
         1 - toPeer[1].at + 1 <= j /\ j < 1 - toPeer[1].at + 1 + Size(toPeer[1].msg) =>
            toPeer[j] = [msg |-> toPeer[1].msg, at |-> j - (1 - toPeer[1].at + 1) + 1]
  BY <1>4 DEF FramedAt
<1>8. \A j \in DOMAIN toPeer :
         1 <= j /\ j < 1 + Size(toPeer[1].msg) =>
            toPeer[j] = [msg |-> toPeer[1].msg, at |-> j - 1 + 1]
  BY <1>6, <1>7
<1>9. Size(toPeer[1].msg) \in Nat
  BY <1>1, <1>2, ByteFacts
<1>10. ASSUME NEW i \in DOMAIN toPeer, i <= Size(toPeer[1].msg)
       PROVE  toPeer[i] = [msg |-> toPeer[1].msg, at |-> i]
  <2>1. 1 <= i /\ i < 1 + Size(toPeer[1].msg) /\ i - 1 + 1 = i
    BY <1>2, <1>9, <1>10
  <2> QED BY <1>8, <2>1
<1> QED BY <1>10

LEMMA FramedByReading ==
    ASSUME TypeOK, PeerFramed, PeerReads
    PROVE  PeerFramed' /\ (rejected' /\ ~rejected => overlap)
<1> DEFINE m == toPeer[1].msg
<1>1. /\ m \in Messages /\ Len(toPeer) >= HeaderSize /\ ~closed
      /\ UNCHANGED <<main, header, writing, overlap>>
      /\ \/ /\ Size(m) <= Len(toPeer)
            /\ \A i \in 1 .. Size(m) : toPeer[i] = [msg |-> m, at |-> i]
            /\ Len(toPeer') = Len(toPeer) - Size(m)
            /\ \A i \in 1 .. Len(toPeer) - Size(m) : toPeer'[i] = toPeer[i + Size(m)]
            /\ closed' = closed /\ rejected' = rejected
         \/ /\ ~ (/\ Size(m) <= Len(toPeer)
                  /\ \A i \in 1 .. Size(m) : toPeer[i] = [msg |-> m, at |-> i])
            /\ (\A i \in 1 .. HeaderSize : toPeer[i] = [msg |-> m, at |-> i]) =>
                  Size(m) <= Len(toPeer)
            /\ closed' = TRUE
  BY PeerReadsWhat, Zenon DEF clientVars
<1>2. /\ toPeer \in Seq(Bytes) /\ toPeer' \in Seq(Bytes) /\ HeaderSize \in Nat \ {0}
      /\ rejected \in BOOLEAN /\ closed \in BOOLEAN
  <2>1. toPeer' \in Seq(Bytes)
    BY NextTypes, Zenon DEF Next, TypeOK
  <2> QED BY <2>1, LengthsAreNat, Zenon DEF TypeOK
<1>3. /\ Len(toPeer) \in Nat /\ DOMAIN toPeer = 1 .. Len(toPeer)
      /\ Len(toPeer') \in Nat /\ DOMAIN toPeer' = 1 .. Len(toPeer')
      /\ Size(m) \in Nat /\ Size(m) >= HeaderSize
  BY <1>1, <1>2, SeqFacts, SizeIsNat
<1> HIDE DEF m
<1>4. CASE overlap
  BY <1>1, <1>4 DEF PeerFramed
<1>5. CASE ~overlap
  <2>1. OneWriter /\ PendingLast /\ \A k \in DOMAIN toPeer : FramedAt(k)
    BY <1>1, <1>5 DEF PeerFramed
  <2>2. \A i \in DOMAIN toPeer : i <= Size(m) => toPeer[i] = [msg |-> m, at |-> i]
    BY <1>1, <1>5, FirstIsWhole DEF m
  <2>3. /\ Size(m) <= Len(toPeer) /\ Len(toPeer') = Len(toPeer) - Size(m)
        /\ \A i \in 1 .. Len(toPeer) - Size(m) : toPeer'[i] = toPeer[i + Size(m)]
        /\ closed' = closed /\ rejected' = rejected
    <3>1. \A i \in 1 .. HeaderSize : toPeer[i] = [msg |-> m, at |-> i]
      <4>1. \A i \in 1 .. HeaderSize : i \in DOMAIN toPeer /\ i <= Size(m)
        BY <1>1, <1>2, <1>3
      <4> QED BY <2>2, <4>1
    <3>2. Size(m) <= Len(toPeer) => \A i \in 1 .. Size(m) : i \in DOMAIN toPeer /\ i <= Size(m)
      BY <1>3
    <3> QED BY <1>1, <2>2, <3>1, <3>2, Zenon
  <2>4. \A n : Pending(n)' <=> Pending(n)
    BY <1>1 DEF Pending
  <2>5. OneWriter'
    BY <1>1, <2>1, Zenon DEF OneWriter
  <2>6. \A k \in DOMAIN toPeer' : k + Size(m) \in DOMAIN toPeer /\ toPeer'[k] = toPeer[k + Size(m)]
    BY <1>3, <2>3
\* What follows the first message begins behind it.
  <2>7. ASSUME NEW k \in DOMAIN toPeer'
        PROVE  (k + Size(m)) - toPeer[k + Size(m)].at + 1 > Size(m)
    <3>0. k + Size(m) \in DOMAIN toPeer /\ k \in Nat \ {0}
      BY <1>3, <2>6
    <3>1. FramedAt(k + Size(m))
      BY <2>1, <3>0
    <3>2. PICK at \in Nat \ {0} : at = toPeer[k + Size(m)].at
      BY <1>2, <1>3, <3>0, ByteFacts
    <3>3. PICK n \in Messages : n = toPeer[k + Size(m)].msg
      BY <1>2, <1>3, <3>0, ByteFacts
    <3>4. PICK start \in Int : start = (k + Size(m)) - at + 1
      BY <1>3, <3>0, <3>2
    <3>5. /\ start >= 1 /\ k + Size(m) < start + Size(n)
          /\ \A j \in DOMAIN toPeer :
                start <= j /\ j < start + Size(n) => toPeer[j] = [msg |-> n, at |-> j - start + 1]
      BY <3>1, <3>2, <3>3, <3>4, Zenon DEF FramedAt
    <3>6. start > Size(m)
      <4> SUFFICES ASSUME start <= Size(m) PROVE FALSE
        BY <1>3, <3>4
      <4>1. start \in DOMAIN toPeer /\ start <= k + Size(m)
        BY <1>3, <2>3, <3>0, <3>2, <3>4, <3>5, SMTT(30)
      <4>2. toPeer[start] = [msg |-> m, at |-> start]
        BY <2>2, <4>1
      <4>3. start < start + Size(n)
        <5>1. Size(n) \in Nat
          BY SizeIsNat
        <5> QED BY <1>3, <3>0, <3>5, <4>1, <5>1
      <4>4. toPeer[start] = [msg |-> n, at |-> start - start + 1]
        BY <3>5, <4>1, <4>3
      <4>5. n = m /\ start = start - start + 1
        BY <4>2, <4>4
      <4>6. start = 1
        BY <4>5
      <4> QED BY <1>3, <3>0, <3>5, <4>5, <4>6
    <3> QED BY <3>2, <3>4, <3>6
  <2>8. PendingLast'
    <3> SUFFICES ASSUME NEW n \in Messages, Pending(n), n.length > 0
                 PROVE  Len(toPeer') > 0 /\ toPeer'[Len(toPeer')] = [msg |-> n, at |-> HeaderSize]
      BY <2>4 DEF PendingLast
    <3>1. Len(toPeer) > 0 /\ toPeer[Len(toPeer)] = [msg |-> n, at |-> HeaderSize]
      BY <2>1 DEF PendingLast
    <3>2. Len(toPeer) # Size(m)
      <4> SUFFICES ASSUME Len(toPeer) = Size(m) PROVE FALSE
        OBVIOUS
      <4>1. toPeer[Len(toPeer)] = [msg |-> m, at |-> Size(m)]
        BY <1>3, <2>2, <3>1
      <4>2. n = m /\ Size(m) = HeaderSize
        BY <3>1, <4>1
      <4> QED BY <1>2, <4>2, MessageFields DEF Size
    <3>3. Len(toPeer') > 0 /\ Len(toPeer') \in DOMAIN toPeer' /\ Len(toPeer') + Size(m) = Len(toPeer)
      BY <1>3, <2>3, <3>2
    <3>4. toPeer'[Len(toPeer')] = toPeer[Len(toPeer)]
      BY <2>6, <3>3
    <3> QED BY <3>1, <3>3, <3>4
  <2>9. ASSUME NEW k \in DOMAIN toPeer' PROVE FramedAt(k)'
    <3>0. k + Size(m) \in DOMAIN toPeer /\ toPeer'[k] = toPeer[k + Size(m)] /\ k \in Nat \ {0}
      BY <1>3, <2>6
    <3>1. FramedAt(k + Size(m))
      BY <2>1, <3>0
    <3>2. PICK at \in Nat \ {0} : at = toPeer[k + Size(m)].at
      BY <1>2, <1>3, <3>0, ByteFacts
    <3>3. PICK n \in Messages : n = toPeer[k + Size(m)].msg
      BY <1>2, <1>3, <3>0, ByteFacts
    <3>4. PICK start \in Int : start = (k + Size(m)) - at + 1
      BY <1>3, <3>0, <3>2
    <3>5. /\ start >= 1 /\ k + Size(m) < start + Size(n)
          /\ start + HeaderSize - 1 <= Len(toPeer)
          /\ \A j \in DOMAIN toPeer :
                start <= j /\ j < start + Size(n) => toPeer[j] = [msg |-> n, at |-> j - start + 1]
          /\ \/ start + Size(n) - 1 <= Len(toPeer)
             \/ Pending(n) /\ start + HeaderSize - 1 = Len(toPeer)
      BY <3>1, <3>2, <3>3, <3>4, Zenon DEF FramedAt
    <3>6. PICK s \in Int : s = k - at + 1
      BY <3>0, <3>2
    <3>7. start = s + Size(m) /\ s >= 1
      BY <1>3, <2>7, <3>0, <3>2, <3>4, <3>6, SMTT(30)
    <3>8. Size(n) \in Nat
      BY SizeIsNat
    <3>9. /\ k < s + Size(n) /\ s + HeaderSize - 1 <= Len(toPeer')
          /\ \/ s + Size(n) - 1 <= Len(toPeer')
             \/ Pending(n) /\ s + HeaderSize - 1 = Len(toPeer')
      <4>1. k < s + Size(n) /\ s + HeaderSize - 1 <= Len(toPeer')
        <5>1. k + Size(m) < start + Size(n) /\ start + HeaderSize - 1 <= Len(toPeer)
          BY <3>5, Zenon
        <5>2. Len(toPeer') = Len(toPeer) - Size(m) /\ Size(m) \in Nat /\ Len(toPeer) \in Nat
          BY <1>3, <2>3
        <5>3. s \in Int /\ start \in Int /\ k \in Int /\ HeaderSize \in Int
          BY <1>2, <3>0
        <5>4. k < s + Size(n)
          BY <3>7, <3>8, <5>1, <5>2, <5>3, SMTT(30)
        <5>5. s + HeaderSize - 1 <= Len(toPeer')
          BY <3>7, <5>1, <5>2, <5>3
        <5> QED BY <5>4, <5>5
      <4>2. start + Size(n) - 1 <= Len(toPeer) => s + Size(n) - 1 <= Len(toPeer')
        BY <1>2, <1>3, <2>3, <3>7, <3>8, SMTT(30)
      <4>3. start + HeaderSize - 1 = Len(toPeer) => s + HeaderSize - 1 = Len(toPeer')
        BY <1>2, <1>3, <2>3, <3>7, <3>8, SMTT(30)
      <4> QED BY <3>5, <4>1, <4>2, <4>3
    <3>10. ASSUME NEW j \in DOMAIN toPeer', s <= j, j < s + Size(n)
           PROVE  toPeer'[j] = [msg |-> n, at |-> j - s + 1]
      <4>1. j + Size(m) \in DOMAIN toPeer /\ toPeer'[j] = toPeer[j + Size(m)] /\ j \in Nat
        BY <1>3, <2>6
      <4>2. start <= j + Size(m) /\ j + Size(m) < start + Size(n) /\ j + Size(m) - start + 1 = j - s + 1
        BY <1>3, <3>7, <3>8, <3>10, <4>1, SMTT(30)
      <4>3. toPeer[j + Size(m)] = [msg |-> n, at |-> j + Size(m) - start + 1]
        <5>1. \A i \in DOMAIN toPeer :
                 start <= i /\ i < start + Size(n) => toPeer[i] = [msg |-> n, at |-> i - start + 1]
          BY <3>5, Zenon
        <5> DEFINE i0 == j + Size(m)
        <5>2. i0 \in DOMAIN toPeer /\ start <= i0 /\ i0 < start + Size(n)
          BY <4>1, <4>2
        <5> HIDE DEF i0
        <5>3. toPeer[i0] = [msg |-> n, at |-> i0 - start + 1]
          BY <5>1, <5>2
        <5>4. i0 - start + 1 = j + Size(m) - start + 1
          BY <1>3, <4>1 DEF i0
        <5> QED BY <5>3, <5>4 DEF i0
      <4> QED BY <4>1, <4>2, <4>3
    <3>11. Pending(n)' <=> Pending(n)
      BY <2>4
    <3>12. toPeer'[k].msg = n /\ toPeer'[k].at = at
      BY <3>0, <3>2, <3>3
    <3> QED BY <3>6, <3>7, <3>9, <3>10, <3>11, <3>12 DEF FramedAt
  <2> QED BY <1>2, <2>3, <2>5, <2>8, <2>9 DEF PeerFramed
<1> QED BY <1>4, <1>5

LEMMA NextPeerFramed ==
    TypeOK /\ PeerFramed /\ [Next]_vars => PeerFramed' /\ (rejected' /\ ~rejected => overlap)
<1> SUFFICES ASSUME TypeOK, PeerFramed, [Next]_vars
             PROVE  PeerFramed' /\ (rejected' /\ ~rejected => overlap)
  OBVIOUS
<1>0. /\ closed \in BOOLEAN /\ rejected \in BOOLEAN /\ overlap \in BOOLEAN
      /\ writing \in [Callers -> Slots]
  BY Zenon DEF TypeOK
<1>1. CASE HandshakeWritesHeader \/ AnswerWritesHeader
  <2>1. header' \in Messages /\ WriteHeader(header')
    BY <1>1, WritesOf
  <2>2. /\ UNCHANGED <<writing, closed, rejected>> /\ main' \in {"hsPayload", "answerPayload"}
    BY <1>1, Zenon DEF HandshakeWritesHeader, AnswerWritesHeader, peerVars
  <2>3. PICK m \in Messages : m = header'
    BY <2>1
  <2>4. ~BetweenWrites => \A c \in Callers : writing'[c] = None
    BY <2>2 DEF BetweenWrites
  <2>5. ~BetweenWrites => OneWriter' /\ Pending(m)' /\ \A n : Pending(n)' => n = m
    BY <2>2, <2>3, <2>4 DEF OneWriter, Pending
  <2> QED BY <2>1, <2>2, <2>3, <2>5, FramedByHeader
<1>2. ASSUME NEW c \in Callers, RequestWritesHeader(c)
      PROVE  PeerFramed' /\ (rejected' /\ ~rejected => overlap)
  <2>1. /\ writing'[c] \in Messages /\ WriteHeader(writing'[c])
        /\ writing' = [writing EXCEPT ![c] = writing'[c]]
    BY <1>2, WritesOf
  <2>2. UNCHANGED <<main, header, closed, rejected>>
    BY <1>2, Zenon DEF RequestWritesHeader, peerVars
  <2>3. PICK m \in Messages : m = writing'[c]
    BY <2>1
  <2>4. m # None /\ \A d \in Callers : d # c => writing'[d] = writing[d]
    BY <1>0, <2>1, NoneIsNoMessage
  <2>5. ~BetweenWrites => /\ \A d \in Callers : d # c => writing'[d] = None
                          /\ main' \notin {"hsPayload", "answerPayload"}
    BY <2>2, <2>4 DEF BetweenWrites
  <2>6. ~BetweenWrites => OneWriter' /\ Pending(m)' /\ \A n : Pending(n)' => n = m
    BY <2>3, <2>4, <2>5 DEF OneWriter, Pending
  <2> QED BY <2>1, <2>2, <2>3, <2>6, FramedByHeader
<1>3. CASE HandshakeWritesPayload \/ AnswerWritesPayload
  <2>1. /\ header \in Messages /\ WritePayload(header) /\ main \in {"hsPayload", "answerPayload"}
        /\ main' \in {"hsHeader", "ready"} /\ UNCHANGED <<writing, closed, rejected>>
    BY <1>3, Zenon DEF HandshakeWritesPayload, AnswerWritesPayload, TypeOK, Holding, peerVars
  <2>2. Pending(header)
    BY <2>1 DEF Pending
  <2>3. OneWriter => OneWriter' /\ \A n : ~Pending(n)'
    BY <2>1 DEF OneWriter, Pending
  <2> QED BY <2>1, <2>2, <2>3, FramedByPayload
<1>4. ASSUME NEW c \in Callers, RequestWritesPayload(c)
      PROVE  PeerFramed' /\ (rejected' /\ ~rejected => overlap)
  <2>1. /\ writing[c] # None /\ WritePayload(writing[c]) /\ writing' = [writing EXCEPT ![c] = None]
        /\ UNCHANGED <<main, header, closed, rejected>>
    BY <1>4, Zenon DEF RequestWritesPayload, peerVars
  <2>2. writing[c] \in Messages /\ \A d \in Callers : writing'[d] = IF d = c THEN None ELSE writing[d]
    BY <1>0, <2>1 DEF Slots
  <2>3. Pending(writing[c])
    BY <2>1 DEF Pending
  <2>4. OneWriter => OneWriter' /\ \A n : ~Pending(n)'
    BY <2>1, <2>2 DEF OneWriter, Pending
  <2> QED BY <2>1, <2>2, <2>3, <2>4, FramedByPayload
<1>5. ASSUME NEW c \in Callers, RequestFails(c)
      PROVE  PeerFramed' /\ (rejected' /\ ~rejected => overlap)
  <2>1. closed' /\ rejected' = rejected
    BY <1>5, Zenon DEF RequestFails, peerVars
  <2> QED BY <1>0, <2>1 DEF PeerFramed
<1>6. CASE HandshakeReadsHeader \/ HandshakeReadsBody \/ ReadMessageHeader \/ ReadMessageBody
  <2>1. /\ UNCHANGED <<toPeer, writing, overlap, closed, rejected>>
        /\ main \in {"hsHeader", "hsBody", "ready", "body"}
        /\ main' \in {"hsHeader", "hsBody", "ready", "body", "failed", "answer"}
    BY <1>6, Zenon DEF HandshakeReadsHeader, HandshakeReadsBody, ReadMessageHeader, ReadMessageBody,
                       ReadUnchanged, peerVars
  <2>2. main \notin Payloads /\ main' \notin Payloads
    BY <2>1 DEF Payloads
  <2> QED BY <1>0, <2>1, <2>2, FramedUnchanged
<1>7. CASE MainFails
  <2>1. closed' /\ rejected' = rejected
    BY <1>7, Zenon DEF MainFails, AtEnd, ReadUnchanged, peerVars
  <2> QED BY <1>0, <2>1 DEF PeerFramed
<1>8. CASE Close \/ PeerCloses
  <2>1. closed' /\ rejected' = rejected
    BY <1>8, Zenon DEF Close, PeerCloses, peerVars
  <2> QED BY <1>0, <2>1 DEF PeerFramed
<1>9. CASE PeerSends \/ PeerAnswers \/ UNCHANGED vars
  <2>1. UNCHANGED <<main, header, toPeer, writing, overlap, closed, rejected>>
    BY <1>9, Zenon DEF PeerSends, PeerAnswers, vars, clientVars, peerVars
  <2> QED BY <1>0, <2>1, FramedUnchanged
<1>10. CASE PeerReads
  BY <1>10, FramedByReading
<1> QED
  BY <1>1, <1>2, <1>3, <1>4, <1>5, <1>6, <1>7, <1>8, <1>9, <1>10, Zenon DEF Next, Main, Caller

\* Only two goroutines that write at the same time make the peer lose track of the
\* client's messages: with one call at a time it never reads anything but them.
THEOREM PeerKeepsTrack == Spec => []FramedUnlessOverlap
<1>1. Init => TypeOK /\ PeerFramed /\ FramedUnlessOverlap
  <2>1. Init => FramedUnlessOverlap
    BY Zenon DEF Init, FramedUnlessOverlap
  <2> QED BY <2>1, InitTypes, InitPeerFramed
<1>2. (TypeOK /\ PeerFramed /\ FramedUnlessOverlap) /\ [Next]_vars =>
         (TypeOK /\ PeerFramed /\ FramedUnlessOverlap)'
  <2> SUFFICES ASSUME TypeOK, PeerFramed, FramedUnlessOverlap, [Next]_vars
               PROVE  (TypeOK /\ PeerFramed /\ FramedUnlessOverlap)'
    OBVIOUS
  <2>1. TypeOK' /\ PeerFramed' /\ (rejected' /\ ~rejected => overlap)
    BY NextTypes, NextPeerFramed
  <2>2. overlap => overlap'
    BY Zenon DEF Next, Main, Caller, HandshakeWritesHeader, AnswerWritesHeader, RequestWritesHeader,
       WriteHeader, HandshakeWritesPayload, AnswerWritesPayload, RequestWritesPayload, WritePayload,
       RequestFails, HandshakeReadsHeader, HandshakeReadsBody, ReadMessageHeader, ReadMessageBody,
       MainFails, ReadUnchanged, Close, PeerSends, PeerAnswers, PeerReads, PeerCloses, vars
  <2> QED BY <2>1, <2>2 DEF FramedUnlessOverlap
<1> QED BY <1>1, <1>2, PTL DEF Spec

-----------------------------------------------------------------------------
(* The stream to the client.                                                   *)

LEMMA EmptyStream ==
    /\ Consistent(<<>>) /\ Ascending(<<>>) /\ Adjacent(<<>>)
    /\ \A messages : Complete(<<>>, messages)
    /\ \A m : BeginsLater(<<>>, m)
    /\ Len(<<>>) = 0 /\ DOMAIN <<>> = {}
<1>1. DOMAIN <<>> = {} /\ Len(<<>>) = 0
  OBVIOUS
<1> QED BY <1>1 DEF Consistent, Ascending, Adjacent, Complete, BeginsLater

LEMMA LaterDropped ==
    ASSUME NEW s \in Seq(Bytes), NEW n \in Nat, n <= Len(s), NEW m, BeginsLater(s, m)
    PROVE  BeginsLater(Drop(s, n), m)
<1>1. /\ Drop(s, n) \in Seq(Bytes) /\ Len(Drop(s, n)) = Len(s) - n
      /\ \A i \in 1 .. Len(s) - n : Drop(s, n)[i] = s[i + n]
  BY DropFacts
<1>2. DOMAIN s = 1 .. Len(s) /\ DOMAIN Drop(s, n) = 1 .. Len(Drop(s, n)) /\ Len(s) \in Nat
  BY <1>1, SeqFacts
<1>3. \A k \in DOMAIN Drop(s, n) : k + n \in DOMAIN s /\ Drop(s, n)[k] = s[k + n]
  BY <1>1, <1>2
<1> QED BY <1>3 DEF BeginsLater

LEMMA LaterTaken ==
    ASSUME NEW s \in Seq(Bytes), NEW n \in Nat, n <= Len(s), NEW m, BeginsLater(s, m)
    PROVE  BeginsLater(Take(s, n), m)
<1>1. /\ Take(s, n) \in Seq(Bytes) /\ Len(Take(s, n)) = n /\ \A i \in 1 .. n : Take(s, n)[i] = s[i]
  BY TakeFacts
<1>2. DOMAIN s = 1 .. Len(s) /\ DOMAIN Take(s, n) = 1 .. Len(Take(s, n)) /\ Len(s) \in Nat
  BY <1>1, SeqFacts
<1>3. \A k \in DOMAIN Take(s, n) : k \in DOMAIN s /\ Take(s, n)[k] = s[k]
  BY <1>1, <1>2
<1> QED BY <1>3 DEF BeginsLater

\* What the steps do to the stream to the client and what it is a stream of.
SameStream == UNCHANGED <<toClient, peerSent, closed>>
Shortened(n) == n \in Nat /\ n <= Len(toClient) /\ toClient' = Drop(toClient, n)
                /\ UNCHANGED <<peerSent, closed>>
Cut == /\ closed' /\ peerSent' = peerSent
       /\ \E n \in Nat : n <= Len(toClient) /\ toClient' = Take(toClient, n)
Sent(m) == m \in Messages /\ m.id = Len(peerSent) + 1 /\ PeerWrites(m) /\ ~closed /\ ~closed'

LEMMA ShortenedStream ==
    ASSUME toClient \in Seq(Bytes), NEW n, Shortened(n)
    PROVE  /\ toClient' \in Seq(Bytes) /\ Len(toClient') = Len(toClient) - n
           /\ \A i \in 1 .. Len(toClient) - n : toClient'[i] = toClient[i + n]
           /\ n \in Nat /\ closed' = closed
<1>1. n \in Nat /\ n <= Len(toClient) /\ toClient' = Drop(toClient, n) /\ closed' = closed
  BY Zenon DEF Shortened
<1>2. /\ Drop(toClient, n) \in Seq(Bytes) /\ Len(Drop(toClient, n)) = Len(toClient) - n
      /\ \A i \in 1 .. Len(toClient) - n : Drop(toClient, n)[i] = toClient[i + n]
  BY <1>1, DropFacts, Zenon
<1> QED BY <1>1, <1>2, Zenon

LEMMA NextClientStream ==
    ASSUME TypeOK, PeersOwn, ClientStream,
           \/ SameStream \/ Cut \/ (\E n : Shortened(n)) \/ (\E m : Sent(m))
    PROVE  ClientStream'
<1>0. /\ toClient \in Seq(Bytes) /\ peerSent \in Seq(Messages) /\ closed \in BOOLEAN
      /\ Consistent(toClient) /\ Ascending(toClient) /\ Adjacent(toClient)
      /\ ~closed => Complete(toClient, peerSent)
  BY Zenon DEF TypeOK, ClientStream
<1> SUFFICES /\ Consistent(toClient') /\ Ascending(toClient') /\ Adjacent(toClient')
             /\ ~closed' => Complete(toClient', peerSent')
  BY Zenon DEF ClientStream, Consistent, Ascending, Adjacent, Complete, Size
<1>1. CASE SameStream
  BY <1>0, <1>1, Zenon DEF SameStream
<1>2. CASE Cut
  <2>1. PICK n \in Nat : n <= Len(toClient) /\ toClient' = Take(toClient, n)
    BY <1>2, Zenon DEF Cut
  <2>2. Consistent(toClient') /\ Ascending(toClient') /\ Adjacent(toClient')
    BY <1>0, <2>1, StreamTake
  <2> QED BY <1>2, <2>2, Zenon DEF Cut
<1>3. ASSUME NEW n, Shortened(n)
      PROVE  /\ Consistent(toClient') /\ Ascending(toClient') /\ Adjacent(toClient')
             /\ ~closed' => Complete(toClient', peerSent')
  <2>1. n \in Nat /\ n <= Len(toClient) /\ toClient' = Drop(toClient, n)
        /\ peerSent' = peerSent /\ closed' = closed
    BY <1>3, Zenon DEF Shortened
  <2>2. /\ Consistent(toClient') /\ Ascending(toClient') /\ Adjacent(toClient')
        /\ \A messages : Complete(toClient, messages) => Complete(toClient', messages)
    BY <1>0, <2>1, StreamDrop
  <2> QED BY <1>0, <2>1, <2>2, Zenon
<1>4. ASSUME NEW m, Sent(m)
      PROVE  /\ Consistent(toClient') /\ Ascending(toClient') /\ Adjacent(toClient')
             /\ ~closed' => Complete(toClient', peerSent')
  <2>1. m \in Messages /\ m.id = Len(peerSent) + 1 /\ ~closed
        /\ toClient' = toClient \o Message(m) /\ peerSent' = Append(peerSent, m)
    BY <1>4, Zenon DEF Sent, PeerWrites
  <2>2. Complete(toClient, peerSent) /\ \A k \in DOMAIN toClient : In(toClient[k].msg, peerSent)
    BY <1>0, <2>1 DEF PeersOwn
  <2> QED BY <1>0, <2>1, <2>2, StreamAppend
<1> QED BY <1>1, <1>2, <1>3, <1>4

\* Every step of the system does one of these four, and says what main did with it.
LEMMA StreamSteps ==
    ASSUME TypeOK, [Next]_vars
    PROVE  \/ /\ SameStream /\ UNCHANGED <<received, node, dropped>>
              /\ \/ main' \notin {"hsBody", "body"}
                 \/ main' = main /\ header' = header
              /\ \/ main' = "failed"
                 \/ main' = main /\ header' = header
                 \/ main \notin {"hsBody", "body", "failed"} /\ main # "hsHeader"
           \/ /\ Cut /\ UNCHANGED <<main, header, received, node, dropped>>
           \/ /\ \E m : Sent(m)
              /\ UNCHANGED <<main, header, received, node, dropped>>
           \/ HandshakeReadsHeader \/ HandshakeReadsBody \/ ReadMessageHeader \/ ReadMessageBody
<1>0. toClient \in Seq(Bytes) /\ closed \in BOOLEAN
  BY Zenon DEF TypeOK
<1>1. CASE HandshakeWritesHeader \/ HandshakeWritesPayload \/ AnswerWritesHeader
           \/ AnswerWritesPayload \/ MainFails
  <2>1. /\ UNCHANGED <<toClient, peerSent, closed, received, node, dropped>>
        /\ main' \in {"hsPayload", "hsHeader", "answerPayload", "ready", "failed"}
        /\ main' = "failed" \/ main \in {"start", "hsPayload", "answer", "answerPayload"}
    BY <1>1, Zenon DEF HandshakeWritesHeader, HandshakeWritesPayload, AnswerWritesHeader,
                       AnswerWritesPayload, MainFails, ReadUnchanged, peerVars
  <2>2. /\ main' \notin {"hsBody", "body"}
        /\ main' = "failed" \/ (main \notin {"hsBody", "body", "failed"} /\ main # "hsHeader")
    BY <2>1
  <2> QED BY <2>1, <2>2, Zenon DEF SameStream
<1>2. CASE (\E c \in Callers : RequestWritesHeader(c) \/ Caller(c)) \/ UNCHANGED vars
  BY <1>2, Zenon DEF RequestWritesHeader, Caller, RequestWritesPayload, RequestFails, vars,
                     clientVars, peerVars, SameStream
<1>3. CASE Close
  <2>1. /\ closed' /\ toClient' = <<>> /\ peerSent' = peerSent
        /\ UNCHANGED <<main, header, received, node, dropped>>
    BY <1>3, Zenon DEF Close, clientVars, peerVars
  <2>2. Take(toClient, 0) = <<>> /\ 0 \in Nat /\ 0 <= Len(toClient)
    BY <1>0, SeqFacts, SubSeqEmpty DEF Take
  <2> QED BY <2>1, <2>2, Zenon DEF Cut
<1>4. CASE PeerCloses
  <2>1. /\ closed' /\ UNCHANGED <<main, header, received, peerSent, node, dropped>>
        /\ \E n \in 0 .. Len(toClient) : toClient' = Take(toClient, n)
    BY <1>4, Zenon DEF PeerCloses, clientVars, peerVars
  <2>2. \A n \in 0 .. Len(toClient) : n \in Nat /\ n <= Len(toClient)
    BY <1>0, SeqFacts
  <2> QED BY <2>1, <2>2, Zenon DEF Cut
<1>5. CASE PeerSends \/ PeerAnswers
  <2>1. PICK m \in Messages : m.id = Len(peerSent) + 1 /\ PeerWrites(m)
    BY <1>5, WritesOf, Zenon
  <2>2. ~closed /\ closed' = closed /\ UNCHANGED <<main, header, received, node, dropped>>
    BY <1>5, Zenon DEF PeerSends, PeerAnswers, clientVars
  <2>3. Sent(m)
    BY <2>1, <2>2, Zenon DEF Sent
  <2> QED BY <2>2, <2>3
<1>6. CASE PeerReads
  <2>1. /\ UNCHANGED <<toClient, peerSent, received, main, header, node, dropped>>
        /\ closed' = closed \/ closed' = TRUE
    BY <1>6, PeerReadsWhat, Zenon DEF clientVars
  <2>2. Take(toClient, Len(toClient)) = toClient /\ Len(toClient) \in Nat /\ Len(toClient) <= Len(toClient)
    BY <1>0, SeqFacts, SubSeqFull DEF Take
  <2>3. closed' = TRUE => Cut
    BY <2>1, <2>2, Zenon DEF Cut
  <2> QED BY <2>1, <2>3, Zenon DEF SameStream
<1> QED BY <1>1, <1>2, <1>3, <1>4, <1>5, <1>6, Zenon DEF Next, Main

\* A header is read, or bytes that are none are dropped.
LEMMA HeaderSteps ==
    ASSUME TypeOK, HandshakeReadsHeader \/ ReadMessageHeader
    PROVE  /\ Shortened(HeaderSize) /\ UNCHANGED <<received, node, dropped>>
           /\ toClient[1].msg \in Messages /\ Len(toClient) > 0
           /\ main \in {"hsHeader", "ready"}
           /\ \/ /\ \A i \in 1 .. HeaderSize : toClient[i] = [msg |-> toClient[1].msg, at |-> i]
                 /\ toClient[1].at = 1 /\ toClient[1].msg.command # "unknown"
                 /\ header' = toClient[1].msg
                 /\ main' = IF HandshakeReadsHeader THEN "hsBody" ELSE "body"
              \/ /\ ~ (/\ \A i \in 1 .. HeaderSize : toClient[i] = [msg |-> toClient[1].msg, at |-> i]
                       /\ toClient[1].msg.command # "unknown")
                 /\ main' \in {"failed", "ready"}
<1>1. /\ HeaderArrived /\ toClient' = Drop(toClient, HeaderSize)
      /\ UNCHANGED <<received, node, dropped, peerSent, closed>> /\ main \in {"hsHeader", "ready"}
      /\ IF NewHeaderFromBytes(Take(toClient, HeaderSize))
         THEN header' = toClient[1].msg /\ main' = IF HandshakeReadsHeader THEN "hsBody" ELSE "body"
         ELSE main' \in {"failed", "ready"}
  <2>1. HandshakeReadsHeader => main = "hsHeader"
    BY Zenon DEF HandshakeReadsHeader
  <2>2. ReadMessageHeader => main = "ready"
    BY Zenon DEF ReadMessageHeader
  <2>3. ~(HandshakeReadsHeader /\ ReadMessageHeader)
    BY <2>1, <2>2
  <2>4. CASE HandshakeReadsHeader
    BY <2>4, Zenon DEF HandshakeReadsHeader, ReadUnchanged, peerVars
  <2>5. CASE ReadMessageHeader
    BY <2>3, <2>5, Zenon DEF ReadMessageHeader, ReadUnchanged, peerVars
  <2> QED BY <2>4, <2>5
<1>2. /\ toClient[1].msg \in Messages
      /\ NewHeaderFromBytes(Take(toClient, HeaderSize)) <=>
            /\ \A i \in 1 .. HeaderSize : toClient[i] = [msg |-> toClient[1].msg, at |-> i]
            /\ toClient[1].msg.command # "unknown"
  BY <1>1, HeaderRead
<1>3. /\ Len(toClient) > 0 /\ HeaderSize <= Len(toClient) /\ HeaderSize \in Nat
      /\ 1 \in 1 .. HeaderSize
  <2>1. toClient \in Seq(Bytes)
    BY Zenon DEF TypeOK
  <2>2. Len(toClient) \in Nat
    BY <2>1, SeqFacts
  <2> QED BY <1>1, <2>2, LengthsAreNat DEF HeaderArrived
<1>4. Shortened(HeaderSize)
  BY <1>1, <1>3, Zenon DEF Shortened
<1>5. (\A i \in 1 .. HeaderSize : toClient[i] = [msg |-> toClient[1].msg, at |-> i])
         => toClient[1].at = 1
  <2>1. \A m : [msg |-> m, at |-> 1].at = 1
    OBVIOUS
  <2> QED BY <1>3, <2>1, Zenon
<1> QED BY <1>1, <1>2, <1>3, <1>4, <1>5, Zenon

LEMMA BodySteps ==
    ASSUME TypeOK, HandshakeReadsBody \/ ReadMessageBody
    PROVE  /\ Shortened(header.length) /\ header \in Messages
           /\ HandshakeReadsBody =>
                 /\ main = "hsBody" /\ main' \in {"ready", "hsHeader"} /\ received' = received
           /\ ReadMessageBody =>
                 /\ main = "body" /\ main' \in {"ready", "answer"} /\ header' = header
                 /\ received' = Append(received,
                       [msg |-> header,
                        bytes |-> HeaderBytes(header) \o Take(toClient, header.length)])
<1>1. /\ BodyArrived /\ toClient' = Drop(toClient, header.length) /\ UNCHANGED <<peerSent, closed>>
      /\ header \in Messages
  BY Zenon DEF HandshakeReadsBody, ReadMessageBody, ReadUnchanged, peerVars, TypeOK, Holding
<1>2. header.length \in Nat /\ header.length <= Len(toClient)
  <2>1. toClient \in Seq(Bytes)
    BY Zenon DEF TypeOK
  <2>2. Len(toClient) \in Nat
    BY <2>1, SeqFacts
  <2> QED BY <1>1, <2>2, MessageFields DEF BodyArrived
<1>3. Shortened(header.length)
  BY <1>1, <1>2, Zenon DEF Shortened
<1>4. HandshakeReadsBody =>
         /\ main = "hsBody" /\ main' \in {"ready", "hsHeader"} /\ received' = received
  BY Zenon DEF HandshakeReadsBody
<1>5. ReadMessageBody =>
         /\ main = "body" /\ main' \in {"ready", "answer"} /\ header' = header
         /\ received' = Append(received,
               [msg |-> header, bytes |-> HeaderBytes(header) \o Take(toClient, header.length)])
  BY Zenon DEF ReadMessageBody
<1> QED BY <1>1, <1>3, <1>4, <1>5, Zenon

LEMMA AlwaysStream ==
    TypeOK /\ PeersOwn /\ ClientStream /\ [Next]_vars => ClientStream'
<1> SUFFICES ASSUME TypeOK, PeersOwn, ClientStream, [Next]_vars PROVE ClientStream'
  OBVIOUS
<1>1. \/ SameStream \/ Cut \/ (\E m : Sent(m))
      \/ HandshakeReadsHeader \/ HandshakeReadsBody \/ ReadMessageHeader \/ ReadMessageBody
  BY StreamSteps, Zenon
<1>2. HandshakeReadsHeader \/ ReadMessageHeader => \E n : Shortened(n)
  BY HeaderSteps
<1>3. HandshakeReadsBody \/ ReadMessageBody => \E n : Shortened(n)
  BY BodySteps
<1> QED BY <1>1, <1>2, <1>3, NextClientStream, Zenon

\* The body that follows is that of the header that was read.
LEMMA NextBodyNext ==
    TypeOK /\ PeersOwn /\ ClientStream /\ BodyNext /\ [Next]_vars => BodyNext'
<1> SUFFICES ASSUME TypeOK, PeersOwn, ClientStream, BodyNext, [Next]_vars,
                    main' \in {"hsBody", "body"}
             PROVE  /\ \A i \in DOMAIN toClient' :
                          i <= header'.length => toClient'[i] = [msg |-> header', at |-> HeaderSize + i]
                    /\ ~closed' => Len(toClient') >= header'.length
  BY DEF BodyNext
<1>0. toClient \in Seq(Bytes) /\ closed \in BOOLEAN /\ Len(toClient) \in Nat
      /\ DOMAIN toClient = 1 .. Len(toClient) /\ HeaderSize \in Nat \ {0}
  <2>1. toClient \in Seq(Bytes) /\ closed \in BOOLEAN
    BY Zenon DEF TypeOK
  <2> QED BY <2>1, SeqFacts, LengthsAreNat
<1>a. ASSUME main' = main, header' = header
      PROVE  /\ header \in Messages /\ header.length \in Nat
             /\ \A i \in DOMAIN toClient :
                   i <= header.length => toClient[i] = [msg |-> header, at |-> HeaderSize + i]
             /\ ~closed => Len(toClient) >= header.length
  <2>1. header \in Messages
    BY <1>a DEF TypeOK, Holding
  <2> QED BY <1>a, <2>1, MessageFields DEF BodyNext
<1>1. CASE SameStream /\ main' = main /\ header' = header
  BY <1>1, <1>a DEF SameStream
<1>2. CASE Cut /\ main' = main /\ header' = header
  <2>1. PICK n \in Nat : n <= Len(toClient) /\ toClient' = Take(toClient, n)
    BY <1>2, Zenon DEF Cut
  <2>2. /\ Take(toClient, n) \in Seq(Bytes) /\ Len(Take(toClient, n)) = n
        /\ \A i \in 1 .. n : Take(toClient, n)[i] = toClient[i]
    BY <1>0, <2>1, TakeFacts
  <2>3. \A i \in DOMAIN toClient' : i \in DOMAIN toClient /\ toClient'[i] = toClient[i]
    BY <1>0, <2>1, <2>2, SeqFacts
  <2>4. closed'
    BY <1>2 DEF Cut
  <2> QED BY <1>2, <1>a, <2>3, <2>4
<1>3. CASE (\E m : Sent(m)) /\ main' = main /\ header' = header
  <2>1. PICK m : Sent(m)
    BY <1>3
  <2>2. /\ m \in Messages /\ ~closed /\ PeerWrites(m)
    BY <2>1, Zenon DEF Sent
  <2>3. /\ toClient' \in Seq(Bytes) /\ Len(toClient') = Len(toClient) + Size(m)
        /\ \A k \in 1 .. Len(toClient) : toClient'[k] = toClient[k]
    BY <2>2, PeerWritten
  <2>4. Size(m) \in Nat /\ DOMAIN toClient' = 1 .. Len(toClient')
    BY <2>2, <2>3, SizeIsNat, SeqFacts
  <2>5. header.length <= Len(toClient) /\ header.length \in Nat
    BY <1>0, <1>3, <1>a, <2>2
  <2>6. \A i \in DOMAIN toClient' : i <= header.length => i \in DOMAIN toClient /\ toClient'[i] = toClient[i]
    BY <1>0, <2>3, <2>4, <2>5
  <2>7. Len(toClient') >= header.length
    BY <1>0, <2>3, <2>4, <2>5
  <2> QED BY <1>3, <1>a, <2>6, <2>7
<1>4. CASE HandshakeReadsHeader \/ ReadMessageHeader
  <2> DEFINE m == toClient[1].msg
  <2>1. /\ Shortened(HeaderSize) /\ m \in Messages /\ Len(toClient) > 0 /\ toClient[1].at = 1
        /\ header' = m
    BY <1>4, HeaderSteps
  <2>2. m.length \in Nat /\ Size(m) = HeaderSize + m.length
    BY <2>1, MessageFields DEF Size
  <2>3. \A i \in DOMAIN toClient : i <= Size(m) => toClient[i] = [msg |-> m, at |-> i]
    BY <1>0, <2>1, FirstMessage DEF ClientStream
  <2>4. ~closed => Size(m) <= Len(toClient)
    <3> SUFFICES ASSUME ~closed PROVE Size(m) <= Len(toClient)
      OBVIOUS
    <3>1. 1 \in 1 .. Len(toClient) /\ Consistent(toClient) /\ Complete(toClient, peerSent)
      BY <1>0, <2>1 DEF ClientStream
    <3>2. 1 - toClient[1].at + Size(m) <= Len(toClient)
      BY <1>0, <3>1, WholeThere
    <3> QED BY <1>0, <2>1, <2>2, <3>2
  <2>5. /\ toClient' \in Seq(Bytes) /\ Len(toClient') = Len(toClient) - HeaderSize
        /\ \A i \in 1 .. Len(toClient) - HeaderSize : toClient'[i] = toClient[i + HeaderSize]
        /\ closed' = closed
    BY <1>0, <2>1, ShortenedStream, Zenon
  <2>6. DOMAIN toClient' = 1 .. Len(toClient) - HeaderSize
    BY <2>5, SeqFacts
  <2> HIDE DEF m
  <2>7. ASSUME NEW i \in DOMAIN toClient', i <= m.length
        PROVE  toClient'[i] = [msg |-> m, at |-> HeaderSize + i]
    <3>1. /\ i + HeaderSize \in DOMAIN toClient /\ i + HeaderSize <= Size(m)
          /\ toClient'[i] = toClient[i + HeaderSize] /\ i + HeaderSize = HeaderSize + i
      BY <1>0, <2>2, <2>5, <2>6, <2>7
    <3> QED BY <2>3, <3>1
  <2>8. ~closed' => Len(toClient') >= m.length
    BY <1>0, <2>2, <2>4, <2>5
  <2> QED BY <2>1, <2>7, <2>8
<1>5. CASE HandshakeReadsBody \/ ReadMessageBody
  <2>1. main' \in {"ready", "hsHeader", "answer"}
    BY <1>5, BodySteps
  <2> QED BY <2>1
<1> QED BY <1>1, <1>2, <1>3, <1>4, <1>5, StreamSteps

\* What was read is in the order of the peer, and earlier than what begins next.
LEMMA NextReadBefore ==
    TypeOK /\ PeersOwn /\ ClientStream /\ ReadBefore /\ [Next]_vars => ReadBefore'
<1> SUFFICES ASSUME TypeOK, PeersOwn, ClientStream, ReadBefore, [Next]_vars PROVE ReadBefore'
  OBVIOUS
<1>0. /\ toClient \in Seq(Bytes) /\ received \in Seq(Received) /\ peerSent \in Seq(Messages)
      /\ Len(toClient) \in Nat /\ DOMAIN toClient = 1 .. Len(toClient)
      /\ Len(received) \in Nat /\ DOMAIN received = 1 .. Len(received)
      /\ Len(peerSent) \in Nat /\ DOMAIN peerSent = 1 .. Len(peerSent)
  <2>1. toClient \in Seq(Bytes) /\ received \in Seq(Received) /\ peerSent \in Seq(Messages)
    BY Zenon DEF TypeOK, Received
  <2> QED BY <2>1, SeqFacts
<1>a. /\ \A i \in DOMAIN received : BeginsLater(toClient, received[i].msg)
      /\ \A i \in DOMAIN received : In(received[i].msg, peerSent)
      /\ main = "body" => /\ BeginsLater(toClient, header) /\ In(header, peerSent)
                          /\ \A i \in DOMAIN received : received[i].msg.id < header.id
  BY Zenon DEF ReadBefore, PeersOwn
<1> DEFINE Goal == /\ \A i \in DOMAIN received' : BeginsLater(toClient', received'[i].msg)
                   /\ \A i \in DOMAIN received' : In(received'[i].msg, peerSent')
                   /\ main' = "body" => /\ BeginsLater(toClient', header')
                                        /\ \A i \in DOMAIN received' : received'[i].msg.id < header'.id
<1> SUFFICES Goal
  BY Zenon DEF ReadBefore, BeginsLater, In
<1>1. CASE SameStream /\ received' = received
           /\ (main' \notin {"hsBody", "body"} \/ (main' = main /\ header' = header))
  BY <1>1, <1>a, Zenon DEF SameStream
<1>2. CASE Cut /\ UNCHANGED <<main, header, received>>
  <2>1. PICK n \in Nat : n <= Len(toClient) /\ toClient' = Take(toClient, n) /\ peerSent' = peerSent
    BY <1>2, Zenon DEF Cut
  <2>2. \A m : BeginsLater(toClient, m) => BeginsLater(toClient', m)
    BY <1>0, <2>1, LaterTaken
  <2> QED BY <1>2, <1>a, <2>1, <2>2, Zenon
<1>3. ASSUME NEW n, Shortened(n)
      PROVE  peerSent' = peerSent /\ \A m : BeginsLater(toClient, m) => BeginsLater(toClient', m)
  BY <1>0, <1>3, LaterDropped, Zenon DEF Shortened
<1>4. CASE (\E m : Sent(m)) /\ UNCHANGED <<main, header, received>>
  <2>1. PICK m : Sent(m)
    BY <1>4
  <2>2. m \in Messages /\ m.id = Len(peerSent) + 1 /\ PeerWrites(m)
    BY <2>1, Zenon DEF Sent
  <2>3. /\ toClient' \in Seq(Bytes) /\ Len(toClient') = Len(toClient) + Size(m)
        /\ \A k \in 1 .. Len(toClient) : toClient'[k] = toClient[k]
        /\ \A k \in 1 .. Size(m) : toClient'[Len(toClient) + k] = [msg |-> m, at |-> k]
        /\ peerSent' \in Seq(Messages) /\ Len(peerSent') = Len(peerSent) + 1
        /\ \A i \in 1 .. Len(peerSent) : peerSent'[i] = peerSent[i]
    BY <2>2, PeerWritten
  <2>4. Size(m) \in Nat /\ DOMAIN toClient' = 1 .. Len(toClient) + Size(m)
    BY <2>2, <2>3, SizeIsNat, SeqFacts
  <2>5. \A x : In(x, peerSent) => In(x, peerSent') /\ x.id <= Len(peerSent)
    <3>1. Len(peerSent) <= Len(peerSent')
      BY <1>0, <2>3
    <3>2. \A x : In(x, peerSent) => In(x, peerSent')
      BY <1>0, <2>3, <3>1, InLonger
    <3>3. \A x : In(x, peerSent) => x.id <= Len(peerSent)
      BY <1>0 DEF In
    <3> QED BY <3>2, <3>3
  <2>6. ASSUME NEW x, In(x, peerSent), BeginsLater(toClient, x) PROVE BeginsLater(toClient', x)
    <3> SUFFICES ASSUME NEW k \in DOMAIN toClient', toClient'[k].at = 1
                 PROVE  x.id < toClient'[k].msg.id
      BY DEF BeginsLater
    <3>1. CASE k <= Len(toClient)
      <4>1. k \in DOMAIN toClient /\ toClient'[k] = toClient[k]
        BY <1>0, <2>3, <2>4, <3>1
      <4> QED BY <2>6, <4>1 DEF BeginsLater
    <3>2. CASE k > Len(toClient)
      <4>1. k - Len(toClient) \in 1 .. Size(m) /\ Len(toClient) + (k - Len(toClient)) = k
        BY <1>0, <2>4, <3>2
      <4>2. toClient'[k] = [msg |-> m, at |-> k - Len(toClient)]
        BY <2>3, <4>1
      <4>3. toClient'[k].msg = m
        BY <4>2
      <4>4. x.id <= Len(peerSent) /\ x.id \in Nat
        BY <1>0, <2>6 DEF In
      <4> QED BY <1>0, <2>2, <4>3, <4>4
    <3> QED BY <1>0, <2>4, <3>1, <3>2
  <2> QED BY <1>4, <1>a, <2>5, <2>6, Zenon
<1>5. CASE HandshakeReadsHeader \/ ReadMessageHeader
  <2> DEFINE m == toClient[1].msg
  <2>1. /\ Shortened(HeaderSize) /\ received' = received /\ m \in Messages /\ Len(toClient) > 0
        /\ main' = "body" => toClient[1].at = 1 /\ header' = m
    BY <1>5, HeaderSteps
  <2>2. peerSent' = peerSent /\ \A x : BeginsLater(toClient, x) => BeginsLater(toClient', x)
    BY <1>3, <2>1
  <2>3. ASSUME main' = "body"
        PROVE  BeginsLater(toClient', m) /\ \A i \in DOMAIN received : received[i].msg.id < m.id
    <3>1. 1 \in DOMAIN toClient /\ toClient[1].at = 1
      BY <1>0, <2>1, <2>3
    <3>2. \A i \in DOMAIN received : received[i].msg.id < m.id
      BY <1>a, <3>1 DEF BeginsLater
    <3>3. /\ toClient' \in Seq(Bytes) /\ Len(toClient') = Len(toClient) - HeaderSize
          /\ \A i \in 1 .. Len(toClient) - HeaderSize : toClient'[i] = toClient[i + HeaderSize]
          /\ HeaderSize \in Nat \ {0}
      <4>1. HeaderSize \in Nat \ {0}
        BY LengthsAreNat, Zenon
      <4>2. Shortened(HeaderSize) /\ toClient \in Seq(Bytes)
        BY <1>0, <2>1, Zenon
      <4> QED BY <4>1, <4>2, ShortenedStream, Zenon
    <3>4. \A k \in DOMAIN toClient' : /\ k + HeaderSize \in DOMAIN toClient /\ k + HeaderSize > 1
                                      /\ toClient'[k] = toClient[k + HeaderSize]
      BY <1>0, <3>3, SeqFacts, SMTT(30)
    <3>5. ASSUME NEW k \in DOMAIN toClient', toClient'[k].at = 1 PROVE m.id < toClient'[k].msg.id
      <4>1. /\ k + HeaderSize \in DOMAIN toClient /\ 1 < k + HeaderSize
            /\ toClient[k + HeaderSize].at = 1 /\ k + HeaderSize \in Nat
        BY <1>0, <3>4, <3>5
      <4>2. \/ m.id < toClient[k + HeaderSize].msg.id
            \/ toClient[k + HeaderSize].at - toClient[1].at = (k + HeaderSize) - 1
        BY <3>1, <4>1 DEF ClientStream, Ascending
      <4> QED BY <3>1, <3>4, <4>1, <4>2
    <3> QED BY <3>2, <3>5 DEF BeginsLater
  <2> QED BY <1>a, <2>1, <2>2, <2>3, Zenon
<1>6. CASE HandshakeReadsBody
  <2>1. Shortened(header.length) /\ main' \in {"ready", "hsHeader"} /\ received' = received
    BY <1>6, BodySteps
  <2>2. peerSent' = peerSent /\ \A x : BeginsLater(toClient, x) => BeginsLater(toClient', x)
    BY <1>3, <2>1
  <2>3. main' # "body"
    BY <2>1
  <2> QED BY <1>a, <2>1, <2>2, <2>3, Zenon
<1>7. CASE ReadMessageBody
  <2> DEFINE r == [msg |-> header, bytes |-> HeaderBytes(header) \o Take(toClient, header.length)]
  <2>1. /\ Shortened(header.length) /\ main = "body" /\ main' \in {"ready", "answer"}
        /\ received' = Append(received, r) /\ header \in Messages
    BY <1>7, BodySteps
  <2>2. peerSent' = peerSent /\ \A x : BeginsLater(toClient, x) => BeginsLater(toClient', x)
    BY <1>3, <2>1
  <2>3. r \in Received /\ r.msg = header
    <3>1. /\ Take(toClient, header.length) \in Seq(Bytes) /\ HeaderBytes(header) \in Seq(Bytes)
      BY <1>0, <2>1, TakeFacts, HeaderIsBytes DEF Shortened
    <3>2. HeaderBytes(header) \o Take(toClient, header.length) \in Seq(Bytes)
      BY <3>1, ConcatFacts
    <3> QED BY <2>1, <3>2 DEF Received
  <2> HIDE DEF r
  <2>4. \A i \in DOMAIN received' : \/ i \in DOMAIN received /\ received'[i] = received[i]
                                    \/ received'[i] = r
    BY <1>0, <2>1, <2>3, AppendProperties
  <2>5. main' # "body"
    BY <2>1
  <2> QED BY <1>a, <2>1, <2>2, <2>3, <2>4, <2>5
<1> QED BY <1>1, <1>2, <1>4, <1>5, <1>6, <1>7, StreamSteps, Zenon

\* The inductive invariant of the client's side.
ClientInv == TypeOK /\ PeersOwn /\ ClientStream /\ BodyNext /\ ReadBefore

LEMMA InitClientInv == Init => ClientInv
<1> SUFFICES ASSUME Init PROVE ClientStream /\ BodyNext /\ ReadBefore
  BY InitTypes, InitPeersOwn DEF ClientInv
<1>1. toClient = <<>> /\ main = "start" /\ received = <<>>
  BY Zenon DEF Init
<1>2. main \notin {"hsBody", "body"} /\ main # "body" /\ DOMAIN received = {}
  BY <1>1
<1>3. ClientStream
  BY <1>1, EmptyStream, Zenon DEF ClientStream
<1>4. BodyNext
  BY <1>2, Zenon DEF BodyNext
<1>5. ReadBefore
  BY <1>2 DEF ReadBefore
<1> QED BY <1>3, <1>4, <1>5

LEMMA NextClientInv == ClientInv /\ [Next]_vars => ClientInv'
BY NextTypes, NextPeersOwn, AlwaysStream, NextBodyNext, NextReadBefore, Zenon DEF ClientInv

LEMMA AlwaysClientInv == Spec => []ClientInv
BY InitClientInv, NextClientInv, PTL DEF Spec

\* What ReadMessage returns is its header with as many bytes as that announces.
LEMMA BodyIsWhole ==
    ASSUME TypeOK, BodyNext, ReadMessageBody
    PROVE  HeaderBytes(header) \o Take(toClient, header.length) = Message(header)
<1>1. BodyArrived /\ main = "body" /\ header \in Messages
  BY Zenon DEF ReadMessageBody, TypeOK, Holding
<1>2. toClient \in Seq(Bytes) /\ header.length \in Nat /\ header.length <= Len(toClient)
  <2>1. toClient \in Seq(Bytes)
    BY Zenon DEF TypeOK
  <2> QED BY <1>1, <2>1, SeqFacts, MessageFields DEF BodyArrived
<1>3. /\ Take(toClient, header.length) \in Seq(Bytes)
      /\ Len(Take(toClient, header.length)) = header.length
      /\ \A i \in 1 .. header.length : Take(toClient, header.length)[i] = toClient[i]
  BY <1>2, TakeFacts
<1>4. /\ BodyBytes(header) \in Seq(Bytes) /\ Len(BodyBytes(header)) = header.length
      /\ \A i \in 1 .. header.length : BodyBytes(header)[i] = [msg |-> header, at |-> HeaderSize + i]
  BY <1>1, BodyIsBytes
<1>5. \A i \in 1 .. header.length : toClient[i] = [msg |-> header, at |-> HeaderSize + i]
  <2>1. \A i \in 1 .. header.length : i \in DOMAIN toClient /\ i <= header.length
    BY <1>2, SeqFacts
  <2> QED BY <1>1, <2>1 DEF BodyNext
<1>6. Take(toClient, header.length) = BodyBytes(header)
  <2>1. Len(Take(toClient, header.length)) = Len(BodyBytes(header))
    BY <1>3, <1>4
  <2>2. \A i \in 1 .. Len(Take(toClient, header.length)) :
           Take(toClient, header.length)[i] = BodyBytes(header)[i]
    BY <1>3, <1>4, <1>5
  <2> QED BY <1>3, <1>4, <2>1, <2>2, SeqEqual
<1> QED BY <1>6 DEF Message

\* Whatever errors ReadMessage has returned before, what it does return is whole and
\* in the order of the peer.
THEOREM WholeInOrder == Spec => []ReadsWholeMessages
<1>1. Init => ReadsWholeMessages
  <2> SUFFICES ASSUME Init PROVE ReadsWholeMessages
    OBVIOUS
  <2>1. received = <<>>
    BY Zenon DEF Init
  <2>2. DOMAIN received = {}
    BY <2>1
  <2> QED BY <2>2 DEF ReadsWholeMessages
<1>2. ClientInv /\ ReadsWholeMessages /\ [Next]_vars => ReadsWholeMessages'
  <2> SUFFICES ASSUME ClientInv, ReadsWholeMessages, [Next]_vars PROVE ReadsWholeMessages'
    OBVIOUS
  <2>1. TypeOK /\ BodyNext /\ ReadBefore
    BY DEF ClientInv
  <2>2. CASE received' = received
    BY <2>2, Zenon DEF ReadsWholeMessages, Message, HeaderBytes, BodyBytes
  <2>3. CASE ReadMessageBody
    <3> DEFINE r == [msg |-> header, bytes |-> HeaderBytes(header) \o Take(toClient, header.length)]
    <3>1. received' = Append(received, r) /\ main = "body" /\ header \in Messages
      BY <2>1, <2>3, BodySteps
    <3>2. r.msg = header /\ r.bytes = Message(header)
      BY <2>1, <2>3, BodyIsWhole
    <3>3. r \in Received
      <4>1. Message(header) \in Seq(Bytes)
        BY <3>1, MessageIsBytes
      <4> QED BY <3>1, <3>2, <4>1 DEF Received
    <3> HIDE DEF r
    <3>4. received \in Seq(Received)
      BY <2>1, Zenon DEF TypeOK, Received
    <3>5. /\ Len(received) \in Nat /\ DOMAIN received = 1 .. Len(received)
          /\ DOMAIN received' = 1 .. Len(received) + 1
          /\ \A i \in 1 .. Len(received) : received'[i] = received[i]
          /\ received'[Len(received) + 1] = r
      BY <3>1, <3>3, <3>4, AppendProperties, SeqFacts
    <3>6. /\ \A i \in DOMAIN received : received[i].bytes = Message(received[i].msg)
          /\ \A i, j \in DOMAIN received : i < j => received[i].msg.id < received[j].msg.id
          /\ \A i \in DOMAIN received : received[i].msg.id < header.id
      BY <2>1, <3>1 DEF ReadsWholeMessages, ReadBefore
    <3>7. ASSUME NEW i \in DOMAIN received' PROVE received'[i].bytes = Message(received'[i].msg)
      <4>1. i \in DOMAIN received \/ i = Len(received) + 1
        BY <3>5
      <4>2. CASE i \in DOMAIN received
        <5>1. received'[i] = received[i]
          BY <3>5, <4>2
        <5> QED BY <3>6, <4>2, <5>1
      <4>3. CASE i = Len(received) + 1
        BY <3>2, <3>5, <4>3
      <4> QED BY <4>1, <4>2, <4>3
    <3>8. ASSUME NEW i \in DOMAIN received', NEW j \in DOMAIN received', i < j
          PROVE  received'[i].msg.id < received'[j].msg.id
      <4>1. i \in DOMAIN received /\ received'[i] = received[i]
        BY <3>5, <3>8
      <4>2. CASE j \in DOMAIN received
        <5>1. received'[j] = received[j]
          BY <3>5, <4>2
        <5> QED BY <3>6, <3>8, <4>1, <4>2, <5>1
      <4>3. CASE j = Len(received) + 1
        BY <3>2, <3>5, <3>6, <4>1, <4>3
      <4> QED BY <3>5, <4>2, <4>3
    <3> QED BY <3>7, <3>8, Zenon DEF ReadsWholeMessages, Message, HeaderBytes, BodyBytes
  <2>4. \/ received' = received \/ ReadMessageBody
    BY <2>1, StreamSteps, HeaderSteps, BodySteps, Zenon
  <2> QED BY <2>2, <2>3, <2>4
<1> QED BY <1>1, <1>2, AlwaysClientInv, PTL DEF Spec

-----------------------------------------------------------------------------
(* What has been read is a prefix of what the peer sent.                       *)

LEMMA PrefixIs ==
    ASSUME NEW S, NEW s \in Seq(S), NEW t \in Seq(S)
    PROVE  IsPrefix(s, t) <=> Len(s) <= Len(t) /\ \A i \in 1 .. Len(s) : s[i] = t[i]
<1>0. Len(s) \in Nat /\ Len(t) \in Nat
  BY SeqFacts
<1>1. SubSeq(s, 1, Len(s)) = s
  BY SubSeqFull
<1> SUFFICES ASSUME Len(s) <= Len(t)
             PROVE  s = SubSeq(t, 1, Len(s)) <=> \A i \in 1 .. Len(s) : s[i] = t[i]
  BY <1>1 DEF IsPrefix
<1> DEFINE p == Take(t, Len(s))
<1>2. p \in Seq(S) /\ Len(p) = Len(s) /\ \A i \in 1 .. Len(s) : p[i] = t[i]
  BY <1>0, TakeFacts
<1>3. p = SubSeq(t, 1, Len(s))
  BY DEF Take
<1> HIDE DEF p
<1>4. (\A i \in 1 .. Len(s) : s[i] = t[i]) => s = p
  BY <1>2, SeqEqual
<1> QED BY <1>2, <1>3, <1>4

LEMMA AppendConcat ==
    ASSUME NEW S, NEW s \in Seq(S), NEW t \in Seq(S), NEW e \in S
    PROVE  s \o Append(t, e) = Append(s \o t, e)
<1>1. <<e>> \in Seq(S) /\ s \o t \in Seq(S)
  BY ConcatProperties
<1>2. Append(t, e) = t \o <<e>> /\ Append(s \o t, e) = (s \o t) \o <<e>>
  BY <1>1, AppendIsConcat
<1> QED BY <1>1, <1>2, ConcatAssociative

LEMMA MessagesOfSeq ==
    ASSUME NEW r \in Seq(Received)
    PROVE  /\ MessagesOf(r) \in Seq(Messages) /\ Len(MessagesOf(r)) = Len(r)
           /\ \A i \in 1 .. Len(r) : MessagesOf(r)[i] = r[i].msg
           /\ r = <<>> => MessagesOf(r) = <<>>
<1>1. Len(r) \in Nat /\ DOMAIN r = 1 .. Len(r) /\ \A i \in 1 .. Len(r) : r[i].msg \in Messages
  <2>1. Len(r) \in Nat /\ DOMAIN r = 1 .. Len(r) /\ \A i \in 1 .. Len(r) : r[i] \in Received
    BY SeqFacts
  <2>2. \A x \in Received : x.msg \in Messages
    BY DEF Received
  <2> QED BY <2>1, <2>2
<1>2. MessagesOf(r) \in [1 .. Len(r) -> Messages]
  BY <1>1 DEF MessagesOf
<1>3. MessagesOf(r) \in Seq(Messages) /\ DOMAIN MessagesOf(r) = 1 .. Len(r)
  BY <1>1, <1>2, SeqDef
<1>4. Len(MessagesOf(r)) = Len(r)
  BY <1>1, <1>3, LenProperties
<1>5. ASSUME r = <<>> PROVE MessagesOf(r) = <<>>
  <2>1. Len(MessagesOf(r)) = 0
    BY <1>4, <1>5
  <2> QED BY <1>3, <2>1, EmptySeq
<1> QED BY <1>1, <1>3, <1>4, <1>5 DEF MessagesOf

LEMMA MessagesOfAppend ==
    ASSUME NEW r \in Seq(Received), NEW e \in Received
    PROVE  MessagesOf(Append(r, e)) = Append(MessagesOf(r), e.msg)
<1>1. /\ Append(r, e) \in Seq(Received) /\ Len(Append(r, e)) = Len(r) + 1
      /\ Append(r, e)[Len(r) + 1] = e /\ \A i \in 1 .. Len(r) : Append(r, e)[i] = r[i]
  BY AppendProperties
<1>2. e.msg \in Messages /\ Len(r) \in Nat
  BY SeqFacts DEF Received
<1>3. /\ MessagesOf(r) \in Seq(Messages) /\ Len(MessagesOf(r)) = Len(r)
      /\ \A i \in 1 .. Len(r) : MessagesOf(r)[i] = r[i].msg
  BY MessagesOfSeq
<1>4. /\ MessagesOf(Append(r, e)) \in Seq(Messages) /\ Len(MessagesOf(Append(r, e))) = Len(r) + 1
      /\ \A i \in 1 .. Len(r) + 1 : MessagesOf(Append(r, e))[i] = Append(r, e)[i].msg
  BY <1>1, MessagesOfSeq
<1>5. /\ Append(MessagesOf(r), e.msg) \in Seq(Messages)
      /\ Len(Append(MessagesOf(r), e.msg)) = Len(r) + 1
      /\ Append(MessagesOf(r), e.msg)[Len(r) + 1] = e.msg
      /\ \A i \in 1 .. Len(r) : Append(MessagesOf(r), e.msg)[i] = MessagesOf(r)[i]
  BY <1>2, <1>3, AppendProperties
<1>6. \A i \in 1 .. Len(r) + 1 :
         MessagesOf(Append(r, e))[i] = Append(MessagesOf(r), e.msg)[i]
  <2> TAKE i \in 1 .. Len(r) + 1
  <2>1. i \in 1 .. Len(r) \/ i = Len(r) + 1
    BY <1>2
  <2> QED BY <1>1, <1>3, <1>4, <1>5, <2>1
<1> QED BY <1>4, <1>5, <1>6, SeqEqual

LEMMA ReadSoFarType ==
    ASSUME TypeOK
    PROVE  /\ dropped \in Seq(Messages) /\ Answered \in Seq(Messages)
           /\ received \in Seq(Received) /\ MessagesOf(received) \in Seq(Messages)
           /\ dropped \o Answered \in Seq(Messages)
           /\ ReadSoFar \in Seq(Messages) /\ Len(ReadSoFar) \in Nat
<1>1. dropped \in Seq(Messages) /\ received \in Seq(Received) /\ node \in Slots
  BY Zenon DEF TypeOK, Received
<1>2. Answered \in Seq(Messages)
  <2>1. node # None => node \in Messages
    BY <1>1 DEF Slots
  <2> QED BY <2>1 DEF Answered
<1>3. MessagesOf(received) \in Seq(Messages)
  BY <1>1, MessagesOfSeq
<1>4. dropped \o Answered \in Seq(Messages)
  BY <1>1, <1>2, ConcatProperties
<1>5. ReadSoFar \in Seq(Messages)
  BY <1>3, <1>4, ConcatProperties DEF ReadSoFar
<1> QED BY <1>1, <1>2, <1>3, <1>4, <1>5, SeqFacts

LEMMA NextNothingBefore == TypeOK /\ NothingBefore /\ [Next]_vars => NothingBefore'
<1> SUFFICES ASSUME TypeOK, NothingBefore, [Next]_vars,
                    main' \in {"start", "hsPayload", "hsHeader", "hsBody"}
             PROVE  node' = None /\ received' = <<>>
  BY Zenon DEF NothingBefore
<1>0. main \in {"start", "hsPayload", "hsHeader", "hsBody"} => node = None /\ received = <<>>
  BY Zenon DEF NothingBefore
<1>1. CASE HandshakeWritesHeader \/ HandshakeWritesPayload \/ HandshakeReadsHeader
  BY <1>0, <1>1 DEF HandshakeWritesHeader, HandshakeWritesPayload, HandshakeReadsHeader
<1>2. CASE HandshakeReadsBody
  BY <1>0, <1>2 DEF HandshakeReadsBody
<1>3. CASE ReadMessageHeader \/ ReadMessageBody \/ AnswerWritesHeader \/ AnswerWritesPayload
           \/ MainFails
  <2>1. main' \in {"body", "answer", "ready", "answerPayload", "failed"}
           \/ (main' = main /\ main = "ready")
    BY <1>3, Zenon DEF ReadMessageHeader, ReadMessageBody, AnswerWritesHeader,
                       AnswerWritesPayload, MainFails
  <2> QED BY <2>1
<1>4. CASE UNCHANGED <<main, node, received>>
  BY <1>0, <1>4, Zenon
<1>5. UNCHANGED <<main, node, received>> \/ Main
  BY Zenon DEF Next, RequestWritesHeader, Caller, RequestWritesPayload, RequestFails, Close, PeerSends,
               PeerReads, PeerAnswers, PeerCloses, vars, clientVars
<1> QED BY <1>1, <1>2, <1>3, <1>4, <1>5, Zenon DEF Main

\* Reading a payload adds its message to what has been read, and nothing else does.
LEMMA ReadGrows ==
    ASSUME TypeOK, NothingBefore, HandshakeReadsBody \/ ReadMessageBody
    PROVE  ReadSoFar' = Append(ReadSoFar, header)
<1>0. header \in Messages /\ header # None
  <2>1. header \in Messages
    BY BodySteps
  <2> QED BY <2>1, NoneIsNoMessage
<1>1. CASE ReadMessageBody
  <2> DEFINE r == [msg |-> header, bytes |-> HeaderBytes(header) \o Take(toClient, header.length)]
  <2>1. received' = Append(received, r) /\ node' = node /\ dropped' = dropped /\ r.msg = header
    BY <1>1, Zenon DEF ReadMessageBody
  <2>2. r \in Received
    <3>1. BodyArrived
      BY <1>1, Zenon DEF ReadMessageBody
    <3>2. Take(toClient, header.length) \in Seq(Bytes) /\ HeaderBytes(header) \in Seq(Bytes)
      BY <1>0, <3>1, BodyRead, HeaderIsBytes
    <3>3. HeaderBytes(header) \o Take(toClient, header.length) \in Seq(Bytes)
      BY <3>2, ConcatFacts
    <3> QED BY <1>0, <3>3 DEF Received
  <2> HIDE DEF r
  <2>3. MessagesOf(received') = Append(MessagesOf(received), header)
    BY <2>1, <2>2, ReadSoFarType, MessagesOfAppend
  <2>4. ReadSoFar' = (dropped \o Answered) \o Append(MessagesOf(received), header)
    BY <2>1, <2>3, Zenon DEF ReadSoFar, Answered, MessagesOf
  <2> QED BY <1>0, <2>4, ReadSoFarType, AppendConcat, SMTT(30) DEF ReadSoFar
<1>2. CASE HandshakeReadsBody
  <2>1. node = None /\ received = <<>> /\ received' = received
    BY <1>2 DEF HandshakeReadsBody, NothingBefore
  <2>2. ReadSoFar = dropped
    <3>1. MessagesOf(received) = <<>> /\ Answered = <<>>
      BY <2>1, ReadSoFarType, MessagesOfSeq DEF Answered
    <3> QED BY <3>1, ReadSoFarType, ConcatEmptySeq DEF ReadSoFar
  <2>3. MessagesOf(received') = <<>>
    BY <2>1, ReadSoFarType, MessagesOfSeq
  <2>4. \/ node' = header /\ dropped' = dropped
        \/ node' = None /\ dropped' = Append(dropped, header)
    BY <1>2, <2>1, Zenon DEF HandshakeReadsBody
  <2>5. dropped \in Seq(Messages) /\ <<header>> \in Seq(Messages) /\ Append(dropped, header) \in Seq(Messages)
    BY <1>0, ReadSoFarType, AppendProperties
  <2>6. dropped \o <<header>> \in Seq(Messages) /\ Append(dropped, header) = dropped \o <<header>>
    BY <1>0, <2>5, AppendIsConcat, ConcatProperties
  <2>7. CASE node' = header /\ dropped' = dropped
    <3>1. ReadSoFar' = (dropped \o <<header>>) \o <<>>
      BY <1>0, <2>3, <2>7, Zenon DEF ReadSoFar, Answered, MessagesOf
    <3> QED BY <2>2, <2>6, <3>1, ConcatEmptySeq
  <2>8. CASE node' = None /\ dropped' = Append(dropped, header)
    <3>1. ReadSoFar' = (Append(dropped, header) \o <<>>) \o <<>>
      BY <2>3, <2>8, Zenon DEF ReadSoFar, Answered, MessagesOf
    <3>2. Append(dropped, header) \o <<>> = Append(dropped, header)
      BY <2>5, ConcatEmptySeq
    <3> QED BY <2>2, <3>1, <3>2
  <2> QED BY <2>4, <2>7, <2>8
<1> QED BY <1>1, <1>2

LEMMA ReadSame ==
    UNCHANGED <<received, node, dropped>> => ReadSoFar' = ReadSoFar
BY Zenon DEF ReadSoFar, Answered, MessagesOf

LEMMA BeginsSent ==
    ASSUME TypeOK, NEW m, Sent(m), NEW k \in Nat \ {0}, NEW n \in Nat,
           Len(toClient) + 1 >= k, BeginsNext(toClient, k, n),
           Len(toClient) + 1 = k => n = Len(peerSent)
    PROVE  BeginsNext(toClient', k, n) /\ Len(toClient') >= k
<1>1. m \in Messages /\ m.id = Len(peerSent) + 1 /\ PeerWrites(m)
  BY Zenon DEF Sent
<1>2. /\ toClient' \in Seq(Bytes) /\ Len(toClient') = Len(toClient) + Size(m)
      /\ \A i \in 1 .. Len(toClient) : toClient'[i] = toClient[i]
      /\ \A i \in 1 .. Size(m) : toClient'[Len(toClient) + i] = [msg |-> m, at |-> i]
  BY <1>1, PeerWritten
<1>3. Len(toClient) \in Nat /\ Size(m) \in Nat /\ Size(m) >= HeaderSize /\ HeaderSize \in Nat \ {0}
  <2>1. toClient \in Seq(Bytes)
    BY Zenon DEF TypeOK
  <2> QED BY <1>1, <2>1, SeqFacts, SizeIsNat, LengthsAreNat
<1>4. CASE k <= Len(toClient)
  <2>1. toClient'[k] = toClient[k] /\ Len(toClient) >= k /\ Len(toClient') >= k
    BY <1>2, <1>3, <1>4
  <2> QED BY <2>1 DEF BeginsNext
<1>5. CASE k = Len(toClient) + 1
  <2>1. 1 \in 1 .. Size(m) /\ Len(toClient') >= k
    BY <1>2, <1>3, <1>5
  <2>2. toClient'[k] = [msg |-> m, at |-> 1]
    BY <1>2, <1>5, <2>1
  <2>3. n = Len(peerSent)
    BY <1>5
  <2> QED BY <1>1, <2>1, <2>2, <2>3 DEF BeginsNext
<1> QED BY <1>3, <1>4, <1>5

LEMMA BeginsTaken ==
    ASSUME NEW s \in Seq(Bytes), NEW j \in Nat, j <= Len(s), NEW k \in Nat \ {0}, NEW n,
           BeginsNext(s, k, n)
    PROVE  BeginsNext(Take(s, j), k, n)
<1>1. Len(Take(s, j)) = j /\ \A i \in 1 .. j : Take(s, j)[i] = s[i]
  BY TakeFacts
<1>2. Len(s) \in Nat
  BY SeqFacts
<1>3. ASSUME j >= k PROVE Len(s) >= k /\ Take(s, j)[k] = s[k]
  BY <1>1, <1>2, <1>3
<1> QED BY <1>1, <1>3 DEF BeginsNext

\* In step, a header is read that parses: that of the message after those read.
LEMMA HeaderInStep ==
    ASSUME TypeOK, PeersOwn, ClientStream, InStep, AllKnown, HandshakeReadsHeader \/ ReadMessageHeader
    PROVE  /\ header' = toClient[1].msg /\ main' \in {"hsBody", "body"}
           /\ toClient[1].at = 1 /\ toClient[1].msg.id = Len(ReadSoFar) + 1
           /\ \A i \in DOMAIN toClient :
                 i <= Size(toClient[1].msg) => toClient[i] = [msg |-> toClient[1].msg, at |-> i]
<1>0. toClient \in Seq(Bytes) /\ Len(toClient) \in Nat /\ DOMAIN toClient = 1 .. Len(toClient)
  <2>1. toClient \in Seq(Bytes)
    BY Zenon DEF TypeOK
  <2> QED BY <2>1, SeqFacts
<1>1. /\ main \in {"hsHeader", "ready"} /\ Len(toClient) > 0 /\ toClient[1].msg \in Messages
      /\ HeaderSize <= Len(toClient)
  BY HeaderSteps, Zenon DEF Shortened
<1>2. main \notin {"hsBody", "body", "failed"} /\ Len(toClient) >= 1 /\ 1 \in DOMAIN toClient
  BY <1>0, <1>1
<1>3. toClient[1].at = 1 /\ toClient[1].msg.id = Len(ReadSoFar) + 1
  BY <1>2 DEF InStep, BeginsNext
<1>4. toClient[1].msg.command # "unknown"
  <2>1. In(toClient[1].msg, peerSent)
    BY <1>2, Zenon DEF PeersOwn
  <2> QED BY <2>1, Zenon DEF In, AllKnown
<1>5. \A i \in DOMAIN toClient :
         i <= Size(toClient[1].msg) => toClient[i] = [msg |-> toClient[1].msg, at |-> i]
  <2>1. Consistent(toClient)
    BY Zenon DEF ClientStream
  <2> QED BY <1>0, <1>1, <1>3, <2>1, FirstMessage
<1>6. \A i \in 1 .. HeaderSize : toClient[i] = [msg |-> toClient[1].msg, at |-> i]
  <2>1. \A i \in 1 .. HeaderSize : i \in DOMAIN toClient /\ i <= Size(toClient[1].msg)
    BY <1>0, <1>1, SizeIsNat, LengthsAreNat
  <2> QED BY <1>5, <2>1
<1>7. header' = toClient[1].msg /\ main' = IF HandshakeReadsHeader THEN "hsBody" ELSE "body"
  BY <1>4, <1>6, HeaderSteps, Zenon
<1> QED BY <1>3, <1>5, <1>7

LEMMA NextInStep == ClientInv /\ NothingBefore /\ InStep /\ [Next]_vars => InStep'
<1> SUFFICES ASSUME ClientInv, NothingBefore, InStep, [Next]_vars PROVE InStep'
  OBVIOUS
<1>0. TypeOK /\ PeersOwn /\ ClientStream /\ BodyNext
  BY DEF ClientInv
<1> DEFINE n == Len(ReadSoFar)
           Goal == /\ main' \notin {"hsBody", "body", "failed"} =>
                         /\ BeginsNext(toClient', 1, Len(ReadSoFar'))
                         /\ ~closed' /\ Len(toClient') = 0 => Len(ReadSoFar') = Len(peerSent')
                   /\ main' \in {"hsBody", "body"} =>
                         /\ header'.id = Len(ReadSoFar') + 1
                         /\ BeginsNext(toClient', header'.length + 1, header'.id)
                         /\ ~closed' /\ Len(toClient') = header'.length => header'.id = Len(peerSent')
<1> SUFFICES ASSUME AllKnown' PROVE Goal
  BY Zenon DEF InStep, BeginsNext
<1>1. /\ toClient \in Seq(Bytes) /\ Len(toClient) \in Nat /\ peerSent \in Seq(Messages)
      /\ Len(peerSent) \in Nat /\ DOMAIN peerSent = 1 .. Len(peerSent)
      /\ DOMAIN toClient = 1 .. Len(toClient) /\ n \in Nat /\ HeaderSize \in Nat \ {0}
  <2>1. toClient \in Seq(Bytes) /\ peerSent \in Seq(Messages)
    BY <1>0, Zenon DEF TypeOK
  <2> QED BY <1>0, <2>1, SeqFacts, ReadSoFarType, LengthsAreNat
<1>2. AllKnown
  <2>1. peerSent' = peerSent \/ \E m : Sent(m)
    BY <1>0, StreamSteps, HeaderSteps, BodySteps, Zenon DEF SameStream, Cut, Shortened
  <2>2. CASE peerSent' = peerSent
    BY <2>2, Zenon DEF AllKnown
  <2>3. CASE \E m : Sent(m)
    <3>1. PICK m \in Messages : PeerWrites(m)
      BY <2>3, Zenon DEF Sent
    <3>2. /\ peerSent' \in Seq(Messages) /\ Len(peerSent') = Len(peerSent) + 1
          /\ \A i \in 1 .. Len(peerSent) : peerSent'[i] = peerSent[i]
      BY <1>0, <3>1, PeerWritten
    <3>3. \A i \in DOMAIN peerSent : i \in DOMAIN peerSent' /\ peerSent'[i] = peerSent[i]
      BY <1>1, <3>2, SeqFacts
    <3> QED BY <3>3 DEF AllKnown
  <2> QED BY <2>1, <2>2, <2>3
<1>3. /\ main \notin {"hsBody", "body", "failed"} =>
            /\ BeginsNext(toClient, 1, n)
            /\ ~closed /\ Len(toClient) = 0 => n = Len(peerSent)
      /\ main \in {"hsBody", "body"} =>
            /\ header.id = n + 1
            /\ BeginsNext(toClient, header.length + 1, header.id)
            /\ ~closed /\ Len(toClient) = header.length => header.id = Len(peerSent)
  BY <1>2, Zenon DEF InStep
<1>4. main \in {"hsBody", "body"} =>
         /\ header \in Messages /\ header.length \in Nat /\ header.id \in Nat
         /\ header.length + 1 \in Nat \ {0} /\ (~closed => Len(toClient) >= header.length)
  BY <1>0, MessageFields DEF TypeOK, Holding, BodyNext
<1>5. CASE /\ SameStream /\ UNCHANGED <<received, node, dropped>>
           /\ main' \notin {"hsBody", "body"} \/ (main' = main /\ header' = header)
           /\ \/ main' = "failed"
              \/ main' = main /\ header' = header
              \/ main \notin {"hsBody", "body", "failed"} /\ main # "hsHeader"
  <2>1. ReadSoFar' = ReadSoFar /\ UNCHANGED <<toClient, peerSent, closed>>
    BY <1>5, ReadSame, Zenon DEF SameStream
  <2>2. CASE main' = "failed"
    BY <2>2
  <2>3. CASE main' = main /\ header' = header
    BY <1>3, <2>1, <2>3, Zenon DEF n
  <2>4. CASE main \notin {"hsBody", "body", "failed"} /\ main' \notin {"hsBody", "body"}
    BY <1>3, <2>1, <2>4, Zenon DEF n
  <2> QED BY <1>5, <2>2, <2>3, <2>4, Zenon
<1>6. CASE Cut /\ UNCHANGED <<main, header, received, node, dropped>>
  <2>1. ReadSoFar' = ReadSoFar /\ closed' /\ main' = main /\ header' = header
    BY <1>6, ReadSame, Zenon DEF Cut
  <2>2. PICK j \in Nat : j <= Len(toClient) /\ toClient' = Take(toClient, j)
    BY <1>6, Zenon DEF Cut
  <2>3. \A k \in Nat \ {0} : \A i : BeginsNext(toClient, k, i) => BeginsNext(toClient', k, i)
    BY <1>1, <2>2, BeginsTaken
  <2>4. 1 \in Nat \ {0}
    OBVIOUS
  <2> QED BY <1>3, <1>4, <2>1, <2>3, <2>4, Zenon DEF n
<1>7. CASE (\E m : Sent(m)) /\ UNCHANGED <<main, header, received, node, dropped>>
  <2>1. ReadSoFar' = ReadSoFar /\ main' = main /\ header' = header
    BY <1>7, ReadSame, Zenon
  <2>2. PICK m : Sent(m)
    BY <1>7
  <2>3. ~closed
    BY <2>2, Zenon DEF Sent
  <2>4. ASSUME main \notin {"hsBody", "body", "failed"}
        PROVE  BeginsNext(toClient', 1, n) /\ Len(toClient') # 0
    <3>1. BeginsNext(toClient', 1, n) /\ Len(toClient') >= 1
      <4>1. /\ Len(toClient) + 1 >= 1 /\ 1 \in Nat \ {0} /\ BeginsNext(toClient, 1, n)
            /\ Len(toClient) + 1 = 1 => n = Len(peerSent)
        BY <1>1, <1>3, <2>3, <2>4
      <4> HIDE DEF n
      <4> QED BY <1>0, <1>1, <2>2, <4>1, BeginsSent
    <3> QED BY <3>1
  <2>5. ASSUME main \in {"hsBody", "body"}
        PROVE  BeginsNext(toClient', header.length + 1, header.id) /\ Len(toClient') # header.length
    <3> DEFINE k == header.length + 1
    <3>1. /\ Len(toClient) + 1 >= k /\ k \in Nat \ {0} /\ BeginsNext(toClient, k, header.id)
          /\ Len(toClient) + 1 = k => header.id = Len(peerSent)
      BY <1>1, <1>3, <1>4, <2>3, <2>5
    <3>2. BeginsNext(toClient', k, header.id) /\ Len(toClient') >= k
      <4> HIDE DEF k
      <4>1. header.id \in Nat
        BY <1>4, <2>5
      <4> QED BY <1>0, <1>1, <2>2, <3>1, <4>1, BeginsSent
    <3> QED BY <1>4, <2>5, <3>2
  <2> QED BY <1>3, <2>1, <2>4, <2>5, Zenon DEF n
<1>8. CASE HandshakeReadsHeader \/ ReadMessageHeader
  <2> DEFINE m == toClient[1].msg
  <2>1. /\ header' = m /\ main' \in {"hsBody", "body"} /\ toClient[1].at = 1 /\ m.id = n + 1
        /\ \A i \in DOMAIN toClient : i <= Size(m) => toClient[i] = [msg |-> m, at |-> i]
    BY <1>0, <1>2, <1>8, HeaderInStep
  <2>2. /\ Shortened(HeaderSize) /\ UNCHANGED <<received, node, dropped>>
        /\ m \in Messages /\ Len(toClient) > 0
    BY <1>0, <1>8, HeaderSteps
  <2>3. ReadSoFar' = ReadSoFar /\ UNCHANGED <<peerSent, closed>>
    BY <2>2, ReadSame, Zenon DEF Shortened
  <2>4. m.length \in Nat /\ Size(m) = HeaderSize + m.length /\ m.id \in Nat
    BY <2>2, MessageFields DEF Size
  <2>5. /\ toClient' \in Seq(Bytes) /\ Len(toClient') = Len(toClient) - HeaderSize
        /\ \A i \in 1 .. Len(toClient) - HeaderSize : toClient'[i] = toClient[i + HeaderSize]
    BY <1>1, <2>2, ShortenedStream, Zenon
  <2> HIDE DEF m
  <2>6. Size(m) \in DOMAIN toClient => toClient[Size(m)] = [msg |-> m, at |-> Size(m)]
    BY <1>1, <2>1, <2>4
  <2>7. BeginsNext(toClient', m.length + 1, m.id)
    <3> SUFFICES ASSUME Len(toClient') >= m.length + 1
                 PROVE  toClient'[m.length + 1].at = 1 /\ toClient'[m.length + 1].msg.id = m.id + 1
      BY DEF BeginsNext
    <3>1. /\ toClient'[m.length + 1] = toClient[(m.length + 1) + HeaderSize]
          /\ (m.length + 1) + HeaderSize = Size(m) + 1 /\ Size(m) + 1 \in DOMAIN toClient
          /\ Size(m) \in DOMAIN toClient
      <4>1. m.length + 1 \in 1 .. Len(toClient) - HeaderSize
        BY <1>1, <2>4, <2>5
      <4>2. toClient'[m.length + 1] = toClient[(m.length + 1) + HeaderSize]
        BY <2>5, <4>1
      <4>3. /\ (m.length + 1) + HeaderSize = Size(m) + 1
            /\ 1 <= Size(m) /\ Size(m) + 1 <= Len(toClient)
        <5> DEFINE h == HeaderSize
                   l == m.length
        <5>1. h \in Nat \ {0} /\ l \in Nat /\ Size(m) = h + l /\ l + 1 <= Len(toClient) - h
          BY <1>1, <2>4, <4>1
        <5> HIDE DEF h, l
        <5>2. (l + 1) + h = Size(m) + 1 /\ 1 <= Size(m) /\ Size(m) + 1 <= Len(toClient)
          BY <1>1, <5>1
        <5> QED BY <5>2 DEF h, l
      <4> QED BY <1>1, <2>4, <4>2, <4>3, SMTT(30)
    <3>2. toClient[Size(m)].msg = m /\ toClient[Size(m)].at = Size(toClient[Size(m)].msg)
      BY <2>6, <3>1
    <3>3. toClient[Size(m) + 1].at = 1 /\ toClient[Size(m) + 1].msg.id = m.id + 1
      BY <1>0, <3>1, <3>2 DEF ClientStream, Adjacent
    <3> QED BY <3>1, <3>3
  <2>8. ASSUME ~closed', Len(toClient') = m.length PROVE m.id = Len(peerSent)
    <3>1. Len(toClient) = Size(m) /\ Size(m) \in DOMAIN toClient
      BY <1>1, <2>2, <2>4, <2>5, <2>8
    <3>2. toClient[Len(toClient)].msg = m
      BY <2>6, <3>1
    <3>3. Complete(toClient, peerSent)
      BY <1>0, <2>3, <2>8 DEF ClientStream
    <3> QED BY <2>2, <3>2, <3>3 DEF Complete
  <2>9. main' \notin {"hsBody", "body", "failed"} => FALSE
    BY <2>1
  <2> QED BY <2>1, <2>3, <2>7, <2>8, <2>9, Zenon DEF n
<1>9. CASE HandshakeReadsBody \/ ReadMessageBody
  <2>1. /\ Shortened(header.length) /\ header \in Messages /\ main \in {"hsBody", "body"}
        /\ main' \in {"ready", "hsHeader", "answer"}
    BY <1>0, <1>9, BodySteps
  <2>2. Len(ReadSoFar') = header.id
    <3>1. ReadSoFar' = Append(ReadSoFar, header) /\ ReadSoFar \in Seq(Messages)
      BY <1>0, <1>9, ReadGrows, ReadSoFarType
    <3>2. Len(ReadSoFar') = n + 1
      BY <2>1, <3>1, AppendProperties
    <3> QED BY <1>3, <2>1, <3>2
  <2>3. UNCHANGED <<peerSent, closed>>
    BY <2>1, Zenon DEF Shortened
  <2>4. /\ toClient' \in Seq(Bytes) /\ Len(toClient') = Len(toClient) - header.length
        /\ \A i \in 1 .. Len(toClient) - header.length : toClient'[i] = toClient[i + header.length]
        /\ header.length \in Nat
    BY <1>1, <2>1, ShortenedStream, Zenon
  <2>5. BeginsNext(toClient', 1, header.id)
    <3> SUFFICES ASSUME Len(toClient') >= 1
                 PROVE  toClient'[1].at = 1 /\ toClient'[1].msg.id = header.id + 1
      BY DEF BeginsNext
    <3>1. toClient'[1] = toClient[header.length + 1] /\ Len(toClient) >= header.length + 1
      BY <1>1, <2>4
    <3> QED BY <1>3, <2>1, <3>1 DEF BeginsNext
  <2>6. ~closed' /\ Len(toClient') = 0 => header.id = Len(peerSent)
    BY <1>1, <1>3, <2>1, <2>3, <2>4
  <2>7. main' \notin {"hsBody", "body"}
    BY <2>1
  <2> QED BY <2>2, <2>3, <2>5, <2>6, <2>7, Zenon
<1> QED BY <1>0, <1>5, <1>6, <1>7, <1>8, <1>9, StreamSteps, Zenon

\* The invariant is in step with what the history says was skipped: nothing.
StepInv == ClientInv /\ NothingBefore /\ InStep

LEMMA InitStepInv == Init => StepInv
<1> SUFFICES ASSUME Init PROVE NothingBefore /\ InStep
  BY InitClientInv DEF StepInv
<1>1. /\ main = "start" /\ node = None /\ received = <<>> /\ dropped = <<>> /\ toClient = <<>>
      /\ peerSent = <<>>
  BY Zenon DEF Init
<1>2. NothingBefore
  BY <1>1, Zenon DEF NothingBefore
<1>3. ReadSoFar = <<>>
  <2>1. MessagesOf(received) = <<>> /\ Answered = <<>>
    <3>1. received \in Seq(Received)
      BY <1>1, EmptySeq
    <3> QED BY <1>1, <3>1, MessagesOfSeq DEF Answered
  <2>2. <<>> \in Seq(Messages)
    BY EmptySeq
  <2> QED BY <1>1, <2>1, <2>2, ConcatEmptySeq DEF ReadSoFar
<1>4. Len(toClient) = 0 /\ Len(ReadSoFar) = Len(peerSent)
  BY <1>1, <1>3, EmptyStream
<1>5. BeginsNext(toClient, 1, Len(ReadSoFar))
  BY <1>4 DEF BeginsNext
<1> QED BY <1>1, <1>2, <1>4, <1>5 DEF InStep

LEMMA NextStepInv == StepInv /\ [Next]_vars => StepInv'
BY NextClientInv, NextNothingBefore, NextInStep, Zenon DEF StepInv, ClientInv

\* What has been read, message for message.
AsSent ==
    /\ Len(ReadSoFar) <= Len(peerSent)
    /\ \A i \in 1 .. Len(ReadSoFar) : ReadSoFar[i] = peerSent[i]

LEMMA SkippedNone == TypeOK => (NothingSkipped <=> (AllKnown => AsSent))
<1> SUFFICES ASSUME TypeOK PROVE NothingSkipped <=> (AllKnown => AsSent)
  OBVIOUS
<1>1. ReadSoFar \in Seq(Messages) /\ peerSent \in Seq(Messages)
  BY ReadSoFarType, Zenon DEF TypeOK
<1>2. IsPrefix(ReadSoFar, peerSent) <=> AsSent
  BY <1>1, PrefixIs DEF AsSent
<1>3. NothingSkipped <=> (AllKnown => IsPrefix(ReadSoFar, peerSent))
  BY Zenon DEF NothingSkipped, AllKnown, ReadSoFar, Answered
<1> QED BY <1>2, <1>3

\* As long as the peer sends no command that IsValidCommand refuses, every message
\* it sends is read once, in order: by Handshake up to its answer, by ReadMessage
\* from there.
THEOREM ReadsEveryMessage == Spec => []NothingSkipped
<1>1. Init => NothingSkipped
  <2> SUFFICES ASSUME Init PROVE NothingSkipped
    OBVIOUS
  <2>1. received = <<>> /\ dropped = <<>> /\ node = None /\ peerSent = <<>> /\ TypeOK
    BY InitTypes, Zenon DEF Init
  <2>2. MessagesOf(received) = <<>> /\ Answered = <<>> /\ <<>> \in Seq(Messages)
    BY <2>1, ReadSoFarType, MessagesOfSeq, EmptySeq DEF Answered
  <2>3. ReadSoFar = <<>>
    BY <2>1, <2>2, ConcatEmptySeq DEF ReadSoFar
  <2>4. Len(<<>>) = 0
    BY EmptyStream
  <2> QED BY <2>1, <2>3, <2>4, SkippedNone DEF AsSent
<1>2. StepInv /\ NothingSkipped /\ [Next]_vars => NothingSkipped'
  <2> SUFFICES ASSUME StepInv, NothingSkipped, [Next]_vars, AllKnown'
               PROVE  /\ Len(ReadSoFar') <= Len(peerSent')
                      /\ \A i \in 1 .. Len(ReadSoFar') : ReadSoFar'[i] = peerSent'[i]
    <3>1. StepInv /\ [Next]_vars => TypeOK'
      BY NextTypes DEF StepInv, ClientInv
    <3>2. TypeOK' => (NothingSkipped' <=> (AllKnown' => AsSent'))
      BY SkippedNone, PTL
    <3> QED BY <3>1, <3>2 DEF AsSent
  <2>0. TypeOK /\ InStep /\ ClientInv
    BY DEF StepInv, ClientInv
  <2>1. /\ ReadSoFar \in Seq(Messages) /\ Len(ReadSoFar) \in Nat /\ peerSent \in Seq(Messages)
        /\ Len(peerSent) \in Nat /\ DOMAIN peerSent = 1 .. Len(peerSent)
    <3>1. peerSent \in Seq(Messages)
      BY <2>0, Zenon DEF TypeOK
    <3> QED BY <2>0, <3>1, ReadSoFarType, SeqFacts
  <2>2. AllKnown => /\ Len(ReadSoFar) <= Len(peerSent)
                    /\ \A i \in 1 .. Len(ReadSoFar) : ReadSoFar[i] = peerSent[i]
    BY <2>0, SkippedNone DEF AsSent
  <2>3. CASE HandshakeReadsBody \/ ReadMessageBody
    <3>1. ReadSoFar' = Append(ReadSoFar, header) /\ header \in Messages
          /\ main \in {"hsBody", "body"} /\ peerSent' = peerSent
      BY <2>0, <2>3, ReadGrows, BodySteps, Zenon DEF StepInv, Shortened
    <3>2. AllKnown
      BY <3>1, Zenon DEF AllKnown
    <3>3. header.id = Len(ReadSoFar) + 1 /\ In(header, peerSent)
      <4>1. main \in {"hsBody", "body", "answer"} /\ PeersOwn
        BY <2>0, <3>1 DEF ClientInv
      <4> QED BY <2>0, <3>1, <3>2, <4>1, Zenon DEF InStep, PeersOwn
    <3>4. /\ Len(ReadSoFar') = Len(ReadSoFar) + 1 /\ ReadSoFar'[Len(ReadSoFar) + 1] = header
          /\ \A i \in 1 .. Len(ReadSoFar) : ReadSoFar'[i] = ReadSoFar[i]
      BY <2>1, <3>1, AppendProperties
    <3>5. Len(ReadSoFar) + 1 <= Len(peerSent) /\ peerSent[Len(ReadSoFar) + 1] = header
      BY <2>1, <3>3 DEF In
    <3>6. \A i \in 1 .. Len(ReadSoFar) + 1 : i \in 1 .. Len(ReadSoFar) \/ i = Len(ReadSoFar) + 1
      BY <2>1
    <3> QED BY <2>2, <3>1, <3>2, <3>4, <3>5, <3>6
  <2>4. CASE ~(HandshakeReadsBody \/ ReadMessageBody)
    <3>1. ReadSoFar' = ReadSoFar
      <4>1. UNCHANGED <<received, node, dropped>>
        BY <2>0, <2>4, StreamSteps, HeaderSteps, Zenon
      <4> QED BY <4>1, ReadSame
    <3>2. peerSent' = peerSent \/ \E m : Sent(m)
      BY <2>0, StreamSteps, HeaderSteps, BodySteps, Zenon DEF SameStream, Cut, Shortened
    <3>3. CASE peerSent' = peerSent
      <4>1. AllKnown
        BY <3>3, Zenon DEF AllKnown
      <4> QED BY <2>2, <3>1, <3>3, <4>1
    <3>4. CASE \E m : Sent(m)
      <4>1. PICK m \in Messages : PeerWrites(m)
        BY <3>4, Zenon DEF Sent
      <4>2. /\ peerSent' \in Seq(Messages) /\ Len(peerSent') = Len(peerSent) + 1
            /\ \A i \in 1 .. Len(peerSent) : peerSent'[i] = peerSent[i]
        BY <2>0, <4>1, PeerWritten
      <4>3. AllKnown
        <5>1. \A i \in DOMAIN peerSent : i \in DOMAIN peerSent' /\ peerSent'[i] = peerSent[i]
          BY <2>1, <4>2, SeqFacts
        <5> QED BY <5>1 DEF AllKnown
      <4>4. \A i \in 1 .. Len(ReadSoFar) : i \in 1 .. Len(peerSent)
        BY <2>1, <2>2, <4>3
      <4> QED BY <2>1, <2>2, <3>1, <4>2, <4>3, <4>4
    <3> QED BY <3>2, <3>3, <3>4
  <2> QED BY <2>3, <2>4
<1> QED BY <1>1, <1>2, InitStepInv, NextStepInv, PTL DEF Spec

-----------------------------------------------------------------------------
(* VarIn writes bytes, and what is read of them is the number that was written.  *)
(* The numbers are too large for Zenon: every leaf is for SMT.                   *)

\* The three forms of a size, their quotients named.
OneByte(i) == i <= 63 /\ VarIn(i) = <<4 * i>>
TwoBytes(i) ==
    \E low, b2 \in Nat :
        /\ low <= 63 /\ b2 <= 255
        /\ VarIn(i) = <<4 * low + 1, b2>>
        /\ low + 64 * b2 = i
FourBytes(i) ==
    \E low, b2, b3, b4 \in Nat :
        /\ low <= 63 /\ b2 <= 255 /\ b3 <= 255 /\ b4 <= 255
        /\ VarIn(i) = <<4 * low + 2, b2, b3, b4>>
        /\ low + 64 * b2 + 16384 * b3 + 4194304 * b4 = i

\* VarIn writes one of them.
LEMMA VarInCases ==
    ASSUME NEW i \in Nat, i <= MaxVarInt
    PROVE  OneByte(i) \/ TwoBytes(i) \/ FourBytes(i)
  <1>1. CASE i <= 63
    BY <1>1, SMT DEF OneByte, VarIn, PortableRawSizeMarkByte
  <1>2. CASE 63 < i /\ i <= 16383
    <2>1. /\ i % 64 \in Nat /\ i % 64 <= 63 /\ i \div 64 \in Nat /\ i \div 64 <= 255
          /\ (i % 64) + 64 * (i \div 64) = i
      BY <1>2, SMT
    <2>2. VarIn(i) = <<4 * (i % 64) + 1, i \div 64>>
      BY <1>2, SMT DEF VarIn, PortableRawSizeMarkWord
    <2> QED
      BY <2>1, <2>2, SMT DEF TwoBytes
  <1>3. CASE i > 16383
    <2>1. i % 64 \in Nat /\ i % 64 <= 63
      BY SMT
    <2>2. (i \div 64) % 256 \in Nat /\ (i \div 64) % 256 <= 255
      BY SMT
    <2>3. (i \div 16384) % 256 \in Nat /\ (i \div 16384) % 256 <= 255
      BY SMT
    <2>4. i \div 4194304 \in Nat /\ i \div 4194304 <= 255
      BY SMT DEF MaxVarInt
    <2>5. (i % 64) + 64 * ((i \div 64) % 256) + 16384 * ((i \div 16384) % 256)
              + 4194304 * (i \div 4194304) = i
      BY SMT
    <2>6. VarIn(i) = <<4 * (i % 64) + 2, (i \div 64) % 256, (i \div 16384) % 256,
                       i \div 4194304>>
      BY <1>3, SMT DEF VarIn, PortableRawSizeMarkDword
    <2> QED
      BY <2>1, <2>2, <2>3, <2>4, <2>5, <2>6, SMT DEF FourBytes
  <1> QED
    BY <1>1, <1>2, <1>3, SMT

\* What VarIn writes are bytes: no shift of levin/portable_storage.go loses a bit
\* and no conversion to a byte cuts one off.
THEOREM VarInWritesBytes ==
    ASSUME NEW i \in Nat, i <= MaxVarInt
    PROVE  \A k \in DOMAIN VarIn(i) : VarIn(i)[k] \in Nat /\ VarIn(i)[k] <= 255
  BY VarInCases, SMT DEF OneByte, TwoBytes, FourBytes

\* From the first byte ReadVarInt learns how many bytes there are, and from these
\* the number, up to the largest that VarIn writes.
THEOREM VarIntRoundTrips ==
    ASSUME NEW i \in Nat, i <= MaxVarInt
    PROVE  /\ VarIntSize(VarIn(i)[1]) = Len(VarIn(i))
           /\ VarIntValue(VarIn(i)) = i
  <1> USE DEF VarIntSize, VarIntValue, PortableRawSizeMarkByte, PortableRawSizeMarkWord,
              PortableRawSizeMarkDword
  <1>1. CASE OneByte(i)
    BY <1>1, SMT DEF OneByte
  <1>2. CASE TwoBytes(i)
    <2>1. PICK low, b2 \in Nat : /\ low <= 63 /\ VarIn(i) = <<4 * low + 1, b2>>
                                 /\ low + 64 * b2 = i
      BY <1>2, SMT DEF TwoBytes
    <2> QED
      BY <2>1, SMT
  <1>3. CASE FourBytes(i)
    <2>1. PICK low, b2, b3, b4 \in Nat :
             /\ low <= 63 /\ VarIn(i) = <<4 * low + 2, b2, b3, b4>>
             /\ low + 64 * b2 + 16384 * b3 + 4194304 * b4 = i
      BY <1>3, SMT DEF FourBytes
    <2> QED
      BY <2>1, SMT
  <1> QED
    BY VarInCases, <1>1, <1>2, <1>3
==============================================================================
