----------------------------- MODULE LevinClient -----------------------------
(* One Levin connection: Handshake, ReadMessage, SendRequest, SendResponse and  *)
(* Close of levin/client.go over the framing of levin/levin.go.                 *)
(*                                                                              *)
(* The two directions of the connection are streams of bytes that know which    *)
(* message they were written for.  A header is HeaderSize of them.  One         *)
(* goroutine of the caller (main) makes the handshake and then reads messages   *)
(* and answers the requests among them; others send requests on the same        *)
(* client.  A call writes header and payload with one Write each.  The peer is  *)
(* not part of the repository; it is taken to write whole messages with         *)
(* payloads that parse, never to begin a handshake itself, to read what arrives *)
(* in order, to answer what asks for an answer, and to hang up on what it       *)
(* cannot parse.                                                                *)
EXTENDS Integers, SequencesExt

CONSTANTS
    HeaderSize,                 \* LevinHeaderSizeBytes, 33 in the code
    HandshakeLength,            \* length of the handshake's payload
    AnswerLength,               \* of the payloads main answers with
    Callers,                    \* goroutines that call SendRequest
    Requests,                   \* [command, length]: what they may send
    PeerMessages,               \* [command, length, expects]: what the peer may send unasked
    MaxRequests, MaxPeerMessages    \* bounds of the exploration

\* "unknown" is a number IsValidCommand refuses; NotifyRequestChain stands for
\* the three notifications SendRequest expects no response to.
Commands == {"Handshake", "TimedSync", "NotifyRequestChain", "unknown"}

ASSUME SizeAssumption ==
    /\ HeaderSize \in Nat \ {0} /\ HandshakeLength \in Nat \ {0} /\ AnswerLength \in Nat \ {0}
    /\ MaxRequests \in Nat /\ MaxPeerMessages \in Nat
ASSUME MessageAssumption ==
    /\ Requests \subseteq [command : Commands \ {"unknown", "Handshake"}, length : Nat]
    /\ PeerMessages \subseteq
          [command : Commands \ {"Handshake"}, length : Nat, expects : BOOLEAN]

VARIABLES
    main,           \* where the first goroutine is
    header,         \* the header it has read, or the message it is writing
    writing,        \* [Callers -> what each has yet to write the payload of]
    toPeer, toClient,   \* the two byte streams
    closed,         \* the connection is closed
    node,           \* what Handshake returned
    sent, peerSent, \* history: messages begun by the client, sent by the peer
    peerGot,        \* history: messages the peer has read
    received,       \* history: messages ReadMessage returned, with their bytes
    dropped,        \* history: messages Handshake read past
    rejected,       \* history: the peer could not parse what it read
    overlap         \* history: a call wrote while another was between its writes

clientVars == <<main, header, writing, node>>
peerVars   == <<peerSent, peerGot, rejected>>
vars == <<clientVars, toPeer, toClient, closed, peerVars, sent, received, dropped, overlap>>

None == [id |-> 0]

-----------------------------------------------------------------------------
(* Framing.                                                                   *)

HeaderBytes(m) == [i \in 1 .. HeaderSize |-> [msg |-> m, at |-> i]]
BodyBytes(m)   == [i \in 1 .. m.length |-> [msg |-> m, at |-> HeaderSize + i]]
Message(m)     == HeaderBytes(m) \o BodyBytes(m)

Take(s, n) == SubSeq(s, 1, n)
Drop(s, n) == SubSeq(s, n + 1, Len(s))

IsValidCommand(command) == command # "unknown"

\* Bug: the signature is not compared.
IsHeader_AnyBytes(bytes) == TRUE

\* Of the bytes at hand only those of a header, from its start, have the
\* signature, the version and the return code of one.
IsHeader(bytes) == bytes = HeaderBytes(bytes[1].msg)

NewHeaderFromBytes(bytes) == IsHeader(bytes) /\ IsValidCommand(bytes[1].msg.command)

\* NewRequestHeader and NewResponseHeader; "to" is the request a response answers.
NewMessage(command, length, expects, to) ==
    [id |-> Len(sent) + 1, command |-> command, length |-> length, expects |-> expects, to |-> to]

Init ==
    /\ main = "start" /\ header = None /\ writing = [c \in Callers |-> None]
    /\ toPeer = <<>> /\ toClient = <<>> /\ closed = FALSE
    /\ node = None /\ sent = <<>> /\ peerSent = <<>> /\ peerGot = <<>>
    /\ received = <<>> /\ dropped = <<>> /\ rejected = FALSE /\ overlap = FALSE

-----------------------------------------------------------------------------
(* Writing.  Each call makes two writes; Go makes each of them whole.         *)

BetweenWrites == main \in {"hsPayload", "answerPayload"} \/ \E c \in Callers : writing[c] # None

WriteHeader(m) ==
    /\ toPeer' = toPeer \o HeaderBytes(m)
    /\ sent' = Append(sent, m)
    /\ overlap' = (overlap \/ BetweenWrites)

WritePayload(m) == toPeer' = toPeer \o BodyBytes(m) /\ UNCHANGED <<sent, overlap>>

HandshakeWritesHeader ==
    /\ main = "start"
    /\ header' = NewMessage("Handshake", HandshakeLength, TRUE, 0)
    /\ WriteHeader(header')
    /\ main' = "hsPayload"
    /\ UNCHANGED <<writing, node, toClient, closed, peerVars, received, dropped>>

HandshakeWritesPayload ==
    /\ main = "hsPayload"
    /\ WritePayload(header)
    /\ main' = "hsHeader" /\ header' = None
    /\ UNCHANGED <<writing, node, toClient, closed, peerVars, received, dropped>>

\* SendResponse to the request that ReadMessage has just returned.
AnswerWritesHeader ==
    /\ main = "answer"
    /\ header' = NewMessage(header.command, AnswerLength, FALSE, header.id)
    /\ WriteHeader(header')
    /\ main' = "answerPayload"
    /\ UNCHANGED <<writing, node, toClient, closed, peerVars, received, dropped>>

AnswerWritesPayload ==
    /\ main = "answerPayload"
    /\ WritePayload(header)
    /\ main' = "ready" /\ header' = None
    /\ UNCHANGED <<writing, node, toClient, closed, peerVars, received, dropped>>

\* SendRequest; the responses to what main reads are counted in MaxRequests too.
RequestWritesHeader(c) ==
    /\ writing[c] = None /\ Len(sent) < MaxRequests
    /\ \E r \in Requests :
          LET m == NewMessage(r.command, r.length, r.command # "NotifyRequestChain", 0)
          IN  WriteHeader(m) /\ writing' = [writing EXCEPT ![c] = m]
    /\ UNCHANGED <<main, header, node, toClient, closed, peerVars, received, dropped>>

\* Bug: the payload is forgotten.
RequestWritesPayload_Not(c) ==
    /\ writing[c] # None
    /\ writing' = [writing EXCEPT ![c] = None]
    /\ UNCHANGED <<main, header, node, toPeer, toClient, closed, peerVars, sent, received,
                   dropped, overlap>>

RequestWritesPayload(c) ==
    /\ writing[c] # None
    /\ WritePayload(writing[c])
    /\ writing' = [writing EXCEPT ![c] = None]
    /\ UNCHANGED <<main, header, node, toClient, closed, peerVars, received, dropped>>

\* An error of either write ends the call.
RequestFails(c) ==
    /\ closed /\ writing[c] # None
    /\ writing' = [writing EXCEPT ![c] = None]
    /\ UNCHANGED <<main, header, node, toPeer, toClient, closed, peerVars, sent, received,
                   dropped, overlap>>

-----------------------------------------------------------------------------
(* Reading.  ReadFull and CopyN wait for as many bytes as they want.          *)

ReadUnchanged == UNCHANGED <<writing, toPeer, closed, peerVars, sent, overlap>>

HeaderArrived == Len(toClient) >= HeaderSize
BodyArrived   == Len(toClient) >= header.length

HandshakeReadsHeader ==
    /\ main = "hsHeader" /\ HeaderArrived
    /\ IF NewHeaderFromBytes(Take(toClient, HeaderSize))
       THEN main' = "hsBody" /\ header' = toClient[1].msg
       ELSE main' = "failed" /\ UNCHANGED header
    /\ toClient' = Drop(toClient, HeaderSize)
    /\ UNCHANGED <<node, received, dropped>> /\ ReadUnchanged

\* Bug: whatever arrives is taken for the answer.
IsAnswer_Any == TRUE

IsAnswer == header.command = "Handshake"

\* "goto again" drops every other message, a request the peer wants answered too.
HandshakeReadsBody ==
    /\ main = "hsBody" /\ BodyArrived
    /\ toClient' = Drop(toClient, header.length)
    /\ header' = None
    /\ IF IsAnswer
       THEN main' = "ready" /\ node' = header /\ UNCHANGED dropped
       ELSE main' = "hsHeader" /\ dropped' = Append(dropped, header) /\ UNCHANGED node
    /\ UNCHANGED received /\ ReadUnchanged

\* ReadMessage: a header that does not parse is an error, the payload behind it is
\* left in the stream, and the caller may call again.
ReadMessageHeader ==
    /\ main = "ready" /\ HeaderArrived
    /\ IF NewHeaderFromBytes(Take(toClient, HeaderSize))
       THEN main' = "body" /\ header' = toClient[1].msg
       ELSE UNCHANGED <<main, header>>
    /\ toClient' = Drop(toClient, HeaderSize)
    /\ UNCHANGED <<node, received, dropped>> /\ ReadUnchanged

\* Bug: the payload is parsed but left in the stream.
ReadMessageBody_Peeks ==
    /\ main = "body" /\ BodyArrived
    /\ received' = Append(received,
                          [msg |-> header, bytes |-> HeaderBytes(header) \o Take(toClient, header.length)])
    /\ main' = IF header.expects THEN "answer" ELSE "ready"
    /\ UNCHANGED <<header, toClient, node, dropped>> /\ ReadUnchanged

\* main answers what wants an answer.
ReadMessageBody ==
    /\ main = "body" /\ BodyArrived
    /\ toClient' = Drop(toClient, header.length)
    /\ received' = Append(received,
                          [msg |-> header, bytes |-> HeaderBytes(header) \o Take(toClient, header.length)])
    /\ main' = IF header.expects THEN "answer" ELSE "ready"
    /\ UNCHANGED <<header, node, dropped>> /\ ReadUnchanged

\* Bug: the end of the stream is taken for data that has yet to arrive.
AtEnd_Never == FALSE

AtEnd == closed /\ \/ main \in {"hsHeader", "ready"} /\ ~HeaderArrived
                   \/ main \in {"hsBody", "body"} /\ ~BodyArrived

\* A read at the end of the stream, or a write on a closed connection.
MainFails ==
    /\ \/ AtEnd
       \/ closed /\ main \in {"start", "hsPayload", "answer", "answerPayload"}
    /\ main' = "failed"
    /\ UNCHANGED <<header, node, toClient, received, dropped>> /\ ReadUnchanged

\* Close, by any goroutine: what has arrived is not read any more.
Close ==
    /\ ~closed
    /\ closed' = TRUE /\ toClient' = <<>>
    /\ UNCHANGED <<clientVars, toPeer, peerVars, sent, received, dropped, overlap>>

-----------------------------------------------------------------------------
(* The peer.                                                                  *)

PeerWrites(m) == peerSent' = Append(peerSent, m) /\ toClient' = toClient \o Message(m)

PeerMessage(command, length, expects, to) ==
    [id |-> Len(peerSent) + 1, command |-> command, length |-> length, expects |-> expects,
     to |-> to]

PeerSends ==
    /\ ~closed
    /\ Cardinality({i \in DOMAIN peerSent : peerSent[i].to = 0}) < MaxPeerMessages
    /\ \E p \in PeerMessages : PeerWrites(PeerMessage(p.command, p.length, p.expects, 0))
    /\ UNCHANGED <<clientVars, toPeer, closed, peerGot, rejected, sent, received, dropped, overlap>>

\* The peer reads one message, or hangs up on what is none.
PeerReads ==
    /\ ~closed
    /\ Len(toPeer) >= HeaderSize
    /\ LET m == toPeer[1].msg
           whole == Take(toPeer, HeaderSize) = HeaderBytes(m)
       IN  /\ whole => Len(toPeer) >= HeaderSize + m.length
           /\ IF whole /\ Take(toPeer, HeaderSize + m.length) = Message(m)
              THEN /\ toPeer' = Drop(toPeer, HeaderSize + m.length)
                   /\ peerGot' = Append(peerGot, m)
                   /\ UNCHANGED <<closed, rejected>>
              ELSE /\ closed' = TRUE /\ rejected' = TRUE
                   /\ UNCHANGED <<toPeer, peerGot>>
    /\ UNCHANGED <<clientVars, toClient, peerSent, sent, received, dropped, overlap>>

ToAnswer == {m \in ToSet(peerGot) : m.expects /\ \A i \in DOMAIN peerSent : peerSent[i].to # m.id}

\* It answers in order.
PeerAnswers ==
    /\ ~closed
    /\ \E m \in ToAnswer :
          /\ \A n \in ToAnswer : m.id <= n.id
          /\ PeerWrites(PeerMessage(m.command, AnswerLength, FALSE, m.id))
    /\ UNCHANGED <<clientVars, toPeer, closed, peerGot, rejected, sent, received, dropped, overlap>>

\* The connection breaks; what was on its way may be lost.
PeerCloses ==
    /\ ~closed
    /\ closed' = TRUE
    /\ \E n \in 0 .. Len(toClient) : toClient' = Take(toClient, n)
    /\ UNCHANGED <<clientVars, toPeer, peerVars, sent, received, dropped, overlap>>

Main ==
    \/ HandshakeWritesHeader
    \/ HandshakeWritesPayload
    \/ HandshakeReadsHeader
    \/ HandshakeReadsBody
    \/ ReadMessageHeader
    \/ ReadMessageBody
    \/ AnswerWritesHeader
    \/ AnswerWritesPayload
    \/ MainFails

Caller(c) == RequestWritesPayload(c) \/ RequestFails(c)

Next ==
    \/ Main
    \/ \E c \in Callers : RequestWritesHeader(c) \/ Caller(c)
    \/ Close
    \/ PeerSends
    \/ PeerReads
    \/ PeerAnswers
    \/ PeerCloses

Spec == Init /\ [][Next]_vars

\* Goroutines run on, and a peer that stays connected reads and answers.  Nothing
\* has to begin a request, and the connection has no timeout.
FairSpec ==
    /\ Spec
    /\ WF_vars(Main) /\ \A c \in Callers : WF_vars(Caller(c))
    /\ WF_vars(PeerReads) /\ WF_vars(PeerAnswers)

-----------------------------------------------------------------------------
(* Properties.                                                                *)

MessagesOf(r) == [i \in DOMAIN r |-> r[i].msg]

\* Whatever errors ReadMessage has returned before, and however far out of step
\* with the peer's messages they have left it, what it does return is whole and
\* in the order of the peer.
ReadsWholeMessages ==
    /\ \A i \in DOMAIN received : received[i].bytes = Message(received[i].msg)
    /\ \A i, j \in DOMAIN received : i < j => received[i].msg.id < received[j].msg.id

\* As long as the peer sends no command that IsValidCommand refuses, every message
\* it sends is read once, in order: by Handshake up to its answer, by ReadMessage
\* from there.
NothingSkipped ==
    (\A i \in DOMAIN peerSent : peerSent[i].command # "unknown") =>
        LET answer == IF node = None THEN <<>> ELSE <<node>>
        IN  IsPrefix(dropped \o answer \o MessagesOf(received), peerSent)

\* The client makes the peer lose track of its messages only if two goroutines
\* wrote at the same time: nothing keeps the two writes of a call together.
FramedUnlessOverlap == rejected => overlap

\* What Handshake returns is the peer's response to this handshake.
NodeIsAnswer ==
    node # None =>
        node.to # 0 /\ sent[node.to].command = "Handshake" /\ sent[node.to] \in ToSet(peerGot)

\* Handshake returns, if the peer answers or the connection ends, whatever the
\* peer sends before the answer.
HandshakeReturns == <>(main \in {"ready", "failed"})

\* "peers must respond to requests w/ this flag in the same order as received":
\* response number i is to request number i of those the client has read.
RespondsInOrder ==
    LET read      == dropped \o MessagesOf(received)
        requests  == SelectSeq(read, LAMBDA m : m.expects)
        responses == SelectSeq(sent, LAMBDA m : m.to # 0)
    IN  \A i \in DOMAIN responses : responses[i].to = requests[i].id
=============================================================================
