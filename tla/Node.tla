---------------------------------- MODULE Node ----------------------------------
(* What this program makes of the entries of a peer's message: the node of a      *)
(* handshake (levin/node.go), the answer to a timed sync (levin/timedsync.go) and *)
(* that to a ping (levin/ping.go).  An entry is taken by its name, and one of     *)
(* another type than the name calls for is a panic.                               *)
EXTENDS PortableStorage

CONSTANT Handshakes     \* [data, sync, peers]: what a peer has to say

VARIABLES
    node, sync, ping,   \* results, <<>> or one
    said                \* history: what the peer said, if it was one of Handshakes

takenVars == <<node, sync, ping>>
nodeVars  == <<takenVars, said>>

\* What a field holds that was not in the message: zero, or no text.
Absent == <<>>
IsZero(value) == value \in {Absent, Content("zero", Len(value))}

-----------------------------------------------------------------------------
(* Entries by name.  The last of several wins.                                *)

Named(es, name)   == SelectSeq(es, LAMBDA e : e.name = Name(name))
Elements(es)      == FoldLeft(LAMBDA before, e : before \o e.value.value, <<>>, es)
Inside(es, name)  == Elements(Named(es, name))

Field(es, name) ==
    LET found == Named(es, name)
    IN  IF found = <<>> THEN Absent ELSE found[Len(found)].value.value

Fields(es, types) == [name \in DOMAIN types |-> Field(es, name)]

\* An accessor of an entry panics: Uint16 and the like on another type, Entries on
\* what is no list.
Mistyped(es, types) ==
    \E i \in DOMAIN es, name \in DOMAIN types :
        es[i].name = Name(name) /\ es[i].value.kind # types[name]
NoLists(es) == \E i \in DOMAIN es : es[i].value.kind # "Entries"
NoListsIn(es, name) == NoLists(Named(es, name))

-----------------------------------------------------------------------------
(* Peers.                                                                     *)

AddrTypes == [m_ip |-> "Uint32", m_port |-> "Uint16", addr |-> "String"]

NoPeer == [ip |-> Absent, port |-> Absent]

\* m_ip and addr are both taken for the address, the later of the two counts.  Its
\* bytes stand for the text ipzify and net.IP make of them, which is never empty.
PeerOf(addr) ==
    LET ips == SelectSeq(addr, LAMBDA e : e.name \in {Name("m_ip"), Name("addr")})
    IN  [ip   |-> IF ips = <<>> THEN Absent ELSE <<ips[Len(ips)].value.value>>,
         port |-> Field(addr, "m_port")]

Usable(peer) == peer.ip # Absent /\ ~IsZero(peer.port)

\* Entries() of an element, of its adr, of their addr, and the fields in there.
PeerPanics(element) ==
    \/ element.value.kind # "Entries"
    \/ LET adrs == Named(element.value.value, "adr")
       IN  NoLists(adrs) \/ LET addrs == Named(Elements(adrs), "addr")
                            IN  NoLists(addrs) \/ \E i \in DOMAIN addrs :
                                                     Mistyped(addrs[i].value.value, AddrTypes)

\* Bug: peers without a port are kept.
Peers_AnyPort(element) ==
    LET addrs == Named(Inside(element.value.value, "adr"), "addr")
    IN  SelectSeq([i \in DOMAIN addrs |-> PeerOf(addrs[i].value.value)],
                  LAMBDA peer : peer.ip # Absent)

Peers(element) ==
    LET addrs == Named(Inside(element.value.value, "adr"), "addr")
    IN  SelectSeq([i \in DOMAIN addrs |-> PeerOf(addrs[i].value.value)], Usable)

\* The map of ParsePeerList is keyed by address and port.
ParsePeerList(list) == UNION {ToSet(Peers(list[i])) : i \in DOMAIN list}

ListPanics(es) ==
    LET lists == Named(es, "local_peerlist_new")
    IN  NoLists(lists) \/ \E i \in DOMAIN Elements(lists) : PeerPanics(Elements(lists)[i])

-----------------------------------------------------------------------------
(* NewNodeFromEntries.                                                        *)

DataTypes == [rpc_port |-> "Uint16", peer_id |-> "Uint64"]
SyncTypes == [current_height |-> "Uint64", top_version |-> "Uint8"]

NodePanics(es) ==
    \/ NoListsIn(es, "node_data") \/ NoListsIn(es, "payload_data")
    \/ Mistyped(Inside(es, "node_data"), DataTypes)
    \/ Mistyped(Inside(es, "payload_data"), SyncTypes)
    \/ ListPanics(es)

NewNodeFromEntries(es) ==
    [data  |-> Fields(Inside(es, "node_data"), DataTypes),
     sync  |-> Fields(Inside(es, "payload_data"), SyncTypes),
     peers |-> ParsePeerList(Field(es, "local_peerlist_new"))]

-----------------------------------------------------------------------------
(* NewResponseTimedSync.  Every element of the list gives a peer, one without  *)
(* an address gives an empty one.                                              *)

TimedSyncTypes ==
    [cumulative_difficulty |-> "Uint64", cumulative_difficulty_top64 |-> "Uint64",
     current_height |-> "Uint64", top_id |-> "String", top_version |-> "Uint8"]
PeerTypes == [id |-> "Uint64", pruning_seed |-> "Uint32"]

TimedSyncPanics(es) ==
    \/ NoListsIn(es, "payload_data") \/ Mistyped(Inside(es, "payload_data"), TimedSyncTypes)
    \/ ListPanics(es)
    \/ LET list == Inside(es, "local_peerlist_new")
       IN  \E i \in DOMAIN list : Mistyped(list[i].value.value, PeerTypes)

PeerListEntry(element) ==
    LET peers == Peers(element)
    IN  [adr    |-> IF peers = <<>> THEN NoPeer ELSE peers[Len(peers)],
         fields |-> Fields(element.value.value, PeerTypes)]

\* Each payload_data is read into a new CoreSyncData: the last one counts.
NewResponseTimedSync(es) ==
    LET list == Field(es, "local_peerlist_new")
    IN  [sync  |-> Fields(Field(es, "payload_data"), TimedSyncTypes),
         peers |-> [i \in DOMAIN list |-> PeerListEntry(list[i])]]

\* NewPingFromPortableStorage.
PingTypes == [peer_id |-> "Uint64", status |-> "String"]
PingPanics(es) == Mistyped(es, PingTypes)
NewPing(es)    == Fields(es, PingTypes)

-----------------------------------------------------------------------------
(* A peer that tells what is in a handshake, as monerod writes it.             *)

Object(s)      == [kind |-> "Object", value |-> s]
Datum(kind, v)   == [kind |-> kind, value |-> v]
Numbers(record, types) ==
    LET names == SetToSeq(DOMAIN record)
    IN  [i \in DOMAIN names |-> Entry(Name(names[i]), Datum(types[names[i]], record[names[i]]))]

PeerAddress(peer) ==
    CASE peer.net = "ipv4" -> <<Entry(Name("m_ip"), Datum("Uint32", peer.ip)),
                                Entry(Name("m_port"), Datum("Uint16", peer.port))>>
      [] peer.net = "ipv6" -> <<Entry(Name("addr"), Datum("String", peer.ip)),
                                Entry(Name("m_port"), Datum("Uint16", peer.port))>>
      [] peer.net = "tor"  -> <<Entry(Name("host"), Datum("String", peer.ip)),
                                Entry(Name("port"), Datum("Uint16", peer.port))>>

PeerObjectOf(peer) ==
    Object(<<Entry(Name("adr"), Object(<<Entry(Name("addr"), Object(PeerAddress(peer)))>>)),
             Entry(Name("id"), Datum("Uint64", peer.id))>>)

\* An empty list is left out.
HandshakeMessage(h) ==
    <<Entry(Name("node_data"), Object(Numbers(h.data, DataTypes))),
      Entry(Name("payload_data"), Object(Numbers(h.sync, TimedSyncTypes)))>> \o
    IF h.peers = <<>> THEN <<>>
    ELSE <<Entry(Name("local_peerlist_new"),
                 [kind |-> "Array", value |-> [i \in DOMAIN h.peers |-> PeerObjectOf(h.peers[i])]])>>

-----------------------------------------------------------------------------
Untaken == node = <<>> /\ sync = <<>> /\ ping = <<>>

NodeInit == Init /\ Untaken /\ said = <<>>

Transfer == Untaken /\ Next /\ UNCHANGED nodeVars

Handshake ==
    /\ \E h \in Handshakes : PeerWrites(HandshakeMessage(h)) /\ said' = <<h>>
    /\ UNCHANGED takenVars

\* What a peer sent is taken apart once, by what its command calls for.
Taking == stage \in {"got", "regot"} /\ received # {} /\ Untaken

TakeNode ==
    /\ Taking /\ ~NodePanics(entries)
    /\ node' = <<NewNodeFromEntries(entries)>>
    /\ UNCHANGED <<vars, sync, ping, said>>

TakeTimedSync ==
    /\ Taking /\ ~TimedSyncPanics(entries)
    /\ sync' = <<NewResponseTimedSync(entries)>>
    /\ UNCHANGED <<vars, node, ping, said>>

TakePing ==
    /\ Taking /\ ~PingPanics(entries)
    /\ ping' = <<NewPing(entries)>>
    /\ UNCHANGED <<vars, node, sync, said>>

TakePanics ==
    /\ Taking
    /\ TRUE \in {NodePanics(entries), TimedSyncPanics(entries), PingPanics(entries)}
    /\ stage' = "panic"
    /\ UNCHANGED <<bytes, written, received, entries, nodeVars>>

NodeNext == Transfer \/ Handshake \/ TakeNode \/ TakeTimedSync \/ TakePing \/ TakePanics

NodeSpec == NodeInit /\ [][NodeNext]_<<vars, nodeVars>>

-----------------------------------------------------------------------------
(* Properties.                                                                *)

Reachable(h) == {i \in DOMAIN h.peers : h.peers[i].net # "tor" /\ ~IsZero(h.peers[i].port)}
AddressOf(peer) == [ip |-> <<peer.ip>>, port |-> peer.port]

\* A handshake's node and a timed sync's answer hold what the peer said, bytes and
\* all, and agree on it, also when the message was written again by this program:
\* the node every address that can be reached, once, the answer one entry for
\* every peer, in order, and an empty one for a peer it has no address of.
TakesWhatPeerSaid ==
    \A k \in DOMAIN said : LET h == said[k] IN
        /\ stage # "panic"
        /\ \A i \in DOMAIN node :
              /\ node[i].data = h.data
              /\ \A name \in DOMAIN SyncTypes : node[i].sync[name] = h.sync[name]
              /\ node[i].peers = {AddressOf(h.peers[j]) : j \in Reachable(h)}
        /\ \A i \in DOMAIN sync :
              /\ sync[i].sync = h.sync
              /\ Len(sync[i].peers) = Len(h.peers)
              /\ \A j \in DOMAIN h.peers :
                    /\ sync[i].peers[j].fields.id = h.peers[j].id
                    /\ sync[i].peers[j].adr = IF j \in Reachable(h) THEN AddressOf(h.peers[j])
                                                                    ELSE NoPeer
=============================================================================
