-------------------------- MODULE MCPortableStorage --------------------------
(* TLC's instances of Node and PortableStorage: every writer, alone and next to another,  *)
(* on the top level and in a section; strings on both sides of the length whose  *)
(* size takes two bytes.                                                         *)
EXTENDS Node

writer(kind, value) == [kind |-> kind, value |-> value]

FixedWriters == {writer(t, Content("number", TypeWidth[t])) : t \in Fixed \ {"Int64"}}

Hash(x) == Content(x, HASH_SIZE)

Writers ==
    FixedWriters
    \cup {writer("String", Content("text", n)) : n \in {0, 63, 64}}
    \cup {writer("Hash", Hash("id")), writer("Hash", Content("id", 31))}
    \cup {writer(k, v) : k \in {"BlockIds", "Block"}, v \in {<<>>, <<Hash("a")>>, <<Hash("a"), Hash("b")>>}}
    \cup {writer(k, v) : k \in {"TxIDs", "Uint64Array"},
                         v \in {<<>>, <<Content("a", 8), Content("b", 8)>>}}

field(name, w) == [name |-> Name(name), writer |-> w]

Sections == {writer("Section", <<>>)}
            \cup {writer("Section", <<field("peer_id", w), field("x", u)>>) : w, u \in Writers}

MCStorages ==
    {<<>>}
    \cup {<<field("amounts", w), field("cumulative", u)>> : w, u \in Writers}
    \cup {<<field("node_data", w), field("x", writer("Uint16", Content("port", 2)))>> : w \in Sections}

value(kind, v) == [kind |-> kind, value |-> v]
entry(name, v) == [name |-> Name(name), value |-> v]

Scalars == {value(t, Content("number", TypeWidth[t])) : t \in Fixed}
           \cup {value("String", Content("text", n)) : n \in {0, 64}}

Objects == {value("Object", <<>>)}
           \cup {value("Object", <<entry("m_ip", v), entry("m_port", u)>>) : v, u \in Scalars}

Values == Scalars \cup Objects
          \cup {value("Array", <<v, v>>) : v \in Scalars}
          \cup {value("Array", <<v, value("Object", <<>>)>>) : v \in Objects}

MCPeerStorages ==
    {<<>>}
    \cup {<<entry("local_peerlist_new", v), entry("status", value("String", Content("OK", 2)))>> : v \in Values}
    \cup {<<entry("payload", value("Object", <<entry("list", v), entry("status", u)>>))>> :
              v \in Values, u \in {value("Uint16", Content("port", 2)), value("Bool", Content("flag", 1))}}
peer(net, ip, port) ==
    [net |-> net, ip |-> Content(ip, IF net = "ipv4" THEN 4 ELSE 16), port |-> Content(port, 2),
     id |-> Content("id", 8)]

MCPeers == {peer("ipv4", "a", "p"), peer("ipv4", "b", "p"), peer("ipv4", "a", "zero"),
            peer("ipv6", "a", "p"), peer("tor", "a", "p")}

MCHandshakes ==
    {[data  |-> [rpc_port |-> Content("rpc", 2), peer_id |-> Content("me", 8)],
      sync  |-> [cumulative_difficulty |-> Content("work", 8),
                 cumulative_difficulty_top64 |-> Content("zero", 8),
                 current_height |-> Content("height", 8), top_id |-> Content("top", 32),
                 top_version |-> Content("fork", 1)],
      peers |-> p] : p \in UNION {[1 .. n -> MCPeers] : n \in 0 .. 2}}
=============================================================================
