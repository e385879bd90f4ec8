---------------------------- MODULE PortableStorage ----------------------------
(* The encoding of Levin payloads and of the binary RPC calls:                  *)
(* levin/portable_storage.go and the Boost types of levin/boost.go.             *)
(*                                                                              *)
(* There are two writers: the typed one of messages this program makes          *)
(* (Serializable) and the untyped one of values it has read (Entry.Bytes).      *)
(* A byte is a number (of "byte") or a byte of some datum; integers and strings *)
(* are the bytes of a datum, low byte first.                                    *)
EXTENDS VarInt, SequencesExt

CONSTANTS
    Storages,       \* sequences of [name, writer]: what this program may write
    PeerStorages    \* sequences of [name, value]: what a peer may send

VARIABLES
    stage,          \* what is to be done with bytes
    bytes,
    written,        \* history: what this program wrote, at most one message
    received,       \* history: what the peer sent, at most one message
    entries         \* result of NewPortableStorageFromBytes

vars == <<stage, bytes, written, received, entries>>

-----------------------------------------------------------------------------
(* Bytes.                                                                     *)

Byte(n)       == [of |-> "byte", at |-> n]
Content(x, n) == [k \in 1 .. n |-> [of |-> x, at |-> k]]
Name(s)       == Content(s, Len(s))
Size(n)       == [k \in DOMAIN VarIn(n) |-> Byte(VarIn(n)[k])]

BoostSerializeTypeString == 10
BoostSerializeTypeObject == 12
BoostSerializeFlagArray  == 128

\* Types of fixed width; int64 and bool are read, but only bool is written.
TypeCode  == [Int64 |-> 1, Uint64 |-> 5, Uint32 |-> 6, Uint16 |-> 7, Uint8 |-> 8, Bool |-> 11]
TypeWidth == [Int64 |-> 8, Uint64 |-> 8, Uint32 |-> 4, Uint16 |-> 2, Uint8 |-> 1, Bool |-> 1]
Fixed     == DOMAIN TypeCode

HASH_SIZE            == 32
MainnetGenesisTxByte == Content("genesis", HASH_SIZE)

String(b)  == <<Byte(BoostSerializeTypeString)>> \o Size(Len(b)) \o b
NameBytes(b) == <<Byte(Len(b) % 256)>> \o b

Header == Content("sig-a", 4) \o Content("sig-b", 4) \o Content("version", 1)

-----------------------------------------------------------------------------
(* The typed writer.  A malformed hash and an empty list are written as nothing. *)

HashesFit(hashes) == hashes # <<>> /\ \A i \in DOMAIN hashes : Len(hashes[i]) = HASH_SIZE

\* Bug: the length is in entries, not in bytes.
HashesBytes_Count(hashes, last) ==
    IF HashesFit(hashes)
    THEN <<Byte(BoostSerializeTypeString)>> \o Size(Len(hashes)) \o FlattenSeq(hashes) \o last
    ELSE <<>>

\* BoostBlock, and BoostBlockIds with the genesis block behind the others.
HashesBytes(hashes, last) ==
    IF HashesFit(hashes) THEN String(FlattenSeq(hashes) \o last) ELSE <<>>

\* BoostBlockIds wants a size of two bytes: more than 510 hashes are too many.
SizeIsWord(ids) == Len(Size(HASH_SIZE * (Len(ids) + 1))) = 2
BlockIdsBytes(ids) == IF SizeIsWord(ids) THEN HashesBytes(ids, MainnetGenesisTxByte) ELSE <<>>

\* Bug: 32 is written as it is.
HashBytes_Plain(hash) ==
    IF Len(hash) = HASH_SIZE THEN <<Byte(BoostSerializeTypeString), Byte(HASH_SIZE)>> \o hash
                             ELSE <<>>

\* BoostHash: the second byte is the array flag, and is the size 32 to a reader.
HashBytes(hash) ==
    IF Len(hash) = HASH_SIZE
    THEN <<Byte(BoostSerializeTypeString), Byte(BoostSerializeFlagArray)>> \o hash
    ELSE <<>>

ArrayBytes(uints) ==
    <<Byte(TypeCode["Uint64"] + BoostSerializeFlagArray)>> \o Size(Len(uints)) \o FlattenSeq(uints)

WriterBytes(w) ==
    CASE w.kind \in Fixed     -> <<Byte(TypeCode[w.kind])>> \o w.value
      [] w.kind = "String"    -> String(w.value)
      [] w.kind = "Hash"      -> HashBytes(w.value)
      [] w.kind = "BlockIds"  -> BlockIdsBytes(w.value)
      [] w.kind = "Block"     -> HashesBytes(w.value, <<>>)
      [] w.kind = "TxIDs"     -> IF w.value = <<>> THEN <<>> ELSE String(FlattenSeq(w.value))
      [] w.kind = "Uint64Array" -> ArrayBytes(w.value)

EntryBytes(e) == NameBytes(e.name) \o WriterBytes(e.writer)

\* Section nests one list of entries in another.
SectionBytes(e) ==
    IF e.writer.kind = "Section"
    THEN NameBytes(e.name) \o <<Byte(BoostSerializeTypeObject)>> \o Size(Len(e.writer.value))
             \o FlattenSeq([i \in DOMAIN e.writer.value |-> EntryBytes(e.writer.value[i])])
    ELSE EntryBytes(e)

StorageBytes(s) ==
    Header \o Size(Len(s)) \o FlattenSeq([i \in DOMAIN s |-> SectionBytes(s[i])])

-----------------------------------------------------------------------------
(* The untyped writer.                                                        *)

\* Bug: a list without entries is left out.
ListSize_NotEmpty(n) == IF n = 0 THEN <<>> ELSE Size(n)
ListSize(n) == Size(n)

\* Entry.Bytes.  A list that was read is written as an object, one that was read
\* from an array, too: the branch for arrays comes after that for lists.
RECURSIVE ValueBytes(_)
ValueBytes(v) ==
    CASE v.kind \in Fixed     -> <<Byte(TypeCode[v.kind])>> \o v.value
      [] v.kind = "String"    -> String(v.value)
      [] v.kind = "Entries"   ->
            <<Byte(BoostSerializeTypeObject)>> \o ListSize(Len(v.value))
                \o FlattenSeq([i \in DOMAIN v.value |->
                                  NameBytes(v.value[i].name) \o ValueBytes(v.value[i].value)])

\* "unsupported value type": a bool can be read but not be written.
RECURSIVE HasBool(_)
HasBool(v) ==
    \/ v.kind = "Bool"
    \/ v.kind = "Entries" /\ \E i \in DOMAIN v.value : HasBool(v.value[i].value)

-----------------------------------------------------------------------------
(* The reader.  Each operator gives where it stopped and what it read.  Lost is *)
(* a panic: an unknown type, a size of eight bytes, the end of the bytes (or of  *)
(* the room the slice has behind it); and what is read of a datum where a size   *)
(* or a type should be.                                                         *)

Lost      == [next |-> 0, value |-> <<>>]
IsLost(r) == r.next = 0

Numbered(i, n) == i + n - 1 <= Len(bytes) /\ \A k \in i .. i + n - 1 : bytes[k].of = "byte"

ReadVarInt(i) ==
    IF ~Numbered(i, 1) THEN Lost
    ELSE LET n == VarIntSize(bytes[i].at)
         IN  IF n = 8 \/ ~Numbered(i, n) THEN Lost
             ELSE [next |-> i + n, value |-> VarIntValue([k \in 1 .. n |-> bytes[i + k - 1].at])]

Read(i, n) == IF i + n - 1 <= Len(bytes) THEN [next |-> i + n, value |-> SubSeq(bytes, i, i + n - 1)]
                                         ELSE Lost

ReadString(i) == LET size == ReadVarInt(i) IN IF IsLost(size) THEN Lost ELSE Read(size.next, size.value)

ReadName(i) == IF Numbered(i, 1) THEN Read(i + 1, bytes[i].at) ELSE Lost

As(type, r) == IF IsLost(r) THEN Lost ELSE [next |-> r.next, value |-> [kind |-> type, value |-> r.value]]

RECURSIVE ReadAny(_, _), ReadFields(_, _), ReadElements(_, _, _)

\* A type code and the value behind it.
ReadTyped(i) == IF Numbered(i, 1) THEN ReadAny(i + 1, bytes[i].at) ELSE Lost

Entry(name, value) == [name |-> name, value |-> value]

Follow(r, rest, name) ==
    IF IsLost(rest) THEN Lost
    ELSE [next |-> rest.next, value |-> <<Entry(name, r.value)>> \o rest.value]

ReadFields(i, count) ==
    IF count = 0 THEN [next |-> i, value |-> <<>>]
    ELSE LET name == ReadName(i)
             r    == IF IsLost(name) THEN Lost ELSE ReadTyped(name.next)
         IN  IF IsLost(r) THEN Lost ELSE Follow(r, ReadFields(r.next, count - 1), name.value)

\* The elements of an array have no name.
ReadElements(i, count, type) ==
    IF count = 0 THEN [next |-> i, value |-> <<>>]
    ELSE LET r == ReadAny(i, type)
         IN  IF IsLost(r) THEN Lost ELSE Follow(r, ReadElements(r.next, count - 1, type), <<>>)

ReadObject(i) ==
    LET size == ReadVarInt(i) IN IF IsLost(size) THEN Lost ELSE ReadFields(size.next, size.value)

ReadArray(i, type) ==
    LET size == ReadVarInt(i) IN IF IsLost(size) THEN Lost ELSE ReadElements(size.next, size.value, type)

\* Bug: the flag is left in the type of the elements.
ElementType_Flagged(type) == type
ElementType(type) == type - BoostSerializeFlagArray

ReadAny(i, type) ==
    IF type >= BoostSerializeFlagArray THEN As("Entries", ReadArray(i, ElementType(type)))
    ELSE IF type = BoostSerializeTypeObject THEN As("Entries", ReadObject(i))
    ELSE IF type = BoostSerializeTypeString THEN As("String", ReadString(i))
    ELSE IF \E t \in Fixed : TypeCode[t] = type
    THEN LET t == CHOOSE t \in Fixed : TypeCode[t] = type IN As(t, Read(i, TypeWidth[t]))
    ELSE Lost

\* Behind signatures and version.
NewPortableStorageFromBytes == ReadObject(Len(Header) + 1)

-----------------------------------------------------------------------------
(* The peer writes the same format, and knows arrays from objects.            *)

RECURSIVE PeerBytes(_), PeerTyped(_)
PeerObject(s) == Size(Len(s)) \o FlattenSeq([i \in DOMAIN s |-> NameBytes(s[i].name) \o PeerTyped(s[i].value)])

\* A value without its type, as it stands in an array.
PeerBytes(v) ==
    CASE v.kind = "Object" -> PeerObject(v.value)
      [] v.kind = "String" -> Size(Len(v.value)) \o v.value
      [] OTHER             -> v.value

PeerCode(v) == IF v.kind = "Object" THEN BoostSerializeTypeObject
               ELSE IF v.kind = "String" THEN BoostSerializeTypeString ELSE TypeCode[v.kind]

\* Arrays are not empty: monerod leaves empty ones out.
PeerTyped(v) ==
    IF v.kind = "Array"
    THEN <<Byte(PeerCode(v.value[1]) + BoostSerializeFlagArray)>> \o Size(Len(v.value))
             \o FlattenSeq([i \in DOMAIN v.value |-> PeerBytes(v.value[i])])
    ELSE <<Byte(PeerCode(v))>> \o PeerBytes(v)

PeerStorageBytes(s) == Header \o PeerObject(s)

-----------------------------------------------------------------------------
Init ==
    /\ stage = "idle" /\ bytes = <<>> /\ written = {} /\ received = {}
    /\ entries = <<>>

Write(s) ==
    /\ stage = "idle"
    /\ bytes' = StorageBytes(s) /\ written' = {s}
    /\ stage' = "read"
    /\ UNCHANGED <<received, entries>>

PeerWrites(s) ==
    /\ stage = "idle"
    /\ bytes' = PeerStorageBytes(s) /\ received' = {s}
    /\ stage' = "read"
    /\ UNCHANGED <<written, entries>>

ReadStorage ==
    /\ stage \in {"read", "reread"}
    /\ LET r == NewPortableStorageFromBytes
       IN  /\ entries' = r.value
           /\ stage' = IF IsLost(r) THEN "lost" ELSE IF stage = "read" THEN "got" ELSE "regot"
    /\ UNCHANGED <<bytes, written, received>>

\* What was read of a peer is put into a message of this program: an Entry is a
\* Serializable, like LocalPeerlistNewE of ResponseTimedSync.
Forward ==
    /\ stage = "got" /\ received # {}
    /\ \A i \in DOMAIN entries : ~HasBool(entries[i].value)
    /\ bytes' = Header \o Size(Len(entries)) \o
           FlattenSeq([i \in DOMAIN entries |->
                          NameBytes(entries[i].name) \o ValueBytes(entries[i].value)])
    /\ stage' = "reread"
    /\ UNCHANGED <<written, received, entries>>

ForwardPanics ==
    /\ stage = "got" /\ received # {}
    /\ \E i \in DOMAIN entries : HasBool(entries[i].value)
    /\ stage' = "panic"
    /\ UNCHANGED <<bytes, written, received, entries>>

Next ==
    \/ \E s \in Storages : Write(s)
    \/ \E s \in PeerStorages : PeerWrites(s)
    \/ ReadStorage
    \/ Forward
    \/ ForwardPanics

Spec == Init /\ [][Next]_vars

-----------------------------------------------------------------------------
(* Properties.                                                                *)

\* What a reader is to make of what the typed writer writes.
Meaning(w) ==
    CASE w.kind \in Fixed     -> [kind |-> w.kind, value |-> w.value]
      [] w.kind \in {"String", "Hash"} -> [kind |-> "String", value |-> w.value]
      [] w.kind = "BlockIds"  -> [kind |-> "String", value |-> FlattenSeq(w.value) \o MainnetGenesisTxByte]
      [] w.kind \in {"Block", "TxIDs"} -> [kind |-> "String", value |-> FlattenSeq(w.value)]
      [] w.kind = "Uint64Array" ->
            [kind |-> "Entries", value |->
                [i \in DOMAIN w.value |-> Entry(<<>>, [kind |-> "Uint64", value |-> w.value[i]])]]

EntryMeaning(e) ==
    Entry(e.name, IF e.writer.kind = "Section"
                  THEN [kind |-> "Entries", value |->
                          [i \in DOMAIN e.writer.value |->
                              Entry(e.writer.value[i].name, Meaning(e.writer.value[i].writer))]]
                  ELSE Meaning(e.writer))

\* Hashes have 32 bytes and lists of hashes and identifiers are not empty.
Sound(w) ==
    CASE w.kind = "Hash" -> Len(w.value) = HASH_SIZE
      [] w.kind = "BlockIds" -> HashesFit(w.value) /\ SizeIsWord(w.value)
      [] w.kind = "Block"    -> HashesFit(w.value)
      [] w.kind = "TxIDs" -> w.value # <<>>
      [] OTHER -> TRUE

SoundEntry(e) == IF e.writer.kind = "Section"
                 THEN \A i \in DOMAIN e.writer.value : Sound(e.writer.value[i].writer)
                 ELSE Sound(e.writer)

\* What a reader is to make of what the peer sends: the elements of an array are
\* entries without a name.
RECURSIVE PeerMeaning(_)
PeerMeaning(v) ==
    CASE v.kind = "Object" -> [kind |-> "Entries", value |->
            [i \in DOMAIN v.value |-> Entry(v.value[i].name, PeerMeaning(v.value[i].value))]]
      [] v.kind = "Array"  -> [kind |-> "Entries", value |->
            [i \in DOMAIN v.value |-> Entry(<<>>, PeerMeaning(v.value[i]))]]
      [] OTHER -> v

MessageMeaning(s) == PeerMeaning([kind |-> "Object", value |-> s]).value

\* The reader recovers every message of this program, whatever its writers and in
\* whatever order its entries come (MarshalToBlob writes those of a map), and
\* reads it to the end, if no hash is malformed and no list of identifiers empty:
\* these are written as a name without a value.
ReadsOwn ==
    \A s \in written :
        stage # "read" /\ (\A i \in DOMAIN s : SoundEntry(s[i])) =>
            /\ stage = "got"
            /\ entries = [i \in DOMAIN s |-> EntryMeaning(s[i])]
            /\ NewPortableStorageFromBytes.next = Len(bytes) + 1

\* It recovers every message of the peer, arrays of integers, strings and objects
\* and nested objects among them.
ReadsPeers ==
    \A s \in received : stage # "read" => stage # "lost" /\ entries = MessageMeaning(s)
=============================================================================
