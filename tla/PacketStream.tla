---------------------------- MODULE PacketStream ----------------------------
(***************************************************************************)
(* A stream of packets: an Encoder writes packets to a connection or a     *)
(* file, and a Decoder with a packet cache reads them back (serialization.go *)
(* and factory.go of protocol/w3gs, protocol/bncs and file/w3g).           *)
(*                                                                         *)
(* protocol picks one of five streams: the game protocol, the chat server  *)
(* protocol in both directions, and the records of old and new replays.    *)
(* The packets of a protocol start with a header that has their ID and     *)
(* size; a replay record has no size.  The decoder reads a packet into the *)
(* struct that CacheFactory keeps for its ID, so what an earlier packet    *)
(* left there is visible unless Deserialize overwrites it.                 *)
(***************************************************************************)
EXTENDS Layouts, Integers, Sequences, SequencesExt, FiniteSetsExt, TLC

CONSTANTS Types,            \* the layouts of the packets of each protocol
          Factory,          \* DefaultFactory: packet ID -> layout, for each protocol
          Probe,            \* the packet that ends a stream, for each protocol
          Shapes,           \* lengths of strings and of lists in a packet
          MaxPackets        \* bound: packets written to a stream

VARIABLES protocol,         \* which stream this is
          stream,           \* the cells written and not yet read
          sent,             \* the packets written, in order
          got,              \* what the decoder returned, in order
          cache             \* CacheFactory: packet ID -> struct

vars == <<protocol, stream, sent, got, cache>>

\* Records have no frame.
Framed == protocol \notin {"replay", "oldreplay"}

\* What a packet ID that the factory does not have is read as.
UnknownPacket == Layout("unknown", 4, 4, 4, <<Blob("Blob")>>)

\* MapFactory.NewPacket: the type for a packet ID.
TypeOf(pid) ==
    IF pid \in DOMAIN Factory[protocol] THEN Factory[protocol][pid]
    ELSE UnknownPacket

-----------------------------------------------------------------------------
\* The values that the layout of a packet depends on.
RECURSIVE TagValues(_)
TagValues(fs) ==
    UNION {CASE x.kind = "fixed" -> x.of
             [] x.kind = "sized" -> TagValues(x.fs)
             [] OTHER -> {} : x \in Range(fs)}

\* A struct with the fields fs: strings of len bytes, lists of n elements,
\* the choice t where there is one, and another value in every field.
RECURSIVE Sample(_, _, _, _)
Sample(fs, len, n, t) ==
    LET Value(i, x) ==
            CASE x.kind = "fixed" -> x.f :> IF x.of # {} THEN t ELSE 10 * n + i
              [] x.kind = "coded" -> x.f :> SetToSeq(DOMAIN x.put)[1 + (n % Cardinality(DOMAIN x.put))]
              [] x.kind \in {"cstring", "blob", "counted"} ->
                    x.f :> Text(len, IF len = 0 THEN 0 ELSE 10 * n + i)
              [] x.kind = "stat" -> x.f :> Text(36 + len, 10 * n + i)
              [] x.kind = "message" ->
                    [f \in {x.of[u] : u \in DOMAIN x.of} |->
                        IF f = x.of[t] THEN Text(len, IF len = 0 THEN 0 ELSE i) ELSE Text(0, 0)]
              [] x.kind \in {"list", "elements"} ->
                    x.f :> [j \in 1..n |-> Sample(x.fs, len, 10 + j, t)]
              [] x.kind = "sized" -> Sample(x.fs, len, n, t)
              [] x.kind = "ifempty" -> IF n = 0 THEN Sample(x.fs, len, n, t) ELSE Zero(x.fs)
              [] x.kind = "switch" -> Sample(x.of[t], len, n, t) @@ Zero(<<x>>)
              [] OTHER -> <<>>
    IN  FoldLeft(LAMBDA v, i : Value(i, fs[i]) @@ v, <<>>, [i \in 1..Len(fs) |-> i])

\* The packets of a type that are written.
Samples(type) ==
    {Sample(type.fs, shape[1], shape[2], t) :
        shape \in Shapes,
        t \in IF TagValues(type.fs) = {} THEN {0} ELSE TagValues(type.fs)}

\* Layouts with another value in place of a constant or a checksum: what a
\* peer writes that does not agree on the format of the packet.
Spoiled(fs) ==
    {[fs EXCEPT ![i] = Const(@.w, IF @.kind = "const" THEN @.v + 1 ELSE <<>>)] :
        i \in {j \in DOMAIN fs : fs[j].kind \in {"const", "checksum"}}}

-----------------------------------------------------------------------------
Init ==
    /\ protocol \in DOMAIN Types
    /\ stream = <<>>
    /\ sent = <<>>
    /\ got = <<>>
    /\ cache = <<>>

\* What Serialize writes: the header, with the size of the packet modulo
\* 2^16, and the fields.
HeaderSize == IF Framed THEN 4 ELSE 1

Serialize(type, fs, v) ==
    LET cells == Put(fs, v)
        size == IF type.size = Measured THEN HeaderSize + Bytes(cells)
                ELSE type.size + Lens(type.fs, v)
    IN  <<Cell("header", HeaderSize, [pid |-> type.pid, size |-> size % 65536])>> \o cells

\* Encoder.Write.  To keep streams short the packets after the first are of
\* its type, and the probe is the last.
Write ==
    /\ Len(sent) < MaxPackets
    /\ sent # <<>> => Last(sent).pid # Probe[protocol].pid
    /\ \E type \in IF sent = <<>> THEN Types[protocol]
                    ELSE IF Len(sent) = MaxPackets - 1 THEN {Probe[protocol]}
                    ELSE {TypeOf(sent[1].pid)} :
       \E v \in Samples(type),
          fs \in {type.fs} \cup IF sent = <<>> THEN Spoiled(type.fs) ELSE {} :
            /\ stream' = stream \o Serialize(type, fs, v)
            /\ sent' = Append(sent, [pid |-> type.pid, v |-> v, bad |-> fs # type.fs])
    /\ UNCHANGED <<protocol, got, cache>>

\* CacheFactory.NewPacket: the struct for a packet ID, new the first time.
NewPacket(type) ==
    IF type.pid \in DOMAIN cache THEN cache[type.pid] ELSE Zero(type.fs)

\* The checks that Deserialize of size bytes makes on the checksums and on
\* the size, after it has read the fields.
Verify(type, size, r) ==
    IF r.err # "nil" THEN r
    ELSE IF \E s \in r.sums : s[2] # <<"crc", r.v[s[1]]>> THEN Failed(r, "checksum")
    ELSE IF Framed /\ \/ r.in # <<>>
                      \/ type.want # Measured /\ size # type.want + Lens(type.fs, r.v)
         THEN Failed(r, "size")
    ELSE r

\* Deserialize of size bytes in the cells as a packet of a type.
Deserialize(type, cells, size) ==
    LET reader == Reader(cells, size - HeaderSize, NewPacket(type))
    IN  IF size < type.min THEN Failed(reader, "size")
        ELSE Verify(type, size, Get(type.fs, reader))

\* The cells of the first size bytes of the stream.
Frame(size) == SelectInSeq([i \in 1..Len(stream) |-> Bytes(SubSeq(stream, 1, i))],
                           LAMBDA n : n >= size)

Returned(pid, r) == [pid |-> pid, err |-> r.err, v |-> IF r.err = "nil" THEN r.v ELSE <<>>]

\* What of the stream is left after a frame of k cells, whatever Deserialize
\* has read of it.
Rest(k, r) == SubSeq(stream, k + 1, Len(stream))

\* Decoder.Read: ReadRaw waits for the size bytes in the header, Deserialize
\* decodes them, and what is left of them is dropped.
Read ==
    /\ Framed
    /\ stream # <<>>
    /\ Head(stream).kind = "header"
    /\ LET h == Head(stream).v
           k == Frame(h.size)
       IN  /\ k > 0
           /\ \E r \in {Deserialize(TypeOf(h.pid), SubSeq(stream, 2, k), h.size)} :
                /\ stream' = Rest(k, r)
                /\ got' = Append(got, Returned(h.pid, r))
                /\ cache' = (h.pid :> r.v) @@ cache
    /\ UNCHANGED <<protocol, sent>>

\* RecordDecoder.Read: the record ends where Deserialize stops.  ForEach
\* returns with the first error.
ReadRecord ==
    /\ ~Framed
    /\ stream # <<>>
    /\ Head(stream).kind = "header"
    /\ got # <<>> => Last(got).err = "nil"
    /\ LET h == Head(stream).v
       IN  \E r \in {Deserialize(TypeOf(h.pid), Tail(stream), Bytes(stream))} :
                /\ stream' = r.in
                /\ got' = Append(got, Returned(h.pid, r))
                /\ cache' = (h.pid :> r.v) @@ cache
    /\ UNCHANGED <<protocol, sent>>

\* Nothing more is written, and the reader waits for it.
Done ==
    /\ Len(sent) = MaxPackets \/ (sent # <<>> /\ Last(sent).pid = Probe[protocol].pid)
    /\ stream = <<>> \/ (~Framed /\ \E i \in DOMAIN got : got[i].err # "nil")
    /\ UNCHANGED vars

Next == Write \/ Read \/ ReadRecord \/ Done

Spec == Init /\ [][Next]_vars

-----------------------------------------------------------------------------
\* Type invariant.
TypeOK ==
    /\ protocol \in DOMAIN Types
    /\ \A i \in DOMAIN stream : stream[i].kind \in {"header", "bytes", "string", "blob"}
    /\ \A i \in DOMAIN sent : TypeOf(sent[i].pid) \in Types[protocol] /\ sent[i].bad \in BOOLEAN
    /\ \A i \in DOMAIN got : got[i].err \in {"nil", "unexpected const", "checksum"}
    /\ DOMAIN cache = {got[i].pid : i \in DOMAIN got}

\* The fields that Deserialize leaves alone when the packet does not have
\* them, so that the cached struct has what an earlier packet left there.
Leftover(pid) ==
    CASE pid \in {"AuthAccountLogonProof", "AuthAccountChangeProof"} ->
            {"AdditionalInformation"}
      [] pid = "PlayerExtra" -> {"Profiles", "Skins", "Unknown5"}
      [] OTHER -> {}

\* Every packet is read as the type it was written as, with the values that
\* were written; only the fields in Leftover may be those of an earlier
\* packet of the type.  A packet with another constant or checksum is
\* refused, and what comes after it is read as if it had not been there.
ReadsWhatWasWritten ==
    \A i \in DOMAIN got :
        /\ got[i].pid = sent[i].pid
        /\ (got[i].err # "nil") = sent[i].bad
        /\ ~sent[i].bad =>
               \A f \in DOMAIN sent[i].v :
                  \/ got[i].v[f] = sent[i].v[f]
                  \/ /\ f \in Leftover(sent[i].pid)
                     /\ \E j \in 1..(i - 1) :
                            sent[j].pid = sent[i].pid /\ got[i].v[f] = sent[j].v[f]

\* The decoder stays in step with the encoder: what it reads next starts
\* with a header, and no packet is lost or read twice, whatever Deserialize
\* made of the packets before ("Connection is still valid after these errors,
\* only deserialization failed", NextPacket in network.go).
InStep ==
    \/ /\ stream # <<>> => Head(stream).kind = "header"
       /\ Len(got) + Len(SelectSeq(stream, LAMBDA c : c.kind = "header")) = Len(sent)
    \/ ~Framed /\ \E i \in DOMAIN got : got[i].err # "nil"

\* Deserialize "decodes the binary data generated by Serialize": what the
\* decoder returns is what was given to the encoder.
DecodesSerialized ==
    \A i \in DOMAIN got : ~sent[i].bad => got[i].v = sent[i].v
=============================================================================
