------------------------------ MODULE Layouts ------------------------------
(***************************************************************************)
(* The language in which W3GSPackets, BNCSPackets and ReplayRecords state  *)
(* how each packet is written by its Serialize method and read back by its *)
(* Deserialize method, over the little-endian byte buffer of               *)
(* protocol/buffer.go.                                                     *)
(*                                                                         *)
(* A buffer is a sequence of cells, one per write to it.  A cell has the   *)
(* kind of the write, its width in bytes and the value written.  Reading   *)
(* something other than what was written there - another width, a string   *)
(* where a number was written - is the error "garbled": in the program it  *)
(* yields bytes that mean something else.  The contents of strings and     *)
(* byte slices are abstracted to a length and an identity.                 *)
(***************************************************************************)
LOCAL INSTANCE Integers
LOCAL INSTANCE Sequences
LOCAL INSTANCE SequencesExt
LOCAL INSTANCE TLC

Cell(kind, width, value) == [kind |-> kind, w |-> width, v |-> value]

\* A string or a byte slice of len bytes.
Text(len, id) == [len |-> len, id |-> id]

\* WriteUInt8, 16, 32, 64, WriteBool8, WriteBEDString, WriteIP, and
\* WriteBlob of an array: a field of fixed width.
Fixed(w, f) == [kind |-> "fixed", w |-> w, f |-> f, of |-> {}]

\* Such a field on whose value the rest of the layout depends.
Tag(w, f, of) == [kind |-> "fixed", w |-> w, f |-> f, of |-> of]

\* A field written as put[x] for the value x; c is read as get[c].
Coded(w, f, put, get) == [kind |-> "coded", w |-> w, f |-> f, put |-> put, get |-> get]

\* A constant that Deserialize compares; Skipped when it does not look.
Const(w, v) == [kind |-> "const", w |-> w, v |-> v]

Skipped(w, v) == [kind |-> "skip", w |-> w, v |-> v]

\* WriteSockAddr: 16 bytes, address family, port, IP and zeroes.
SockAddr(f) == Fixed(16, f)

\* WriteCString: the bytes and a terminating zero.
CString(f) == [kind |-> "cstring", f |-> f]

\* WriteBlob of a slice that extends to the end of the packet, and of one
\* preceded by its length in w bytes.
Blob(f) == [kind |-> "blob", f |-> f]

Counted(w, f) == [kind |-> "counted", w |-> w, f |-> f]

\* A protobuf message of the field of[tag] preceded by its length in w bytes,
\* or a length of zero and nothing.  Reading a length of zero leaves the
\* struct alone; any other clears the fields in reset first.
Message(w, tag, of, reset) ==
    [kind |-> "message", w |-> w, f |-> tag, of |-> of, reset |-> reset]

\* A checksum of the field f, which Deserialize recomputes.  (TimeSlot
\* verifies it before it reads the actions, the others after the field.)
Checksum(w, f) == [kind |-> "checksum", w |-> w, f |-> f]

\* The stat string of GameSettings in a packet.
StatString(f) == [kind |-> "stat", f |-> f]

\* A list of elements of layout fs.  List writes their number in w bytes,
\* ListAfter then writes the fields pre, and Elements are read for as long as
\* at least min bytes are left.  Size formulas count each bytes for an
\* element, and its strings.
ListAfter(w, f, each, pre, fs) ==
    [kind |-> "list", w |-> w, f |-> f, each |-> each, pre |-> pre, fs |-> fs]

List(w, f, each, fs) == ListAfter(w, f, each, <<>>, fs)

Elements(f, min, each, fs) ==
    [kind |-> "elements", f |-> f, min |-> min, each |-> each, fs |-> fs]

\* Fields fs preceded by their size in w bytes, size + the strings in them.
Sized(w, size, fs) == [kind |-> "sized", w |-> w, size |-> size, fs |-> fs]

\* Fields that depend on the value of the field tag: of[x] for the value x.
\* A size formula adds add[x] for them.  Deserialize first clears the
\* fields in reset.
Switch(tag, of, add, reset) ==
    [kind |-> "switch", f |-> tag, of |-> of, add |-> add, reset |-> reset]

\* Fields that are there when the list f is empty, and are cleared otherwise.
\* Size formulas count size bytes for them.
IfEmpty(f, size, fs) == [kind |-> "ifempty", f |-> f, size |-> size, fs |-> fs]

\* The layout of a packet: its ID, the constant in the size that Serialize
\* writes (or Measured, when it writes the size of what it has written), the
\* least size that Deserialize accepts, the constant in the size it expects
\* in the end (or Measured, when it expects what it has read), and the fields.
Measured == -1

Layout(pid, size, min, want, fs) ==
    [pid |-> pid, size |-> size, min |-> min, want |-> want, fs |-> fs]

\* A packet without variable parts.
Exactly(pid, size, fs) == Layout(pid, size, size, size, fs)

-----------------------------------------------------------------------------
\* What the stat string of GameSettings takes: GameSettings.Size of a
\* struct of s bytes, the ceiling of s / 7 control bytes and a zero.
StatSize(s) == s + (s + 6) \div 7 + 1

\* What SerializeContent writes: for every seven bytes one control byte.
StatWritten(s) == s + (IF s % 7 = 0 THEN s \div 7 ELSE s \div 7 + 1) + 1

\* The bytes that a size formula counts for the variable part of fields fs
\* of the struct v: the len(...) terms and the products.
RECURSIVE Lens(_, _)
Lens(fs, v) ==
    FoldLeft(LAMBDA n, x : n +
        CASE x.kind \in {"cstring", "blob", "counted"} -> v[x.f].len
          [] x.kind = "message" -> v[x.of[v[x.f]]].len
          [] x.kind = "stat" -> StatSize(v[x.f].len)
          [] x.kind \in {"list", "elements"} ->
                FoldLeft(LAMBDA m, e : m + x.each + Lens(x.fs, e), 0, v[x.f])
          [] x.kind = "sized" -> Lens(x.fs, v)
          [] x.kind = "ifempty" -> IF v[x.f] = <<>> THEN x.size ELSE 0
          [] x.kind = "switch" -> x.add[v[x.f]] + Lens(x.of[v[x.f]], v)
          [] OTHER -> 0,
        0, fs)

\* WriteBlob; how many numbers w bytes hold (no count here exceeds two).
PutBlob(b) == IF b.len = 0 THEN <<>> ELSE <<Cell("blob", b.len, b)>>

Modulus(w) == IF w = 1 THEN 256 ELSE 65536

\* The cells that Serialize writes for fields fs of the struct v.
RECURSIVE Put(_, _)
Put(fs, v) ==
    FoldLeft(LAMBDA cells, x : cells \o
        CASE x.kind = "fixed" -> <<Cell("bytes", x.w, v[x.f])>>
          [] x.kind = "coded" -> <<Cell("bytes", x.w, x.put[v[x.f]])>>
          [] x.kind \in {"const", "skip"} -> <<Cell("bytes", x.w, x.v)>>
          [] x.kind = "cstring" -> <<Cell("string", v[x.f].len + 1, v[x.f])>>
          [] x.kind = "stat" -> <<Cell("string", StatWritten(v[x.f].len), v[x.f])>>
          [] x.kind = "blob" -> PutBlob(v[x.f])
          [] x.kind = "counted" ->
                <<Cell("bytes", x.w, v[x.f].len % Modulus(x.w))>> \o PutBlob(v[x.f])
          [] x.kind = "message" ->
                LET raw == v[x.of[v[x.f]]]
                IN  <<Cell("bytes", x.w, raw.len)>> \o PutBlob(raw)
          [] x.kind = "checksum" -> <<Cell("bytes", x.w, <<"crc", v[x.f]>>)>>
          [] x.kind = "list" ->
                FoldLeft(LAMBDA cs, e : cs \o Put(x.fs, e),
                         <<Cell("bytes", x.w, Len(v[x.f]) % Modulus(x.w))>> \o Put(x.pre, v),
                         v[x.f])
          [] x.kind = "elements" ->
                FoldLeft(LAMBDA cs, e : cs \o Put(x.fs, e), <<>>, v[x.f])
          [] x.kind = "sized" ->
                <<Cell("bytes", x.w, (x.size + Lens(x.fs, v)) % Modulus(x.w))>>
                    \o Put(x.fs, v)
          [] x.kind = "ifempty" -> IF v[x.f] = <<>> THEN Put(x.fs, v) ELSE <<>>
          [] x.kind = "switch" -> Put(x.of[v[x.f]], v),
        <<>>, fs)

Bytes(cells) == FoldLeft(LAMBDA n, c : n + c.w, 0, cells)

-----------------------------------------------------------------------------
\* The zero value of the fields fs.
RECURSIVE Zero(_)
Zero(fs) ==
    FoldLeft(LAMBDA v, x :
        CASE x.kind \in {"fixed", "coded"} -> (x.f :> 0) @@ v
          [] x.kind \in {"cstring", "blob", "counted"} -> (x.f :> Text(0, 0)) @@ v
          [] x.kind = "stat" -> (x.f :> Text(36, 0)) @@ v
          [] x.kind = "message" -> [f \in {x.of[t] : t \in DOMAIN x.of} |-> Text(0, 0)] @@ v
          [] x.kind \in {"list", "elements"} -> (x.f :> <<>>) @@ v
          [] x.kind \in {"sized", "ifempty"} -> Zero(x.fs) @@ v
          [] x.kind = "switch" ->
                FoldLeft(LAMBDA u, t : Zero(x.of[t]) @@ u, v, SetToSeq(DOMAIN x.of))
          [] OTHER -> v,
        <<>>, fs)

\* A reader: the cells still to read, the bytes of the packet left, the
\* struct filled so far, the checksums to verify, and the error met.
Reader(cells, left, v) ==
    [in |-> cells, left |-> left, v |-> v, sums |-> {}, err |-> "nil"]

Failed(r, e) == [r EXCEPT !.err = e]

\* Read one cell, of kind k and, unless the kind finds its own end, width w.
Take(r, k, w) ==
    IF r.err # "nil" THEN r
    ELSE IF \/ r.in = <<>>
            \/ Head(r.in).kind # k
            \/ k # "string" /\ Head(r.in).w # w
    THEN Failed(r, "garbled")
    ELSE [r EXCEPT !.in = Tail(r.in), !.left = @ - Head(r.in).w]

Assign(r, f, x) == [r EXCEPT !.v = (f :> x) @@ @]

TakeInto(r, k, w, f) ==
    LET n == Take(r, k, w)
    IN  IF n.err # "nil" THEN n ELSE Assign(n, f, Head(r.in).v)

\* ReadBlob of n bytes; of none it is empty.
TakeBlob(r, n, f) ==
    IF r.err # "nil" THEN r
    ELSE IF n > 0 THEN TakeInto(r, "blob", n, f)
    ELSE Assign(r, f, Text(0, 0))

\* Clear the fields in reset.
Clear(r, reset, zero) == [r EXCEPT !.v = [f \in reset |-> zero[f]] @@ @]

\* Deserialize reads fields fs.
RECURSIVE Get(_, _)
Get(fs, reader) ==
    LET \* one more element of layout es into the list f
        Element(r, f, es) ==
            LET e == Get(es, [r EXCEPT !.v = Zero(es)])
            IN  [e EXCEPT !.v = (f :> Append(r.v[f], e.v)) @@ r.v]
        RECURSIVE Many(_, _, _)
        Many(r, n, x) ==
            IF r.err # "nil" \/ n = 0 THEN r
            ELSE Many(Element(r, x.f, x.fs), n - 1, x)
        RECURSIVE While(_, _)
        While(r, x) ==
            IF r.err # "nil" \/ r.left < x.min THEN r
            ELSE While(Element(r, x.f, x.fs), x)
        Field(r, x) ==
            CASE x.kind = "fixed" -> TakeInto(r, "bytes", x.w, x.f)
              [] x.kind = "coded" ->
                    LET n == Take(r, "bytes", x.w)
                    IN  IF n.err # "nil" THEN n ELSE Assign(n, x.f, x.get[Head(r.in).v])
              [] x.kind \in {"const", "skip"} ->
                    LET n == Take(r, "bytes", x.w)
                    IN  IF n.err = "nil" /\ x.kind = "const" /\ Head(r.in).v # x.v
                        THEN Failed(n, "unexpected const") ELSE n
              [] x.kind \in {"cstring", "stat"} -> TakeInto(r, "string", 0, x.f)
              [] x.kind = "blob" -> TakeBlob(r, r.left, x.f)
              [] x.kind = "counted" ->
                    LET n == Take(r, "bytes", x.w)
                    IN  IF n.err # "nil" THEN n ELSE TakeBlob(n, Head(r.in).v, x.f)
              [] x.kind = "message" ->
                    LET n == Take(r, "bytes", x.w)
                    IN  IF n.err # "nil" \/ Head(r.in).v = 0 THEN n
                        ELSE TakeBlob(Clear(n, x.reset, Zero(<<x>>)),
                                      Head(r.in).v, x.of[n.v[x.f]])
              [] x.kind = "checksum" ->
                    LET n == Take(r, "bytes", x.w)
                    IN  IF n.err # "nil" THEN n
                        ELSE [n EXCEPT !.sums = @ \cup {<<x.f, Head(r.in).v>>}]
              [] x.kind = "list" ->
                    LET n == Take(r, "bytes", x.w)
                    IN  IF n.err # "nil" THEN n
                        ELSE Many(Get(x.pre, Assign(n, x.f, <<>>)), Head(r.in).v, x)
              [] x.kind = "elements" -> While(Assign(r, x.f, <<>>), x)
              [] x.kind = "sized" ->
                    LET n == Take(r, "bytes", x.w)
                        e == Get(x.fs, [n EXCEPT !.left = Head(r.in).v])
                    IN  IF n.err # "nil" THEN n
                        ELSE IF e.err = "nil" /\ Head(r.in).v # x.size + Lens(x.fs, e.v)
                        THEN Failed(e, "size")
                        ELSE [e EXCEPT !.left = n.left - (Bytes(n.in) - Bytes(e.in))]
              [] x.kind = "ifempty" ->
                    IF r.v[x.f] = <<>> THEN Get(x.fs, r)
                    ELSE [r EXCEPT !.v = Zero(x.fs) @@ @]
              [] x.kind = "switch" ->
                    Get(x.of[r.v[x.f]], Clear(r, x.reset, Zero(<<x>>)))
    IN  FoldLeft(LAMBDA r, x : IF r.err # "nil" THEN r ELSE Field(r, x), reader, fs)
=============================================================================
