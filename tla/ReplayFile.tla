----------------------------- MODULE ReplayFile -----------------------------
(***************************************************************************)
(* Writing and reading a replay file, file/w3g: Encoder and Compressor     *)
(* write records through a bufio.Writer as compressed blocks and put the   *)
(* header in front of them; DecodeHeader, Decompressor and RecordDecoder   *)
(* read the records back through a bufio.Reader, peeking because the size  *)
(* of a record is known only when it has been read.                        *)
(*                                                                         *)
(* A record has a size in bytes and a kind, which says what its            *)
(* Deserialize returns when the bytes it is given end inside the record;   *)
(* byte j of record i is <<i, j>>.  zlib is external: a block is read back *)
(* as it was written, and its compressed size is taken to be its size.     *)
(***************************************************************************)
EXTENDS Integers, Sequences, SequencesExt, FiniteSetsExt

CONSTANTS BufSize,          \* size of the buffers of bufio, 8192
          PeekSize,         \* what Read peeks at first, 1024
          MaxBlock,         \* size limit of a block before version 1.32, 65535
          Sizes,            \* sizes of the records of each kind
          MaxRecords        \* bound: records in a file

VARIABLES old,              \* the game version is less than 1.32
          seeker,           \* the file is an io.Seeker
          game,             \* the file was written by the game itself
          written,          \* the records written
          wbuf,             \* contents of the bufio.Writer
          file,             \* the file: entries with a width in bytes
          b,                \* Encoder.b: blocks kept back without a seeker
          count,            \* BlockCompressor: SizeWritten, SizeTotal, NumBlocks
          phase,            \* "write", "read" or "done"
          d,                \* the Decompressor
          rbuf,             \* contents of the bufio.Reader
          peek,             \* how many bytes Read peeks
          read,             \* the records read
          err               \* what Read returned in the end

vars == <<old, seeker, game, written, wbuf, file, b, count, phase, d, rbuf, peek, read, err>>

HeaderWidth == 68

\* What Deserialize returns for a record that is cut after its least size.
\* TimeSlot, ChatMessage and others compare what is left with a length and
\* ask for more; SlotInfo compares too, and calls the packet invalid; in a
\* GameInfo or PlayerInfo the cut falls on a fixed field or into a string,
\* whose end is then not found.
CutErrors ==
    [counted |-> {"short buffer"},
     slots |-> {"invalid packet size"},
     strings |-> {"short buffer", "no terminator"}]

Pad == <<0, 0>>

Zeros(n) == [i \in 1..n |-> Pad]

Smaller(m, n) == IF m < n THEN m ELSE n

Drop(s, n) == SubSeq(s, n + 1, Len(s))

Block(data) ==
    [kind |-> "block", w |-> (IF old THEN 8 ELSE 12) + Len(data), data |-> data]

Width(entries) == FoldLeft(LAMBDA n, e : n + e.w, 0, entries)

\* NewEncoder writes a placeholder for the header when it can seek.
Init ==
    /\ old \in BOOLEAN
    /\ seeker \in BOOLEAN
    /\ game \in BOOLEAN
    /\ written = <<>>
    /\ wbuf = <<>>
    /\ file = IF seeker THEN <<[kind |-> "zeros", w |-> HeaderWidth]>> ELSE <<>>
    /\ b = <<>>
    /\ count = [written |-> 0, total |-> 0, blocks |-> 0]
    /\ phase = "write"
    /\ d = [total |-> 0, block |-> 0, blocks |-> 0, r |-> <<>>, z |-> <<>>]
    /\ rbuf = <<>>
    /\ peek = PeekSize
    /\ read = <<>>
    /\ err = "nil"

-----------------------------------------------------------------------------
\* bufio.Writer.Write: the buffer afterwards and what is passed on, in the
\* writes in which it is.  A write to an empty buffer that does not fit is
\* passed on as a whole.
RECURSIVE BufWrite(_, _, _)
BufWrite(buf, out, p) ==
    LET available == BufSize - Len(buf)
    IN  IF Len(p) <= available THEN [buf |-> buf \o p, out |-> out]
        ELSE IF buf = <<>> THEN [buf |-> <<>>, out |-> Append(out, p)]
        ELSE BufWrite(<<>>, Append(out, buf \o SubSeq(p, 1, available)), Drop(p, available))

\* BlockCompressor.Write: the blocks for one write.
RECURSIVE Blocks(_)
Blocks(p) ==
    IF p = <<>> THEN <<>>
    ELSE LET lenBuf == IF old THEN Smaller(Len(p), MaxBlock) ELSE Len(p)
         IN  <<Block(SubSeq(p, 1, lenBuf))>> \o Blocks(Drop(p, lenBuf))

\* The blocks for the writes out, and the counts after them.
Compress(out) == FlattenSeq([i \in DOMAIN out |-> Blocks(out[i])])

Count(blocks) ==
    [written |-> count.written + Width(blocks),
     total |-> count.total + FoldLeft(LAMBDA n, e : n + Len(e.data), 0, blocks),
     blocks |-> count.blocks + Len(blocks)]

\* Compressor.WriteRecord
WriteRecord ==
    /\ phase = "write"
    /\ Len(written) < MaxRecords
    /\ \E kind \in DOMAIN Sizes : \E size \in Sizes[kind] :
        LET n == Len(written) + 1
            w == BufWrite(wbuf, <<>>, [j \in 1..size |-> <<n, j>>])
            blocks == Compress(w.out)
        IN  /\ written' = Append(written, [kind |-> kind, size |-> size])
            /\ wbuf' = w.buf
            /\ file' = IF seeker THEN file \o blocks ELSE file
            /\ b' = IF seeker THEN b ELSE b \o blocks
            /\ count' = Count(blocks)
    /\ UNCHANGED <<old, seeker, game, phase, d, rbuf, peek, read, err>>

\* The header that Close writes.
Header(c) == [kind |-> "header", w |-> HeaderWidth, file |-> c.written + HeaderWidth,
              total |-> c.total, blocks |-> c.blocks]

\* Seek relative to the end of the file: the entry that starts n bytes before.
SeekBack(entries, n) ==
    CHOOSE i \in 1..(Len(entries) + 1) : Width(SubSeq(entries, i, Len(entries))) = n

\* Encoder.Close: padding fills the last block, what is buffered is flushed,
\* and the header is written, in place of the placeholder or before the
\* blocks that were kept back.  The padding is taken off the total size; the
\* game counts it.  DecodeHeader then opens the file.
Close ==
    /\ phase = "write"
    /\ LET pad == IF wbuf = <<>> THEN 0 ELSE BufSize - Len(wbuf)
       IN  \E blocks \in {Compress(<<wbuf \o Zeros(pad)>>)} :
           \E c \in {[Count(blocks) EXCEPT !.total = @ - IF game THEN 0 ELSE pad]} :
             /\ count' = c
             /\ file' = IF seeker
                        THEN [file \o blocks EXCEPT
                                ![SeekBack(file \o blocks, c.written + HeaderWidth)] = Header(c)]
                        ELSE <<Header(c)>> \o b \o blocks
    /\ d' = [total |-> file'[1].total, block |-> 0, blocks |-> file'[1].blocks,
             r |-> Tail(file'), z |-> <<>>]
    /\ wbuf' = <<>>
    /\ phase' = "read"
    /\ UNCHANGED <<old, seeker, game, written, b, rbuf, peek, read, err>>

-----------------------------------------------------------------------------
\* Decompressor.closeBlock: the error when a block is not used up.
closeBlock(x) == IF x.block > 0 \/ x.z # <<>> THEN "unexpected EOF" ELSE "nil"

\* The loop of Decompressor.Read, until l bytes are in out.
RECURSIVE ReadLoop(_, _, _)
ReadLoop(x, out, l) ==
    IF Len(out) = l THEN [d |-> x, out |-> out, err |-> "nil"]
    ELSE IF x.block = 0 /\ x.blocks = 0 THEN [d |-> x, out |-> out, err |-> "EOF"]
    ELSE LET \* nextBlock
             y == IF x.block > 0 THEN x
                  ELSE [x EXCEPT !.blocks = @ - 1, !.block = Len(Head(x.r).data),
                                 !.z = Head(x.r).data, !.r = Tail(x.r)]
             \* io.ReadFull
             nn == Smaller(Len(y.z), l - Len(out))
             n == [y EXCEPT !.total = @ - nn, !.block = @ - nn, !.z = Drop(y.z, nn)]
             \* the rest of the last block is padding
             q == IF n.total = 0 THEN [n EXCEPT !.block = @ - Len(n.z), !.z = <<>>] ELSE n
             now == out \o SubSeq(y.z, 1, nn)
         IN  IF q.block = 0 \/ nn < l - Len(out)
             THEN IF closeBlock(q) # "nil" THEN [d |-> q, out |-> now, err |-> closeBlock(q)]
                  ELSE ReadLoop(q, now, l)
             ELSE ReadLoop(q, now, l)

\* Decompressor.Read into a slice of l bytes.
DecompressorRead(l) ==
    IF d.total = 0 THEN [d |-> d, out |-> <<>>, err |-> "EOF"]
    ELSE ReadLoop(d, <<>>, Smaller(l, d.total))

\* bufio.Reader.Peek(n): what is buffered afterwards, the bytes and the
\* error.  Decompressor.Read fills all of the slice it is given unless the
\* data ends, when the call after it returns io.EOF.
Peek(n) ==
    LET f == IF Len(rbuf) < n /\ Len(rbuf) < BufSize
             THEN DecompressorRead(BufSize - Len(rbuf))
             ELSE [d |-> d, out |-> <<>>, err |-> "nil"]
        buf == rbuf \o f.out
        more == Len(buf) < n /\ Len(buf) < BufSize /\ f.err = "nil"
    IN  [d |-> f.d, buf |-> buf, bytes |-> SubSeq(buf, 1, Smaller(n, Len(buf))),
         err |-> IF Len(buf) >= n THEN "nil"
                 ELSE IF f.err # "nil" THEN f.err
                 ELSE IF more THEN "EOF" ELSE "buffer full"]

Ends(e) == phase' = "done" /\ err' = e /\ UNCHANGED <<peek, read>>

\* The buffer after a record has been read from it.
Discard(buf, size) == Drop(buf, size)

\* Mutant: a record that is not held by the bytes is an error.
Retry_Not(bytes) == Ends("unexpected EOF")

\* The record is tried again with twice as many bytes, if there may be more.
Retry(bytes) ==
    IF Len(bytes) < peek THEN Ends("unexpected EOF")
    ELSE peek' = 2 * peek /\ UNCHANGED <<phase, read, err>>

\* One round of RecordDecoder.Read, called by ForEach until it returns an
\* error: padding is skipped, and a record that the bytes hold is returned.
\* One that they cut is tried again if Deserialize asks for more bytes; any
\* other error is returned.
Read ==
    /\ phase = "read"
    /\ \E p \in {Peek(peek)} :
        LET bytes == p.bytes
            start == SelectInSeq(bytes, LAMBDA x : x # Pad)
            rec == written[bytes[1][1]]
        IN  /\ d' = p.d
            /\ \/ bytes = <<>> /\ rbuf' = <<>> /\ Ends(p.err)
               \/ /\ bytes # <<>> /\ bytes[1] = Pad
                  /\ rbuf' = Drop(p.buf, IF start = 0 THEN Len(bytes) ELSE start - 1)
                  /\ UNCHANGED <<phase, peek, read, err>>
               \/ /\ bytes # <<>> /\ bytes[1] # Pad /\ Len(bytes) >= rec.size
                  /\ rbuf' = Discard(p.buf, rec.size)
                  /\ read' = Append(read, bytes[1][1])
                  /\ peek' = PeekSize
                  /\ UNCHANGED <<phase, err>>
               \/ /\ bytes # <<>> /\ bytes[1] # Pad /\ Len(bytes) < rec.size
                  /\ rbuf' = p.buf
                  /\ \E e \in CutErrors[rec.kind] :
                        IF e # "short buffer" THEN Ends(e)
                        ELSE IF p.err \notin {"nil", "EOF"} THEN Ends(p.err)
                        ELSE Retry(bytes)
    /\ UNCHANGED <<old, seeker, game, written, wbuf, file, b, count>>

Done == phase = "done" /\ UNCHANGED vars

Next == WriteRecord \/ Close \/ Read \/ Done

Spec == Init /\ [][Next]_vars

\* ForEach runs until Read returns an error.
FairSpec == Spec /\ WF_vars(Read)

-----------------------------------------------------------------------------
\* Type invariant.
TypeOK ==
    /\ <<old, seeker, game>> \in BOOLEAN \X BOOLEAN \X BOOLEAN
    /\ Len(written) <= MaxRecords
    /\ \A i \in DOMAIN written : written[i].size \in Sizes[written[i].kind]
    /\ Len(wbuf) <= BufSize /\ Len(rbuf) <= BufSize
    /\ phase \in {"write", "read", "done"}
    /\ count.total >= 0 /\ count.blocks >= 0
    /\ d.total >= 0 /\ d.block >= 0 /\ d.blocks >= 0
    /\ read \in Seq(DOMAIN written)
    /\ err \in {"nil", "EOF", "unexpected EOF", "buffer full",
               "invalid packet size", "no terminator"}

\* The header is in front of the blocks and agrees with them: it has their
\* number, the size of the file, and the size of the records, to which only
\* the game adds the padding.
HeaderMatches ==
    phase # "write" =>
        /\ file[1].kind = "header"
        /\ \A i \in 2..Len(file) : file[i].kind = "block"
        /\ file[1].blocks = Len(file) - 1
        /\ file[1].file = Width(file)
        /\ LET records == FoldLeft(LAMBDA n, r : n + r.size, 0, written)
           IN  IF game THEN file[1].total >= records ELSE file[1].total = records

\* The records are read in the order in which they were written, none twice
\* and none skipped.
ReadInOrder == read = [i \in 1..Len(read) |-> i]

\* All records are read back, however they fall on the blocks of the file
\* and the buffer of the reader, and whether or not the padding is counted.
\* Two sorts of records can be written and end the reading: those larger
\* than the buffer, and those with slots or strings that are larger than
\* what is peeked first, as their Deserialize need not ask for more bytes.
AllReadBack ==
    phase = "done" =>
        \/ err = "EOF" /\ Len(read) = Len(written)
        \/ /\ err = "buffer full"
           /\ written[Len(read) + 1].size > BufSize
        \/ /\ err \in {"invalid packet size", "no terminator"}
           /\ written[Len(read) + 1].kind # "counted"
           /\ written[Len(read) + 1].size > PeekSize

\* Reading a file ends.
ReadingEnds == phase = "read" ~> phase = "done"
=============================================================================
