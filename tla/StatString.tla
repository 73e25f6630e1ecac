----------------------------- MODULE StatString -----------------------------
(***************************************************************************)
(* The stat string of protocol/w3gs, in which the settings of a game are   *)
(* sent as a zero-terminated string: SerializeContent and                  *)
(* DeserializeContent of GameSettings.  The settings are written byte by   *)
(* byte; each state is a buffer that SerializeContent may have to encode.  *)
(***************************************************************************)
EXTENDS Integers, Sequences, SequencesExt, Folds

CONSTANTS Values,           \* the bytes written
          MaxLen            \* bound: length of the buffer

VARIABLE statstring         \* the settings in binary form

Init == statstring = <<>>

\* WriteUInt8 and the other writes to the buffer statstring.
WriteByte ==
    /\ Len(statstring) < MaxLen
    /\ \E b \in Values : statstring' = Append(statstring, b)

Done == Len(statstring) = MaxLen /\ UNCHANGED statstring

Next == WriteByte \/ Done

Spec == Init /\ [][Next]_statstring

-----------------------------------------------------------------------------
\* The i-th run of n elements of a sequence, shorter at its end.
Chunk(s, i, n) == SubSeq(s, n * i + 1, IF n * i + n < Len(s) THEN n * i + n ELSE Len(s))

\* A control byte and seven bytes.  Bit 0 of the control byte is set, and bit
\* j + 1 when byte j is odd; even bytes are incremented.
EncodeChunk(c) ==
    LET bit(j) == IF c[j] % 2 = 0 THEN 0 ELSE 2^j
    IN  <<FoldLeft(LAMBDA m, j : m + bit(j), 1, [j \in 1..Len(c) |-> j])>>
            \o [j \in 1..Len(c) |-> IF c[j] % 2 = 0 THEN c[j] + 1 ELSE c[j]]

\* The chunks are encoded one after the other, and a zero ends the string.
Encode(b) ==
    FoldLeft(LAMBDA s, i : s \o EncodeChunk(Chunk(b, i, 7)), <<>>,
             [i \in 1..((Len(b) + 6) \div 7) |-> i - 1]) \o <<0>>

\* ReadCString: the bytes before the first zero.
CString(s) == SubSeq(s, 1, SelectInSeq(s, LAMBDA c : c = 0) - 1)

\* Mutant: looks at the wrong bit of the control byte.
DecodeChunk_NextBit(c) ==
    [j \in 1..(Len(c) - 1) |-> IF (c[1] \div 2^(j - 1)) % 2 = 0 THEN (c[j + 1] - 1) % 256
                               ELSE c[j + 1]]

DecodeChunk(c) ==
    [j \in 1..(Len(c) - 1) |-> IF (c[1] \div 2^j) % 2 = 0 THEN (c[j + 1] - 1) % 256
                               ELSE c[j + 1]]

Decode(s) ==
    FoldLeft(LAMBDA b, i : b \o DecodeChunk(Chunk(CString(s), i, 8)), <<>>,
             [i \in 1..((Len(CString(s)) + 7) \div 8) |-> i - 1])

\* GameSettings.Size
Size == Len(statstring) + (Len(statstring) + 6) \div 7 + 1

-----------------------------------------------------------------------------
\* Type invariant.
TypeOK == statstring \in Seq(Values) /\ Len(statstring) <= MaxLen

\* DeserializeContent decodes what SerializeContent encoded, whatever the
\* bytes and wherever the last chunk ends.
StatRoundTrip == Decode(Encode(statstring)) = statstring

\* "So all encoded bytes are odd" (GameSettings in packets.go), which is why
\* the string may end with a zero, and Size is its size.
StatStringIsOdd ==
    LET s == Encode(statstring)
    IN  /\ \A i \in 1..(Len(s) - 1) : s[i] % 2 = 1 /\ s[i] <= 255
        /\ Len(s) = Size
=============================================================================
