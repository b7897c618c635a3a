------------------------------- MODULE Buffer --------------------------------
(***************************************************************************)
(* Memory buffers: bytes behind an offset.  A buffer that grows takes      *)
(* whatever is written to it, another one what fits.  The size of a buffer *)
(* is the number of its bytes.                                             *)
(***************************************************************************)
EXTENDS Integers, SequencesExt

CONSTANTS
    Bytes,      \* the bytes in play
    Junk,       \* what realloc() leaves in new memory
    Sizes,      \* sizes that buffers are allocated with
    MaxWrite,   \* the most bytes of one write
    MaxBytes    \* bound: no write starts in a buffer of more bytes

ASSUME ByteAssumption ==
    /\ {0, Junk} \subseteq Bytes
    /\ Sizes \subseteq Nat /\ MaxWrite \in Nat /\ MaxBytes \in Nat

Buffer == [data : Seq(Bytes), offset : Nat, grows : BOOLEAN]

Size(b) == Len(b.data)

Least(m, n) == IF m <= n THEN m ELSE n

-----------------------------------------------------------------------------
(* buffer.c                                                                *)

Allocated(size, grows) ==
    [data |-> [k \in 1 .. size |-> 0], offset |-> 0, grows |-> grows]

Moved(b, o) == [data |-> b.data, offset |-> o, grows |-> b.grows]

Seek(b, n) == Moved(b, Least(n, Size(b)))

\* The bytes of s and as much junk as it takes to n of them.
Stretched(s, n) == [k \in 1 .. n |-> IF k <= Len(s) THEN s[k] ELSE Junk]

Resize(b, n) ==
    [data |-> Stretched(b.data, n), offset |-> Least(b.offset, n), grows |-> b.grows]

\* buffer_read: the bytes it takes, and the buffer it leaves.
Taken(b, n) == SubSeq(b.data, b.offset + 1, b.offset + Least(n, Size(b) - b.offset))

Read(b, n) == Moved(b, b.offset + Least(n, Size(b) - b.offset))

\* Bytes of s over those of d that follow the first o, as far as d goes.
Over(d, o, s) == [k \in 1 .. Len(d) |-> IF k \in o + 1 .. o + Len(s) THEN s[k - o] ELSE d[k]]

\* Mutant: the buffer gets room for the bytes, wherever they start.
Grown_Flat(b, n) == IF b.grows /\ n > Size(b) THEN Resize(b, n) ELSE b

\* The buffer with room for n more bytes, if it grows.
Grown(b, n) == IF b.grows /\ b.offset + n > Size(b) THEN Resize(b, b.offset + n) ELSE b

\* buffer_write.
Write(b, s) ==
    LET g == Grown(b, Len(s))
    IN  [data   |-> Over(g.data, g.offset, s),
         offset |-> g.offset + Least(Len(s), Size(g) - g.offset),
         grows  |-> g.grows]

\* The functions that write an integer: all of its bytes or, in a buffer that is
\* full and does not grow, none.  A buffer grows by all of them, even when some
\* would have fitted.
WriteInt(b, s) ==
    IF b.offset + Len(s) <= Size(b) THEN Write(b, s)
    ELSE IF b.grows THEN Write(Resize(b, Size(b) + Len(s)), s)
    ELSE b

\* Mutant: the functions that read an integer do not look at the size.
ReadInt_Unchecked(b, n) == Moved(b, b.offset + n)

ReadInt(b, n) == IF b.offset + n > Size(b) THEN b ELSE Read(b, n)

-----------------------------------------------------------------------------
(* A buffer and what is done to it.                                        *)

VARIABLES
    buf,        \* the buffer
    image       \* history: the byte that was last written to each position

bufferVars == <<buf, image>>

BufferInit ==
    /\ \E n \in Sizes, g \in BOOLEAN : buf = Allocated(n, g)
    /\ image = << >>

\* That s is written behind the first o bytes.
Draws(o, s) ==
    image' = [k \in DOMAIN image \cup (o + 1 .. o + Len(s)) |->
                IF k \in o + 1 .. o + Len(s) THEN s[k - o] ELSE image[k]]

DoSeek ==
    /\ \E n \in 0 .. Size(buf) + 1 : buf' = Seek(buf, n)
    /\ UNCHANGED image

DoRead ==
    /\ \E n \in 0 .. Size(buf) + 1 : buf' = Read(buf, n) \/ buf' = ReadInt(buf, n)
    /\ UNCHANGED image

Chunks == UNION {[1 .. n -> Bytes] : n \in 0 .. MaxWrite}

DoWrite(s) ==
    /\ Size(buf) <= MaxBytes
    /\ buf' = Write(buf, s)
    /\ Draws(buf.offset, s)

DoWriteInt(s) ==
    /\ Size(buf) <= MaxBytes
    /\ buf' = WriteInt(buf, s)
    /\ Draws(buf.offset, s)

BufferNext ==
    \/ DoSeek
    \/ DoRead
    \/ \E s \in Chunks : DoWrite(s) \/ DoWriteInt(s)

BufferSpec == BufferInit /\ [][BufferNext]_bufferVars

-----------------------------------------------------------------------------
(* Properties                                                              *)

\* The offset is never behind the end: buffer_read and buffer_write subtract it
\* from the size, and both are unsigned.
OffsetInside == buf \in Buffer /\ buf.offset <= Size(buf)

\* A buffer that grows keeps all that is written to it, in whatever sizes and
\* wherever the offset is put in between.
NothingLost ==
    buf.grows => \A k \in DOMAIN image : k <= Size(buf) /\ buf.data[k] = image[k]
=============================================================================
