----------------------------- MODULE PartsProofs -----------------------------
(***************************************************************************)
(* Proofs about parts that work alone.                                     *)
(*                                                                         *)
(* Buffers, for bytes, sizes and writes of any kind: what was written last *)
(* to each position is there.                                              *)
(*                                                                         *)
(* flood_fill, on maps of any size and any shape: a call fills the least   *)
(* closed set.  While it runs, a block that still has to be filled is on   *)
(* the stack: the start, or a neighbour of one that has been filled; and   *)
(* every closed set holds what is filled and what is on the stack and can  *)
(* be filled.                                                              *)
(*                                                                         *)
(* namelist_parse, for files and names of every length: between two        *)
(* characters the buffer holds what has been read of the last line, from   *)
(* the first character that is no space to the last, as long as the line   *)
(* is a name that has room; spaceskip counts the spaces behind it.         *)
(*                                                                         *)
(* The configuration, for files of any words: between two characters the   *)
(* place of the buffer that is being written is within it, and what has    *)
(* been set is a number, a text or still unset.  Between two lines of a    *)
(* file whose settings follow a section and fit the buffers, the parser    *)
(* is where a line begins, its section is that of the last section line,   *)
(* and what has been set is what the lines say, the last one of a setting  *)
(* and the first one of a colour; the keys and values that are left in the *)
(* buffers do not matter.                                                  *)
(***************************************************************************)
EXTENDS Buffer, Flood, NameList, Config, CommonLemmas

-----------------------------------------------------------------------------
(* Buffers                                                                 *)

\* A buffer whose offset is within it.
Sound(b) == b \in Buffer /\ b.offset <= Size(b)

\* v is b with s written behind the first o bytes.
Holds(b, v, o, s) ==
    /\ Size(b) <= Size(v) /\ o + Len(s) <= Size(v)
    /\ \A k \in 1 .. Size(b) : k \notin o + 1 .. o + Len(s) => v.data[k] = b.data[k]
    /\ \A k \in 1 .. Len(s) : v.data[o + k] = s[k]

LEMMA StretchedType ==
    ASSUME NEW s \in Seq(Bytes), NEW n \in Nat
    PROVE  /\ Stretched(s, n) \in Seq(Bytes) /\ Len(Stretched(s, n)) = n
           /\ \A k \in 1 .. n : k <= Len(s) => Stretched(s, n)[k] = s[k]
<1>1. \A k \in 1 .. n : (IF k <= Len(s) THEN s[k] ELSE Junk) \in Bytes
  BY ByteAssumption
<1> QED BY <1>1 DEF Stretched

\* Changing the size keeps the bytes that stay.
LEMMA ResizeSound ==
    ASSUME NEW b, Sound(b), NEW n \in Nat
    PROVE  /\ Sound(Resize(b, n)) /\ Size(Resize(b, n)) = n
           /\ Resize(b, n).grows = b.grows
           /\ n >= b.offset => Resize(b, n).offset = b.offset
           /\ \A k \in 1 .. n : k <= Size(b) => Resize(b, n).data[k] = b.data[k]
<1>1. b \in Buffer /\ b.data \in Seq(Bytes) /\ b.offset \in Nat /\ b.offset <= Len(b.data)
  BY DEF Sound, Buffer, Size
<1> DEFINE d == Stretched(b.data, n)
           o == Least(b.offset, n)
<1>2. /\ d \in Seq(Bytes) /\ Len(d) = n
      /\ \A k \in 1 .. n : k <= Len(b.data) => d[k] = b.data[k]
  BY <1>1, StretchedType
<1>3. o \in Nat /\ o <= n /\ (n >= b.offset => o = b.offset)
  BY <1>1 DEF Least
<1>4. Resize(b, n) = [data |-> d, offset |-> o, grows |-> b.grows]
  BY DEF Resize
<1> HIDE DEF d, o
<1> QED BY <1>1, <1>2, <1>3, <1>4 DEF Sound, Buffer, Size

LEMMA OverType ==
    ASSUME NEW d \in Seq(Bytes), NEW o \in Nat, NEW s \in Seq(Bytes)
    PROVE  /\ Over(d, o, s) \in Seq(Bytes) /\ Len(Over(d, o, s)) = Len(d)
           /\ \A k \in 1 .. Len(d) :
                  Over(d, o, s)[k] = IF k \in o + 1 .. o + Len(s) THEN s[k - o] ELSE d[k]
<1>1. \A k \in 1 .. Len(d) :
          (IF k \in o + 1 .. o + Len(s) THEN s[k - o] ELSE d[k]) \in Bytes
  <2>1. \A k \in 1 .. Len(d) : k \in o + 1 .. o + Len(s) => k - o \in 1 .. Len(s)
    OBVIOUS
  <2> QED BY <2>1
<1> QED BY <1>1 DEF Over

LEMMA GrownSound ==
    ASSUME NEW b, Sound(b), NEW n \in Nat
    PROVE  /\ Sound(Grown(b, n)) /\ Grown(b, n).grows = b.grows
           /\ Grown(b, n).offset = b.offset
           /\ Size(b) <= Size(Grown(b, n))
           /\ b.grows => b.offset + n <= Size(Grown(b, n))
           /\ \A k \in 1 .. Size(b) : Grown(b, n).data[k] = b.data[k]
<1>1. b.offset \in Nat /\ b.grows \in BOOLEAN /\ Size(b) \in Nat /\ b.offset <= Size(b)
  BY DEF Sound, Buffer, Size
<1>2. CASE b.grows /\ b.offset + n > Size(b)
  <2>1. b.offset + n \in Nat /\ b.offset + n >= b.offset
    BY <1>1
  <2> DEFINE r == Resize(b, b.offset + n)
  <2>2. Grown(b, n) = r
    BY <1>2 DEF Grown
  <2>3. /\ Sound(r) /\ Size(r) = b.offset + n /\ r.grows = b.grows /\ r.offset = b.offset
        /\ \A k \in 1 .. b.offset + n : k <= Size(b) => r.data[k] = b.data[k]
    BY <2>1, ResizeSound
  <2> HIDE DEF r
  <2>4. \A k \in 1 .. Size(b) : r.data[k] = b.data[k]
    BY <1>1, <1>2, <2>3
  <2>5. Size(b) <= Size(r)
    BY <1>1, <1>2, <2>3
  <2> QED BY <1>1, <2>2, <2>3, <2>4, <2>5
<1>3. CASE ~(b.grows /\ b.offset + n > Size(b))
  <2>1. Grown(b, n) = b
    BY <1>3 DEF Grown
  <2> QED BY <1>1, <1>3, <2>1
<1> QED BY <1>2, <1>3

\* A write leaves the offset inside and, if there is room for it, is complete.
LEMMA WriteSound ==
    ASSUME NEW b, Sound(b), NEW s \in Seq(Bytes)
    PROVE  /\ Sound(Write(b, s)) /\ Write(b, s).grows = b.grows
           /\ b.grows \/ b.offset + Len(s) <= Size(b) => Holds(b, Write(b, s), b.offset, s)
<1> DEFINE g == Grown(b, Len(s))
           d == Over(g.data, g.offset, s)
           o == g.offset + Least(Len(s), Size(g) - g.offset)
<1>1. Len(s) \in Nat /\ b.offset \in Nat
  BY DEF Sound, Buffer
<1>2. /\ Sound(g) /\ g.grows = b.grows /\ g.offset = b.offset
      /\ Size(b) <= Size(g)
      /\ b.grows => b.offset + Len(s) <= Size(g)
      /\ \A k \in 1 .. Size(b) : g.data[k] = b.data[k]
  BY <1>1, GrownSound
<1>3. Write(b, s) = [data |-> d, offset |-> o, grows |-> g.grows]
  BY DEF Write
<1> HIDE DEF g
<1>4. g \in Buffer /\ g.data \in Seq(Bytes) /\ g.offset \in Nat /\ g.offset <= Len(g.data)
  BY <1>2 DEF Sound, Buffer, Size
<1>5. /\ d \in Seq(Bytes) /\ Len(d) = Len(g.data)
      /\ \A k \in 1 .. Len(g.data) :
             d[k] = IF k \in g.offset + 1 .. g.offset + Len(s) THEN s[k - g.offset]
                    ELSE g.data[k]
  BY <1>4, OverType
<1>6. o \in Nat /\ o <= Len(g.data)
  BY <1>1, <1>4 DEF Least, Size
<1> HIDE DEF d, o
<1>7. Write(b, s).data = d /\ Write(b, s).offset = o /\ Write(b, s).grows = g.grows
      /\ Write(b, s) \in Buffer
  BY <1>3, <1>4, <1>5, <1>6 DEF Buffer
<1>8. Sound(Write(b, s)) /\ Write(b, s).grows = b.grows
  BY <1>2, <1>5, <1>6, <1>7 DEF Sound, Size
<1>9. ASSUME b.grows \/ b.offset + Len(s) <= Size(b)
      PROVE  Holds(b, Write(b, s), b.offset, s)
  <2>1. Size(b) \in Nat /\ Size(g) = Len(d) /\ Size(Write(b, s)) = Len(d) /\ Len(d) \in Nat
    BY <1>4, <1>5, <1>7 DEF Size, Sound, Buffer
  <2>2. Size(b) <= Len(d) /\ b.offset + Len(s) <= Len(d)
    BY <1>1, <1>2, <1>9, <2>1
  <2>3. \A k \in 1 .. Size(b) : k \notin b.offset + 1 .. b.offset + Len(s) => d[k] = b.data[k]
    BY <1>2, <1>5, <2>1, <2>2
  <2>4. ASSUME NEW k \in 1 .. Len(s)
        PROVE  d[b.offset + k] = s[k]
    <3>1. b.offset + k \in 1 .. Len(g.data) /\ b.offset + k \in b.offset + 1 .. b.offset + Len(s)
      BY <1>1, <1>5, <2>2
    <3>2. (b.offset + k) - b.offset = k
      BY <1>1
    <3> QED BY <1>2, <1>5, <3>1, <3>2
  <2> QED BY <1>7, <2>1, <2>2, <2>3, <2>4 DEF Holds
<1> QED BY <1>8, <1>9

LEMMA WriteIntSound ==
    ASSUME NEW b, Sound(b), NEW s \in Seq(Bytes)
    PROVE  /\ Sound(WriteInt(b, s)) /\ WriteInt(b, s).grows = b.grows
           /\ b.grows => Holds(b, WriteInt(b, s), b.offset, s)
<1>1. /\ Len(s) \in Nat /\ b.offset \in Nat /\ Size(b) \in Nat /\ b.offset <= Size(b)
      /\ b.grows \in BOOLEAN
  BY DEF Sound, Buffer, Size
<1>2. CASE b.offset + Len(s) <= Size(b)
  <2>1. WriteInt(b, s) = Write(b, s)
    BY <1>2 DEF WriteInt
  <2> QED BY <1>2, <2>1, WriteSound
<1>3. CASE b.offset + Len(s) > Size(b) /\ b.grows
  <2> DEFINE r == Resize(b, Size(b) + Len(s))
  <2>1. ~(b.offset + Len(s) <= Size(b))
    BY <1>1, <1>3
  <2>2. WriteInt(b, s) = Write(r, s)
    BY <1>3, <2>1 DEF WriteInt
  <2>3. Size(b) + Len(s) \in Nat /\ Size(b) + Len(s) >= b.offset
    BY <1>1
  <2>4. /\ Sound(r) /\ Size(r) = Size(b) + Len(s)
        /\ r.grows = b.grows /\ r.offset = b.offset
        /\ \A k \in 1 .. Size(b) + Len(s) : k <= Size(b) => r.data[k] = b.data[k]
    BY <2>3, ResizeSound
  <2> HIDE DEF r
  <2>5. Sound(Write(r, s)) /\ Write(r, s).grows = r.grows /\ Holds(r, Write(r, s), r.offset, s)
    BY <1>3, <2>4, WriteSound
  <2>6. Size(Write(r, s)) \in Nat
    BY <2>5 DEF Sound, Buffer, Size
  <2>7. Holds(b, Write(r, s), b.offset, s)
    BY <1>1, <2>4, <2>5, <2>6 DEF Holds
  <2> QED BY <2>2, <2>4, <2>5, <2>7
<1>4. CASE ~(b.offset + Len(s) <= Size(b)) /\ ~b.grows
  <2>1. WriteInt(b, s) = b
    BY <1>1, <1>4 DEF WriteInt
  <2> QED BY <1>4, <2>1
<1> QED BY <1>1, <1>2, <1>3, <1>4

LEMMA SeekReadSound ==
    ASSUME NEW b, Sound(b), NEW n \in Nat,
           NEW v \in {Seek(b, n), Read(b, n), ReadInt(b, n)}
    PROVE  Sound(v) /\ v.data = b.data /\ v.grows = b.grows
<1>1. b \in Buffer /\ b.offset \in Nat /\ Len(b.data) \in Nat /\ b.offset <= Len(b.data)
  BY DEF Sound, Buffer, Size
<1>2. Least(n, Len(b.data)) \in 0 .. Len(b.data)
  BY <1>1 DEF Least
<1>3. b.offset + Least(n, Len(b.data) - b.offset) \in 0 .. Len(b.data)
  BY <1>1 DEF Least
<1>4. /\ Sound(Seek(b, n)) /\ Seek(b, n).data = b.data /\ Seek(b, n).grows = b.grows
      /\ Sound(Read(b, n)) /\ Read(b, n).data = b.data /\ Read(b, n).grows = b.grows
  BY <1>1, <1>2, <1>3 DEF Sound, Seek, Read, Moved, Buffer, Size
<1>5. ReadInt(b, n) \in {b, Read(b, n)}
  BY DEF ReadInt
<1> QED BY <1>4, <1>5

\* Positions count from 1.
Positions == DOMAIN image \subseteq Nat \ {0}

BufferInv == OffsetInside /\ NothingLost /\ Positions

\* What was drawn before and what is written now are both there.
LEMMA DrawsHolds ==
    ASSUME BufferInv, NEW s \in Seq(Bytes), Draws(buf.offset, s),
           Sound(buf'), buf'.grows = buf.grows,
           buf.grows => Holds(buf, buf', buf.offset, s)
    PROVE  BufferInv'
<1> DEFINE new == buf.offset + 1 .. buf.offset + Len(s)
<1>1. buf.offset \in Nat /\ Len(s) \in Nat /\ Sound(buf)
  BY DEF BufferInv, OffsetInside, Buffer, Sound
<1>2. DOMAIN image' = DOMAIN image \cup new
  BY DEF Draws
<1>3. Positions'
  BY <1>1, <1>2 DEF BufferInv, Positions
<1>4. ASSUME buf'.grows, NEW k \in DOMAIN image'
      PROVE  k <= Size(buf') /\ buf'.data[k] = image'[k]
  <2>1. buf.grows /\ Holds(buf, buf', buf.offset, s)
    BY <1>4
  <2>2. Size(buf) \in Nat /\ Size(buf') \in Nat
    BY <1>1 DEF Sound, Buffer, Size
  <2>3. CASE k \in new
    <3>1. k - buf.offset \in 1 .. Len(s) /\ k = buf.offset + (k - buf.offset)
      BY <1>1, <2>3
    <3>2. image'[k] = s[k - buf.offset]
      BY <2>3 DEF Draws
    <3>3. buf'.data[k] = s[k - buf.offset]
      BY <2>1, <3>1 DEF Holds
    <3>4. k <= Size(buf')
      BY <1>1, <2>1, <2>2, <2>3 DEF Holds
    <3> QED BY <3>2, <3>3, <3>4
  <2>4. CASE k \notin new
    <3>1. k \in DOMAIN image /\ image'[k] = image[k]
      BY <1>2, <1>4, <2>4 DEF Draws
    <3>2. k \in 1 .. Size(buf) /\ buf.data[k] = image[k]
      BY <2>1, <2>2, <3>1 DEF BufferInv, NothingLost, Positions
    <3>3. buf'.data[k] = buf.data[k] /\ k <= Size(buf')
      BY <2>1, <2>2, <2>4, <3>2 DEF Holds
    <3> QED BY <3>1, <3>2, <3>3
  <2> QED BY <2>3, <2>4
<1> QED BY <1>3, <1>4 DEF BufferInv, OffsetInside, NothingLost, Sound

\* The bytes of every write of the specification are bytes.
LEMMA WritesAreBytes ==
    ASSUME NEW s \in Chunks
    PROVE  s \in Seq(Bytes)
<1>1. PICK n \in 0 .. MaxWrite : s \in [1 .. n -> Bytes]
  BY DEF Chunks
<1> QED BY <1>1, ByteAssumption

LEMMA BufferInvInit == BufferInit => BufferInv
<1> SUFFICES ASSUME BufferInit PROVE BufferInv
  OBVIOUS
<1>1. PICK n \in Sizes, g \in BOOLEAN : buf = Allocated(n, g)
  BY DEF BufferInit
<1>2. n \in Nat /\ 0 \in Bytes
  BY ByteAssumption
<1>3. [k \in 1 .. n |-> 0] \in Seq(Bytes) /\ Len([k \in 1 .. n |-> 0]) = n
  BY <1>2
<1>4. OffsetInside
  BY <1>1, <1>2, <1>3 DEF OffsetInside, Buffer, Allocated, Size
<1>5. DOMAIN image = {}
  BY DEF BufferInit
<1> QED BY <1>4, <1>5 DEF BufferInv, NothingLost, Positions

LEMMA BufferInvNext == BufferInv /\ [BufferNext]_bufferVars => BufferInv'
<1> SUFFICES ASSUME BufferInv, [BufferNext]_bufferVars PROVE BufferInv'
  OBVIOUS
<1>1. Sound(buf) /\ buf.offset \in Nat /\ Size(buf) \in Nat
  BY DEF BufferInv, OffsetInside, Sound, Buffer, Size
<1>2. ASSUME NEW n \in Nat, buf' \in {Seek(buf, n), Read(buf, n), ReadInt(buf, n)},
             UNCHANGED image
      PROVE  BufferInv'
  <2>1. Sound(buf') /\ buf'.data = buf.data /\ buf'.grows = buf.grows
    BY <1>1, <1>2, SeekReadSound
  <2> QED BY <1>2, <2>1 DEF BufferInv, OffsetInside, NothingLost, Positions, Sound, Size
<1>3. CASE DoSeek
  BY <1>1, <1>2, <1>3 DEF DoSeek
<1>4. CASE DoRead
  BY <1>1, <1>2, <1>4 DEF DoRead
<1>5. ASSUME NEW s \in Chunks, DoWrite(s)
      PROVE  BufferInv'
  BY <1>1, <1>5, WritesAreBytes, WriteSound, DrawsHolds DEF DoWrite
<1>6. ASSUME NEW s \in Chunks, DoWriteInt(s)
      PROVE  BufferInv'
  BY <1>1, <1>6, WritesAreBytes, WriteIntSound, DrawsHolds DEF DoWriteInt
<1>7. CASE UNCHANGED bufferVars
  BY <1>7 DEF bufferVars, BufferInv, OffsetInside, NothingLost, Positions, Size
<1> QED BY <1>3, <1>4, <1>5, <1>6, <1>7 DEF BufferNext

LEMMA BufferInvAlways == BufferSpec => []BufferInv
BY BufferInvInit, BufferInvNext, PTL DEF BufferSpec

\* Seeking, reading and writing in any order leave the offset inside the buffer: the
\* room behind it, which buffer_read and buffer_write compute unsigned, is right.
THEOREM OffsetStaysInside == BufferSpec => []OffsetInside
<1>1. BufferInv => OffsetInside
  BY DEF BufferInv
<1> QED BY <1>1, BufferInvAlways, PTL

\* A buffer that grows holds all that was written to it: what map_save writes as NBT is
\* complete when it is compressed.
THEOREM WrittenIsKept == BufferSpec => []NothingLost
<1>1. BufferInv => NothingLost
  BY DEF BufferInv
<1> QED BY <1>1, BufferInvAlways, PTL

-----------------------------------------------------------------------------
(* The water and the lava of a new world                                   *)

On(s, m) == \E k \in DOMAIN s : s[k] = m

FloodType ==
    /\ blocks \in [Cells -> Block] /\ before \in [Cells -> Block]
    /\ stack \in Seq(Int)
    /\ liquid \in {"water", "lava"}
    /\ start \in Int

\* A block has changed to the liquid only, and only if it could be filled.
Honest == \A n \in Cells : blocks[n] = before[n] \/ (Fills(n) /\ blocks[n] = liquid)

Awaited(m) == m \in Poured \/ On(stack, m)

Pending ==
    /\ Fills(start) => Awaited(start)
    /\ \A n \in Poured : \A m \in FlowsTo(n) : Fills(m) => Awaited(m)

Within(S) ==
    /\ Poured \subseteq S
    /\ \A m : On(stack, m) /\ Fills(m) => m \in S

FloodInv ==
    /\ FloodType
    /\ pc = "fill" =>
        /\ Honest
        /\ Pending
        /\ \A S \in SUBSET Cells : Closed(S) => Within(S)

LEMMA StackPops ==
    ASSUME NEW s \in Seq(Int), s # << >>
    PROVE  /\ SubSeq(s, 1, Len(s) - 1) \in Seq(Int)
           /\ \A m : On(s, m) <=> (m = s[Len(s)] \/ On(SubSeq(s, 1, Len(s) - 1), m))
<1> DEFINE r == SubSeq(s, 1, Len(s) - 1)
<1>1. Len(s) \in Nat \ {0} /\ DOMAIN s = 1 .. Len(s)
  OBVIOUS
<1>2. /\ r \in Seq(Int) /\ DOMAIN r = 1 .. Len(s) - 1
      /\ \A k \in 1 .. Len(s) - 1 : r[k] = s[k]
  BY <1>1
<1>3. \A m : On(s, m) => (m = s[Len(s)] \/ On(r, m))
  <2> SUFFICES ASSUME NEW m, NEW k \in DOMAIN s, s[k] = m, m # s[Len(s)]
               PROVE  On(r, m)
    BY DEF On
  <2>1. k \in 1 .. Len(s) - 1
    BY <1>1
  <2> QED BY <2>1, <1>2 DEF On
<1>4. \A m : (m = s[Len(s)] \/ On(r, m)) => On(s, m)
  BY <1>1, <1>2 DEF On
<1> QED BY <1>2, <1>3, <1>4

LEMMA StackPushes ==
    ASSUME NEW s \in Seq(Int), NEW t \in Seq(Int)
    PROVE  /\ s \o t \in Seq(Int)
           /\ \A m : On(s \o t, m) <=> (On(s, m) \/ On(t, m))
<1> DEFINE u == s \o t
<1>1. /\ u \in Seq(Int) /\ DOMAIN u = 1 .. Len(s) + Len(t)
      /\ Len(s) \in Nat /\ Len(t) \in Nat
      /\ DOMAIN s = 1 .. Len(s) /\ DOMAIN t = 1 .. Len(t)
  OBVIOUS
<1>2. \A k \in 1 .. Len(s) + Len(t) : u[k] = IF k <= Len(s) THEN s[k] ELSE t[k - Len(s)]
  OBVIOUS
<1>3. \A m : On(u, m) => (On(s, m) \/ On(t, m))
  <2> SUFFICES ASSUME NEW m, NEW k \in DOMAIN u, u[k] = m
               PROVE  On(s, m) \/ On(t, m)
    BY DEF On
  <2>1. CASE k <= Len(s)
    BY <2>1, <1>1, <1>2 DEF On
  <2>2. CASE ~(k <= Len(s))
    <3>1. k - Len(s) \in DOMAIN t /\ t[k - Len(s)] = m
      BY <2>2, <1>1, <1>2
    <3> QED BY <3>1 DEF On
  <2> QED BY <2>1, <2>2
<1>4. \A m : On(s, m) => On(u, m)
  <2> SUFFICES ASSUME NEW m, NEW k \in DOMAIN s, s[k] = m
               PROVE  On(u, m)
    BY DEF On
  <2>1. k \in DOMAIN u /\ u[k] = m
    BY <1>1, <1>2
  <2> QED BY <2>1 DEF On
<1>5. \A m : On(t, m) => On(u, m)
  <2> SUFFICES ASSUME NEW m, NEW k \in DOMAIN t, t[k] = m
               PROVE  On(u, m)
    BY DEF On
  <2>1. k + Len(s) \in DOMAIN u /\ u[k + Len(s)] = m
    BY <1>1, <1>2
  <2> QED BY <2>1 DEF On
<1> QED BY <1>1, <1>3, <1>4, <1>5

LEMMA BesideSeq ==
    ASSUME NEW n \in Int
    PROVE  Beside(n) \in Seq(Int) /\ \A m : On(Beside(n), m) <=> m \in FlowsTo(n)
<1>1. Width \in Int /\ Height \in Int
  BY FloodAssumption
<1>2. \A cond \in BOOLEAN, m \in Int : If(cond, m) \in Seq(Int)
  BY DEF If
<1>3. Width * Height \in Int
  BY <1>1
<1>4. /\ n - 1 \in Int /\ n + 1 \in Int /\ n - Width \in Int /\ n + Width \in Int
      /\ n - Width * Height \in Int
  BY <1>1, <1>3
<1>5. /\ (X(n) > 0) \in BOOLEAN /\ (X(n) < Width - 1) \in BOOLEAN /\ (Z(n) > 0) \in BOOLEAN
      /\ (Z(n) < Height - 1) \in BOOLEAN /\ (Y(n) > 0) \in BOOLEAN
  OBVIOUS
<1>6. /\ If(X(n) > 0, n - 1) \in Seq(Int) /\ If(X(n) < Width - 1, n + 1) \in Seq(Int)
      /\ If(Z(n) > 0, n - Width) \in Seq(Int) /\ If(Z(n) < Height - 1, n + Width) \in Seq(Int)
      /\ If(Y(n) > 0, n - Width * Height) \in Seq(Int)
  BY <1>2, <1>4, <1>5
<1>7. \A s, t \in Seq(Int) : s \o t \in Seq(Int)
  OBVIOUS
<1>8. Beside(n) \in Seq(Int)
  BY ONLY <1>6, <1>7, Zenon DEF Beside
<1> QED BY <1>8 DEF On, FlowsTo

LEMMA StartsAreNumbers == WaterStarts \cup LavaStarts \subseteq Int
<1>1. /\ Width \in Int /\ Depth \in Int /\ Height \in Int /\ WaterLevel \in Int
  BY FloodAssumption DEF WaterLevel
<1>2. \A x, y, z \in Int : Index(x, y, z) \in Int
  BY <1>1 DEF Index
<1>3. WaterStarts \subseteq Int
  BY <1>1, <1>2 DEF WaterStarts
<1>4. LavaStarts \subseteq Int
  BY <1>1, <1>2 DEF LavaStarts
<1> QED BY <1>3, <1>4

LEMMA FloodInvInit == FloodInit => FloodInv
<1> SUFFICES ASSUME FloodInit PROVE FloodInv
  OBVIOUS
<1>1. FloodType
  BY FloodAssumption DEF FloodInit, FloodType
<1> QED BY <1>1 DEF FloodInit, FloodInv

LEMMA CallKeepsInv ==
    ASSUME FloodInv, NEW n \in Int, NEW b \in {"water", "lava"}, Call(n, b)
    PROVE  FloodInv'
<1>1. FloodType'
  BY DEF Call, FloodInv, FloodType
<1>2. Poured' = {}
  BY DEF Call, Poured
<1>3. \A m : On(stack', m) <=> m = start'
  BY DEF Call, On
<1>4. Honest'
  BY DEF Call, Honest
<1>5. Pending'
  BY <1>2, <1>3 DEF Pending, Awaited
<1>6. \A S \in SUBSET Cells : Closed(S)' => Within(S)'
  BY <1>2, <1>3 DEF Closed, Within
<1> QED BY <1>1, <1>4, <1>5, <1>6 DEF FloodInv

LEMMA PopKeepsInv == ASSUME FloodInv, Pop PROVE FloodInv'
<1> DEFINE top  == stack[Len(stack)]
           rest == SubSeq(stack, 1, Len(stack) - 1)
<1>1. /\ pc = "fill" /\ stack # << >> /\ pc' = "fill"
      /\ liquid' = liquid /\ before' = before /\ start' = start
  BY DEF Pop
<1>2. FloodType /\ Honest /\ Pending /\ \A S \in SUBSET Cells : Closed(S) => Within(S)
  BY <1>1 DEF FloodInv
<1>3. /\ rest \in Seq(Int) /\ top \in Int
      /\ \A m : On(stack, m) <=> (m = top \/ On(rest, m))
  BY <1>1, <1>2, StackPops DEF FloodType
<1>4. \A m : Fills(m)' <=> Fills(m)
  BY <1>1 DEF Fills
<1>5. \A S : Closed(S)' <=> Closed(S)
  BY <1>1, <1>4 DEF Closed
<1>6. CASE top \in Cells /\ blocks[top] \in Fillable
  <2>1. blocks' = [blocks EXCEPT ![top] = liquid] /\ stack' = rest \o Beside(top)
    BY <1>6 DEF Pop, Pushed
  <2>2. Beside(top) \in Seq(Int) /\ \A m : On(Beside(top), m) <=> m \in FlowsTo(top)
    BY <1>3, BesideSeq
  <2>3. /\ stack' \in Seq(Int)
        /\ \A m : On(stack', m) <=> (On(rest, m) \/ m \in FlowsTo(top))
    BY <2>1, <2>2, <1>3, StackPushes
  <2>4. Fills(top) /\ blocks[top] = before[top]
    BY <1>2, <1>6 DEF Honest, FloodType, Fillable, Fills
  <2>5. Poured' = Poured \cup {top}
    <3>1. \A n \in Cells : n # top => blocks'[n] = blocks[n]
      BY <2>1, <1>2 DEF FloodType
    <3>2. blocks'[top] = liquid /\ liquid # before[top]
      BY <2>1, <2>4, <1>2, <1>6 DEF FloodType, Fillable
    <3> QED BY <3>1, <3>2, <1>1, <1>6 DEF Poured
  <2>6. FloodType'
    <3>1. liquid = "water" \/ liquid = "lava"
      BY <1>2 DEF FloodType
    <3>2. blocks' \in [Cells -> Block]
      BY <2>1, <1>2, FloodAssumption DEF FloodType
    <3> QED BY <1>1, <1>2, <2>3, <3>2 DEF FloodType
  <2>7. Honest'
    <3> SUFFICES ASSUME NEW n \in Cells
                 PROVE  blocks'[n] = before[n] \/ (Fills(n) /\ blocks'[n] = liquid)
      BY <1>1, <1>4 DEF Honest
    <3>1. CASE n = top
      BY <3>1, <2>1, <2>4, <1>2 DEF FloodType
    <3>2. CASE n # top
      BY <3>2, <2>1, <1>2 DEF FloodType, Honest
    <3> QED BY <3>1, <3>2
  <2>8. \A m : Awaited(m) => Awaited(m)'
    BY <1>3, <2>3, <2>5 DEF Awaited
  <2>9. Pending'
    <3>1. Fills(start)' => Awaited(start)'
      BY <1>1, <1>2, <1>4, <2>8 DEF Pending
    <3>2. ASSUME NEW n \in Poured', NEW m \in FlowsTo(n), Fills(m)
          PROVE  Awaited(m)'
      <4>1. CASE n \in Poured
        BY <4>1, <3>2, <1>2, <2>8 DEF Pending
      <4>2. CASE n = top
        BY <4>2, <3>2, <2>3 DEF Awaited
      <4> QED BY <4>1, <4>2, <2>5
    <3> QED BY <3>1, <3>2, <1>4 DEF Pending
  <2>10. ASSUME NEW S \in SUBSET Cells, Closed(S)
         PROVE  Within(S)'
    <3>1. Within(S)
      BY <1>2, <2>10
    <3>2. top \in S
      BY <3>1, <1>3, <2>4 DEF Within
    <3>3. \A m : On(stack', m) /\ Fills(m) => m \in S
      BY <3>1, <3>2, <2>3, <2>10, <1>3 DEF Within, Closed
    <3> QED BY <3>1, <3>2, <3>3, <2>5, <1>4 DEF Within
  <2> QED BY <2>6, <2>7, <2>9, <2>10, <1>5 DEF FloodInv
<1>7. CASE ~(top \in Cells /\ blocks[top] \in Fillable)
  <2>1. blocks' = blocks /\ stack' = rest
    BY <1>7 DEF Pop
  <2>2. Poured' = Poured
    BY <1>1, <2>1 DEF Poured
  <2>3. Fills(top) => top \in Poured
    BY <1>7, <1>2 DEF Fills, Poured
  <2>4. \A m : Fills(m) /\ Awaited(m) => Awaited(m)'
    BY <1>3, <2>1, <2>2, <2>3 DEF Awaited
  <2>5. FloodType' /\ Honest'
    BY <1>1, <1>2, <1>3, <1>4, <2>1 DEF FloodType, Honest
  <2>6. Pending'
    BY <1>1, <1>2, <1>4, <2>2, <2>4 DEF Pending
  <2>7. ASSUME NEW S \in SUBSET Cells, Closed(S)
        PROVE  Within(S)'
    BY <2>7, <1>2, <1>3, <1>4, <2>1, <2>2 DEF Within
  <2> QED BY <2>5, <2>6, <2>7, <1>5 DEF FloodInv
<1> QED BY <1>6, <1>7

LEMMA FloodInvNext == FloodInv /\ [FloodNext]_floodVars => FloodInv'
<1> SUFFICES ASSUME FloodInv, [FloodNext]_floodVars PROVE FloodInv'
  OBVIOUS
<1>1. CASE Water
  BY <1>1, CallKeepsInv, StartsAreNumbers DEF Water
<1>2. CASE Lava
  BY <1>2, CallKeepsInv, StartsAreNumbers DEF Lava
<1>3. CASE Pop
  BY <1>3, PopKeepsInv
<1>4. CASE Filled
  <2>1. pc' # "fill" /\ FloodType'
    BY <1>4 DEF Filled, FloodInv, FloodType
  <2> QED BY <2>1 DEF FloodInv
<1>5. CASE UNCHANGED floodVars
  BY <1>5 DEF floodVars, FloodInv, FloodType, Honest, Pending, Awaited, Within, Poured, Fills,
      Closed
<1> QED BY <1>1, <1>2, <1>3, <1>4, <1>5 DEF FloodNext

LEMMA FloodInvFills == FloodInv => FillsReach
<1> SUFFICES ASSUME FloodInv, pc = "fill", stack = << >>
             PROVE  /\ \A n \in Poured : Fills(n) /\ blocks[n] = liquid
                    /\ Closed(Poured)
                    /\ \A S \in SUBSET Poured : Closed(S) => S = Poured
  BY DEF FillsReach
<1>1. \A m : ~On(stack, m)
  BY DEF On
<1>2. Honest /\ Pending /\ \A S \in SUBSET Cells : Closed(S) => Within(S)
  BY DEF FloodInv
<1>3. \A n \in Poured : Fills(n) /\ blocks[n] = liquid
  BY <1>2 DEF Honest, Poured
<1>4. Closed(Poured)
  BY <1>1, <1>2 DEF Pending, Awaited, Closed
<1>5. \A S \in SUBSET Poured : Closed(S) => S = Poured
  BY <1>2 DEF Within, Poured
<1> QED BY <1>3, <1>4, <1>5

\* Every call of flood_fill pours its liquid into all that it comes to from its start,
\* and into nothing else, whatever the map.
THEOREM FloodCorrect == FloodSpec => []FillsReach
<1>1. FloodInit => FloodInv
  BY FloodInvInit
<1>2. FloodInv /\ [FloodNext]_floodVars => FloodInv'
  BY FloodInvNext
<1>3. FloodInv => FillsReach
  BY FloodInvFills
<1> QED BY <1>1, <1>2, <1>3, PTL DEF FloodSpec

-----------------------------------------------------------------------------
(* Numbers of blocks and their places                                      *)

Places == (0 .. Width - 1) \X (0 .. Depth - 1) \X (0 .. Height - 1)

LEMMA MapSizes == Width \in Nat \ {0} /\ Depth \in Nat \ {0} /\ Height \in Nat \ {0}
BY FloodAssumption

LEMMA CoordinatesAreIndex ==
    ASSUME NEW n \in Cells
    PROVE  /\ X(n) \in 0 .. Width - 1 /\ Y(n) \in 0 .. Depth - 1 /\ Z(n) \in 0 .. Height - 1
           /\ n = Index(X(n), Y(n), Z(n))
<1> DEFINE r == n \div Width
           x == n % Width
           y == r \div Height
           z == r % Height
           d == Height * Width
<1>1. Width \in Nat \ {0} /\ Depth \in Nat \ {0} /\ Height \in Nat \ {0}
  BY MapSizes
<1>2. d \in Nat \ {0} /\ d = Width * Height /\ Width * Depth * Height = Depth * d
  BY <1>1
<1>3. n \in Nat /\ n < Depth * d
  BY <1>1, <1>2 DEF Cells
<1>4. r \in Nat /\ x \in 0 .. Width - 1 /\ n = r * Width + x
  BY <1>1, <1>3, DivMod
<1>5. y \in Nat /\ z \in 0 .. Height - 1 /\ r = y * Height + z
  BY <1>1, <1>4, DivMod
<1>6. X(n) = x /\ Z(n) = z
  BY DEF X, Z
<1> HIDE DEF r, x, y, z
<1>7. z * Width + x \in Nat /\ z * Width + x < d
  <2>1. z \in Nat /\ z < Height
    BY <1>1, <1>5
  <2> QED BY <1>1, <1>4, <2>1, RowInside
<1>8. n = y * d + (z * Width + x)
  <2>1. (y * Height + z) * Width = (y * Height) * Width + z * Width
    BY <1>1, <1>5
  <2>2. (y * Height) * Width = y * d
    BY <1>1, <1>5
  <2>3. y * d \in Nat /\ z * Width \in Nat
    BY <1>1, <1>2, <1>5
  <2> QED BY <1>4, <1>5, <2>1, <2>2, <2>3
<1>9. Y(n) = y
  <2>1. z * Width + x \in 0 .. d - 1
    BY <1>2, <1>7
  <2> HIDE DEF d
  <2>2. (y * d + (z * Width + x)) \div d = y
    BY <1>2, <1>5, <2>1, RowDivides
  <2> QED BY <1>2, <1>8, <2>2 DEF Y
<1>10. y < Depth
  <2> SUFFICES ASSUME Depth <= y PROVE FALSE
    BY <1>1, <1>5
  <2>1. Depth * d <= y * d
    BY <1>1, <1>2, <1>5, TimesGrows
  <2>2. y * d \in Nat
    BY <1>2, <1>5
  <2> QED BY <1>1, <1>2, <1>3, <1>7, <1>8, <2>1, <2>2
<1> QED BY <1>1, <1>4, <1>5, <1>6, <1>9, <1>10 DEF Index

LEMMA IndexUnique ==
    ASSUME NEW p \in Places, NEW q \in Places, Index(p[1], p[2], p[3]) = Index(q[1], q[2], q[3])
    PROVE  p = q
<1>1. /\ p = <<p[1], p[2], p[3]>> /\ q = <<q[1], q[2], q[3]>>
      /\ {p[1], q[1]} \subseteq 0 .. Width - 1 /\ {p[2], q[2]} \subseteq Nat
      /\ {p[3], q[3]} \subseteq 0 .. Height - 1 /\ Width \in Nat /\ Height \in Nat
  BY MapSizes DEF Places
<1>2. p[2] * Height + p[3] \in Nat /\ q[2] * Height + q[3] \in Nat
  BY <1>1
<1>3. p[2] * Height + p[3] = q[2] * Height + q[3] /\ p[1] = q[1]
  BY <1>1, <1>2, RowUnique DEF Index
<1>4. p[2] = q[2] /\ p[3] = q[3]
  BY <1>1, <1>3, RowUnique
<1> QED BY <1>1, <1>3, <1>4

LEMMA PlaceIsCoordinates ==
    ASSUME NEW n \in Cells
    PROVE  /\ Place(n) = <<X(n), Y(n), Z(n)>> /\ Place(n) \in Places
           /\ \A p \in Places : Place(n) = p <=> n = Index(p[1], p[2], p[3])
<1>1. /\ X(n) \in 0 .. Width - 1 /\ Y(n) \in 0 .. Depth - 1 /\ Z(n) \in 0 .. Height - 1
      /\ n = Index(X(n), Y(n), Z(n))
  BY CoordinatesAreIndex
<1> DEFINE c == <<X(n), Y(n), Z(n)>>
<1>2. c \in Places /\ n = Index(c[1], c[2], c[3])
  BY <1>1 DEF Places
<1>3. Place(n) = CHOOSE p \in Places : n = Index(p[1], p[2], p[3])
  BY DEF Place, Places
<1>4. Place(n) \in Places /\ n = Index(Place(n)[1], Place(n)[2], Place(n)[3])
  BY <1>2, <1>3
<1> HIDE DEF c
<1>5. Place(n) = c
  BY <1>2, <1>4, IndexUnique
<1> QED BY <1>4, <1>5, IndexUnique DEF c

\* One step along each axis, in numbers.
LEMMA StepsInNumbers ==
    ASSUME NEW x \in Int, NEW y \in Int, NEW z \in Int, NEW d \in {-1, 1}
    PROVE  /\ Index(x + d, y, z) = Index(x, y, z) + d
           /\ Index(x, y, z + d) = Index(x, y, z) + d * Width
           /\ Index(x, y - 1, z) = Index(x, y, z) - Width * Height
<1>1. Width \in Nat /\ Height \in Nat
  BY MapSizes
<1>2. (y * Height + (z + d)) * Width = (y * Height + z) * Width + d * Width
  BY <1>1
<1>3. ((y - 1) * Height + z) * Width = (y * Height + z) * Width - Width * Height
  <2>1. (y - 1) * Height = y * Height - Height
    BY <1>1
  <2>2. \A k \in Int : (k - Height) * Width = k * Width - Width * Height
    BY <1>1
  <2>3. y * Height \in Int /\ y * Height + z \in Int
    BY <1>1
  <2>4. (y * Height - Height) + z = (y * Height + z) - Height
    BY <1>1, <2>3
  <2> QED BY <2>1, <2>2, <2>3, <2>4
<1>4. (y * Height + z) * Width \in Int
  <2>1. y * Height + z \in Int
    BY <1>1
  <2> QED BY <1>1, <2>1
<1> QED BY <1>1, <1>2, <1>3, <1>4 DEF Index

LEMMA FlowsToSides ==
    ASSUME NEW n \in Cells, NEW m
    PROVE  m \in FlowsTo(n) <=> \/ X(n) > 0 /\ m = n - 1
                                \/ X(n) < Width - 1 /\ m = n + 1
                                \/ Z(n) > 0 /\ m = n - Width
                                \/ Z(n) < Height - 1 /\ m = n + Width
                                \/ Y(n) > 0 /\ m = n - Width * Height
<1>1. Width \in Int /\ Height \in Int /\ n \in Int /\ Width * Height \in Int
  <2>1. Width \in Int /\ Height \in Int
    BY MapSizes
  <2> QED BY <2>1 DEF Cells
<1> DEFINE A == If(X(n) > 0, n - 1)
           B == If(X(n) < Width - 1, n + 1)
           C == If(Z(n) > 0, n - Width)
           D == If(Z(n) < Height - 1, n + Width)
           E == If(Y(n) > 0, n - Width * Height)
<1>2. \A c \in BOOLEAN, k \in Int :
          If(c, k) \in Seq(Int) /\ \A j : On(If(c, k), j) <=> c /\ j = k
  BY DEF If, On
<1>3. /\ n - 1 \in Int /\ n + 1 \in Int /\ n - Width \in Int /\ n + Width \in Int
      /\ n - Width * Height \in Int
      /\ (X(n) > 0) \in BOOLEAN /\ (X(n) < Width - 1) \in BOOLEAN /\ (Z(n) > 0) \in BOOLEAN
      /\ (Z(n) < Height - 1) \in BOOLEAN /\ (Y(n) > 0) \in BOOLEAN
  BY <1>1
<1>4. /\ A \in Seq(Int) /\ (On(A, m) <=> X(n) > 0 /\ m = n - 1)
      /\ B \in Seq(Int) /\ (On(B, m) <=> X(n) < Width - 1 /\ m = n + 1)
      /\ C \in Seq(Int) /\ (On(C, m) <=> Z(n) > 0 /\ m = n - Width)
      /\ D \in Seq(Int) /\ (On(D, m) <=> Z(n) < Height - 1 /\ m = n + Width)
      /\ E \in Seq(Int) /\ (On(E, m) <=> Y(n) > 0 /\ m = n - Width * Height)
  BY ONLY <1>2, <1>3, Zenon
<1>5. Beside(n) = A \o B \o C \o D \o E
  BY DEF Beside
<1> HIDE DEF A, B, C, D, E
<1>6. A \o B \in Seq(Int) /\ (On(A \o B, m) <=> On(A, m) \/ On(B, m))
  BY <1>4, StackPushes
<1>7. A \o B \o C \in Seq(Int) /\ (On(A \o B \o C, m) <=> On(A \o B, m) \/ On(C, m))
  BY <1>4, <1>6, StackPushes
<1>8. A \o B \o C \o D \in Seq(Int) /\ (On(A \o B \o C \o D, m) <=> On(A \o B \o C, m) \/ On(D, m))
  BY <1>4, <1>7, StackPushes
<1>9. On(Beside(n), m) <=> On(A \o B \o C \o D, m) \/ On(E, m)
  <2>1. On((A \o B \o C \o D) \o E, m) <=> On(A \o B \o C \o D, m) \/ On(E, m)
    BY <1>4, <1>8, StackPushes
  <2> QED BY <1>5, <2>1
<1>10. m \in FlowsTo(n) <=> On(Beside(n), m)
  BY DEF FlowsTo, On
<1> QED BY ONLY <1>4, <1>6, <1>7, <1>8, <1>9, <1>10, Zenon

LEMMA FlowsBesideAndBelow ==
    ASSUME NEW n \in Cells, NEW m \in Cells
    PROVE  m \in FlowsTo(n) <=>
             LET p == Place(n)
                 q == Place(m)
             IN  q \in {<<p[1] + d, p[2], p[3]>> : d \in {-1, 1}} \cup
                               {<<p[1], p[2], p[3] + d>> : d \in {-1, 1}} \cup
                               {<<p[1], p[2] - 1, p[3]>>}
<1> DEFINE x == X(n)
           y == Y(n)
           z == Z(n)
           q == Place(m)
<1>1. /\ Place(n) = <<x, y, z>> /\ x \in 0 .. Width - 1 /\ y \in 0 .. Depth - 1
      /\ z \in 0 .. Height - 1 /\ n = Index(x, y, z)
  BY CoordinatesAreIndex, PlaceIsCoordinates
<1>2. q \in Places /\ \A p \in Places : q = p <=> m = Index(p[1], p[2], p[3])
  BY PlaceIsCoordinates
<1>3. Width \in Nat \ {0} /\ Depth \in Nat \ {0} /\ Height \in Nat \ {0}
  BY MapSizes
<1>4. /\ Index(x - 1, y, z) = n - 1 /\ Index(x + 1, y, z) = n + 1
      /\ Index(x, y, z - 1) = n - Width /\ Index(x, y, z + 1) = n + Width
      /\ Index(x, y - 1, z) = n - Width * Height
  <2>1. x \in Int /\ y \in Int /\ z \in Int /\ n \in Int
    BY <1>1 DEF Cells
  <2>2. /\ Index(x + (-1), y, z) = n + (-1) /\ Index(x + 1, y, z) = n + 1
        /\ Index(x, y, z + (-1)) = n + (-1) * Width /\ Index(x, y, z + 1) = n + 1 * Width
        /\ Index(x, y - 1, z) = n - Width * Height
    <3>1. -1 \in {-1, 1} /\ 1 \in {-1, 1}
      OBVIOUS
    <3> HIDE DEF x, y, z
    <3>4. \A d \in {-1, 1} :
            /\ Index(x + d, y, z) = Index(x, y, z) + d
            /\ Index(x, y, z + d) = Index(x, y, z) + d * Width
            /\ Index(x, y - 1, z) = Index(x, y, z) - Width * Height
      BY ZenonT(30), <2>1, StepsInNumbers
    <3>2. /\ Index(x + (-1), y, z) = Index(x, y, z) + (-1)
          /\ Index(x, y, z + (-1)) = Index(x, y, z) + (-1) * Width
          /\ Index(x, y - 1, z) = Index(x, y, z) - Width * Height
      BY ONLY <3>1, <3>4, Zenon
    <3>3. /\ Index(x + 1, y, z) = Index(x, y, z) + 1
          /\ Index(x, y, z + 1) = Index(x, y, z) + 1 * Width
      BY ONLY <3>1, <3>4, Zenon
    <3> QED BY <1>1, <3>2, <3>3
  <2>3. /\ x + (-1) = x - 1 /\ n + (-1) = n - 1 /\ z + (-1) = z - 1
        /\ n + (-1) * Width = n - Width /\ n + 1 * Width = n + Width
    BY <1>3, <2>1
  <2> QED BY <2>2, <2>3
<1>5. m \in FlowsTo(n) <=> \/ x > 0 /\ m = n - 1
                           \/ x < Width - 1 /\ m = n + 1
                           \/ z > 0 /\ m = n - Width
                           \/ z < Height - 1 /\ m = n + Width
                           \/ y > 0 /\ m = n - Width * Height
  BY FlowsToSides
<1> HIDE DEF x, y, z, q
\* A place that is none of the map's is no block's, and the others are numbered.
<1>6. x > 0 /\ m = n - 1 <=> q = <<x - 1, y, z>>
  <2>1. q = <<x - 1, y, z>> => x > 0
    BY <1>1, <1>2 DEF Places
  <2>2. x > 0 => <<x - 1, y, z>> \in Places
    BY <1>1, <1>3 DEF Places
  <2> QED BY <1>2, <1>4, <2>1, <2>2
<1>7. x < Width - 1 /\ m = n + 1 <=> q = <<x + 1, y, z>>
  <2>1. q = <<x + 1, y, z>> => x < Width - 1
    BY <1>1, <1>2, <1>3 DEF Places
  <2>2. x < Width - 1 => <<x + 1, y, z>> \in Places
    BY <1>1, <1>3 DEF Places
  <2> QED BY <1>2, <1>4, <2>1, <2>2
<1>8. z > 0 /\ m = n - Width <=> q = <<x, y, z - 1>>
  <2>1. q = <<x, y, z - 1>> => z > 0
    BY <1>1, <1>2 DEF Places
  <2>2. z > 0 => <<x, y, z - 1>> \in Places
    BY <1>1, <1>3 DEF Places
  <2> QED BY <1>2, <1>4, <2>1, <2>2
<1>9. z < Height - 1 /\ m = n + Width <=> q = <<x, y, z + 1>>
  <2>1. q = <<x, y, z + 1>> => z < Height - 1
    BY <1>1, <1>2, <1>3 DEF Places
  <2>2. z < Height - 1 => <<x, y, z + 1>> \in Places
    BY <1>1, <1>3 DEF Places
  <2> QED BY <1>2, <1>4, <2>1, <2>2
<1>10. y > 0 /\ m = n - Width * Height <=> q = <<x, y - 1, z>>
  <2>1. q = <<x, y - 1, z>> => y > 0
    BY <1>1, <1>2 DEF Places
  <2>2. y > 0 => <<x, y - 1, z>> \in Places
    BY <1>1, <1>3 DEF Places
  <2> QED BY <1>2, <1>4, <2>1, <2>2
<1>11. /\ Place(n)[1] = x /\ Place(n)[2] = y /\ Place(n)[3] = z
       /\ x + (-1) = x - 1 /\ z + (-1) = z - 1
  BY <1>1
<1>12. (LET p == Place(n)
        IN  q \in {<<p[1] + d, p[2], p[3]>> : d \in {-1, 1}} \cup
                      {<<p[1], p[2], p[3] + d>> : d \in {-1, 1}} \cup
                      {<<p[1], p[2] - 1, p[3]>>})
       <=> \/ q = <<x - 1, y, z>> \/ q = <<x + 1, y, z>>
           \/ q = <<x, y, z - 1>> \/ q = <<x, y, z + 1>> \/ q = <<x, y - 1, z>>
  BY ONLY <1>11
<1>13. m \in FlowsTo(n) <=> (LET p == Place(n)
                             IN  q \in {<<p[1] + d, p[2], p[3]>> : d \in {-1, 1}} \cup
                                           {<<p[1], p[2], p[3] + d>> : d \in {-1, 1}} \cup
                                           {<<p[1], p[2] - 1, p[3]>>})
  BY ONLY <1>5, <1>6, <1>7, <1>8, <1>9, <1>10, <1>12, Zenon
<1> QED BY <1>13 DEF q

\* The liquid flows to the blocks that are beside one and below it, at the edges too: in
\* no map does a row go on in the next one, or a layer in the next.
THEOREM FloodFlowsSideways == FloodSpec => []FlowsSideways
<1>1. Poured \subseteq Cells
  BY DEF Poured
<1>2. FlowsSideways
  BY <1>1, FlowsBesideAndBelow DEF FlowsSideways
<1> QED BY <1>2, PTL

-----------------------------------------------------------------------------
(* Lists of names: the lines of a text.                                    *)

EndsOf(t) == {k \in DOMAIN t : t[k] = "nl"}

\* The line that goes on to k begins behind j.
CutAt(t, j, k) ==
    /\ j \in {0} \cup EndsOf(t) /\ j < k
    /\ \A m \in EndsOf(t) : m <= j \/ m >= k

LineIn(t, k) ==
    LET from == CHOOSE j \in {0} \cup EndsOf(t) : j < k /\ \A m \in EndsOf(t) : m <= j \/ m >= k
    IN  SubSeq(t, from + 1, k - 1)

Lines(t) == {LineIn(t, k) : k \in EndsOf(t)}

\* The line that has not ended.
LastLine(t) == LineIn(t, Len(t) + 1)

\* Every line has a beginning.
Cuts(t) == \A k \in EndsOf(t) \cup {Len(t) + 1} : \E j \in 0 .. Len(t) : CutAt(t, j, k)

LEMMA LineIs ==
    ASSUME NEW t \in Seq(Char), NEW k \in 1 .. Len(t) + 1, NEW j \in 0 .. Len(t), CutAt(t, j, k)
    PROVE  LineIn(t, k) = SubSeq(t, j + 1, k - 1)
<1> DEFINE P(h) == h < k /\ \A m \in EndsOf(t) : m <= h \/ m >= k
           from == CHOOSE h \in {0} \cup EndsOf(t) : P(h)
<1>1. j \in {0} \cup EndsOf(t) /\ P(j)
  BY DEF CutAt
<1>2. EndsOf(t) \subseteq 1 .. Len(t) /\ Len(t) \in Nat
  BY DEF EndsOf
<1>3. ASSUME NEW h \in {0} \cup EndsOf(t), P(h) PROVE h = j
  <2>1. h \in Int /\ j \in Int /\ k \in Int
    BY <1>2
  <2>2. ~(h < j) /\ ~(j < h)
    BY <1>1, <1>2, <1>3, <2>1
  <2> QED BY <2>1, <2>2
<1>4. LineIn(t, k) = SubSeq(t, from + 1, k - 1)
  BY DEF LineIn
<1>5. from \in {0} \cup EndsOf(t) /\ P(from)
  <2> HIDE DEF P
  <2> QED BY <1>1
<1> HIDE DEF from, P
<1> QED BY <1>3, <1>4, <1>5

LEMMA EmptyText == Cuts(<< >>) /\ Lines(<< >>) = {} /\ LastLine(<< >>) = << >>
<1>1. EndsOf(<< >>) = {}
  BY DEF EndsOf
<1>2. CutAt(<< >>, 0, 1)
  BY <1>1 DEF CutAt
<1>3. LastLine(<< >>) = SubSeq(<< >>, 1, 0)
  <2>1. << >> \in Seq(Char) /\ 1 \in 1 .. Len(<< >>) + 1 /\ 0 \in 0 .. Len(<< >>)
    OBVIOUS
  <2>2. LineIn(<< >>, 1) = SubSeq(<< >>, 0 + 1, 1 - 1)
    BY <1>2, <2>1, LineIs
  <2> QED BY <2>2 DEF LastLine
<1> QED BY <1>1, <1>2, <1>3 DEF Cuts, Lines

\* A text with one character more has one line more, or a longer last line.
LEMMA TextGrows ==
    ASSUME NEW t \in Seq(Char), Cuts(t), NEW c \in Char
    PROVE  /\ Cuts(Append(t, c))
           /\ c = "nl" => /\ Lines(Append(t, c)) = Lines(t) \cup {LastLine(t)}
                          /\ LastLine(Append(t, c)) = << >>
           /\ c # "nl" => /\ Lines(Append(t, c)) = Lines(t)
                          /\ LastLine(Append(t, c)) = Append(LastLine(t), c)
<1> DEFINE u == Append(t, c)
           n == Len(t)
<1>1. /\ u \in Seq(Char) /\ Len(u) = n + 1 /\ n \in Nat /\ u[n + 1] = c
      /\ DOMAIN t = 1 .. n /\ DOMAIN u = 1 .. n + 1 /\ \A k \in 1 .. n : u[k] = t[k]
  OBVIOUS
<1>2. EndsOf(u) = IF c = "nl" THEN EndsOf(t) \cup {n + 1} ELSE EndsOf(t)
  BY <1>1 DEF EndsOf
<1>3. EndsOf(t) \subseteq 1 .. n
  BY <1>1 DEF EndsOf
<1> HIDE DEF u, n
<1>4. ASSUME NEW k \in EndsOf(t) \cup {n + 1}
      PROVE  /\ \E j \in 0 .. n + 1 : CutAt(u, j, k)
             /\ LineIn(u, k) = LineIn(t, k)
  <2>1. PICK j \in 0 .. n : CutAt(t, j, k)
    BY DEF Cuts, n
  <2>2. k \in 1 .. n + 1
    BY <1>1, <1>3
  <2>3. CutAt(u, j, k)
    BY <1>1, <1>2, <1>3, <2>1, <2>2 DEF CutAt
  <2>4. LineIn(t, k) = SubSeq(t, j + 1, k - 1)
    BY <2>1, <2>2, LineIs DEF n
  <2>5. LineIn(u, k) = SubSeq(u, j + 1, k - 1)
    <3>1. k \in 1 .. Len(u) + 1 /\ j \in 0 .. Len(u)
      BY <1>1, <2>1, <2>2
    <3> QED BY <1>1, <2>3, <3>1, LineIs
  <2>6. SubSeq(u, j + 1, k - 1) = SubSeq(t, j + 1, k - 1)
    <3>1. \A h \in 1 .. k - 1 : u[h] = t[h]
      BY <1>1, <2>2
    <3>2. j < k
      BY <2>1 DEF CutAt
    <3> QED BY <1>1, <2>1, <2>2, <3>1, <3>2
  <2>7. j \in 0 .. n + 1
    BY <1>1
  <2> QED BY <2>3, <2>4, <2>5, <2>6, <2>7
<1>5. CASE c = "nl"
  <2>1. CutAt(u, n + 1, n + 2)
    BY <1>1, <1>2, <1>3, <1>5 DEF CutAt
  <2>2. LineIn(u, n + 2) = << >>
    <3>1. n + 2 \in 1 .. Len(u) + 1 /\ n + 1 \in 0 .. Len(u)
      BY <1>1
    <3>2. LineIn(u, n + 2) = SubSeq(u, (n + 1) + 1, (n + 2) - 1)
      BY <1>1, <2>1, <3>1, LineIs
    <3>3. (n + 1) + 1 > (n + 2) - 1
      BY <1>1
    <3> QED BY <1>1, <3>2, <3>3
  <2>3. Cuts(u)
    <3>1. Len(u) + 1 = n + 2 /\ Len(u) = n + 1 /\ n + 1 \in 0 .. n + 1
      BY <1>1
    <3> QED BY <1>2, <1>4, <1>5, <2>1, <3>1 DEF Cuts
  <2>4. Lines(u) = Lines(t) \cup {LastLine(t)}
    BY <1>2, <1>4, <1>5 DEF Lines, LastLine, n
  <2>5. LastLine(u) = << >>
    <3>1. Len(u) + 1 = n + 2
      BY <1>1
    <3> QED BY <2>2, <3>1 DEF LastLine
  <2> QED BY <1>5, <2>3, <2>4, <2>5 DEF u
<1>6. CASE c # "nl"
  <2>1. PICK j \in 0 .. n : CutAt(t, j, n + 1)
    BY DEF Cuts, n
  <2>2. CutAt(u, j, n + 2)
    BY <1>1, <1>2, <1>3, <1>6, <2>1 DEF CutAt
  <2>3. LastLine(t) = SubSeq(t, j + 1, n)
    <3>1. n + 1 \in 1 .. n + 1 /\ (n + 1) - 1 = n
      BY <1>1
    <3>2. LineIn(t, n + 1) = SubSeq(t, j + 1, (n + 1) - 1)
      BY <2>1, <3>1, LineIs DEF n
    <3> QED BY <3>1, <3>2 DEF LastLine, n
  <2>4. LastLine(u) = SubSeq(u, j + 1, n + 1)
    <3>1. n + 2 \in 1 .. Len(u) + 1 /\ j \in 0 .. Len(u) /\ (n + 2) - 1 = n + 1
          /\ Len(u) + 1 = n + 2
      BY <1>1
    <3>2. LineIn(u, n + 2) = SubSeq(u, j + 1, (n + 2) - 1)
      BY <1>1, <2>2, <3>1, LineIs
    <3> QED BY <3>1, <3>2 DEF LastLine
  <2>5. SubSeq(u, j + 1, n + 1) = Append(SubSeq(t, j + 1, n), c)
    <3>1. j \in Nat /\ j <= n
      BY <1>1
    <3> DEFINE a == SubSeq(u, j + 1, n + 1)
               b == SubSeq(t, j + 1, n)
    <3>2. /\ a \in Seq(Char) /\ Len(a) = n + 1 - j
          /\ \A h \in 1 .. n + 1 - j : a[h] = u[j + h]
      BY <1>1, <3>1
    <3>3. /\ b \in Seq(Char) /\ Len(b) = n - j
          /\ \A h \in 1 .. n - j : b[h] = t[j + h]
      <4>1. j \in Nat /\ n \in Nat /\ n = Len(t) /\ j <= n /\ t \in Seq(Char)
        BY <1>1, <3>1 DEF n
      <4> QED BY ONLY <4>1
    <3> HIDE DEF a, b
    <3>4. /\ Append(b, c) \in Seq(Char) /\ Len(Append(b, c)) = n + 1 - j
          /\ \A h \in 1 .. n + 1 - j : Append(b, c)[h] = IF h = n + 1 - j THEN c ELSE b[h]
      BY <1>1, <3>1, <3>3
    <3>5. \A h \in 1 .. n + 1 - j : a[h] = Append(b, c)[h]
      <4> SUFFICES ASSUME NEW h \in 1 .. n + 1 - j PROVE a[h] = Append(b, c)[h]
        OBVIOUS
      <4>1. CASE h = n + 1 - j
        <5>1. j + h = n + 1
          BY <1>1, <3>1, <4>1
        <5> QED BY <1>1, <3>2, <3>4, <4>1, <5>1
      <4>2. CASE h # n + 1 - j
        <5>1. h \in 1 .. n - j /\ j + h \in 1 .. n
          BY <1>1, <3>1, <4>2
        <5> QED BY <1>1, <3>2, <3>3, <3>4, <4>2, <5>1
      <4> QED BY <4>1, <4>2
    <3>6. a = Append(b, c)
      BY <3>2, <3>4, <3>5
    <3> QED BY <3>6 DEF a, b
  <2>6. Cuts(u)
    <3>1. Len(u) + 1 = n + 2 /\ Len(u) = n + 1 /\ j \in 0 .. n + 1
      BY <1>1
    <3> QED BY <1>2, <1>4, <1>6, <2>2, <3>1 DEF Cuts
  <2>7. Lines(u) = Lines(t)
    BY <1>2, <1>4, <1>6 DEF Lines
  <2> QED BY <1>6, <2>3, <2>4, <2>5, <2>6, <2>7 DEF u
<1> QED BY <1>5, <1>6

-----------------------------------------------------------------------------
(* What the reader holds of the last line.                                 *)

Gap  == " "
Sign == "#"

LEMMA GapIsChar ==
    /\ Gap \in Char /\ Gap \notin Letters /\ Sign \notin Letters /\ Gap # Sign
    /\ NameSize \in Nat
BY ListAssumption DEF Gap, Sign, Char

AllSpaces(s) == \A k \in 1 .. Len(s) : s[k] = Gap

\* The characters of a line that are not spaces begin at m and end at n.
Framed(s, m, n) ==
    /\ m \in 1 .. Len(s) /\ n \in m .. Len(s)
    /\ s[m] # Gap /\ s[n] # Gap
    /\ \A k \in 1 .. Len(s) : k < m \/ k > n => s[k] = Gap

LEMMA TrimmedIs ==
    ASSUME NEW s \in Seq(Char)
    PROVE  /\ AllSpaces(s) => Trimmed(s) = << >>
           /\ \A m, n \in 1 .. Len(s) :
                Framed(s, m, n) =>
                    /\ Trimmed(s) = SubSeq(s, m, n) /\ Trimmed(s) # << >>
                    /\ Trimmed(s)[1] = s[m]
<1> DEFINE K == {k \in DOMAIN s : s[k] # Gap}
<1>1. DOMAIN s = 1 .. Len(s) /\ Len(s) \in Nat
  OBVIOUS
<1>t. Trimmed(s) = IF K = {} THEN << >> ELSE SubSeq(s, Min(K), Max(K))
  BY Zenon DEF Trimmed, Gap
<1>2. AllSpaces(s) => Trimmed(s) = << >>
  BY <1>1, <1>t DEF AllSpaces
<1>3. ASSUME NEW m \in 1 .. Len(s), NEW n \in 1 .. Len(s), Framed(s, m, n)
      PROVE  Trimmed(s) = SubSeq(s, m, n) /\ Trimmed(s) # << >> /\ Trimmed(s)[1] = s[m]
  <2>1. m \in K /\ n \in K /\ m <= n /\ \A k \in K : m <= k /\ k <= n
    BY <1>1, <1>3 DEF Framed
  <2>2. K \subseteq Int
    BY <1>1
  <2> HIDE DEF K
  <2>3. Min(K) = m
    <3>1. \E x \in K : \A y \in K : x <= y
      BY <2>1, <2>2
    <3>2. Min(K) \in K /\ \A k \in K : Min(K) <= k
      BY <3>1 DEF Min
    <3>3. Min(K) \in Int /\ m \in Int
      BY <2>1, <2>2, <3>2
    <3> QED BY ONLY <2>1, <3>2, <3>3
  <2>4. Max(K) = n
    <3>1. \E x \in K : \A y \in K : x >= y
      BY <2>1, <2>2
    <3>2. Max(K) \in K /\ \A k \in K : Max(K) >= k
      BY <3>1 DEF Max
    <3>3. Max(K) \in Int /\ n \in Int
      BY <2>1, <2>2, <3>2
    <3> QED BY ONLY <2>1, <3>2, <3>3
  <2>5. Trimmed(s) = SubSeq(s, m, n)
    BY <1>t, <2>1, <2>3, <2>4
  <2>6. Len(SubSeq(s, m, n)) = n - m + 1 /\ SubSeq(s, m, n)[1] = s[m]
    BY <1>1, <2>1
  <2>7. SubSeq(s, m, n) # << >>
    BY <1>1, <2>1, <2>6
  <2> QED BY <2>5, <2>6, <2>7
<1> QED BY <1>2, <1>3

\* A name of the line that the buffer has room for.
Fits(s) == Sign \notin Range(s) /\ Len(s) < NameSize

\* The buffer when the characters of the line s have been read.
HasRead(s, kept, skip, com) ==
    \/ AllSpaces(s) /\ kept = << >> /\ ~com /\ skip = Len(s)
    \/ \E m, n \in 1 .. Len(s) :
        /\ Framed(s, m, n)
        /\ s[m] = Sign => com /\ kept = << >>
        /\ Fits(s) => ~com /\ kept = SubSeq(s, m, n) /\ skip = Len(s) - n

\* A line with one character more.
LEMMA LineGrows ==
    ASSUME NEW s \in Seq(Char), NEW c \in Char
    PROVE  /\ AllSpaces(s) /\ c = Gap => AllSpaces(Append(s, c))
           /\ AllSpaces(s) /\ c # Gap => Framed(Append(s, c), Len(s) + 1, Len(s) + 1)
           /\ \A m, n \in 1 .. Len(s) : Framed(s, m, n) =>
                Framed(Append(s, c), m, IF c = Gap THEN n ELSE Len(s) + 1)
           /\ Fits(Append(s, c)) <=> c # Sign /\ Fits(s) /\ Len(s) + 1 < NameSize
           /\ Len(Append(s, c)) = Len(s) + 1 /\ Append(s, c)[Len(s) + 1] = c
           /\ \A k \in 1 .. Len(s) : Append(s, c)[k] = s[k]
<1> DEFINE u == Append(s, c)
           l == Len(s)
<1>1. /\ l \in Nat /\ Len(u) = l + 1 /\ u[l + 1] = c /\ \A k \in 1 .. l : u[k] = s[k]
      /\ DOMAIN s = 1 .. l /\ DOMAIN u = 1 .. l + 1
  OBVIOUS
<1>2. NameSize \in Nat
  BY GapIsChar
<1>3. Range(u) = Range(s) \cup {c}
  BY <1>1 DEF Range
<1> HIDE DEF u
<1>4. Fits(u) <=> c # Sign /\ Fits(s) /\ l + 1 < NameSize
  BY <1>1, <1>2, <1>3 DEF Fits
<1>5. AllSpaces(s) /\ c = Gap => AllSpaces(u)
  BY <1>1 DEF AllSpaces
<1>6. AllSpaces(s) /\ c # Gap => Framed(u, l + 1, l + 1)
  BY <1>1 DEF AllSpaces, Framed
<1>7. ASSUME NEW m \in 1 .. l, NEW n \in 1 .. l, Framed(s, m, n)
      PROVE  Framed(u, m, IF c = Gap THEN n ELSE l + 1)
  BY <1>1, <1>7 DEF Framed
<1> QED BY <1>1, <1>4, <1>5, <1>6, <1>7 DEF u

\* What Take does to the buffer within a line.
Takes(c, kept, skip, com, kept2, skip2, com2) ==
    \/ c = Sign /\ com2 = (com \/ kept = << >>) /\ kept2 = kept /\ skip2 = skip
    \/ c = Gap /\ com2 = com /\ kept2 = kept /\ skip2 = skip + 1
    \/ /\ c \in Letters /\ com2 = com
       /\ IF com \/ Len(kept) + skip > NameSize - 1
          THEN kept2 = kept /\ skip2 = skip
          ELSE /\ kept2 \in Terminated(Append(kept \o (IF kept = << >> THEN << >>
                                                 ELSE [k \in 1 .. skip |-> Gap]), c))
               /\ skip2 = 0

LEMMA SpacesComeBack ==
    ASSUME NEW s \in Seq(Char), NEW c \in Char, NEW m \in 1 .. Len(s), NEW n \in 1 .. Len(s),
           Framed(s, m, n)
    PROVE  Append(SubSeq(s, m, n) \o [k \in 1 .. Len(s) - n |-> Gap], c)
                = SubSeq(Append(s, c), m, Len(s) + 1)
<1> DEFINE l == Len(s)
           u == Append(s, c)
           a == SubSeq(s, m, n)
           b == [k \in 1 .. l - n |-> Gap]
           x == Append(a \o b, c)
           y == SubSeq(u, m, l + 1)
<1>1. /\ l \in Nat /\ m \in Nat /\ n \in Nat /\ 1 <= m /\ m <= n /\ n <= l
      /\ \A k \in 1 .. l : k > n => s[k] = Gap
  BY DEF Framed
<1>2. /\ u \in Seq(Char) /\ Len(u) = l + 1 /\ u[l + 1] = c /\ \A k \in 1 .. l : u[k] = s[k]
  OBVIOUS
<1>3. a \in Seq(Char) /\ Len(a) = n - m + 1 /\ \A k \in 1 .. n - m + 1 : a[k] = s[m + k - 1]
  BY <1>1
<1>4. b \in Seq(Char) /\ Len(b) = l - n /\ \A k \in 1 .. l - n : b[k] = Gap
  <2>1. l - n \in Nat /\ Gap \in Char
    BY <1>1, GapIsChar
  <2> QED BY <2>1
<1>5. y \in Seq(Char) /\ Len(y) = l - m + 2 /\ \A k \in 1 .. l - m + 2 : y[k] = u[m + k - 1]
  BY <1>1, <1>2
<1> HIDE DEF a, b, u, y
<1>6. /\ a \o b \in Seq(Char) /\ Len(a \o b) = l - m + 1
      /\ \A k \in 1 .. l - m + 1 : (a \o b)[k] = IF k <= n - m + 1 THEN a[k] ELSE b[k - (n - m + 1)]
  <2>1. /\ \A f, g \in Seq(Char) :
            /\ f \o g \in Seq(Char) /\ Len(f \o g) = Len(f) + Len(g)
            /\ \A k \in 1 .. Len(f) + Len(g) :
                 (f \o g)[k] = IF k <= Len(f) THEN f[k] ELSE g[k - Len(f)]
    OBVIOUS
  <2>2. Len(a) + Len(b) = l - m + 1
    BY <1>1, <1>3, <1>4
  <2>3. a \in Seq(Char) /\ b \in Seq(Char)
    BY <1>3, <1>4
  <2>4. /\ a \o b \in Seq(Char) /\ Len(a \o b) = Len(a) + Len(b)
        /\ \A k \in 1 .. Len(a) + Len(b) :
             (a \o b)[k] = IF k <= Len(a) THEN a[k] ELSE b[k - Len(a)]
    BY ONLY <2>1, <2>3, Zenon
  <2> QED BY ONLY <1>3, <2>2, <2>4, Zenon
<1> DEFINE d == a \o b
<1> HIDE DEF d
<1>7. d \in Seq(Char) /\ Len(d) = l - m + 1
      /\ \A k \in 1 .. l - m + 1 : d[k] = IF k <= n - m + 1 THEN a[k] ELSE b[k - (n - m + 1)]
  BY <1>6 DEF d
<1>8. /\ Append(d, c) \in Seq(Char) /\ Len(Append(d, c)) = l - m + 2
      /\ Append(d, c)[l - m + 2] = c
      /\ \A k \in 1 .. l - m + 1 : Append(d, c)[k] = d[k]
  <2>1. /\ d \in Seq(Char) /\ Len(d) = l - m + 1 /\ c \in Char
        /\ l - m + 1 \in Nat /\ (l - m + 1) + 1 = l - m + 2
    BY <1>1, <1>7
  <2>2. /\ Append(d, c) \in Seq(Char) /\ Len(Append(d, c)) = Len(d) + 1
        /\ Append(d, c)[Len(d) + 1] = c
        /\ \A k \in 1 .. Len(d) : Append(d, c)[k] = d[k]
    BY ONLY <2>1
  <2> QED BY ONLY <2>1, <2>2
<1>9. ASSUME NEW k \in 1 .. l - m + 2 PROVE Append(d, c)[k] = y[k]
  <2>1. CASE k = l - m + 2
    <3>1. m + k - 1 = l + 1
      BY <1>1, <2>1
    <3> QED BY <1>2, <1>5, <1>8, <2>1, <3>1
  <2>2. CASE k <= n - m + 1
    <3>1. k \in 1 .. n - m + 1 /\ k \in 1 .. l - m + 1 /\ m + k - 1 \in 1 .. l
      BY <1>1, <2>2
    <3> QED BY <1>2, <1>3, <1>5, <1>7, <1>8, <3>1, <2>2
  <2>3. CASE ~(k <= n - m + 1) /\ k # l - m + 2
    <3>1. k - (n - m + 1) \in 1 .. l - n /\ k \in 1 .. l - m + 1 /\ m + k - 1 \in 1 .. l
          /\ m + k - 1 > n
      BY <1>1, <2>3
    <3> QED BY ZenonT(30), <1>1, <1>2, <1>4, <1>5, <1>7, <1>8, <3>1, <2>3
  <2> QED BY <2>1, <2>2, <2>3
<1>10. Append(d, c) = y
  BY <1>5, <1>8, <1>9
<1> QED BY <1>10 DEF a, b, d, u, y

LEMMA OneElement ==
    ASSUME NEW D, NEW u \in Seq(D), NEW n \in 1 .. Len(u)
    PROVE  SubSeq(u, n, n) = <<u[n]>>
<1>1. n \in Int /\ n - n + 1 = 1 /\ n + 1 - 1 = n
  OBVIOUS
<1>2. /\ SubSeq(u, n, n) \in Seq(D)
      /\ Len(SubSeq(u, n, n)) = 1
      /\ SubSeq(u, n, n)[1] = u[n]
  BY <1>1, SubSeqProperties
<1>3. \A q \in Seq(D), x \in D : Len(q) = 1 /\ q[1] = x => q = <<x>>
  <2>1. ASSUME NEW q \in Seq(D), NEW x \in D, Len(q) = 1, q[1] = x
        PROVE  q = <<x>>
    <3>1. <<x>> \in Seq(D) /\ Len(<<x>>) = 1 /\ <<x>>[1] = x
      OBVIOUS
    <3> QED BY <2>1, <3>1
  <2> QED BY <2>1
<1>4. u[n] \in D
  OBVIOUS
<1> QED BY <1>2, <1>3, <1>4

LEMMA ReadsOn ==
    ASSUME NEW s \in Seq(Char), NEW c \in Char, NEW kept \in Seq(Char), NEW skip \in Nat,
           NEW com \in BOOLEAN, NEW kept2, NEW skip2, NEW com2
    PROVE  HasRead(s, kept, skip, com) /\ Takes(c, kept, skip, com, kept2, skip2, com2) =>
                /\ HasRead(Append(s, c), kept2, skip2, com2)
                /\ kept2 \in Seq(Char) /\ skip2 \in Nat /\ com2 \in BOOLEAN
<1> DEFINE u == Append(s, c)
           l == Len(s)
<1>h. SUFFICES ASSUME HasRead(s, kept, skip, com), Takes(c, kept, skip, com, kept2, skip2, com2)
               PROVE  /\ HasRead(u, kept2, skip2, com2)
                      /\ kept2 \in Seq(Char) /\ skip2 \in Nat /\ com2 \in BOOLEAN
  OBVIOUS
<1>s. Gap \notin Letters /\ Sign \notin Letters /\ Gap # Sign /\ Gap \in Char
  BY GapIsChar
<1>0. l \in Nat /\ NameSize \in Nat /\ u \in Seq(Char)
  BY GapIsChar
<1>1. /\ AllSpaces(s) /\ c = Gap => AllSpaces(u)
      /\ AllSpaces(s) /\ c # Gap => Framed(u, l + 1, l + 1)
      /\ \A m, n \in 1 .. l : Framed(s, m, n) => Framed(u, m, IF c = Gap THEN n ELSE l + 1)
      /\ Fits(u) <=> c # Sign /\ Fits(s) /\ l + 1 < NameSize
      /\ Len(u) = l + 1 /\ u[l + 1] = c /\ \A k \in 1 .. l : u[k] = s[k]
  BY LineGrows
<1>n. l \in Nat /\ NameSize \in Nat /\ Len(u) = l + 1
  BY <1>0, <1>1
<1>u. u \in Seq(Char) /\ u[l + 1] = c /\ \A k \in 1 .. l : u[k] = s[k]
  BY <1>0, <1>1
<1>f. Fits(u) <=> c # Sign /\ Fits(s) /\ l + 1 < NameSize
  BY <1>1
<1> HIDE DEF u
<1>2. kept2 \in Seq(Char) /\ skip2 \in Nat /\ com2 \in BOOLEAN
  <2>1. [k \in 1 .. skip |-> Gap] \in Seq(Char)
    <3>1. Gap \in Char /\ skip \in Nat
      BY <1>s
    <3> QED BY ONLY <3>1
  <2>2. \A x \in Seq(Char) : Append(kept \o x, c) \in Seq(Char)
    OBVIOUS
  <2>3. << >> \in Seq(Char)
    OBVIOUS
  <2> DEFINE z == [k \in 1 .. skip |-> Gap]
  <2> HIDE DEF z
  <2>4. z \in Seq(Char)
    BY <2>1 DEF z
  <2>5. kept2 \in {kept, Append(kept \o << >>, c), Append(kept \o z, c), << >>}
    <3>1. \A x : Terminated(x) \subseteq {x, << >>}
      BY DEF Terminated
    <3> QED BY <1>h, <3>1 DEF Takes, z
  <2>6. kept2 \in Seq(Char)
    BY <2>2, <2>3, <2>4, <2>5
  <2>7. skip2 \in {skip, skip + 1, 0} /\ com2 \in {com, (com \/ kept = << >>)}
    BY <1>h DEF Takes
  <2>8. skip2 \in Nat
    BY <2>7
  <2>9. com2 \in BOOLEAN
    <3>1. (com \/ kept = << >>) \in BOOLEAN
      BY Zenon
    <3> QED BY Zenon, <2>7, <3>1
  <2> QED BY <2>6, <2>8, <2>9
<1>l. l = Len(s)
  OBVIOUS
<1> HIDE DEF l
<1>3. ASSUME AllSpaces(s), kept = << >>, ~com, skip = l
      PROVE  HasRead(u, kept2, skip2, com2)
  <2>1. CASE c = Gap
    <3>1. com2 = com /\ kept2 = kept /\ skip2 = skip + 1
      BY <1>h, <1>s, <2>1 DEF Takes
    <3>2. AllSpaces(u)
      BY <1>1, <1>3, <2>1
    <3> QED BY <1>n, <1>3, <3>1, <3>2 DEF HasRead
  <2>2. CASE c # Gap
    <3>1. Framed(u, l + 1, l + 1)
      BY <1>1, <1>3, <2>2
    <3>2. l + 1 \in 1 .. Len(u)
      BY <1>n
    <3>3. u[l + 1] = Sign => com2 /\ kept2 = << >>
      BY <1>h, <1>s, <1>u, <1>3 DEF Takes
    <3>4. ASSUME Fits(u) PROVE ~com2 /\ kept2 = SubSeq(u, l + 1, l + 1) /\ skip2 = Len(u) - (l + 1)
      <4>1. c # Sign /\ l + 1 < NameSize
        BY <1>f, <3>4
      <4>2. ~(Len(kept) + skip > NameSize - 1)
        <5>1. Len(kept) = 0
          BY <1>3
        <5> QED BY <1>n, <1>3, <4>1, <5>1
      <4>4. Append(kept \o << >>, c) = <<c>>
        BY <1>3
      <4>3. kept2 = Append(kept \o << >>, c) /\ skip2 = 0 /\ (com2 <=> com)
        <5>1. kept2 \in Terminated(Append(kept \o << >>, c)) /\ skip2 = 0 /\ (com2 <=> com)
          BY <1>h, <1>3, <2>2, <4>1, <4>2 DEF Takes
        <5>2. Len(<<c>>) # NameSize
          BY <1>n, <4>1
        <5> QED BY <4>4, <5>1, <5>2 DEF Terminated
      <4>5. SubSeq(u, l + 1, l + 1) = <<u[l + 1]>>
        <5>1. l + 1 \in 1 .. Len(u)
          BY <1>n
        <5> QED BY <1>u, <5>1, OneElement
      <4>6. skip2 = Len(u) - (l + 1)
        BY <1>n, <4>3
      <4> QED BY <1>u, <1>3, <4>3, <4>4, <4>5, <4>6
    <3> QED BY <3>1, <3>2, <3>3, <3>4 DEF HasRead
  <2> QED BY <2>1, <2>2
<1>4. ASSUME NEW m \in 1 .. l, NEW n \in 1 .. l, Framed(s, m, n),
             s[m] = Sign => com /\ kept = << >>,
             Fits(s) => ~com /\ kept = SubSeq(s, m, n) /\ skip = l - n
      PROVE  HasRead(u, kept2, skip2, com2)
  <2> DEFINE n2 == IF c = Gap THEN n ELSE l + 1
  <2>0. m \in Nat /\ n \in Nat /\ 1 <= m /\ m <= n /\ n <= l
    <3>1. n \in m .. l
      BY <1>l, <1>4 DEF Framed
    <3> QED BY <1>n, <1>4, <3>1
  <2>1. Framed(u, m, n2)
    BY <1>1, <1>4
  <2>2. m \in 1 .. Len(u) /\ n2 \in 1 .. Len(u)
    BY <1>n, <2>0
  <2>3. u[m] = Sign => com2 /\ kept2 = << >>
    BY <1>h, <1>s, <1>u, <1>4 DEF Takes
  <2>4. ASSUME Fits(u) PROVE ~com2 /\ kept2 = SubSeq(u, m, n2) /\ skip2 = Len(u) - n2
    <3>1. c # Sign /\ l + 1 < NameSize /\ ~com /\ kept = SubSeq(s, m, n) /\ skip = l - n
      BY <1>f, <1>4, <2>4
    <3>3. CASE c = Gap
      <4>1. (com2 <=> com) /\ kept2 = kept /\ skip2 = skip + 1
        BY <1>h, <1>s, <3>3 DEF Takes
      <4>2. SubSeq(u, m, n) = SubSeq(s, m, n)
        BY <1>n, <1>u, <1>l, <2>0
      <4>3. skip2 = Len(u) - n
        BY <1>n, <2>0, <3>1, <4>1
      <4> QED BY <3>1, <3>3, <4>1, <4>2, <4>3
    <3>4. CASE c # Gap
      <4>1. Len(kept) = n - m + 1
        BY <1>l, <1>n, <2>0, <3>1
      <4>2. kept # << >>
        BY <2>0, <4>1
      <4>3. ~(Len(kept) + skip > NameSize - 1)
        BY <1>n, <2>0, <3>1, <4>1
      <4>4. /\ kept2 \in Terminated(Append(kept \o [k \in 1 .. skip |-> Gap], c)) /\ skip2 = 0
            /\ (com2 <=> com)
        BY <1>h, <3>1, <3>4, <4>2, <4>3 DEF Takes
      <4>5. kept2 = SubSeq(u, m, l + 1)
        <5>1. Append(kept \o [k \in 1 .. skip |-> Gap], c) = SubSeq(u, m, l + 1)
          BY <1>4, <1>l, <3>1, SpacesComeBack DEF u
        <5>2. Len(SubSeq(u, m, l + 1)) = l - m + 2
          BY <1>n, <1>u, <2>0
        <5>3. Len(SubSeq(u, m, l + 1)) # NameSize
          BY <1>n, <2>0, <3>1, <5>2
        <5> QED BY <4>4, <5>1, <5>3 DEF Terminated
      <4>6. skip2 = Len(u) - (l + 1)
        BY <1>n, <4>4
      <4> QED BY <3>1, <3>4, <4>4, <4>5, <4>6
    <3> QED BY <3>3, <3>4
  <2> HIDE DEF n2
  <2> QED BY <2>1, <2>2, <2>3, <2>4 DEF HasRead
<1>5. \/ AllSpaces(s) /\ kept = << >> /\ ~com /\ skip = l
      \/ \E m, n \in 1 .. l :
            /\ Framed(s, m, n)
            /\ s[m] = Sign => com /\ kept = << >>
            /\ Fits(s) => ~com /\ kept = SubSeq(s, m, n) /\ skip = l - n
  BY <1>h, <1>l DEF HasRead
<1>6. HasRead(u, kept2, skip2, com2)
  BY <1>3, <1>4, <1>5
<1> QED BY <1>2, <1>6 DEF u

\* What the end of a line finds in the buffer.
LEMMA LineHasEnded ==
    ASSUME NEW s \in Seq(Char), NEW kept, NEW skip, NEW com, HasRead(s, kept, skip, com), PlainLine(s)
    PROVE  IF Blank(s) \/ Comment(s) THEN kept = << >> ELSE kept # << >> /\ kept = Trimmed(s)
<1>1. CASE AllSpaces(s) /\ kept = << >>
  <2>1. Trimmed(s) = << >>
    BY <1>1, TrimmedIs
  <2> QED BY <1>1, <2>1 DEF Blank
<1>2. CASE \E m, n \in 1 .. Len(s) :
              /\ Framed(s, m, n)
              /\ s[m] = Sign => com /\ kept = << >>
              /\ Fits(s) => ~com /\ kept = SubSeq(s, m, n) /\ skip = Len(s) - n
  <2>1. PICK m, n \in 1 .. Len(s) :
              /\ Framed(s, m, n)
              /\ s[m] = Sign => com /\ kept = << >>
              /\ Fits(s) => ~com /\ kept = SubSeq(s, m, n) /\ skip = Len(s) - n
    BY <1>2
  <2>2. Trimmed(s) = SubSeq(s, m, n) /\ Trimmed(s) # << >> /\ Trimmed(s)[1] = s[m]
    BY <2>1, TrimmedIs
  <2>3. ~Blank(s) /\ (Comment(s) <=> s[m] = Sign)
    BY Zenon, <2>2 DEF Blank, Comment, Sign
  <2>4. ~Comment(s) => Fits(s)
    BY Zenon, <2>3 DEF PlainLine, Fits, Sign
  <2> QED BY Zenon, <2>1, <2>2, <2>3, <2>4
<1> QED BY Zenon, <1>1, <1>2 DEF HasRead

-----------------------------------------------------------------------------
(* What the list holds.                                                    *)

\* The names of L, each once, whatever its case.
HoldsNames(list, L) ==
    /\ \A n \in L : NameIn(list, n)
    /\ Range(list) \subseteq L
    /\ \A j, k \in DOMAIN list : SameName(list[j], list[k]) => j = k

WithName(list, n) == IF n # << >> /\ ~NameIn(list, n) THEN Append(list, n) ELSE list

LEMMA SameNames ==
    /\ \A m \in Seq(Char) : SameName(m, m)
    /\ \A m, n \in Seq(Char) : SameName(m, n) => SameName(n, m)
<1>1. ASSUME NEW m \in Seq(Char), NEW n \in Seq(Char), SameName(m, n) PROVE SameName(n, m)
  <2>1. Len(n) = Len(m) /\ DOMAIN m = DOMAIN n
    <3>1. DOMAIN m = 1 .. Len(m) /\ DOMAIN n = 1 .. Len(n) /\ Len(m) = Len(n)
      BY <1>1 DEF SameName
    <3> QED BY ONLY <3>1
  <2> QED BY Zenon, <1>1, <2>1 DEF SameName
<1>2. ASSUME NEW m \in Seq(Char) PROVE SameName(m, m)
  BY Zenon DEF SameName
<1> QED BY <1>1, <1>2

LEMMA NameComesIn ==
    ASSUME NEW list \in Seq(Seq(Char)), NEW n \in Seq(Char), n # << >>, NEW L, HoldsNames(list, L)
    PROVE  WithName(list, n) \in Seq(Seq(Char)) /\ HoldsNames(WithName(list, n), L \cup {n})
<1>1. CASE NameIn(list, n)
  <2>1. WithName(list, n) = list
    BY <1>1 DEF WithName
  <2> QED BY Zenon, <1>1, <2>1 DEF HoldsNames
<1>2. CASE ~NameIn(list, n)
  <2> DEFINE u == Append(list, n)
             z == Len(list)
  <2>1. WithName(list, n) = u
    BY <1>2 DEF WithName
  <2>2. /\ u \in Seq(Seq(Char)) /\ DOMAIN u = 1 .. z + 1 /\ DOMAIN list = 1 .. z /\ z \in Nat
        /\ u[z + 1] = n /\ \A k \in 1 .. z : u[k] = list[k] /\ list[k] \in Seq(Char)
    OBVIOUS
  <2> HIDE DEF u, z
  <2>3. DOMAIN u = DOMAIN list \cup {z + 1} /\ z + 1 \notin DOMAIN list
    BY <2>2
  <2>4. \A k \in DOMAIN list : u[k] = list[k] /\ list[k] \in Seq(Char)
    BY <2>2
  <2>5. u[z + 1] = n
    BY <2>2
  <2>6. \A m \in L \cup {n} : NameIn(u, m)
    <3>1. SameName(n, n)
      BY SameNames
    <3>2. NameIn(u, n)
      BY Zenon, <2>3, <2>5, <3>1 DEF NameIn
    <3>3. ASSUME NEW m \in L PROVE NameIn(u, m)
      <4>1. PICK k \in DOMAIN list : SameName(list[k], m)
        BY Zenon DEF HoldsNames, NameIn
      <4> QED BY Zenon, <2>3, <2>4, <4>1 DEF NameIn
    <3> QED BY Zenon, <3>2, <3>3
  <2>7. Range(u) \subseteq L \cup {n}
    <3>1. Range(u) = Range(list) \cup {n}
      <4>1. \A e : e \in Range(u) => e \in Range(list) \cup {n}
        BY Zenon, <2>3, <2>4, <2>5 DEF Range
      <4>2. \A e : e \in Range(list) \cup {n} => e \in Range(u)
        BY Zenon, <2>3, <2>4, <2>5 DEF Range
      <4> QED BY ONLY <4>1, <4>2
    <3> QED BY <3>1 DEF HoldsNames
  <2>8. ASSUME NEW j \in DOMAIN u, NEW k \in DOMAIN u, SameName(u[j], u[k]) PROVE j = k
    <3>1. CASE j \in DOMAIN list /\ k \in DOMAIN list
      BY Zenon, <2>4, <2>8, <3>1 DEF HoldsNames
    <3>2. CASE j \in DOMAIN list /\ k = z + 1
      BY Zenon, <1>2, <2>4, <2>5, <2>8, <3>2 DEF NameIn
    <3>3. CASE j = z + 1 /\ k \in DOMAIN list
      <4>1. SameName(list[k], n)
        BY Zenon, <2>4, <2>5, <2>8, <3>3, SameNames
      <4> QED BY Zenon, <1>2, <3>3, <4>1 DEF NameIn
    <3>4. CASE j = z + 1 /\ k = z + 1
      BY <3>4
    <3> QED BY Zenon, <2>3, <3>1, <3>2, <3>3, <3>4
  <2> QED BY Zenon, <2>1, <2>2, <2>6, <2>7, <2>8 DEF HoldsNames
<1> QED BY <1>1, <1>2

\* The names that the lines of a text list.
NamesOf(t) == {Trimmed(s) : s \in {x \in Lines(t) : ~Blank(x) /\ ~Comment(x)}}

ListInv ==
    /\ text \in Seq(Char) /\ Cuts(text) /\ LastLine(text) \in Seq(Char)
    /\ names \in Seq(Seq(Char)) /\ namebuf \in Seq(Char)
    /\ spaceskip \in Nat /\ comment \in BOOLEAN
    /\ HasRead(LastLine(text), namebuf, spaceskip, comment)
    /\ (\A s \in Lines(text) : PlainLine(s)) => HoldsNames(names, NamesOf(text))

LEMMA ListInvSays == ListInv => ListSays
<1>1. EndedLines = Lines(text)
  BY Zenon DEF EndedLines, LineBefore, Ends, Lines, LineIn, EndsOf
<1>2. Listed = NamesOf(text)
  BY Zenon, <1>1 DEF Listed, NamesOf
<1> QED BY Zenon, <1>1, <1>2 DEF ListInv, ListSays, HoldsNames

LEMMA NothingRead == HasRead(<< >>, << >>, 0, FALSE)
BY DEF HasRead, AllSpaces

LEMMA ListInvInit == ListInit => ListInv
<1> SUFFICES ASSUME ListInit PROVE ListInv
  OBVIOUS
<1>1. names = << >> /\ namebuf = << >> /\ spaceskip = 0 /\ comment = FALSE /\ text = << >>
  BY DEF ListInit
<1>2. HoldsNames(<< >>, NamesOf(<< >>))
  <2>1. NamesOf(<< >>) = {}
    BY Zenon, EmptyText DEF NamesOf
  <2>2. DOMAIN << >> = {}
    OBVIOUS
  <2>3. Range(<< >>) = {}
    BY Zenon, <2>2 DEF Range
  <2> QED BY Zenon, <2>1, <2>2, <2>3 DEF HoldsNames
<1>3. << >> \in Seq(Char) /\ << >> \in Seq(Seq(Char)) /\ 0 \in Nat /\ FALSE \in BOOLEAN
  OBVIOUS
<1> QED BY Zenon, <1>1, <1>2, <1>3, EmptyText, NothingRead DEF ListInv

LEMMA TakesIt ==
    ASSUME NEW c \in Char, Take(c)
    PROVE  /\ c = "nl" => EndLine
           /\ c # "nl" => /\ Takes(c, namebuf, spaceskip, comment, namebuf', spaceskip', comment')
                          /\ names' = names
<1>1. /\ Gap # "nl" /\ Sign # "nl" /\ Gap # Sign /\ Gap \notin Letters /\ Sign \notin Letters
      /\ "nl" \notin Letters
  BY ListAssumption DEF Gap, Sign
<1>2. CASE c = "nl" /\ EndLine
  BY <1>2
<1>3. CASE c = "#" /\ Hash
  BY Zenon, <1>1, <1>3 DEF Hash, Takes, Sign
<1>4. CASE c = " " /\ SpaceIn
  BY Zenon, <1>1, <1>4 DEF SpaceIn, Takes, Gap
<1>5. CASE c \in Letters /\ Letter(c)
  <2>1. CASE comment \/ Len(namebuf) + spaceskip > NameSize - 1
    BY Zenon, <1>1, <1>5, <2>1 DEF Letter, Takes
  <2>2. CASE ~(comment \/ Len(namebuf) + spaceskip > NameSize - 1)
    BY Zenon, <1>1, <1>5, <2>2 DEF Letter, Takes, Spaces, Gap
  <2> QED BY <2>1, <2>2
<1> QED BY Zenon, <1>2, <1>3, <1>4, <1>5 DEF Take

LEMMA ListInvTakes ==
    ListInv /\ (\E c \in Char : Take(c) /\ text' = Append(text, c)) => ListInv'
<1> SUFFICES ASSUME ListInv, NEW c \in Char, Take(c), text' = Append(text, c)
             PROVE  ListInv'
  OBVIOUS
<1>1. c \in Char /\ Take(c) /\ text' = Append(text, c)
  OBVIOUS
<1>3. /\ text \in Seq(Char) /\ Cuts(text) /\ LastLine(text) \in Seq(Char)
      /\ names \in Seq(Seq(Char)) /\ namebuf \in Seq(Char)
      /\ spaceskip \in Nat /\ comment \in BOOLEAN
      /\ HasRead(LastLine(text), namebuf, spaceskip, comment)
      /\ (\A s \in Lines(text) : PlainLine(s)) => HoldsNames(names, NamesOf(text))
  BY Zenon DEF ListInv
<1>4. /\ Cuts(text')
      /\ c = "nl" => Lines(text') = Lines(text) \cup {LastLine(text)} /\ LastLine(text') = << >>
      /\ c # "nl" => /\ Lines(text') = Lines(text)
                     /\ LastLine(text') = Append(LastLine(text), c)
  <2> DEFINE u == Append(text, c)
  <2>1. text \in Seq(Char) /\ Cuts(text) /\ c \in Char
    BY Zenon, <1>3
  <2>2. /\ Cuts(u)
        /\ c = "nl" => Lines(u) = Lines(text) \cup {LastLine(text)} /\ LastLine(u) = << >>
        /\ c # "nl" => Lines(u) = Lines(text) /\ LastLine(u) = Append(LastLine(text), c)
    BY ONLY <2>1, TextGrows
  <2>3. text' = u
    BY <1>1
  <2> HIDE DEF u
  <2> QED BY Zenon, <2>2, <2>3
<1>5. text' \in Seq(Char)
  <2>1. \A t \in Seq(Char) : Append(t, c) \in Seq(Char)
    OBVIOUS
  <2> QED BY Zenon, <1>1, <1>3, <2>1
<1>6. CASE c = "nl"
  <2>1. names' = WithName(names, namebuf) /\ namebuf' = << >> /\ spaceskip' = 0 /\ comment' = FALSE
    BY Zenon, <1>1, <1>6, TakesIt DEF EndLine, WithName
  <2>2. HasRead(LastLine(text'), namebuf', spaceskip', comment')
    BY Zenon, <1>4, <1>6, <2>1, NothingRead
  <2>3. names' \in Seq(Seq(Char))
    BY <1>3, <2>1 DEF WithName
  <2>4. ASSUME \A s \in Lines(text') : PlainLine(s) PROVE HoldsNames(names', NamesOf(text'))
    <3> DEFINE s == LastLine(text)
    <3> HIDE DEF s
    <3>1. HoldsNames(names, NamesOf(text)) /\ PlainLine(s)
      BY Zenon, <1>3, <1>4, <1>6, <2>4 DEF s
    <3>2. IF Blank(s) \/ Comment(s) THEN namebuf = << >> ELSE namebuf # << >> /\ namebuf = Trimmed(s)
      <4>1. s \in Seq(Char) /\ HasRead(s, namebuf, spaceskip, comment)
        BY <1>3 DEF s
      <4> QED BY Zenon, <3>1, <4>1, LineHasEnded
    <3>3. Lines(text') = Lines(text) \cup {s}
      BY <1>4, <1>6 DEF s
    <3>4. CASE Blank(s) \/ Comment(s)
      <4>1. names' = names
        BY Zenon, <2>1, <3>2, <3>4 DEF WithName
      <4>2. NamesOf(text') = NamesOf(text)
        BY Zenon, <3>3, <3>4 DEF NamesOf
      <4> QED BY Zenon, <3>1, <4>1, <4>2
    <3>5. CASE ~(Blank(s) \/ Comment(s))
      <4>1. namebuf # << >> /\ namebuf = Trimmed(s)
        BY Zenon, <3>2, <3>5
      <4>2. NamesOf(text') = NamesOf(text) \cup {Trimmed(s)}
        BY Zenon, <3>3, <3>5 DEF NamesOf
      <4> QED BY Zenon, <1>3, <2>1, <3>1, <4>1, <4>2, NameComesIn
    <3> QED BY <3>4, <3>5
  <2>5. << >> \in Seq(Char) /\ 0 \in Nat /\ FALSE \in BOOLEAN
    OBVIOUS
  <2> QED BY Zenon, <1>4, <1>5, <1>6, <2>1, <2>2, <2>3, <2>4, <2>5 DEF ListInv
<1>7. CASE c # "nl"
  <2>1. Takes(c, namebuf, spaceskip, comment, namebuf', spaceskip', comment') /\ names' = names
    BY Zenon, <1>1, <1>7, TakesIt
  <2>2. /\ HasRead(Append(LastLine(text), c), namebuf', spaceskip', comment')
        /\ namebuf' \in Seq(Char) /\ spaceskip' \in Nat /\ comment' \in BOOLEAN
    BY ONLY <1>3, <2>1, ReadsOn, c \in Char
  <2>3. Append(LastLine(text), c) \in Seq(Char)
    BY <1>3
  <2>4. NamesOf(text') = NamesOf(text)
    BY Zenon, <1>4, <1>7 DEF NamesOf
  <2> QED BY Zenon, <1>3, <1>4, <1>5, <1>7, <2>1, <2>2, <2>3, <2>4 DEF ListInv
<1> QED BY <1>6, <1>7

\* namelist_parse: of a file whose lines the buffer has room for, the list holds each name
\* of the lines that have ended once, whatever its case, and nothing else: while the file
\* is read, and when its end has come, whatever the loop takes then for one character more.
THEOREM ListIsTheFile == ListSpec => []ListSays
<1>1. ListInv /\ [ListNext]_listVars => ListInv'
  <2> SUFFICES ASSUME ListInv, [ListNext]_listVars PROVE ListInv'
    OBVIOUS
  <2>1. CASE ReadChar
    BY <2>1, ListInvTakes DEF ReadChar
  <2>2. CASE ListEnds
    BY <2>2, ListInvTakes DEF ListEnds
  <2>3. CASE UNCHANGED listVars
    BY Zenon, <2>3 DEF listVars, ListInv
  <2> QED BY <2>1, <2>2, <2>3 DEF ListNext
<1> QED BY PTL, <1>1, ListInvInit, ListInvSays DEF ListSpec

-----------------------------------------------------------------------------
(* The configuration.                                                      *)

Text == Seq(Character)

LEMMA TextGoesOn ==
    ASSUME NEW t \in Text, NEW k \in 0 .. Len(t), NEW c \in Character
    PROVE  Append(SubSeq(t, 1, k), c) \in Text /\ Len(Append(SubSeq(t, 1, k), c)) = k + 1
<1> DEFINE S == Character
<1> HIDE DEF S
<1>1. \A s \in Seq(S), j \in Nat, x \in S : j <= Len(s) =>
        Append(SubSeq(s, 1, j), x) \in Seq(S) /\ Len(Append(SubSeq(s, 1, j), x)) = j + 1
  OBVIOUS
<1>2. t \in Seq(S) /\ k \in Nat /\ k <= Len(t) /\ c \in S
  BY DEF S, Text
<1> QED BY <1>1, <1>2 DEF S, Text

LEMMA FirstOf ==
    ASSUME NEW n \in Nat, NEW K \in SUBSET (1 .. n), K # {}
    PROVE  Min(K) \in K /\ \A k \in K : Min(K) <= k
<1> DEFINE R == OpToRel(<, Nat)
<1>1. IsWellFoundedOn(R, Nat)
  BY NatLessThanWellFounded
<1>2. \A x, y \in Nat : <<y, x>> \in R <=> y < x
  BY DEF OpToRel
<1> HIDE DEF R
<1>3. PICK x \in K : \A y \in K : ~ (<<y, x>> \in R)
  <2>1. K \subseteq Nat /\ K # {}
    OBVIOUS
  <2> QED BY ONLY <1>1, <2>1, WFMin
<1>4. \E a \in K : \A b \in K : a <= b
  <2>1. \A y \in K : x <= y
    <3>0. K \subseteq Nat
      OBVIOUS
    <3>1. x \in Nat /\ \A y \in K : y \in Nat /\ ~(y < x)
      BY ONLY <1>2, <1>3, <3>0, Zenon
    <3> QED BY ONLY <3>1
  <2> QED BY <2>1
<1> QED BY <1>4 DEF Min

LEMMA TrimKeepsText == ASSUME NEW t \in Text PROVE Trim(t) \in Text
<1> DEFINE S == Character
           K == {k \in DOMAIN t : ~Space(t[k])}
           n == Len(t)
<1> HIDE DEF S
<1>1. t \in Seq(S) /\ n \in Nat /\ DOMAIN t = 1 .. n
  BY DEF S, Text
<1>2. K \in SUBSET (1 .. n)
  BY <1>1
<1>3. Trim(t) = IF K = {} THEN << >> ELSE SubSeq(t, Min(K), Max(K))
  BY DEF Trim
<1> HIDE DEF K, n
<1>4. CASE K = {}
  <2>1. << >> \in Seq(S)
    OBVIOUS
  <2> QED BY <1>3, <1>4, <2>1 DEF S, Text
<1>5. CASE K # {}
  <2>1. Min(K) \in 1 .. n /\ Max(K) \in 1 .. n
    BY <1>1, <1>2, <1>5, FirstOf, Largest
  <2>2. \A i, j \in 1 .. n : SubSeq(t, i, j) \in Seq(S)
    BY <1>1 DEF n
  <2> QED BY <1>3, <1>5, <2>1, <2>2 DEF S, Text
<1> QED BY <1>4, <1>5

Parsers ==
    [state : {"section", "key", "value", "comment"}, section : Text, key : Text, value : Text,
     sectionp : Nat, keyp : Nat, valuep : Nat]

\* The place of the buffer that is being written is within it.
Placed(p) ==
    /\ p \in Parsers
    /\ p.keyp <= Len(p.key)
    /\ p.state = "section" => p.sectionp <= Len(p.section)
    /\ p.state = "value" => p.valuep <= Len(p.value)

\* The settings that the defaults need.
Settled(cfg) ==
    /\ \A f \in Texts : f \in DOMAIN cfg /\ cfg[f] \in Text \cup {Unset}
    /\ \A f \in Ints : f \in DOMAIN cfg /\ (f \in DOMAIN Default => cfg[f] \in Nat)
    /\ cfg[Port] = 0 \/ IsPort(cfg[Port])
    /\ cfg[Salt] # Unset

LEMMA ParserKeepsPlaces ==
    ASSUME NEW p, Placed(p), NEW c \in Character
    PROVE  /\ Placed(InSection(p, c)) \/ p.state # "section"
           /\ Placed(InKey(p, c)) \/ p.state # "key"
           /\ Placed(InValue(p, c)) \/ p.state # "value"
           /\ Placed(InComment(p, c)) \/ p.state # "comment"
<1>0. /\ p \in Parsers /\ p.keyp <= Len(p.key)
      /\ p.section \in Text /\ p.key \in Text /\ p.value \in Text
      /\ p.sectionp \in Nat /\ p.keyp \in Nat /\ p.valuep \in Nat
      /\ 0 \in Nat
  BY DEF Placed, Parsers
<1>1. /\ Len(p.section) \in Nat /\ Len(p.key) \in Nat /\ Len(p.value) \in Nat
  BY <1>0 DEF Text
<1>2. CASE p.state = "section"
  <2>1. CASE c = "]"
    <3>1. InSection(p, c) = [p EXCEPT !.state = "key"]
      BY <2>1 DEF InSection
    <3>2. Placed([p EXCEPT !.state = "key"])
      BY <1>0, <1>2 DEF Placed, Parsers
    <3> QED BY <1>2, <3>1, <3>2
  <2>2. CASE c # "]"
    <3> DEFINE t == Append(SubSeq(p.section, 1, p.sectionp), c)
               k == p.sectionp + 1
    <3>1. InSection(p, c) \in {p, [p EXCEPT !.section = t, !.sectionp = k]}
      BY <2>2 DEF InSection, Put
    <3>2. t \in Text /\ Len(t) = k /\ k \in Nat
      <4>1. p.sectionp \in 0 .. Len(p.section)
        BY <1>0, <1>1, <1>2 DEF Placed
      <4> QED BY <1>0, <4>1, TextGoesOn
    <3> HIDE DEF t, k
    <3>3. Placed([p EXCEPT !.section = t, !.sectionp = k])
      <4> DEFINE v == [p EXCEPT !.section = t, !.sectionp = k]
      <4>1. v \in Parsers
        BY <1>0, <1>2, <3>2 DEF Parsers
      <4>2. /\ v.state = p.state /\ v.section = t /\ v.key = p.key /\ v.value = p.value
            /\ v.sectionp = k /\ v.keyp = p.keyp /\ v.valuep = p.valuep
        BY <1>0 DEF Parsers
      <4> HIDE DEF v
      <4>3. v.keyp <= Len(v.key)
        BY <1>0, <1>2, <3>2, <4>2
      <4>4. v.state = "section" => v.sectionp <= Len(v.section)
        BY <1>0, <1>2, <3>2, <4>2
      <4>5. v.state = "value" => v.valuep <= Len(v.value)
        BY <1>0, <1>2, <3>2, <4>2
      <4> QED BY Zenon, <4>1, <4>3, <4>4, <4>5 DEF Placed, v
    <3> QED BY <1>2, <3>1, <3>3
  <2> QED BY <2>1, <2>2
<1>3. CASE p.state = "key"
  <2> DEFINE t == Append(SubSeq(p.key, 1, p.keyp), c)
             k == p.keyp + 1
  <2>1. InKey(p, c) \in {[p EXCEPT !.state = "section", !.sectionp = 0], p,
                         [p EXCEPT !.state = "comment"],
                         [p EXCEPT !.state = "value", !.valuep = 0],
                         [p EXCEPT !.key = t, !.keyp = k]}
    BY DEF InKey, Put
  <2>2. t \in Text /\ Len(t) = k /\ k \in Nat
    <3>1. p.keyp \in 0 .. Len(p.key)
      BY <1>0, <1>1
    <3> QED BY <1>0, <3>1, TextGoesOn
  <2> HIDE DEF t, k
  <2>3. Placed([p EXCEPT !.state = "section", !.sectionp = 0])
    <3> DEFINE v == [p EXCEPT !.state = "section", !.sectionp = 0]
    <3>1. v \in Parsers
      BY <1>0, <1>1 DEF Parsers
    <3>2. /\ v.state = "section" /\ v.section = p.section /\ v.key = p.key /\ v.value = p.value
          /\ v.sectionp = 0 /\ v.keyp = p.keyp /\ v.valuep = p.valuep
      BY <1>0 DEF Parsers
    <3> HIDE DEF v
    <3>3. v.keyp <= Len(v.key)
      BY <1>0, <1>1, <3>2
    <3>4. v.state = "section" => v.sectionp <= Len(v.section)
      BY <1>0, <1>1, <3>2
    <3>5. v.state = "value" => v.valuep <= Len(v.value)
      BY <1>0, <1>1, <3>2
    <3> QED BY Zenon, <3>1, <3>3, <3>4, <3>5 DEF Placed, v
  <2>4. Placed([p EXCEPT !.state = "comment"])
    BY <1>0, <1>1 DEF Placed, Parsers
  <2>5. Placed([p EXCEPT !.state = "value", !.valuep = 0])
    <3> DEFINE v == [p EXCEPT !.state = "value", !.valuep = 0]
    <3>1. v \in Parsers
      BY <1>0, <1>1 DEF Parsers
    <3>2. /\ v.state = "value" /\ v.section = p.section /\ v.key = p.key /\ v.value = p.value
          /\ v.sectionp = p.sectionp /\ v.keyp = p.keyp /\ v.valuep = 0
      BY <1>0 DEF Parsers
    <3> HIDE DEF v
    <3>3. v.keyp <= Len(v.key)
      BY <1>0, <1>1, <3>2
    <3>4. v.state = "section" => v.sectionp <= Len(v.section)
      BY <1>0, <1>1, <3>2
    <3>5. v.state = "value" => v.valuep <= Len(v.value)
      BY <1>0, <1>1, <3>2
    <3> QED BY Zenon, <3>1, <3>3, <3>4, <3>5 DEF Placed, v
  <2>6. Placed([p EXCEPT !.key = t, !.keyp = k])
    <3> DEFINE v == [p EXCEPT !.key = t, !.keyp = k]
    <3>1. v \in Parsers
      BY <1>0, <1>3, <2>2 DEF Parsers
    <3>2. /\ v.state = p.state /\ v.section = p.section /\ v.key = t /\ v.value = p.value
          /\ v.sectionp = p.sectionp /\ v.keyp = k /\ v.valuep = p.valuep
      BY <1>0 DEF Parsers
    <3> HIDE DEF v
    <3>3. v.keyp <= Len(v.key)
      BY <1>0, <1>3, <2>2, <3>2
    <3>4. v.state = "section" => v.sectionp <= Len(v.section)
      BY <1>0, <1>3, <2>2, <3>2
    <3>5. v.state = "value" => v.valuep <= Len(v.value)
      BY <1>0, <1>3, <2>2, <3>2
    <3> QED BY Zenon, <3>1, <3>3, <3>4, <3>5 DEF Placed, v
  <2> QED BY <1>3, <2>1, <2>3, <2>4, <2>5, <2>6
<1>4. CASE p.state = "value"
  <2> DEFINE t == Append(SubSeq(p.value, 1, p.valuep), c)
             k == p.valuep + 1
             q == [p EXCEPT !.section = Trim(@), !.key = Trim(@), !.value = Trim(@),
                            !.state = "key", !.keyp = 0]
  <2>1. InValue(p, c) \in {q, p, [p EXCEPT !.value = t, !.valuep = k]}
    BY DEF InValue, Put
  <2>2. t \in Text /\ Len(t) = k /\ k \in Nat
    <3>1. p.valuep \in 0 .. Len(p.value)
      BY <1>0, <1>1, <1>4 DEF Placed
    <3> QED BY <1>0, <3>1, TextGoesOn
  <2>3. Trim(p.section) \in Text /\ Trim(p.key) \in Text /\ Trim(p.value) \in Text
    BY <1>0, TrimKeepsText
  <2>4. Len(Trim(p.key)) \in Nat
    BY <2>3 DEF Text
  <2> HIDE DEF t, k
  <2>5. Placed(q)
    <3> DEFINE v == q
    <3>1. v \in Parsers
      BY <1>0, <2>3, <2>4 DEF Parsers
    <3>2. /\ v.state = "key" /\ v.section = Trim(p.section) /\ v.key = Trim(p.key) /\ v.value = Trim(p.value)
          /\ v.sectionp = p.sectionp /\ v.keyp = 0 /\ v.valuep = p.valuep
      BY <1>0 DEF Parsers
    <3> HIDE DEF v
    <3>3. v.keyp <= Len(v.key)
      BY <1>0, <2>3, <2>4, <3>2
    <3>4. v.state = "section" => v.sectionp <= Len(v.section)
      BY <1>0, <2>3, <2>4, <3>2
    <3>5. v.state = "value" => v.valuep <= Len(v.value)
      BY <1>0, <2>3, <2>4, <3>2
    <3> QED BY Zenon, <3>1, <3>3, <3>4, <3>5 DEF Placed, v
  <2>6. Placed([p EXCEPT !.value = t, !.valuep = k])
    <3> DEFINE v == [p EXCEPT !.value = t, !.valuep = k]
    <3>1. v \in Parsers
      BY <1>0, <1>4, <2>2 DEF Parsers
    <3>2. /\ v.state = p.state /\ v.section = p.section /\ v.key = p.key /\ v.value = t
          /\ v.sectionp = p.sectionp /\ v.keyp = p.keyp /\ v.valuep = k
      BY <1>0 DEF Parsers
    <3> HIDE DEF v
    <3>3. v.keyp <= Len(v.key)
      BY <1>0, <1>4, <2>2, <3>2
    <3>4. v.state = "section" => v.sectionp <= Len(v.section)
      BY <1>0, <1>4, <2>2, <3>2
    <3>5. v.state = "value" => v.valuep <= Len(v.value)
      BY <1>0, <1>4, <2>2, <3>2
    <3> QED BY Zenon, <3>1, <3>3, <3>4, <3>5 DEF Placed, v
  <2> HIDE DEF q
  <2> QED BY <1>4, <2>1, <2>5, <2>6
<1>5. CASE p.state = "comment"
  <2>1. InComment(p, c) \in {[p EXCEPT !.state = "key"], p}
    BY DEF InComment
  <2>2. Placed([p EXCEPT !.state = "key"])
    BY <1>0 DEF Placed, Parsers
  <2> QED BY <1>5, <2>1, <2>2
<1>6. p.state \in {"section", "key", "value", "comment"}
  BY <1>0 DEF Parsers
<1> QED BY <1>2, <1>3, <1>4, <1>5, <1>6

LEMMA SettingsApart ==
    /\ \A f \in Texts : f \notin Bools /\ f \notin Ints /\ f # Proxies /\ f # Random /\ f # Colours
    /\ \A f \in Ints : f \notin Texts /\ f \notin Bools /\ f # Proxies /\ f # Random /\ f # Colours
    /\ Port \in Ints /\ Salt \in Texts
BY DEF Texts, Bools, Ints, Port, Salt, Proxies, Random, Colours

LEMMA UInts == Half \in Nat \ {0} /\ UIntSize = 2 * Half /\ UIntSize \in Nat \ {0}
BY ConfigAssumption DEF Half

LEMMA UShorts == UShortSize \in Nat \ {0}
BY SMT DEF UShortSize

LEMMA NoDefault == \A f \in DOMAIN Default : f \notin Signed
<1>1. DOMAIN Default = (Texts \ {Salt}) \cup
            {Port, Players, <<"map", "width">>, <<"map", "depth">>, <<"map", "height">>}
  BY DEF Default
<1>2. \A f \in Signed : f \notin Texts
  BY DEF Signed, Texts
<1>3. \A f \in Signed :
        f \notin {Port, Players, <<"map", "width">>, <<"map", "depth">>, <<"map", "height">>}
  BY DEF Signed, Port, Players
<1> QED BY Zenon, <1>1, <1>2, <1>3

LEMMA CallbackSettles ==
    ASSUME NEW cfg, Settled(cfg), NEW section, NEW key, NEW value \in Text
    PROVE  Settled(Callback(cfg, section, key, value))
<1> DEFINE f == IF Len(section) = 1 /\ Len(key) = 1 THEN <<section[1], key[1]>> ELSE << >>
           n == Cast(f, Parsed(value))
           r == Callback(cfg, section, key, value)
           t == Copied(f, value)
           a == [cfg EXCEPT ![f] = t]
           b == [cfg EXCEPT ![f] = (value = <<"true">>)]
           d == [cfg EXCEPT ![f] = n, ![Random] = @ /\ f # <<"map", "seed">>]
           e == [cfg EXCEPT ![f] = Words(value, ProxySize)]
           g == [cfg EXCEPT ![Colours] = Append(@, <<key[1], value[1]>>)]
           A == IsNumber(value)
           B == section = <<"colours">> /\ Len(key) = 1 /\ Len(value) = 1
                /\ key[1] \in Codes /\ value[1] \in Rgba
<1> HIDE DEF f
<1>1. t \in Text /\ t # Unset
  <2>1. Len(value) > SaltSize => SubSeq(value, 1, SaltSize) \in Text
    BY ConfigAssumption DEF Text
  <2>2. t \in Text
    BY <2>1 DEF Copied
  <2> QED BY <2>2, ConfigAssumption DEF Text
<1>2. r = CASE f \in Texts -> a
            [] f \in Bools -> b
            [] f \in Ints /\ A -> d
            [] f = Proxies -> e
            [] B -> g
            [] OTHER -> cfg
  BY DEF Callback, f
<1>3. f \in Ints /\ IsNumber(value) =>
            (f \in DOMAIN Default => n \in Nat) /\ (f = Port => n = 0 \/ IsPort(n))
  <2>1. IsNumber(value) => Parsed(value) \in Int
    BY ConfigAssumption DEF IsNumber, Parsed
  <2>2. \A k \in Int : /\ k % UShortSize \in Nat
                       /\ k % UShortSize = 0 \/ IsPort(k % UShortSize)
    <3>1. \A k \in Int : k % UShortSize \in 0 .. UShortSize - 1
      BY UShorts
    <3> QED BY <3>1, UShorts DEF IsPort
  <2>3. \A k \in Int : k % UIntSize \in Nat
    BY UInts
  <2>4. f \in DOMAIN Default => f \notin Signed
    BY NoDefault
  <2> DEFINE p == Parsed(value)
  <2>5. n = CASE f = Port -> p % UShortSize
              [] f \in Signed -> ((p + Half) % UIntSize) - Half
              [] OTHER -> p % UIntSize
    BY Zenon DEF Cast
  <2>6. Port \notin Signed
    BY DEF Port, Signed
  <2>7. UShortSize \in Nat /\ UIntSize \in Nat
    BY UShorts, UInts
  <2> HIDE DEF n, p
  <2>8. f = Port => n = p % UShortSize
    BY <2>5, <2>6
  <2>9. f # Port /\ f \notin Signed => n = p % UIntSize
    BY <2>5
  <2>10. A => p \in Int
    BY <2>1 DEF p
  <2> HIDE DEF A
  <2> QED BY Zenon, <2>2, <2>3, <2>4, <2>8, <2>9, <2>10 DEF A
<1> HIDE DEF n, r, a, b, d, e, g, A, B, t
<1>4. \/ r = cfg
      \/ f \in Texts /\ r = a
      \/ f \in Bools /\ r = b
      \/ f \in Ints /\ A /\ r = d
      \/ f = Proxies /\ r = e
      \/ r = g
  BY <1>2
<1>5. CASE f \in Texts /\ r = a
  BY <1>1, <1>5, SettingsApart DEF Settled, r, a
<1>6. CASE f \in Bools /\ r = b
  BY <1>6, SettingsApart DEF Settled, r, b
<1>7. CASE f \in Ints /\ A /\ r = d
  BY <1>3, <1>7, SettingsApart DEF Settled, r, d, A
<1>8. CASE f = Proxies /\ r = e
  BY <1>8, SettingsApart DEF Settled, r, e
<1>9. CASE r = g
  BY <1>9, SettingsApart DEF Settled, r, g
<1> QED BY <1>4, <1>5, <1>6, <1>7, <1>8, <1>9 DEF r

Good(s) == s = [parser |-> s.parser, cfg |-> s.cfg] /\ Placed(s.parser) /\ Settled(s.cfg)

LEMMA ParseKeeps ==
    ASSUME NEW s, Good(s), NEW c \in Character
    PROVE  Good(Parse(s, c))
<1> DEFINE p == s.parser
           q == CASE p.state = "section" -> InSection(p, c)
                  [] p.state = "key"     -> InKey(p, c)
                  [] p.state = "value"   -> InValue(p, c)
                  [] p.state = "comment" -> InComment(p, c)
           cfg == IF p.state = "value" /\ c = "nl"
                  THEN Callback(s.cfg, q.section, q.key, q.value) ELSE s.cfg
<1>1. Parse(s, c) = [parser |-> q, cfg |-> cfg]
  BY DEF Parse
<1>2. Placed(p) /\ Settled(s.cfg)
  BY DEF Good
<1> HIDE DEF p
<1>3. Placed(q)
  <2>1. p.state \in {"section", "key", "value", "comment"}
    BY <1>2 DEF Placed, Parsers
  <2> QED BY <1>2, <2>1, ParserKeepsPlaces
<1> HIDE DEF q
<1>4. Settled(cfg)
  <2>1. q.value \in Text
    BY <1>3 DEF Placed, Parsers
  <2> QED BY <1>2, <2>1, CallbackSettles
<1> HIDE DEF cfg
<1> QED BY <1>1, <1>3, <1>4 DEF Good

\* The parser goes through a text character by character.
Through(s, t) == FoldLeft(Parse, s, t)

LEMMA ParseGoesThrough ==
    ASSUME NEW t \in Text, NEW s
    PROVE  \E h : /\ h[0] = s /\ Through(s, t) = h[Len(t)]
                  /\ \A k \in 1 .. Len(t) : h[k] = Parse(h[k - 1], t[k])
<1> DEFINE n == Len(t)
           P(it, m) == it = [r \in SUBSET (1 .. m) |->
                    IF r = {} THEN s ELSE Parse(it[r \ {Max(r)}], t[Max(r)])]
           iter == CHOOSE it : P(it, n)
<1>1. n \in Nat /\ DOMAIN t = 1 .. n
  BY DEF Text
<1>2. Through(s, t) = iter[1 .. n]
  BY <1>1 DEF Through, FoldLeft, MapThenFoldSet
<1> HIDE DEF n, iter
<1>3. \E it : P(it, 0)
  <2> DEFINE it == [r \in SUBSET (1 .. 0) |-> s]
  <2>1. \A r \in SUBSET (1 .. 0) : r = {}
    OBVIOUS
  <2>2. P(it, 0)
    BY <2>1
  <2> QED BY <2>2
<1>4. ASSUME NEW m \in Nat, \E it : P(it, m) PROVE \E it : P(it, m + 1)
  <2>1. PICK g : P(g, m)
    BY <1>4
  <2> DEFINE D == SUBSET (1 .. m + 1)
             it == [r \in D |-> IF m + 1 \in r THEN Parse(g[r \ {m + 1}], t[m + 1]) ELSE g[r]]
  <2>2. ASSUME NEW r \in D
        PROVE  it[r] = IF r = {} THEN s ELSE Parse(it[r \ {Max(r)}], t[Max(r)])
    <3>1. CASE m + 1 \in r
      <4>1. Max(r) = m + 1
        <5>1. m + 1 \in Nat /\ r \in SUBSET (1 .. m + 1) /\ r # {}
          BY <3>1
        <5>2. Max(r) \in r /\ \A k \in r : k <= Max(r)
          BY ONLY <5>1, Largest
        <5>3. m + 1 <= Max(r) /\ Max(r) \in 1 .. m + 1
          BY ONLY <3>1, <5>1, <5>2, Zenon
        <5> HIDE DEF D
        <5> QED BY ONLY <5>3, m \in Nat
      <4>2. r \ {m + 1} \in D /\ m + 1 \notin r \ {m + 1}
        OBVIOUS
      <4>3. it[r \ {m + 1}] = g[r \ {m + 1}]
        BY <4>2
      <4> QED BY <3>1, <4>1, <4>3
    <3>2. CASE m + 1 \notin r
      <4>1. r \in SUBSET (1 .. m)
        BY <3>2
      <4>2. g[r] = IF r = {} THEN s ELSE Parse(g[r \ {Max(r)}], t[Max(r)])
        BY <2>1, <4>1
      <4>3. r \ {Max(r)} \in D /\ m + 1 \notin r \ {Max(r)}
        BY <3>2
      <4>4. it[r \ {Max(r)}] = g[r \ {Max(r)}] /\ it[r] = g[r]
        BY <3>2, <4>3
      <4> QED BY <4>2, <4>4
    <3> QED BY <3>1, <3>2
  <2>3. P(it, m + 1)
    BY <2>2
  <2> QED BY <2>3
<1>5. \E it : P(it, n)
  <2> HIDE DEF P
  <2> DEFINE T == {m \in Nat : \E it : P(it, m)}
  <2>1. 0 \in T
    BY <1>3
  <2>2. \A m \in Nat : m \in T => m + 1 \in T
    <3>1. \A m \in Nat : m + 1 \in Nat
      OBVIOUS
    <3> QED BY Zenon, <1>4, <3>1
  <2> HIDE DEF T
  <2>3. n \in T
    BY <1>1, <2>1, <2>2, SetInduction
  <2> QED BY <2>3 DEF T
<1>6. P(iter, n)
  BY <1>5 DEF iter
<1>7. \A r \in SUBSET (1 .. n) :
        iter[r] = IF r = {} THEN s ELSE Parse(iter[r \ {Max(r)}], t[Max(r)])
  BY <1>6
<1> HIDE DEF P
<1> DEFINE h == [k \in 0 .. n |-> iter[1 .. k]]
<1>8. h[0] = s
  <2>1. 1 .. 0 = {} /\ 0 \in 0 .. n
    BY <1>1
  <2> QED BY <1>7, <2>1
<1>9. ASSUME NEW k \in 1 .. n PROVE h[k] = Parse(h[k - 1], t[k])
  <2> DEFINE r == 1 .. k
  <2>1. r \in SUBSET (1 .. n) /\ r # {} /\ k \in r
    <3>1. k \in Nat /\ k >= 1 /\ k <= n
      BY <1>1
    <3>2. \A j \in 1 .. k : j \in 1 .. n
      BY <1>1, <3>1
    <3> QED BY <3>1, <3>2
  <2>2. Max(r) = k
    <3>1. Max(r) \in r /\ \A j \in r : j <= Max(r)
      BY <1>1, <2>1, Largest
    <3> QED BY <2>1, <3>1
  <2>3. r \ {k} = 1 .. k - 1
    OBVIOUS
  <2>4. iter[1 .. k] = Parse(iter[1 .. k - 1], t[k])
    BY <1>7, <2>1, <2>2, <2>3
  <2>5. k \in 0 .. n /\ k - 1 \in 0 .. n
    BY <1>1
  <2> QED BY <2>4, <2>5
<1>10. Through(s, t) = h[n]
  <2>1. n \in 0 .. n
    BY <1>1
  <2> QED BY <1>2, <2>1
<1> HIDE DEF h
<1>11. /\ h[0] = s /\ Through(s, t) = h[Len(t)]
       /\ \A k \in 1 .. Len(t) : h[k] = Parse(h[k - 1], t[k])
  BY <1>8, <1>9, <1>10 DEF n
<1> QED BY ONLY <1>11, Zenon

LEMMA ParseKeepsAll ==
    ASSUME NEW t \in Text, NEW s, Good(s)
    PROVE  Good(Through(s, t))
<1>1. PICK h : /\ h[0] = s /\ Through(s, t) = h[Len(t)]
               /\ \A k \in 1 .. Len(t) : h[k] = Parse(h[k - 1], t[k])
  BY ParseGoesThrough
<1> DEFINE n == Len(t)
           T == {k \in Nat : k <= n => Good(h[k])}
<1>2. n \in Nat /\ \A k \in 1 .. n : t[k] \in Character
  BY DEF Text
<1>3. 0 \in T
  BY <1>1
<1>4. ASSUME NEW k \in Nat, k \in T PROVE k + 1 \in T
  <2> SUFFICES ASSUME k + 1 <= n PROVE Good(h[k + 1])
    OBVIOUS
  <2>1. k + 1 \in 1 .. n /\ (k + 1) - 1 = k /\ k <= n
    BY <1>2
  <2>2. Good(h[k])
    BY <1>4, <2>1
  <2>3. h[k + 1] = Parse(h[k], t[k + 1])
    BY <1>1, <2>1
  <2> QED BY <1>2, <2>1, <2>2, <2>3, ParseKeeps
<1> HIDE DEF T
<1>5. n \in T
  BY <1>2, <1>3, <1>4, SetInduction
<1> QED BY <1>1, <1>2, <1>5 DEF T

LEMMA ShortTexts ==
    ASSUME NEW S
    PROVE  /\ \A a, b \in S : <<a, b>> \in Seq(S)
           /\ \A a, b, c, d \in S : <<a, b, c, d>> \in Seq(S)
           /\ \A a, b, c, d, e \in S : <<a, b, c, d, e>> \in Seq(S)
           /\ \A x, y \in Seq(S) : x \o y \in Seq(S)
           /\ \A x \in Seq(S) : x # << >> => Front(x) \in Seq(S)
<1>1. \A x \in Seq(S) : x # << >> => Front(x) \in Seq(S)
  BY DEF Front
<1> QED BY <1>1

LEMMA LinesAreTexts ==
    ASSUME NEW l \in LineSet
    PROVE  Chars(l) \in Text /\ Front(Chars(l)) \in Text
<1>1. /\ l.says \in {"section", "set", "comment", "word", "nothing"}
      /\ l.says # "nothing" => l.word \in Word
      /\ l.says = "set" => l.value \in Seq(Word \cup (Signs \ {"nl"}))
  BY Zenon, ConfigAssumption
<1>2. /\ "[" \in Character /\ "]" \in Character /\ "=" \in Character /\ "#" \in Character
      /\ " " \in Character /\ "nl" \in Character
      /\ \A w \in Word : w \in Character
  BY Zenon DEF Character, Signs
<1>3. ASSUME NEW t, Chars(l) = t, t \in Text, t # << >> PROVE Chars(l) \in Text /\ Front(Chars(l)) \in Text
  BY Zenon, <1>3, ShortTexts DEF Text
<1>4. CASE l.says = "section"
  <2>1. Chars(l) = <<"[", l.word, "]", "nl">>
    BY <1>4 DEF Chars
  <2>2. <<"[", l.word, "]", "nl">> \in Text
    BY Zenon, <1>1, <1>2, <1>4, ShortTexts DEF Text
  <2>3. <<"[", l.word, "]", "nl">> # << >>
    OBVIOUS
  <2> QED BY Zenon, <1>3, <2>1, <2>2, <2>3
<1>5. CASE l.says = "set"
  <2> DEFINE v == l.value
  <2>1. Chars(l) = <<l.word, " ", "=", " ">> \o v \o <<" ", "nl">>
    BY <1>5 DEF Chars
  <2>2. v \in Text
    <3> DEFINE S == Word \cup (Signs \ {"nl"})
    <3>1. S \subseteq Character
      BY DEF Character
    <3>2. v \in Seq(S)
      BY <1>1, <1>5
    <3> HIDE DEF S, v
    <3>3. \A x \in Seq(S) : x \in Seq(Character)
      <4> DEFINE C == Character
      <4> HIDE DEF C
      <4>1. S \subseteq C
        BY <3>1 DEF C
      <4>2. \A x \in Seq(S) : x \in Seq(C)
        BY <4>1
      <4> QED BY <4>2 DEF C
    <3> QED BY <3>2, <3>3 DEF Text
  <2>3. <<l.word, " ", "=", " ">> \in Text /\ <<" ", "nl">> \in Text
    BY Zenon, <1>1, <1>2, <1>5, ShortTexts DEF Text
  <2> DEFINE a == <<l.word, " ", "=", " ">>
             b == <<" ", "nl">>
  <2>4. Len(b) = 2
    OBVIOUS
  <2> HIDE DEF a, b, v
  <2>5. a \o v \o b \in Text
    BY Zenon, <2>2, <2>3, ShortTexts DEF Text, a, b
  <2>6. a \o v \o b # << >>
    <3> DEFINE C == Character
    <3> HIDE DEF C
    <3>1. \A x, y \in Seq(C) : Len(y) = 2 => x \o y # << >>
      OBVIOUS
    <3>2. a \o v \in Seq(C) /\ b \in Seq(C)
      BY Zenon, <2>2, <2>3, ShortTexts DEF Text, a, b, C
    <3> QED BY <2>4, <3>1, <3>2
  <2> QED BY Zenon, <1>3, <2>1, <2>5, <2>6 DEF a, b
<1>6. CASE l.says = "comment"
  <2>1. Chars(l) = <<"#", l.word, " ", "=", "nl">>
    BY <1>6 DEF Chars
  <2>2. <<"#", l.word, " ", "=", "nl">> \in Text
    BY Zenon, <1>1, <1>2, <1>6, ShortTexts DEF Text
  <2>3. <<"#", l.word, " ", "=", "nl">> # << >>
    OBVIOUS
  <2> QED BY Zenon, <1>3, <2>1, <2>2, <2>3
<1>7. CASE l.says = "word"
  <2>1. Chars(l) = <<l.word, "nl">>
    BY <1>7 DEF Chars
  <2>2. <<l.word, "nl">> \in Text
    BY Zenon, <1>1, <1>2, <1>7, ShortTexts DEF Text
  <2>3. <<l.word, "nl">> # << >>
    OBVIOUS
  <2> QED BY Zenon, <1>3, <2>1, <2>2, <2>3
<1>8. CASE l.says = "nothing"
  <2>1. Chars(l) = <<" ", "nl">>
    BY <1>8 DEF Chars
  <2>2. <<" ", "nl">> \in Text
    BY Zenon, <1>2, ShortTexts DEF Text
  <2>3. <<" ", "nl">> # << >>
    OBVIOUS
  <2> QED BY Zenon, <1>3, <2>1, <2>2, <2>3
<1> QED BY <1>1, <1>4, <1>5, <1>6, <1>7, <1>8

LEMMA ClearedSettled == Settled(Cleared)
<1>1. \A f \in Texts : f \in DOMAIN Cleared /\ Cleared[f] = IF f = Salt THEN << >> ELSE Unset
  BY SettingsApart DEF Cleared
<1>2. \A f \in Ints : f \in DOMAIN Cleared /\ Cleared[f] = 0
  <2>1. \A f \in Ints : f # Salt
    BY SettingsApart
  <2> QED BY <2>1, SettingsApart DEF Cleared
<1>3. << >> \in Text
  BY DEF Text
<1>4. Unset # << >>
  BY Zenon, ConfigAssumption, <1>3 DEF Text
<1>5. Salt \in Texts /\ Port \in Ints
  BY SettingsApart
<1>7. \A f \in Texts : f \in DOMAIN Cleared /\ Cleared[f] \in Text \cup {Unset}
  BY Zenon, <1>1, <1>3
<1>8. Cleared[Salt] # Unset
  BY Zenon, <1>1, <1>4, <1>5
<1>9. Cleared[Port] = 0
  BY <1>2, <1>5
<1>10. \A f \in Ints : f \in DOMAIN Cleared /\ Cleared[f] \in Nat
  BY <1>2
<1> QED BY Zenon, <1>7, <1>8, <1>9, <1>10 DEF Settled

LEMMA DefaultsFit ==
    /\ \A f \in DOMAIN Default : f \in Ints => Default[f] \in Nat \ {0}
    /\ \A f \in Texts : f # Salt => f \in DOMAIN Default /\ Default[f] \in Text
    /\ Port \in DOMAIN Default /\ IsPort(Default[Port])
<1>1. DOMAIN Default = (Texts \ {Salt}) \cup
            {Port, Players, <<"map", "width">>, <<"map", "depth">>, <<"map", "height">>}
  BY DEF Default
<1>2. \A f \in DOMAIN Default :
        Default[f] = IF f \in Texts THEN DefaultText(f) ELSE DefaultInt(f)
  BY DEF Default
<1>3. \A f : DefaultInt(f) \in Nat \ {0}
  BY DEF DefaultInt
<1>4. IsPort(DefaultInt(Port))
  <2>1. DefaultInt(Port) = 25565
    BY DEF DefaultInt
  <2> QED BY SMT, <2>1 DEF IsPort, UShortSize
<1>5. /\ <<"Unnamed server">> \in Text /\ <<"a MotD">> \in Text /\ <<"world">> \in Text
      /\ <<"classic">> \in Text /\ << >> \in Text
  <2>1. /\ "Unnamed server" \in Character /\ "a MotD" \in Character
        /\ "world" \in Character /\ "classic" \in Character
    BY Zenon DEF Character
  <2>2. << >> \in Text /\ \A c \in Character : <<c>> \in Text
    <3> DEFINE S == Character
    <3> HIDE DEF S
    <3>1. << >> \in Seq(S) /\ \A c \in S : <<c>> \in Seq(S)
      OBVIOUS
    <3> QED BY <3>1 DEF S, Text
  <2> QED BY Zenon, <2>1, <2>2
<1>6. ASSUME NEW f \in Texts, f # Salt PROVE DefaultText(f) \in Text
  <2> DEFINE a == <<"server", "name">>
             b == <<"server", "motd">>
             c == <<"map", "name">>
             d == <<"map", "generator">>
             e == <<"map", "image_path">>
             n == <<"Unnamed server">>
             m == <<"a MotD">>
             w == <<"world">>
             g == <<"classic">>
             z == << >>
  <2>1. f \in {a, b, c, d, e}
    BY <1>6 DEF Texts, Salt
  <2>2. DefaultText(f) = CASE f = a -> n [] f = b -> m [] f = c -> w [] f = d -> g [] f = e -> z
    BY Zenon DEF DefaultText
  <2>3. n \in Text /\ m \in Text /\ w \in Text /\ g \in Text /\ z \in Text
    BY <1>5
  <2> HIDE DEF a, b, c, d, e, n, m, w, g, z
  <2> QED BY <2>1, <2>2, <2>3
<1>7. \A f \in Texts : f # Salt => f \in DOMAIN Default /\ Default[f] \in Text
  BY Zenon, <1>1, <1>2, <1>6
<1>8. \A f \in DOMAIN Default : f \in Ints => Default[f] \in Nat \ {0}
  BY Zenon, <1>2, <1>3, SettingsApart
<1>9. Port \in DOMAIN Default /\ Default[Port] = DefaultInt(Port)
  BY Zenon, <1>1, <1>2, SettingsApart
<1> QED BY Zenon, <1>4, <1>7, <1>8, <1>9

\* With the defaults a configuration is one that the server can use.
LEMMA DefaultsDo ==
    ASSUME NEW cfg, Settled(cfg)
    PROVE  /\ IsPort(WithDefaults(cfg)[Port])
           /\ \A f \in DOMAIN Default : f \in Ints => WithDefaults(cfg)[f] > 0
           /\ \A f \in Texts : WithDefaults(cfg)[f] # Unset
<1>1. \A f \in Ints : /\ f \in DOMAIN cfg /\ f \notin Texts
                      /\ f \in DOMAIN Default => cfg[f] \in Nat
  BY SettingsApart DEF Settled
<1>2. \A f \in Texts : f \in DOMAIN cfg /\ cfg[f] \in Text \cup {Unset} /\ f \notin Ints
  BY SettingsApart DEF Settled
<1>3. \A f \in Ints :
        WithDefaults(cfg)[f] = IF f \in DOMAIN Default /\ cfg[f] = 0 THEN Default[f] ELSE cfg[f]
  <2>1. \A f \in Ints : f \in DOMAIN cfg /\ f \notin Texts
    BY Zenon, <1>1
  <2> QED BY <2>1 DEF WithDefaults
<1>4. \A f \in Texts :
        WithDefaults(cfg)[f] = IF f \in DOMAIN Default /\ cfg[f] = Unset THEN Default[f] ELSE cfg[f]
  BY <1>2 DEF WithDefaults
<1>5. Unset \notin Text
  BY Zenon, ConfigAssumption DEF Text
<1>6. \A f \in Texts : WithDefaults(cfg)[f] # Unset
  BY <1>2, <1>4, <1>5, DefaultsFit DEF Settled
<1>7. ASSUME NEW f \in DOMAIN Default, f \in Ints PROVE WithDefaults(cfg)[f] > 0
  <2>1. Default[f] \in Nat \ {0} /\ cfg[f] \in Nat
    BY Zenon, <1>1, <1>7, DefaultsFit
  <2>2. WithDefaults(cfg)[f] = IF cfg[f] = 0 THEN Default[f] ELSE cfg[f]
    BY Zenon, <1>3, <1>7
  <2> QED BY <2>1, <2>2
<1>8. IsPort(WithDefaults(cfg)[Port])
  <2>1. Port \in Ints /\ (cfg[Port] = 0 \/ IsPort(cfg[Port]))
    BY SettingsApart DEF Settled
  <2>2. ~IsPort(0)
    BY DEF IsPort
  <2> QED BY Zenon, <1>3, <2>1, <2>2, DefaultsFit
<1> QED BY Zenon, <1>6, <1>7, <1>8

ConfigInv == (~ready => Good(reader)) /\ Usable

LEMMA FinishDoes ==
    ASSUME NEW s, Good(s), NEW c \in Character, reader' = Finish(s, c), ready' = TRUE
    PROVE  ConfigInv'
<1>1. Good(Parse(s, c))
  BY ParseKeeps
<1> DEFINE r == Parse(s, c)
           cfg == r.cfg
<1>2. Settled(cfg)
  BY <1>1 DEF Good
<1>3. reader'.cfg = WithDefaults(cfg)
  <2>1. r = [parser |-> r.parser, cfg |-> r.cfg]
    BY <1>1 DEF Good
  <2>2. Finish(s, c) = [r EXCEPT !.cfg = WithDefaults(r.cfg)]
    BY DEF Finish
  <2> HIDE DEF r
  <2> QED BY <2>1, <2>2
<1> HIDE DEF cfg
<1> QED BY Zenon, <1>2, <1>3, DefaultsDo DEF ConfigInv, Usable

LEMMA ConfigInvInit == ConfigInit => ConfigInv
<1> SUFFICES ASSUME ConfigInit PROVE ConfigInv
  OBVIOUS
<1>1. PICK junk \in {<< >>, <<"junk">>} : reader = [parser |-> NewParser(junk), cfg |-> Cleared]
  BY Zenon DEF ConfigInit
<1>2. junk \in Text
  <2>1. "junk" \in Character
    BY Zenon DEF Character
  <2>2. << >> \in Text /\ \A c \in Character : <<c>> \in Text
    <3> DEFINE S == Character
    <3> HIDE DEF S
    <3>1. << >> \in Seq(S) /\ \A c \in S : <<c>> \in Seq(S)
      OBVIOUS
    <3> QED BY <3>1 DEF S, Text
  <2> QED BY Zenon, <2>1, <2>2
<1>3. Len(junk) \in Nat
  BY <1>2 DEF Text
<1>4. Placed(NewParser(junk))
  BY <1>2, <1>3 DEF Placed, NewParser, Parsers
<1>5. /\ reader.parser = NewParser(junk) /\ reader.cfg = Cleared
      /\ reader = [parser |-> reader.parser, cfg |-> reader.cfg]
  BY <1>1
<1>6. ready = FALSE
  BY DEF ConfigInit
<1> QED BY Zenon, <1>4, <1>5, <1>6, ClearedSettled DEF ConfigInv, Usable, Good

LEMMA ConfigInvNext == ConfigInv /\ [ConfigNext]_configVars => ConfigInv'
<1> SUFFICES ASSUME ConfigInv, [ConfigNext]_configVars PROVE ConfigInv'
  OBVIOUS
<1>1. {"nl", " ", "#", "junk"} \subseteq Character
  BY Zenon DEF Character, Signs
<1>2. CASE ReadLine
  <2>1. PICK l \in LineSet : reader' = FoldLeft(Parse, reader, Chars(l))
    BY <1>2 DEF ReadLine
  <2>2. ~ready /\ ready' = ready
    BY <1>2 DEF ReadLine
  <2>3. reader' = Through(reader, Chars(l))
    BY <2>1 DEF Through
  <2>4. Good(reader')
    BY Zenon, <2>2, <2>3, LinesAreTexts, ParseKeepsAll DEF ConfigInv
  <2> QED BY Zenon, <2>2, <2>4 DEF ConfigInv, Usable
<1>3. CASE FileEnds
  <2>1. PICK c \in {"nl", " ", "#", "junk"} : reader' = Finish(reader, c)
    BY Zenon, <1>3 DEF FileEnds
  <2>2. ~ready /\ ready' = TRUE
    BY Zenon, <1>3 DEF FileEnds
  <2> QED BY Zenon, <1>1, <2>1, <2>2, FinishDoes DEF ConfigInv
<1>4. CASE FileBreaksOff
  <2>1. PICK l \in LineSet, c \in {"nl", " ", "#", "junk"} :
            reader' = Finish(FoldLeft(Parse, reader, Front(Chars(l))), c)
    BY <1>4 DEF FileBreaksOff
  <2>2. ~ready /\ ready' = TRUE
    BY Zenon, <1>4 DEF FileBreaksOff
  <2> DEFINE s == Through(reader, Front(Chars(l)))
  <2>3. reader' = Finish(s, c)
    BY <2>1 DEF Through
  <2>4. Good(s)
    BY Zenon, <2>2, LinesAreTexts, ParseKeepsAll DEF ConfigInv
  <2> HIDE DEF s
  <2> QED BY Zenon, <1>1, <2>2, <2>3, <2>4, FinishDoes
<1>5. CASE NoFile
  <2>1. reader' = [reader EXCEPT !.cfg = WithDefaults(Cleared)] /\ ready' = TRUE /\ ~ready
    BY Zenon, <1>5 DEF NoFile
  <2>2. reader = [parser |-> reader.parser, cfg |-> reader.cfg]
    BY Zenon, <2>1 DEF ConfigInv, Good
  <2>3. reader'.cfg = WithDefaults(Cleared)
    BY <2>1, <2>2
  <2> QED BY Zenon, <2>1, <2>3, ClearedSettled, DefaultsDo DEF ConfigInv, Usable
<1>6. CASE UNCHANGED configVars
  BY Zenon, <1>6 DEF configVars, ConfigInv, Usable
<1> QED BY Zenon, <1>2, <1>3, <1>4, <1>5, <1>6 DEF ConfigNext

\* config_init: whatever the file says, of whatever words and lines, the port fits its 16
\* bits and is not 0, no number that has a default is 0, and no text is missing.
THEOREM ConfigIsUsable == ConfigSpec => []Usable
<1>1. ConfigInv => Usable
  BY Zenon DEF ConfigInv
<1> QED BY PTL, <1>1, ConfigInvInit, ConfigInvNext DEF ConfigSpec

-----------------------------------------------------------------------------
(* The parser, one character at a time.                                    *)

\* A parser, and what it has set.
Stage(state, section, key, value, sp, kp, vp, cfg) ==
    [parser |-> [state |-> state, section |-> section, key |-> key, value |-> value,
                 sectionp |-> sp, keyp |-> kp, valuep |-> vp],
     cfg |-> cfg]

\* The parser where a line begins, and where its value does.
AtLine(section, key, value, sp, vp, cfg) == Stage("key", section, key, value, sp, 0, vp, cfg)
AtValue(section, key, value, sp, vp, cfg) == Stage("value", section, key, value, sp, 2, vp, cfg)

\* What the parser does with one more character, for each kind of state and character.
LEMMA SectionBegins ==
    ASSUME NEW se, NEW ke, NEW va, NEW sp, NEW vp, NEW cfg
    PROVE  Parse(Stage("key", se, ke, va, sp, 0, vp, cfg), "[")
                = Stage("section", se, ke, va, 0, 0, vp, cfg)
BY DEF Stage, Parse, InKey, Space

LEMMA SectionEnds ==
    ASSUME NEW se, NEW ke, NEW va, NEW sp, NEW kp, NEW vp, NEW cfg
    PROVE  Parse(Stage("section", se, ke, va, sp, kp, vp, cfg), "]")
                = Stage("key", se, ke, va, sp, kp, vp, cfg)
BY DEF Stage, Parse, InSection

LEMMA SectionGrows ==
    ASSUME NEW se, NEW ke, NEW va, NEW sp \in Nat, NEW kp, NEW vp, NEW cfg, NEW c,
           c # "]", sp < ParserSize - 1
    PROVE  Parse(Stage("section", se, ke, va, sp, kp, vp, cfg), c)
                = Stage("section", Append(SubSeq(se, 1, sp), c), ke, va, sp + 1, kp, vp, cfg)
<1> DEFINE p == Stage("section", se, ke, va, sp, kp, vp, cfg).parser
           t == Append(SubSeq(se, 1, sp), c)
<1>1. p.section = se /\ p.sectionp = sp
  BY DEF Stage
<1>2. InSection(p, c) = [p EXCEPT !.section = Append(SubSeq(@, 1, sp), c), !.sectionp = sp + 1]
  <2>1. ~(sp >= ParserSize - 1)
    BY ConfigAssumption
  <2> HIDE DEF p
  <2> QED BY <1>1, <2>1 DEF InSection, Put
<1>3. InSection(p, c) = [p EXCEPT !.section = t, !.sectionp = sp + 1]
  <2> HIDE DEF p
  <2> QED BY <1>1, <1>2
<1> HIDE DEF t
<1>4. InSection(p, c) = Stage("section", t, ke, va, sp + 1, kp, vp, cfg).parser
  BY <1>3 DEF Stage
<1>5. Parse(Stage("section", se, ke, va, sp, kp, vp, cfg), c) = Stage("section", t, ke, va, sp + 1, kp, vp, cfg)
  BY <1>4 DEF Stage, Parse
<1> QED BY <1>5 DEF t

LEMMA SpacesBefore ==
    ASSUME NEW se, NEW ke, NEW va, NEW sp, NEW vp, NEW cfg, NEW c, Space(c)
    PROVE  Parse(Stage("key", se, ke, va, sp, 0, vp, cfg), c)
                = Stage("key", se, ke, va, sp, 0, vp, cfg)
BY DEF Stage, Parse, InKey, Space

LEMMA CommentBegins ==
    ASSUME NEW se, NEW ke, NEW va, NEW sp, NEW vp, NEW cfg
    PROVE  Parse(Stage("key", se, ke, va, sp, 0, vp, cfg), "#")
                = Stage("comment", se, ke, va, sp, 0, vp, cfg)
BY DEF Stage, Parse, InKey, Space

LEMMA CommentGoesOn ==
    ASSUME NEW se, NEW ke, NEW va, NEW sp, NEW kp, NEW vp, NEW cfg, NEW c
    PROVE  Parse(Stage("comment", se, ke, va, sp, kp, vp, cfg), c)
                = Stage(IF c = "nl" THEN "key" ELSE "comment", se, ke, va, sp, kp, vp, cfg)
BY DEF Stage, Parse, InComment

\* A character that is part of a key, if so many of it are there.
IsKey(c, kp) == (kp = 0 => c \notin Signs) /\ c # "="

LEMMA KeyGrows ==
    ASSUME NEW se, NEW ke, NEW va, NEW sp, NEW kp \in Nat, NEW vp, NEW cfg, NEW c,
           IsKey(c, kp), kp < ParserSize - 1
    PROVE  Parse(Stage("key", se, ke, va, sp, kp, vp, cfg), c)
                = Stage("key", se, Append(SubSeq(ke, 1, kp), c), va, sp, kp + 1, vp, cfg)
<1> DEFINE p == Stage("key", se, ke, va, sp, kp, vp, cfg).parser
           t == Append(SubSeq(ke, 1, kp), c)
<1>1. p.key = ke /\ p.keyp = kp
  BY DEF Stage
<1>2. InKey(p, c) = Put(p, "key", "keyp", c)
  <2>1. kp > 0 => kp # 0
    OBVIOUS
  <2>2. kp = 0 => c # "[" /\ ~Space(c) /\ c # "#"
    BY Zenon DEF Signs, Space, IsKey
  <2>3. c # "="
    BY Zenon DEF IsKey
  <2> HIDE DEF p
  <2> QED BY <1>1, <2>1, <2>2, <2>3 DEF InKey
<1>3. Put(p, "key", "keyp", c) = [p EXCEPT !.key = t, !.keyp = kp + 1]
  <2>1. ~(kp >= ParserSize - 1)
    BY ConfigAssumption
  <2> HIDE DEF p
  <2> QED BY <1>1, <2>1 DEF Put
<1> HIDE DEF t
<1>4. InKey(p, c) = Stage("key", se, t, va, sp, kp + 1, vp, cfg).parser
  BY <1>2, <1>3 DEF Stage
<1>5. Parse(Stage("key", se, ke, va, sp, kp, vp, cfg), c) = Stage("key", se, t, va, sp, kp + 1, vp, cfg)
  BY <1>4 DEF Stage, Parse
<1> QED BY <1>5 DEF t

LEMMA ValueBegins ==
    ASSUME NEW se, NEW ke, NEW va, NEW sp, NEW kp \in Nat \ {0}, NEW vp, NEW cfg
    PROVE  Parse(Stage("key", se, ke, va, sp, kp, vp, cfg), "=")
                = Stage("value", se, ke, va, sp, kp, 0, cfg)
<1> DEFINE p == Stage("key", se, ke, va, sp, kp, vp, cfg).parser
<1>1. p.keyp = kp
  BY DEF Stage
<1>2. InKey(p, "=") = [p EXCEPT !.state = "value", !.valuep = 0]
  <2>1. kp > 0 /\ kp # 0
    OBVIOUS
  <2> HIDE DEF p
  <2> QED BY <1>1, <2>1 DEF InKey
<1>3. InKey(p, "=") = Stage("value", se, ke, va, sp, kp, 0, cfg).parser
  BY <1>2 DEF Stage
<1> QED BY <1>3 DEF Stage, Parse

LEMMA SpacesSkipped ==
    ASSUME NEW se, NEW ke, NEW va, NEW sp, NEW kp, NEW cfg
    PROVE  Parse(Stage("value", se, ke, va, sp, kp, 0, cfg), " ")
                = Stage("value", se, ke, va, sp, kp, 0, cfg)
BY DEF Stage, Parse, InValue

\* A character that is part of a value, if so many of it are there.
IsPart(c, vp) == c # "nl" /\ (vp = 0 => c # " ")

LEMMA ValueGrows ==
    ASSUME NEW se, NEW ke, NEW va, NEW sp, NEW kp, NEW vp \in Nat, NEW cfg, NEW c,
           IsPart(c, vp), vp < ParserSize - 1
    PROVE  Parse(Stage("value", se, ke, va, sp, kp, vp, cfg), c)
                = Stage("value", se, ke, Append(SubSeq(va, 1, vp), c), sp, kp, vp + 1, cfg)
<1> DEFINE p == Stage("value", se, ke, va, sp, kp, vp, cfg).parser
           t == Append(SubSeq(va, 1, vp), c)
<1>1. p.value = va /\ p.valuep = vp
  BY DEF Stage
<1>2. InValue(p, c) = Put(p, "value", "valuep", c)
  <2> HIDE DEF p
  <2> QED BY <1>1 DEF InValue, IsPart
<1>3. Put(p, "value", "valuep", c) = [p EXCEPT !.value = t, !.valuep = vp + 1]
  <2>0. ParserSize \in Nat
    BY ConfigAssumption
  <2>1. ~(vp >= ParserSize - 1)
    BY ONLY <2>0, vp \in Nat, vp < ParserSize - 1
  <2> HIDE DEF p
  <2> QED BY <1>1, <2>1 DEF Put
<1> HIDE DEF t
<1>4. InValue(p, c) = Stage("value", se, ke, t, sp, kp, vp + 1, cfg).parser
  BY <1>2, <1>3 DEF Stage
<1>5. Parse(Stage("value", se, ke, va, sp, kp, vp, cfg), c) = Stage("value", se, ke, t, sp, kp, vp + 1, cfg)
  BY <1>4 DEF Stage, Parse, IsPart
<1> QED BY <1>5 DEF t

LEMMA ValueEnds ==
    ASSUME NEW se, NEW ke, NEW va, NEW sp, NEW kp, NEW vp, NEW cfg
    PROVE  Parse(Stage("value", se, ke, va, sp, kp, vp, cfg), "nl")
                = Stage("key", Trim(se), Trim(ke), Trim(va), sp, 0, vp,
                        Callback(cfg, Trim(se), Trim(ke), Trim(va)))
BY DEF Stage, Parse, InValue

LEMMA StageOf ==
    ASSUME NEW s, Good(s)
    PROVE  s = Stage(s.parser.state, s.parser.section, s.parser.key, s.parser.value,
                     s.parser.sectionp, s.parser.keyp, s.parser.valuep, s.cfg)
BY DEF Good, Placed, Parsers, Stage

\* Only the end of a value sets something.
LEMMA ParseSets ==
    ASSUME NEW s, NEW c
    PROVE  ~(s.parser.state = "value" /\ c = "nl") => Parse(s, c).cfg = s.cfg
<1> DEFINE p == s.parser
           q == CASE p.state = "section" -> InSection(p, c)
                  [] p.state = "key"     -> InKey(p, c)
                  [] p.state = "value"   -> InValue(p, c)
                  [] p.state = "comment" -> InComment(p, c)
           cfg == IF p.state = "value" /\ c = "nl"
                  THEN Callback(s.cfg, q.section, q.key, q.value) ELSE s.cfg
<1>1. Parse(s, c) = [parser |-> q, cfg |-> cfg]
  BY DEF Parse
<1> HIDE DEF q
<1>2. ~(s.parser.state = "value" /\ c = "nl") => cfg = s.cfg
  OBVIOUS
<1> HIDE DEF cfg
<1> QED BY <1>1, <1>2

-----------------------------------------------------------------------------
(* What a trimmed text is, and texts that the parser goes through.         *)

\* The first and the last character of a text that is not a space.
Frame(x, i, j) ==
    /\ i \in 1 .. Len(x) /\ j \in i .. Len(x) /\ ~Space(x[i]) /\ ~Space(x[j])
    /\ \A k \in 1 .. Len(x) : k < i \/ k > j => Space(x[k])

LEMMA TrimFrames ==
    ASSUME NEW C, NEW x \in Seq(C), NEW i, NEW j, Frame(x, i, j)
    PROVE  Trim(x) = SubSeq(x, i, j)
<1> DEFINE n == Len(x)
           K == {k \in DOMAIN x : ~Space(x[k])}
<1>1. n \in Nat /\ DOMAIN x = 1 .. n
  OBVIOUS
<1>2. Trim(x) = IF K = {} THEN << >> ELSE SubSeq(x, Min(K), Max(K))
  BY DEF Trim
<1>3. K \in SUBSET (1 .. n) /\ i \in K /\ j \in K /\ \A k \in K : i <= k /\ k <= j
  BY <1>1 DEF Frame
<1> HIDE DEF K
<1> HIDE DEF n
<1>4. Min(K) = i
  <2>1. Min(K) \in K /\ \A k \in K : Min(K) <= k
    BY <1>1, <1>3, FirstOf
  <2>2. Min(K) \in 1 .. n /\ i \in 1 .. n /\ Min(K) <= i /\ i <= Min(K)
    BY ONLY <1>3, <2>1, Zenon
  <2> QED BY ONLY <1>1, <2>2
<1>5. Max(K) = j
  <2>1. Max(K) \in K /\ \A k \in K : k <= Max(K)
    BY <1>1, <1>3, Largest
  <2>2. Max(K) \in 1 .. n /\ j \in 1 .. n /\ Max(K) <= j /\ j <= Max(K)
    BY ONLY <1>3, <2>1, Zenon
  <2> QED BY ONLY <1>1, <2>2
<1> QED BY <1>2, <1>3, <1>4, <1>5

LEMMA FrameExists ==
    ASSUME NEW C, NEW x \in Seq(C), Trim(x) # << >>
    PROVE  \E i, j : Frame(x, i, j)
<1> DEFINE n == Len(x)
           K == {k \in DOMAIN x : ~Space(x[k])}
<1>1. n \in Nat /\ DOMAIN x = 1 .. n
  OBVIOUS
<1>2. K # {} /\ K \in SUBSET (1 .. n)
  BY <1>1 DEF Trim
<1>3. \A k \in 1 .. n : k \in K <=> ~Space(x[k])
  BY <1>1
<1> HIDE DEF K
<1>4. Min(K) \in K /\ \A k \in K : Min(K) <= k
  BY <1>1, <1>2, FirstOf
<1>5. Max(K) \in K /\ \A k \in K : k <= Max(K)
  BY <1>1, <1>2, Largest
<1>6. Frame(x, Min(K), Max(K))
  <2> DEFINE i == Min(K)
             j == Max(K)
  <2>1. i \in 1 .. n /\ j \in 1 .. n /\ i <= j /\ ~Space(x[i]) /\ ~Space(x[j])
    BY ONLY <1>2, <1>3, <1>4, <1>5, Zenon
  <2>2. \A k \in 1 .. n : k \in K => i <= k /\ k <= j
    BY ONLY <1>4, <1>5, Zenon
  <2> HIDE DEF i, j
  <2>3. j \in i .. n
    BY <1>1, <2>1
  <2>4. \A k \in 1 .. n : (k < i \/ k > j) => k \notin K
    BY ONLY <1>1, <2>1, <2>2
  <2>5. \A k \in 1 .. n : k < i \/ k > j => Space(x[k])
    BY ONLY <1>3, <2>4, Zenon
  <2> QED BY Zenon, <2>1, <2>3, <2>5 DEF Frame, i, j
<1> QED BY <1>6

LEMMA TrimWord ==
    ASSUME NEW w, w \notin Signs
    PROVE  Trim(<<w>>) = <<w>> /\ Trim(<<w, " ">>) = <<w>>
<1>1. ~Space(w) /\ Space(" ")
  BY Zenon DEF Signs, Space
<1> DEFINE g == " "
<1> HIDE DEF g
<1>2. Space(g)
  BY <1>1 DEF g
<1> DEFINE x == <<w>>
           y == <<w, g>>
<1>6. Len(x) = 1 /\ x[1] = w /\ Len(y) = 2 /\ y[1] = w /\ y[2] = g
  OBVIOUS
<1>3. Frame(x, 1, 1) /\ Frame(y, 1, 1)
  <2> HIDE DEF x, y
  <2>1. ~Space(x[1]) /\ ~Space(y[1]) /\ Space(y[2])
    BY Zenon, <1>1, <1>2, <1>6
  <2>2. 1 \in 1 .. Len(x) /\ 1 \in 1 .. Len(y) /\ 1 \in 1 .. 1 /\ Len(x) = 1 /\ Len(y) = 2
    BY ONLY <1>6
  <2>3. \A k \in 1 .. Len(x) : ~(k < 1 \/ k > 1)
    BY ONLY <2>2
  <2>4. \A k \in 1 .. Len(y) : (k < 1 \/ k > 1) => k = 2
    BY ONLY <2>2
  <2>5. Frame(x, 1, 1)
    BY ONLY <2>1, <2>2, <2>3 DEF Frame
  <2> QED BY ONLY <2>1, <2>2, <2>4, <2>5 DEF Frame
<1>4. <<w>> \in Seq({w, g}) /\ <<w, g>> \in Seq({w, g})
  OBVIOUS
<1>5. SubSeq(<<w>>, 1, 1) = <<w>> /\ SubSeq(<<w, g>>, 1, 1) = <<w>>
  <2>1. \A q \in Seq({w, g}) : Len(q) >= 1 => SubSeq(q, 1, 1) = <<q[1]>>
    <3> DEFINE S == {w, g}
    <3> HIDE DEF S
    <3>1. ASSUME NEW q \in Seq(S), Len(q) >= 1 PROVE SubSeq(q, 1, 1) = <<q[1]>>
      <4> DEFINE z == SubSeq(q, 1, 1)
      <4>1. z \in Seq(S) /\ Len(z) = 1 /\ z[1] = q[1]
        BY <3>1
      <4> HIDE DEF z
      <4>2. z = <<z[1]>>
        BY ONLY <4>1
      <4> QED BY <4>1, <4>2 DEF z
    <3> QED BY <3>1 DEF S
  <2>2. Len(x) >= 1 /\ Len(y) >= 1
    BY ONLY <1>6
  <2> QED BY ONLY <1>4, <1>6, <2>1, <2>2, Zenon
<1> QED BY Zenon, <1>3, <1>4, <1>5, TrimFrames DEF g

\* A prefix of one sequence and a part of another that hold the same elements.
LEMMA SameParts ==
    ASSUME NEW C, NEW x \in Seq(C), NEW v \in Seq(C), NEW a \in Nat, NEW p \in Nat,
           p <= Len(x), a + p <= Len(v), \A k \in 1 .. p : x[k] = v[a + k]
    PROVE  SubSeq(x, 1, p) = SubSeq(v, a + 1, a + p)
<1> DEFINE r == SubSeq(x, 1, p)
           q == SubSeq(v, a + 1, a + p)
<1>1. r \in Seq(C) /\ Len(r) = p /\ \A k \in 1 .. p : r[k] = x[k]
  OBVIOUS
<1>2. q \in Seq(C) /\ Len(q) = p /\ \A k \in 1 .. p : q[k] = v[a + k]
  OBVIOUS
<1> HIDE DEF r, q
<1>3. \A k \in 1 .. p : r[k] = q[k]
  BY <1>1, <1>2
<1>4. r = q
  BY ONLY <1>1, <1>2, <1>3
<1> QED BY <1>4 DEF r, q

\* A value with its leading spaces left out and one more space behind it.
LEMMA ValueTrims ==
    ASSUME NEW C, NEW v \in Seq(C), Trim(v) # << >>, NEW a \in 0 .. Len(v),
           \A k \in 1 .. a : Space(v[k]), a < Len(v) => ~Space(v[a + 1]),
           NEW g \in C, Space(g)
    PROVE  a < Len(v) /\ Trim(Append(SubSeq(v, a + 1, Len(v)), g)) = Trim(v)
<1> DEFINE n == Len(v)
           x == Append(SubSeq(v, a + 1, n), g)
<1>0. n \in Nat /\ a \in Nat /\ a <= n
  OBVIOUS
<1>1. PICK i, j : Frame(v, i, j)
  BY FrameExists
<1>2. /\ i \in 1 .. n /\ j \in i .. n /\ ~Space(v[i]) /\ ~Space(v[j])
      /\ \A k \in 1 .. n : k < i \/ k > j => Space(v[k])
  BY <1>1 DEF Frame
<1>3. i > a
  BY <1>0, <1>2
<1>4. i = a + 1 /\ a < n
  BY <1>0, <1>2, <1>3
<1>5. /\ x \in Seq(C) /\ Len(x) = n - a + 1
      /\ \A k \in 1 .. n - a : x[k] = v[a + k]
      /\ x[n - a + 1] = g
  BY <1>0, <1>4
<1> HIDE DEF x
<1>6. Frame(x, 1, j - a)
  <2>1. ~Space(x[1]) /\ ~Space(x[j - a])
    <3> HIDE DEF n
    <3>1. 1 \in 1 .. n - a /\ j - a \in 1 .. n - a /\ a + 1 = i /\ a + (j - a) = j
      <4>1. j \in i .. n
        BY ONLY <1>2, Zenon
      <4> QED BY ONLY <1>0, <1>4, <4>1
    <3>2. x[1] = v[i] /\ x[j - a] = v[j]
      BY ONLY <1>5, <3>1, Zenon
    <3> QED BY ONLY <1>2, <3>2, Zenon
  <2>2. ASSUME NEW k \in 1 .. Len(x), k < 1 \/ k > j - a PROVE Space(x[k])
    <3>1. CASE k = n - a + 1
      BY Zenon, <1>5, <3>1
    <3>2. CASE k \in 1 .. n - a
      <4>0. j \in 1 .. n /\ j >= i
        BY <1>0, <1>2
      <4> HIDE DEF n
      <4>1. x[k] = v[a + k]
        BY ONLY <1>5, <3>2, Zenon
      <4>2. a + k \in 1 .. n /\ a + k > j
        BY ONLY <1>0, <1>4, <2>2, <3>2, <4>0
      <4>3. Space(v[a + k])
        BY ONLY <1>2, <4>2, Zenon
      <4> QED BY ONLY <4>1, <4>3
    <3>3. k = n - a + 1 \/ k \in 1 .. n - a
      <4> HIDE DEF n
      <4>1. k \in 1 .. n - a + 1
        BY ONLY <1>5, <2>2, Zenon
      <4> QED BY ONLY <1>0, <1>4, <4>1
    <3> QED BY Zenon, <3>1, <3>2, <3>3
  <2>3. j \in Nat /\ i <= j /\ j <= n
    BY <1>0, <1>2
  <2>4. 1 \in 1 .. Len(x) /\ j - a \in 1 .. Len(x)
    <3> HIDE DEF n
    <3>1. Len(x) = n - a + 1
      BY Zenon, <1>5
    <3> QED BY ONLY <1>0, <1>4, <2>3, <3>1
  <2> QED BY Zenon, <2>1, <2>2, <2>4 DEF Frame
<1>7. Trim(x) = SubSeq(x, 1, j - a) /\ Trim(v) = SubSeq(v, a + 1, j)
  <2>1. Trim(x) = SubSeq(x, 1, j - a)
    <3>1. x \in Seq(C)
      BY ONLY <1>5, Zenon
    <3> QED BY ONLY <1>6, <3>1, TrimFrames, Zenon
  <2>2. Trim(v) = SubSeq(v, i, j)
    BY Zenon, <1>1, TrimFrames
  <2> QED BY Zenon, <1>4, <2>1, <2>2
<1>8. SubSeq(x, 1, j - a) = SubSeq(v, a + 1, j)
  <2>1. j - a \in Nat /\ j - a <= n - a /\ j - a >= 1
    BY <1>0, <1>2, <1>4
  <2>2. \A k \in 1 .. j - a : x[k] = v[a + k]
    BY <1>0, <1>5, <2>1
  <2> DEFINE p == j - a
  <2>3. a + p = j /\ p \in Nat /\ p <= Len(x) /\ a + p <= Len(v)
    BY <1>0, <1>2, <1>4, <1>5, <2>1
  <2> HIDE DEF p
  <2>4. \A k \in 1 .. p : x[k] = v[a + k]
    BY Zenon, <2>2 DEF p
  <2>5. SubSeq(x, 1, p) = SubSeq(v, a + 1, a + p)
    <3>1. a \in Nat /\ x \in Seq(C)
      BY ONLY <1>0, <1>5, Zenon
    <3>2. p \in Nat /\ p <= Len(x) /\ a + p <= Len(v)
      BY ONLY <2>3, Zenon
    <3> QED BY ONLY v \in Seq(C), <2>4, <3>1, <3>2, SameParts, Zenon
  <2> QED BY Zenon, <2>3, <2>5 DEF p
<1> QED BY <1>4, <1>7, <1>8 DEF x

LEMMA ThroughNext ==
    ASSUME NEW t \in Text, NEW c \in Character, NEW s
    PROVE  Through(s, Append(t, c)) = Parse(Through(s, t), c)
<1> DEFINE n == Len(t)
           u == Append(t, c)
<1>1. n \in Nat /\ u \in Text /\ Len(u) = n + 1 /\ u[n + 1] = c /\ \A k \in 1 .. n : u[k] = t[k]
  <2> DEFINE S == Character
  <2> HIDE DEF S
  <2>1. \A y \in Seq(S), x \in S : /\ Append(y, x) \in Seq(S) /\ Len(Append(y, x)) = Len(y) + 1
                                   /\ Append(y, x)[Len(y) + 1] = x /\ Len(y) \in Nat
                                   /\ \A k \in 1 .. Len(y) : Append(y, x)[k] = y[k]
    OBVIOUS
  <2> QED BY Zenon, <2>1 DEF S, Text
<1> HIDE DEF u
<1>2. PICK h : /\ h[0] = s /\ Through(s, t) = h[n]
               /\ \A k \in 1 .. n : h[k] = Parse(h[k - 1], t[k])
  BY ParseGoesThrough
<1>3. PICK g : /\ g[0] = s /\ Through(s, u) = g[n + 1]
               /\ \A k \in 1 .. n + 1 : g[k] = Parse(g[k - 1], u[k])
  BY <1>1, ParseGoesThrough
<1> DEFINE T == {k \in Nat : k <= n => g[k] = h[k]}
<1>4. 0 \in T
  BY <1>2, <1>3
<1>5. ASSUME NEW k \in Nat, k \in T PROVE k + 1 \in T
  <2> SUFFICES ASSUME k + 1 <= n PROVE g[k + 1] = h[k + 1]
    OBVIOUS
  <2>1. k + 1 \in 1 .. n /\ k + 1 \in 1 .. n + 1 /\ (k + 1) - 1 = k /\ k <= n
    BY <1>1
  <2>2. g[k] = h[k]
    BY <1>5, <2>1
  <2> QED BY <1>1, <1>2, <1>3, <2>1, <2>2
<1> HIDE DEF T
<1>6. n \in T
  BY <1>1, <1>4, <1>5, SetInduction
<1>7. g[n] = h[n]
  BY <1>1, <1>6 DEF T
<1>8. n + 1 \in 1 .. n + 1 /\ (n + 1) - 1 = n
  BY <1>1
<1>9. g[n + 1] = Parse(g[n], u[n + 1])
  BY <1>3, <1>8
<1> QED BY Zenon, <1>1, <1>2, <1>3, <1>7, <1>9 DEF u

LEMMA Tuples ==
    ASSUME NEW S, NEW z \in Seq(S)
    PROVE  /\ Len(z) = 0 => z = << >>
           /\ Len(z) = 1 => z = <<z[1]>>
           /\ Len(z) = 2 => z = <<z[1], z[2]>>
           /\ Len(z) = 3 => z = <<z[1], z[2], z[3]>>
           /\ Len(z) = 4 => z = <<z[1], z[2], z[3], z[4]>>
           /\ Len(z) = 5 => z = <<z[1], z[2], z[3], z[4], z[5]>>
<1>0. CASE Len(z) = 0
  BY <1>0
<1>1. CASE Len(z) = 1
  BY <1>1
<1>2. CASE Len(z) = 2
  BY <1>2
<1>3. CASE Len(z) = 3
  BY <1>3
<1>4. CASE Len(z) = 4
  BY <1>4
<1>5. CASE Len(z) = 5
  BY <1>5
<1> QED BY Zenon, <1>0, <1>1, <1>2, <1>3, <1>4, <1>5

LEMMA ThroughNothing == ASSUME NEW s PROVE Through(s, << >>) = s
<1> DEFINE z == << >>
<1>1. z \in Text /\ Len(z) = 0
  <2> DEFINE S == Character
  <2> HIDE DEF S
  <2>1. << >> \in Seq(S) /\ Len(<< >>) = 0
    OBVIOUS
  <2> QED BY <2>1 DEF S, Text
<1> HIDE DEF z
<1>2. z \in Text
  BY <1>1
<1>3. PICK h : /\ h[0] = s /\ Through(s, z) = h[Len(z)]
               /\ \A k \in 1 .. Len(z) : h[k] = Parse(h[k - 1], z[k])
  BY <1>2, ParseGoesThrough
<1> QED BY Zenon, <1>1, <1>3 DEF z

LEMMA ThroughTwo ==
    ASSUME NEW s, NEW a, NEW b,
           NEW t \in Text, t = <<a, b>>
    PROVE  Through(s, t) = Parse(Parse(s, a), b)
<1>2. Len(t) = 2 /\ t[1] = a /\ t[2] = b
  OBVIOUS
<1>3. PICK h : /\ h[0] = s /\ Through(s, t) = h[Len(t)]
               /\ \A k \in 1 .. Len(t) : h[k] = Parse(h[k - 1], t[k])
  BY ONLY t \in Text, ParseGoesThrough
<1>4. h[1] = Parse(h[0], t[1]) /\ h[2] = Parse(h[1], t[2])
  BY ONLY <1>2, <1>3
<1>5. Through(s, t) = h[Len(t)] /\ h[0] = s
  BY <1>3
<1> HIDE <1>3
<1> QED BY <1>2, <1>4, <1>5

LEMMA ThroughFour ==
    ASSUME NEW s, NEW a, NEW b, NEW c, NEW d,
           NEW t \in Text, t = <<a, b, c, d>>
    PROVE  Through(s, t) = Parse(Parse(Parse(Parse(s, a), b), c), d)
<1>2. Len(t) = 4 /\ t[1] = a /\ t[2] = b /\ t[3] = c /\ t[4] = d
  OBVIOUS
<1>3. PICK h : /\ h[0] = s /\ Through(s, t) = h[Len(t)]
               /\ \A k \in 1 .. Len(t) : h[k] = Parse(h[k - 1], t[k])
  BY ONLY t \in Text, ParseGoesThrough
<1>4. /\ h[1] = Parse(h[0], t[1]) /\ h[2] = Parse(h[1], t[2])
      /\ h[3] = Parse(h[2], t[3]) /\ h[4] = Parse(h[3], t[4])
  BY ONLY <1>2, <1>3
<1>5. Through(s, t) = h[Len(t)] /\ h[0] = s
  BY <1>3
<1> HIDE <1>3
<1> QED BY <1>2, <1>4, <1>5

LEMMA ThroughFive ==
    ASSUME NEW s, NEW a, NEW b, NEW c, NEW d, NEW e,
           NEW t \in Text, t = <<a, b, c, d, e>>
    PROVE  Through(s, t) = Parse(Parse(Parse(Parse(Parse(s, a), b), c), d), e)
<1>2. Len(t) = 5 /\ t[1] = a /\ t[2] = b /\ t[3] = c /\ t[4] = d /\ t[5] = e
  OBVIOUS
<1>3. PICK h : /\ h[0] = s /\ Through(s, t) = h[Len(t)]
               /\ \A k \in 1 .. Len(t) : h[k] = Parse(h[k - 1], t[k])
  BY ONLY t \in Text, ParseGoesThrough
<1>4. /\ h[1] = Parse(h[0], t[1]) /\ h[2] = Parse(h[1], t[2]) /\ h[3] = Parse(h[2], t[3])
      /\ h[4] = Parse(h[3], t[4]) /\ h[5] = Parse(h[4], t[5])
  BY ONLY <1>2, <1>3
<1>5. Through(s, t) = h[Len(t)] /\ h[0] = s
  BY <1>3
<1> HIDE <1>3
<1> QED BY <1>2, <1>4, <1>5

-----------------------------------------------------------------------------
(* A section, a comment, a blank line.                                     *)

LEMMA Fresh ==
    ASSUME NEW x \in Text, NEW c \in Character, NEW d \in Character
    PROVE  Append(SubSeq(x, 1, 0), c) = <<c>> /\ Append(SubSeq(<<c>>, 1, 1), d) = <<c, d>>
<1> DEFINE S == Character
<1> HIDE DEF S
<1>1. ASSUME NEW y \in Seq(S), NEW e \in S PROVE Append(SubSeq(y, 1, 0), e) = <<e>>
  <2> DEFINE z == Append(SubSeq(y, 1, 0), e)
  <2>1. z \in Seq(S) /\ Len(z) = 1 /\ z[1] = e
    OBVIOUS
  <2> HIDE DEF z
  <2>2. z = <<z[1]>>
    BY ONLY <2>1, Tuples
  <2> QED BY Zenon, <2>1, <2>2 DEF z
<1>2. ASSUME NEW e \in S, NEW f \in S PROVE Append(SubSeq(<<e>>, 1, 1), f) = <<e, f>>
  <2> DEFINE y == <<e>>
  <2>1. y \in Seq(S) /\ Len(y) = 1 /\ y[1] = e
    OBVIOUS
  <2> HIDE DEF y
  <2> DEFINE z == Append(SubSeq(y, 1, 1), f)
  <2>2. z \in Seq(S) /\ Len(z) = 2 /\ z[1] = e /\ z[2] = f
    BY <2>1
  <2> HIDE DEF z
  <2>3. z = <<z[1], z[2]>>
    BY ONLY <2>2, Tuples
  <2> QED BY Zenon, <2>2, <2>3 DEF y, z
<1> QED BY Zenon, <1>1, <1>2 DEF S, Text

LEMMA SignsAreCharacters == Signs \subseteq Character /\ Word \subseteq Character
BY Zenon DEF Character

LEMMA WordsAreNoSigns ==
    ASSUME NEW w \in Word
    PROVE  w \notin Signs /\ w # "]" /\ w # "nl" /\ w # "="
<1>1. w \notin Signs
  BY Zenon, ConfigAssumption
<1> QED BY Zenon, <1>1 DEF Signs

LEMMA SectionLine ==
    ASSUME NEW l \in LineSet, l.says = "section", ParserSize > 2,
           NEW se \in Text, NEW ke, NEW va, NEW sp, NEW vp, NEW cfg
    PROVE  Through(AtLine(se, ke, va, sp, vp, cfg), Chars(l)) = AtLine(<<l.word>>, ke, va, 1, vp, cfg)
<1> DEFINE w == l.word
           s == Stage("key", se, ke, va, sp, 0, vp, cfg)
<1>1. Chars(l) = <<"[", w, "]", "nl">> /\ w \in Word
  <2>1. Chars(l) = <<"[", w, "]", "nl">>
    BY DEF Chars
  <2>2. w \in Word
    BY Zenon, ConfigAssumption
  <2> QED BY Zenon, <2>1, <2>2
<1> HIDE DEF s, w
<1>2. Through(s, Chars(l)) = Parse(Parse(Parse(Parse(s, "["), w), "]"), "nl")
  <2> DEFINE t == Chars(l)
             a == "["
             c == "]"
             e == "nl"
  <2>1. t \in Text /\ t = <<a, w, c, e>>
    BY Zenon, <1>1, LinesAreTexts
  <2> HIDE DEF t, a, c, e
  <2>2. Through(s, t) = Parse(Parse(Parse(Parse(s, a), w), c), e)
    BY ONLY <2>1, ThroughFour
  <2> QED BY ONLY <2>2 DEF t, a, c, e
<1>5. Parse(s, "[") = Stage("section", se, ke, va, 0, 0, vp, cfg)
  BY SectionBegins DEF s
<1>6. Parse(Stage("section", se, ke, va, 0, 0, vp, cfg), w) = Stage("section", <<w>>, ke, va, 1, 0, vp, cfg)
  <2>1. w # "]" /\ w \in Character
    BY Zenon, <1>1, WordsAreNoSigns, SignsAreCharacters
  <2>2. 0 < ParserSize - 1 /\ 0 \in Nat /\ 0 + 1 = 1
    BY ConfigAssumption
  <2>3. Append(SubSeq(se, 1, 0), w) = <<w>>
    BY Zenon, <2>1, Fresh
  <2> DEFINE q == Parse(Stage("section", se, ke, va, 0, 0, vp, cfg), w)
  <2>4. q = Stage("section", Append(SubSeq(se, 1, 0), w), ke, va, 0 + 1, 0, vp, cfg)
    BY ONLY <2>1, <2>2, SectionGrows, ConfigAssumption
  <2> QED BY Zenon, <2>2, <2>3, <2>4
<1>7. Parse(Stage("section", <<w>>, ke, va, 1, 0, vp, cfg), "]") = Stage("key", <<w>>, ke, va, 1, 0, vp, cfg)
  BY ZenonT(30), SectionEnds
<1>8. Parse(Stage("key", <<w>>, ke, va, 1, 0, vp, cfg), "nl") = Stage("key", <<w>>, ke, va, 1, 0, vp, cfg)
  <2>1. Space("nl")
    BY Zenon DEF Space
  <2> QED BY Zenon, <2>1, SpacesBefore
<1> QED BY Zenon, <1>2, <1>5, <1>6, <1>7, <1>8 DEF s, w, AtLine

LEMMA CommentLine ==
    ASSUME NEW l \in LineSet, l.says = "comment",
           NEW se, NEW ke, NEW va, NEW sp, NEW vp, NEW cfg
    PROVE  Through(AtLine(se, ke, va, sp, vp, cfg), Chars(l)) = AtLine(se, ke, va, sp, vp, cfg)
<1> DEFINE w == l.word
           s == Stage("key", se, ke, va, sp, 0, vp, cfg)
           d == Stage("comment", se, ke, va, sp, 0, vp, cfg)
<1>1. Chars(l) = <<"#", w, " ", "=", "nl">> /\ w \in Word
  <2>1. Chars(l) = <<"#", w, " ", "=", "nl">>
    BY DEF Chars
  <2>2. w \in Word
    BY Zenon, ConfigAssumption
  <2> QED BY Zenon, <2>1, <2>2
<1> HIDE DEF s, w, d
<1>2. Through(s, Chars(l)) = Parse(Parse(Parse(Parse(Parse(s, "#"), w), " "), "="), "nl")
  <2> DEFINE t == Chars(l)
             a == "#"
             c == " "
             e == "="
             g == "nl"
  <2>1. t \in Text /\ t = <<a, w, c, e, g>>
    BY Zenon, <1>1, LinesAreTexts
  <2> HIDE DEF t, a, c, e, g
  <2>2. Through(s, t) = Parse(Parse(Parse(Parse(Parse(s, a), w), c), e), g)
    BY ONLY <2>1, ThroughFive
  <2> QED BY ONLY <2>2 DEF t, a, c, e, g
<1>5. Parse(s, "#") = d
  BY CommentBegins DEF s, d
<1>6. \A c : c # "nl" => Parse(d, c) = d
  BY CommentGoesOn DEF d
<1>7. Parse(d, w) = d /\ Parse(d, " ") = d /\ Parse(d, "=") = d
  <2>1. w # "nl" /\ " " # "nl" /\ "=" # "nl"
    BY Zenon, <1>1, WordsAreNoSigns
  <2> QED BY Zenon, <1>6, <2>1
<1>8. Parse(d, "nl") = s
  BY CommentGoesOn DEF d, s
<1> QED BY Zenon, <1>2, <1>5, <1>7, <1>8 DEF s, AtLine

LEMMA BlankLine ==
    ASSUME NEW l \in LineSet, l.says = "nothing",
           NEW se, NEW ke, NEW va, NEW sp, NEW vp, NEW cfg
    PROVE  Through(AtLine(se, ke, va, sp, vp, cfg), Chars(l)) = AtLine(se, ke, va, sp, vp, cfg)
<1> DEFINE s == Stage("key", se, ke, va, sp, 0, vp, cfg)
<1>1. Chars(l) = <<" ", "nl">>
  BY DEF Chars
<1>2. Through(s, Chars(l)) = Parse(Parse(s, " "), "nl")
  <2> DEFINE t == Chars(l)
             a == " "
             b == "nl"
  <2>1. t \in Text /\ t = <<a, b>>
    BY Zenon, <1>1, LinesAreTexts
  <2> HIDE DEF s, t, a, b
  <2>2. Through(s, t) = Parse(Parse(s, a), b)
    BY ONLY <2>1, ThroughTwo
  <2> QED BY ONLY <2>2 DEF t, a, b
<1>3. Space("nl") /\ Space(" ")
  BY Zenon DEF Space
<1>4. Parse(s, " ") = s /\ Parse(s, "nl") = s
  BY Zenon, <1>3, SpacesBefore
<1> QED BY Zenon, <1>2, <1>4 DEF AtLine

-----------------------------------------------------------------------------
(* A line that sets something.                                             *)

LEMMA TwoJoined ==
    ASSUME NEW S, NEW x \in Seq(S), NEW y \in Seq(S)
    PROVE  /\ x \o y \in Seq(S) /\ Len(x \o y) = Len(x) + Len(y)
           /\ \A k \in 1 .. Len(x) : (x \o y)[k] = x[k]
           /\ \A k \in 1 .. Len(y) : (x \o y)[Len(x) + k] = y[k]
OBVIOUS

LEMMA Joined ==
    ASSUME NEW S, NEW v \in Seq(S), NEW a \in S, NEW b \in S, NEW c \in S, NEW d \in S,
           NEW e \in S, NEW g \in S, NEW t, t = <<a, b, c, d>> \o v \o <<e, g>>
    PROVE  /\ t \in Seq(S) /\ Len(t) = Len(v) + 6
           /\ t[1] = a /\ t[2] = b /\ t[3] = c /\ t[4] = d
           /\ \A k \in 1 .. Len(v) : t[4 + k] = v[k]
           /\ t[Len(v) + 5] = e /\ t[Len(v) + 6] = g
<1> DEFINE x == <<a, b, c, d>>
           z == <<e, g>>
           y == x \o v
<1>1. x \in Seq(S) /\ Len(x) = 4 /\ x[1] = a /\ x[2] = b /\ x[3] = c /\ x[4] = d
  OBVIOUS
<1>2. z \in Seq(S) /\ Len(z) = 2 /\ z[1] = e /\ z[2] = g
  OBVIOUS
<1>3. t = y \o z
  OBVIOUS
<1> HIDE DEF x, z
<1>4. /\ y \in Seq(S) /\ Len(y) = Len(v) + 4
      /\ \A k \in 1 .. 4 : y[k] = x[k]
      /\ \A k \in 1 .. Len(v) : y[4 + k] = v[k]
  <2>1. Len(v) \in Nat /\ Len(v) + 4 = 4 + Len(v)
    OBVIOUS
  <2>2. /\ y \in Seq(S) /\ Len(y) = Len(x) + Len(v)
        /\ \A k \in 1 .. Len(x) : y[k] = x[k]
        /\ \A k \in 1 .. Len(v) : y[Len(x) + k] = v[k]
    <3>1. x \in Seq(S) /\ v \in Seq(S)
      BY <1>1
    <3> QED BY ONLY <3>1, TwoJoined
  <2> HIDE DEF y
  <2> QED BY ONLY <1>1, <2>1, <2>2
<1> HIDE DEF y
<1>5. /\ t \in Seq(S) /\ Len(t) = Len(v) + 6
      /\ \A k \in 1 .. Len(v) + 4 : t[k] = y[k]
      /\ t[Len(v) + 5] = z[1] /\ t[Len(v) + 6] = z[2]
  <2>1. Len(v) \in Nat
    OBVIOUS
  <2>2. /\ y \o z \in Seq(S) /\ Len(y \o z) = Len(y) + Len(z)
        /\ \A k \in 1 .. Len(y) : (y \o z)[k] = y[k]
        /\ \A k \in 1 .. Len(z) : (y \o z)[Len(y) + k] = z[k]
    <3>1. y \in Seq(S) /\ z \in Seq(S)
      BY <1>2, <1>4
    <3> QED BY ONLY <3>1, TwoJoined
  <2>3. 1 \in 1 .. Len(z) /\ 2 \in 1 .. Len(z)
    BY ONLY <1>2
  <2>4. (y \o z)[Len(y) + 1] = z[1] /\ (y \o z)[Len(y) + 2] = z[2]
    BY ONLY <2>2, <2>3
  <2> QED BY ONLY <1>2, <1>3, <1>4, <2>1, <2>2, <2>4
<1>6. t[1] = y[1] /\ t[2] = y[2] /\ t[3] = y[3] /\ t[4] = y[4]
  <2>1. Len(v) \in Nat
    OBVIOUS
  <2> QED BY ONLY <1>5, <2>1
<1>7. y[1] = x[1] /\ y[2] = x[2] /\ y[3] = x[3] /\ y[4] = x[4]
  BY ONLY <1>4
<1>8. ASSUME NEW k \in 1 .. Len(v) PROVE t[4 + k] = v[k]
  <2>1. 4 + k \in 1 .. Len(v) + 4
    OBVIOUS
  <2> QED BY ONLY <1>4, <1>5, <2>1, k \in 1 .. Len(v)
<1> QED BY ONLY <1>1, <1>2, <1>5, <1>6, <1>7, <1>8

LEMMA SetLineIs ==
    ASSUME NEW l \in LineSet, l.says = "set"
    PROVE  LET t == Chars(l)
               v == l.value
           IN  /\ v \in Text /\ l.word \in Word /\ Len(v) \in Nat
               /\ t \in Text /\ Len(t) = Len(v) + 6
               /\ t[1] = l.word /\ t[2] = " " /\ t[3] = "=" /\ t[4] = " "
               /\ \A k \in 1 .. Len(v) : t[4 + k] = v[k] /\ v[k] # "nl"
               /\ t[Len(v) + 5] = " " /\ t[Len(v) + 6] = "nl"
<1> DEFINE t == Chars(l)
           v == l.value
           w == l.word
           V == Word \cup (Signs \ {"nl"})
           C == Character
           b == " "
           c == "="
           g == "nl"
<1>1. t = <<w, b, c, b>> \o v \o <<b, g>>
  BY DEF Chars
<1>2. w \in Word /\ v \in Seq(V)
  BY Zenon, ConfigAssumption
<1>3. /\ w \in C /\ b \in C /\ c \in C /\ g \in C
      /\ V \subseteq C /\ g \notin V
  <2>1. b \in Signs /\ c \in Signs /\ g \in Signs
    BY Zenon DEF Signs
  <2>2. g \notin Word
    BY Zenon, ConfigAssumption, <2>1
  <2> QED BY Zenon, <1>2, <2>1, <2>2, SignsAreCharacters
<1> HIDE DEF t, v, w, V, C, b, c, g
<1>4. v \in Seq(C) /\ Len(v) \in Nat /\ \A k \in 1 .. Len(v) : v[k] # g
  BY ONLY <1>2, <1>3
<1>5. /\ t \in Seq(C) /\ Len(t) = Len(v) + 6
      /\ t[1] = w /\ t[2] = b /\ t[3] = c /\ t[4] = b
      /\ \A k \in 1 .. Len(v) : t[4 + k] = v[k]
      /\ t[Len(v) + 5] = b /\ t[Len(v) + 6] = g
  BY ONLY <1>1, <1>3, <1>4, Joined
<1>6. \A k \in 1 .. Len(v) : t[4 + k] = v[k] /\ v[k] # g
  BY ONLY <1>4, <1>5
<1>7. /\ v \in Text /\ w \in Word /\ Len(v) \in Nat
      /\ t \in Text /\ Len(t) = Len(v) + 6
      /\ t[1] = w /\ t[2] = b /\ t[3] = c /\ t[4] = b
      /\ \A k \in 1 .. Len(v) : t[4 + k] = v[k] /\ v[k] # g
      /\ t[Len(v) + 5] = b /\ t[Len(v) + 6] = g
  BY Zenon, <1>2, <1>4, <1>5, <1>6 DEF Text, C
<1> QED BY ONLY <1>7 DEF t, v, w, b, c, g

\* The parser in the value v of a line, k characters of which it has taken: the
\* first a of them are spaces, the others are in the buffer.
HasTaken(v, k, a, s, se, ke, va, sp, cfg) ==
    /\ a \in 0 .. k /\ \A j \in 1 .. a : Space(v[j])
    /\ a < k => ~Space(v[a + 1])
    /\ s = AtValue(se, ke, IF a = k THEN va ELSE SubSeq(v, a + 1, k), sp, k - a, cfg)

LEMMA ValueGoesOn ==
    ASSUME NEW v \in Text, NEW k \in Nat, k < Len(v), Len(v) + 1 < ParserSize,
           NEW a, NEW s, NEW se, NEW ke, NEW va \in Text, NEW sp, NEW cfg,
           HasTaken(v, k, a, s, se, ke, va, sp, cfg), v[k + 1] # "nl"
    PROVE  \E e : HasTaken(v, k + 1, e, Parse(s, v[k + 1]), se, ke, va, sp, cfg)
<1> DEFINE c == v[k + 1]
           n == Len(v)
           u == IF a = k THEN va ELSE SubSeq(v, a + 1, k)
           r == Parse(s, c)
           C == Character
           kp == 2
<1>0. /\ n \in Nat /\ k + 1 \in 1 .. n /\ c \in C /\ v \in Seq(C) /\ va \in Seq(C)
  BY DEF Text
<1>1. /\ a \in 0 .. k /\ \A j \in 1 .. a : Space(v[j])
      /\ a < k => ~Space(v[a + 1])
      /\ s = Stage("value", se, ke, u, sp, kp, k - a, cfg)
  BY Zenon DEF HasTaken, AtValue
<1>2. Space(c) <=> c = " "
  BY Zenon DEF Space
<1>3. ParserSize \in Nat
  BY Zenon, ConfigAssumption
<1>c. c # "nl"
  OBVIOUS
<1> HIDE DEF c, r, C, kp
<1>4. CASE a = k /\ c = " "
  <2>0. a = k
    BY <1>4
  <2>1. u = va /\ k - a = 0
    <3>1. u = va
      BY <2>0
    <3>2. k - a = 0
      BY ONLY <2>0, k \in Nat
    <3> QED BY ONLY <3>1, <3>2
  <2> HIDE DEF u
  <2>2. s = Stage("value", se, ke, va, sp, kp, 0, cfg)
    BY Zenon, <1>1, <2>1
  <2>3. r = s
    BY Zenon, <1>4, <2>2, SpacesSkipped DEF r
  <2>4. k + 1 \in 0 .. k + 1 /\ ~(k + 1 < k + 1) /\ (k + 1) - (k + 1) = 0
    BY ONLY k \in Nat
  <2>5. \A j \in 1 .. k + 1 : Space(v[j])
    <3>1. \A j \in 1 .. k + 1 : j \in 1 .. a \/ j = k + 1
      BY ONLY <2>0, k \in Nat
    <3> QED BY Zenon, <1>1, <1>2, <1>4, <3>1 DEF c
  <2>6. r = Stage("value", se, ke, IF k + 1 = k + 1 THEN va ELSE SubSeq(v, k + 1 + 1, k + 1), sp, kp,
                  (k + 1) - (k + 1), cfg)
    BY Zenon, <2>2, <2>3, <2>4
  <2>7. HasTaken(v, k + 1, k + 1, r, se, ke, va, sp, cfg)
    BY Zenon, <2>4, <2>5, <2>6 DEF HasTaken, AtValue, kp
  <2> QED BY Zenon, <2>7 DEF r, c
<1>5. CASE ~(a = k /\ c = " ")
  <2>1. /\ k - a \in Nat /\ (k - a) + 1 = (k + 1) - a /\ a \in 0 .. k + 1 /\ a # k + 1 /\ a < k + 1
        /\ k - a < ParserSize - 1
    BY ONLY <1>0, <1>1, <1>3, k \in Nat, Len(v) + 1 < ParserSize
  <2>2. k - a = 0 => c # " "
    <3>1. k - a = 0 => a = k
      BY ONLY <1>1, k \in Nat
    <3> QED BY Zenon, <1>5, <3>1
  <2>3. Append(SubSeq(u, 1, k - a), c) = SubSeq(v, a + 1, k + 1)
    <3>1. CASE a = k
      <4>1. u = va /\ k - a = 0
        BY <1>1, <3>1
      <4>2. Append(SubSeq(va, 1, 0), c) = <<c>>
        BY Zenon, <1>0, Fresh DEF C
      <4>3. SubSeq(v, a + 1, k + 1) = <<c>>
        <5> DEFINE z == SubSeq(v, a + 1, k + 1)
        <5>1. z \in Seq(C) /\ Len(z) = 1 /\ z[1] = c
          BY ONLY <1>0, <3>1, k \in Nat DEF c
        <5> HIDE DEF z
        <5>2. z = <<z[1]>>
          BY ONLY <5>1, Tuples
        <5> QED BY Zenon, <5>1, <5>2 DEF z
      <4> HIDE DEF u
      <4> QED BY Zenon, <4>1, <4>2, <4>3
    <3>2. CASE a # k
      <4>1. u = SubSeq(v, a + 1, k) /\ a \in Nat /\ a < k
        BY <1>1, <3>2
      <4> DEFINE y == SubSeq(v, a + 1, k)
      <4>2. y \in Seq(C) /\ Len(y) = k - a
        BY ONLY <1>0, <4>1, k \in Nat
      <4>3. SubSeq(y, 1, k - a) = y
        BY ONLY <4>2
      <4>4. Append(y, c) = SubSeq(v, a + 1, k + 1)
        BY ONLY <1>0, <4>1, k \in Nat DEF c
      <4> HIDE DEF y, u
      <4> QED BY Zenon, <4>1, <4>3, <4>4 DEF y
    <3> QED BY <3>1, <3>2
  <2>4. r = Stage("value", se, ke, Append(SubSeq(u, 1, k - a), c), sp, kp, (k - a) + 1, cfg)
    <3> DEFINE p == k - a
    <3> HIDE DEF u, p
    <3>1. p \in Nat /\ p < ParserSize - 1
      BY Zenon, <2>1 DEF p
    <3>2. p = 0 => c # " "
      BY Zenon, <2>2 DEF p
    <3>3. Parse(Stage("value", se, ke, u, sp, kp, p, cfg), c)
             = Stage("value", se, ke, Append(SubSeq(u, 1, p), c), sp, kp, p + 1, cfg)
      <4>1. IsPart(c, p)
        BY Zenon, <1>c, <3>2 DEF IsPart
      <4> QED BY ONLY <3>1, <4>1, ValueGrows
    <3> QED BY Zenon, <1>1, <3>3 DEF r, p
  <2>5. ~Space(v[a + 1])
    <3>1. CASE a = k
      BY Zenon, <1>2, <1>5, <3>1 DEF c
    <3>2. CASE a < k
      BY Zenon, <1>1, <3>2
    <3>3. a = k \/ a < k
      BY ONLY <2>1, k \in Nat, <1>1
    <3> QED BY <3>1, <3>2, <3>3
  <2>6. r = Stage("value", se, ke, IF a = k + 1 THEN va ELSE SubSeq(v, a + 1, k + 1), sp, kp,
                  (k + 1) - a, cfg)
    <3> HIDE DEF u
    <3> QED BY Zenon, <2>1, <2>3, <2>4
  <2>7. HasTaken(v, k + 1, a, r, se, ke, va, sp, cfg)
    BY Zenon, <1>1, <2>1, <2>5, <2>6 DEF HasTaken, AtValue, kp
  <2> QED BY Zenon, <2>7 DEF r, c
<1> QED BY Zenon, <1>4, <1>5

\* A key with a space behind it, the key of a line up to its value, and the end of a line.
Spaced(w)    == <<w, " ">>
WithKey(s, w) == Parse(Parse(Parse(Parse(s, w), " "), "="), " ")
WithEnd(s)   == Parse(Parse(s, " "), "nl")

LEMMA KeyIsTaken ==
    ASSUME NEW w \in Word, ParserSize > 2, NEW se, NEW ke \in Text, NEW va, NEW sp, NEW vp, NEW cfg
    PROVE  WithKey(AtLine(se, ke, va, sp, vp, cfg), w) = AtValue(se, Spaced(w), va, sp, 0, cfg)
<1> DEFINE s == Stage("key", se, ke, va, sp, 0, vp, cfg)
           s1 == Stage("key", se, <<w>>, va, sp, 1, vp, cfg)
           s2 == Stage("key", se, <<w, " ">>, va, sp, 2, vp, cfg)
           s3 == Stage("value", se, <<w, " ">>, va, sp, 2, 0, cfg)
<1>1. w \in Character /\ " " \in Character /\ w \notin Signs /\ w # "="
  BY Zenon, WordsAreNoSigns, SignsAreCharacters DEF Signs
<1>2. Append(SubSeq(ke, 1, 0), w) = <<w>> /\ Append(SubSeq(<<w>>, 1, 1), " ") = <<w, " ">>
  BY Zenon, <1>1, Fresh
<1>3. ParserSize \in Nat
  BY Zenon, ConfigAssumption
<1>4. Parse(s, w) = s1
  <2> DEFINE k == 0
  <2>1. k \in Nat /\ k < ParserSize - 1 /\ k + 1 = 1
    BY ONLY <1>3, ParserSize > 2
  <2>2. IsKey(w, k)
    BY Zenon, <1>1 DEF IsKey
  <2> HIDE DEF k
  <2>3. Parse(Stage("key", se, ke, va, sp, k, vp, cfg), w)
            = Stage("key", se, Append(SubSeq(ke, 1, k), w), va, sp, k + 1, vp, cfg)
    BY ONLY <2>1, <2>2, KeyGrows
  <2> QED BY Zenon, <1>2, <2>1, <2>3 DEF k
<1>5. Parse(s1, " ") = s2
  <2> DEFINE k == 1
             g == " "
  <2>1. k \in Nat /\ k < ParserSize - 1 /\ k + 1 = 2
    BY ONLY <1>3, ParserSize > 2
  <2>2. IsKey(g, k)
    <3>1. k # 0
      OBVIOUS
    <3>2. g # "="
      OBVIOUS
    <3> HIDE DEF k, g
    <3> QED BY Zenon, <3>1, <3>2 DEF IsKey
  <2> HIDE DEF k, g
  <2>3. Parse(Stage("key", se, <<w>>, va, sp, k, vp, cfg), g)
            = Stage("key", se, Append(SubSeq(<<w>>, 1, k), g), va, sp, k + 1, vp, cfg)
    BY ONLY <2>1, <2>2, KeyGrows
  <2> QED BY Zenon, <1>2, <2>1, <2>3 DEF k, g
<1>6. Parse(s2, "=") = s3
  <2> DEFINE k == 2
  <2>1. k \in Nat \ {0}
    OBVIOUS
  <2> DEFINE kb == <<w, " ">>
  <2> HIDE DEF k, kb
  <2>2. Parse(Stage("key", se, kb, va, sp, k, vp, cfg), "=") = Stage("value", se, kb, va, sp, k, 0, cfg)
    BY ONLY <2>1, ValueBegins
  <2> QED BY Zenon, <2>2 DEF k, kb
<1>7. Parse(s3, " ") = s3
  BY Zenon, SpacesSkipped
<1> HIDE DEF s, s1, s2, s3
<1>8. Parse(Parse(Parse(Parse(s, w), " "), "="), " ") = s3
  BY Zenon, <1>4, <1>5, <1>6, <1>7
<1> QED BY Zenon, <1>8 DEF s, s3, WithKey, AtLine, AtValue, Spaced

\* The end of a line, behind its value.
LEMMA ValueIsTaken ==
    ASSUME NEW v \in Text, Trim(v) # << >>, Len(v) + 1 < ParserSize,
           NEW a, NEW s, NEW se, NEW ke, NEW va, NEW sp, NEW cfg,
           HasTaken(v, Len(v), a, s, se, ke, va, sp, cfg)
    PROVE  \E vp : WithEnd(s) = AtLine(Trim(se), Trim(ke), Trim(v), sp, vp,
                                      Callback(cfg, Trim(se), Trim(ke), Trim(v)))
<1> DEFINE n == Len(v)
           C == Character
           g == " "
           u == SubSeq(v, a + 1, n)
           x == Append(u, g)
           p == n - a
           kp == 2
<1>1. /\ a \in 0 .. n /\ \A j \in 1 .. a : Space(v[j])
      /\ a < n => ~Space(v[a + 1])
      /\ s = Stage("value", se, ke, IF a = n THEN va ELSE u, sp, kp, n - a, cfg)
  BY Zenon DEF HasTaken, AtValue
<1>2. v \in Seq(C) /\ n \in Nat
  BY DEF Text
<1>3. g \in C /\ Space(g)
  BY Zenon, SignsAreCharacters DEF Signs, Space
<1>4. a < n /\ Trim(x) = Trim(v)
  <2> HIDE DEF C, g
  <2> QED BY ONLY <1>1, <1>2, <1>3, Trim(v) # << >>, ValueTrims
<1>5. ParserSize \in Nat
  BY Zenon, ConfigAssumption
<1>6. p \in Nat /\ p # 0 /\ p < ParserSize - 1 /\ a # n
  <2>1. a \in 0 .. n /\ a < n
    BY Zenon, <1>1, <1>4
  <2> QED BY ONLY <1>2, <1>5, <2>1, Len(v) + 1 < ParserSize
<1>7. SubSeq(u, 1, p) = u
  <2> HIDE DEF C
  <2>0. a \in 0 .. n /\ a < n
    BY Zenon, <1>1, <1>4
  <2>1. a \in Nat /\ a < n
    BY ONLY <1>2, <2>0
  <2>2. u \in Seq(C) /\ Len(u) = p
    BY ONLY <1>2, <2>1
  <2> HIDE DEF u, p
  <2> QED BY ONLY <2>2
<1>8. IsPart(g, p)
  BY Zenon, <1>6 DEF IsPart
<1> HIDE DEF n, C, g, u, p, kp
<1>9. s = Stage("value", se, ke, u, sp, kp, p, cfg)
  BY Zenon, <1>1, <1>6 DEF p
<1>10. Parse(Stage("value", se, ke, u, sp, kp, p, cfg), g)
            = Stage("value", se, ke, Append(SubSeq(u, 1, p), g), sp, kp, p + 1, cfg)
  BY ONLY <1>6, <1>8, ValueGrows
<1>11. Parse(s, g) = Stage("value", se, ke, x, sp, kp, p + 1, cfg)
  BY Zenon, <1>7, <1>9, <1>10
<1> DEFINE q == p + 1
<1> HIDE DEF x, q
<1>12. Parse(Parse(s, g), "nl") = Stage("key", Trim(se), Trim(ke), Trim(x), sp, 0, q,
                            Callback(cfg, Trim(se), Trim(ke), Trim(x)))
  <2>1. Parse(s, g) = Stage("value", se, ke, x, sp, kp, q, cfg)
    BY Zenon, <1>11 DEF q
  <2>2. Parse(Stage("value", se, ke, x, sp, kp, q, cfg), "nl")
            = Stage("key", Trim(se), Trim(ke), Trim(x), sp, 0, q,
                    Callback(cfg, Trim(se), Trim(ke), Trim(x)))
    BY ONLY ValueEnds
  <2> QED BY Zenon, <2>1, <2>2
<1> QED BY Zenon, <1>4, <1>12 DEF g, WithEnd, AtLine

SetDone(l, se, ke, va, sp, vp, cfg) ==
    \E p : Through(AtLine(se, ke, va, sp, vp, cfg), Chars(l))
            = AtLine(Trim(se), <<l.word>>, Trim(l.value), sp, p,
                     Callback(cfg, Trim(se), <<l.word>>, Trim(l.value)))

LEMMA SetLine ==
    ASSUME NEW l \in LineSet, l.says = "set", ParserSize > 2,
           Trim(l.value) # << >>, Len(l.value) + 1 < ParserSize,
           NEW se, NEW ke \in Text, NEW va \in Text, NEW sp, NEW vp, NEW cfg
    PROVE  SetDone(l, se, ke, va, sp, vp, cfg)
<1> DEFINE t == Chars(l)
           v == l.value
           w == l.word
           n == Len(v)
           s == AtLine(se, ke, va, sp, vp, cfg)
           kb == Spaced(w)
<1>1. /\ v \in Text /\ w \in Word /\ n \in Nat /\ t \in Text /\ Len(t) = n + 6
      /\ t[1] = w /\ t[2] = " " /\ t[3] = "=" /\ t[4] = " "
      /\ \A k \in 1 .. n : t[4 + k] = v[k] /\ v[k] # "nl"
      /\ t[n + 5] = " " /\ t[n + 6] = "nl"
  BY Zenon, SetLineIs
<1> HIDE DEF t, v, w, n, s
<1>2. n \in Nat /\ t \in Text /\ Len(t) = n + 6
  BY Zenon, <1>1
<1>3. PICK h : /\ h[0] = s /\ Through(s, t) = h[Len(t)]
               /\ \A k \in 1 .. Len(t) : h[k] = Parse(h[k - 1], t[k])
  <2>1. t \in Text
    BY <1>2
  <2> QED BY ONLY <2>1, ParseGoesThrough
<1>4. /\ h[0] = s /\ Through(s, t) = h[n + 6]
      /\ h[1] = Parse(h[0], t[1]) /\ h[2] = Parse(h[1], t[2])
      /\ h[3] = Parse(h[2], t[3]) /\ h[4] = Parse(h[3], t[4])
      /\ h[n + 5] = Parse(h[n + 4], t[n + 5]) /\ h[n + 6] = Parse(h[n + 5], t[n + 6])
      /\ \A k \in 1 .. n : h[4 + k] = Parse(h[3 + k], t[4 + k])
  <2>1. \A k \in 1 .. n + 6 : h[k] = Parse(h[k - 1], t[k])
    BY ONLY <1>2, <1>3
  <2>2. /\ h[1] = Parse(h[0], t[1]) /\ h[2] = Parse(h[1], t[2])
        /\ h[3] = Parse(h[2], t[3]) /\ h[4] = Parse(h[3], t[4])
    BY ONLY <1>2, <2>1
  <2>3. h[n + 5] = Parse(h[n + 4], t[n + 5]) /\ h[n + 6] = Parse(h[n + 5], t[n + 6])
    <3>1. n + 5 \in 1 .. n + 6 /\ n + 6 \in 1 .. n + 6 /\ (n + 5) - 1 = n + 4 /\ (n + 6) - 1 = n + 5
      BY ONLY <1>2
    <3> QED BY ONLY <2>1, <3>1
  <2>4. ASSUME NEW k \in 1 .. n PROVE h[4 + k] = Parse(h[3 + k], t[4 + k])
    <3>1. 4 + k \in 1 .. n + 6 /\ (4 + k) - 1 = 3 + k
      BY ONLY <1>2, k \in 1 .. n
    <3> QED BY ONLY <2>1, <3>1
  <2> QED BY ONLY <1>2, <1>3, <2>2, <2>3, <2>4
<1>5. h[4] = AtValue(se, kb, va, sp, 0, cfg)
  <2>1. h[4] = WithKey(s, w)
    BY ZenonT(30), <1>1, <1>4 DEF WithKey
  <2>2. w \in Word /\ ke \in Text
    BY Zenon, <1>1
  <2>3. WithKey(s, w) = AtValue(se, kb, va, sp, 0, cfg)
    BY ONLY <2>2, ParserSize > 2, KeyIsTaken DEF s, kb
  <2> QED BY Zenon, <2>1, <2>3
<1> HIDE DEF kb
<1> DEFINE Q(k) == \E a : HasTaken(v, k, a, h[4 + k], se, kb, va, sp, cfg)
           T == {k \in Nat : k <= n => Q(k)}
<1>6. 0 \in T
  <2>1. 0 \in 0 .. 0 /\ ~(0 < 0) /\ 0 - 0 = 0 /\ 4 + 0 = 4 /\ \A j \in 1 .. 0 : FALSE
    OBVIOUS
  <2>2. HasTaken(v, 0, 0, h[4 + 0], se, kb, va, sp, cfg)
    BY Zenon, <1>5, <2>1 DEF HasTaken
  <2>3. Q(0)
    BY Zenon, <2>2
  <2> HIDE DEF Q
  <2> QED BY <2>3
<1>7. ASSUME NEW k \in Nat, k \in T PROVE k + 1 \in T
  <2> SUFFICES ASSUME k + 1 <= n PROVE Q(k + 1)
    <3> HIDE DEF Q
    <3> QED OBVIOUS
  <2>1. k < n /\ k <= n /\ k + 1 \in 1 .. n /\ 3 + (k + 1) = 4 + k
    BY ONLY <1>2, k \in Nat, k + 1 <= n
  <2>2. Q(k)
    <3> HIDE DEF Q
    <3> QED BY <1>7, <2>1
  <2>3. PICK a : HasTaken(v, k, a, h[4 + k], se, kb, va, sp, cfg)
    BY Zenon, <2>2
  <2>4. v[k + 1] # "nl" /\ h[4 + (k + 1)] = Parse(h[4 + k], v[k + 1])
    BY Zenon, <1>1, <1>4, <2>1
  <2>5. n + 1 < ParserSize
    BY Zenon DEF n, v
  <2>6. \E e : HasTaken(v, k + 1, e, Parse(h[4 + k], v[k + 1]), se, kb, va, sp, cfg)
    <3>1. k < Len(v) /\ Len(v) + 1 < ParserSize
      BY Zenon, <2>1, <2>5 DEF n
    <3> QED BY Zenon, <1>1, <2>3, <2>4, <3>1, ValueGoesOn
  <2> QED BY Zenon, <2>4, <2>6
<1>8. Q(n)
  <2> HIDE DEF Q
  <2>1. n \in T
    <3> HIDE DEF T
    <3> QED BY <1>2, <1>6, <1>7, SetInduction
  <2> QED BY <1>2, <2>1
<1>9. PICK a : HasTaken(v, n, a, h[4 + n], se, kb, va, sp, cfg)
  BY Zenon, <1>8
<1>10. Trim(v) # << >> /\ Len(v) + 1 < ParserSize
  BY Zenon DEF v
<1>11. PICK p : WithEnd(h[4 + n]) = AtLine(Trim(se), Trim(kb), Trim(v), sp, p,
                                          Callback(cfg, Trim(se), Trim(kb), Trim(v)))
  <2> DEFINE b == h[4 + n]
  <2>1. v \in Text /\ HasTaken(v, Len(v), a, b, se, kb, va, sp, cfg)
    BY Zenon, <1>1, <1>9 DEF n
  <2> HIDE DEF b
  <2>2. \E p : WithEnd(b) = AtLine(Trim(se), Trim(kb), Trim(v), sp, p,
                                  Callback(cfg, Trim(se), Trim(kb), Trim(v)))
    BY ONLY <1>10, <2>1, ValueIsTaken
  <2> QED BY Zenon, <2>2 DEF b
<1>12. Trim(kb) = <<w>>
  BY Zenon, <1>1, TrimWord, WordsAreNoSigns DEF kb, Spaced
<1>13. n + 4 = 4 + n
  BY ONLY <1>2
<1>14. Through(s, t) = WithEnd(h[4 + n])
  BY Zenon, <1>1, <1>4, <1>13 DEF WithEnd
<1> QED BY Zenon, <1>11, <1>12, <1>14 DEF SetDone, s, t, v, w

-----------------------------------------------------------------------------
(* The lines of a file.                                                    *)

LEMMA LeastIs ==
    ASSUME NEW n \in Nat, NEW K \in SUBSET (1 .. n), NEW x \in K, \A k \in K : x <= k
    PROVE  Min(K) = x
<1>1. Min(K) \in K /\ \A k \in K : Min(K) <= k
  BY FirstOf
<1>2. Min(K) \in 1 .. n /\ x \in 1 .. n /\ Min(K) <= x /\ x <= Min(K)
  BY Zenon, <1>1
<1> QED BY ONLY <1>2, n \in Nat

LEMMA LargestIs ==
    ASSUME NEW n \in Nat, NEW K \in SUBSET (1 .. n), NEW x \in K, \A k \in K : k <= x
    PROVE  Max(K) = x
<1>1. Max(K) \in K /\ \A k \in K : k <= Max(K)
  BY Largest
<1>2. Max(K) \in 1 .. n /\ x \in 1 .. n /\ Max(K) <= x /\ x <= Max(K)
  BY Zenon, <1>1
<1> QED BY ONLY <1>2, n \in Nat

\* The file t, line by line: as ProperFile, SectionAt, SetLines and Meant say of `file`.
SectionsTo(t, k) == {j \in 1 .. k : t[j].says = "section"}
SectionIn(t, k)  == t[Max(SectionsTo(t, k))].word
ValueIn(t, k)    == Trim(t[k].value)

Proper(t) ==
    /\ \A k \in DOMAIN t :
        /\ t[k].says # "word"
        /\ t[k].says = "set" =>
            /\ ValueIn(t, k) # << >> /\ Len(t[k].value) + 1 < ParserSize
            /\ SectionsTo(t, k) # {}
    /\ ParserSize > 2

Sets(t, k, f)  == t[k].says = "set" /\ <<SectionIn(t, k), t[k].word>> = f
LinesFor(t, f) == {k \in DOMAIN t : Sets(t, k, f)}

\* What the file u, which is t and one more line, has in common with t.
OneLonger(t, l, u) ==
    LET n == Len(t) IN
    /\ n \in Nat /\ u \in Seq(LineSet) /\ Len(u) = n + 1 /\ u[n + 1] = l
    /\ DOMAIN t = 1 .. n /\ DOMAIN u = 1 .. n + 1
    /\ \A k \in 1 .. n : u[k] = t[k]
    /\ Proper(t)
    /\ l.says = "section" => SectionsTo(u, n + 1) # {} /\ SectionIn(u, n + 1) = l.word
    /\ l.says # "section" => /\ SectionsTo(u, n + 1) = SectionsTo(t, n)
                             /\ SectionsTo(t, n) # {} => SectionIn(u, n + 1) = SectionIn(t, n)
    /\ \A k \in 1 .. n : \A f : Sets(u, k, f) <=> Sets(t, k, f)

LEMMA LineAdds ==
    ASSUME NEW t \in Seq(LineSet), NEW l \in LineSet, NEW u, u = Append(t, l), Proper(u)
    PROVE  OneLonger(t, l, u)
<1> DEFINE n == Len(t)
           N == 1 .. n
           S(x) == x.says = "section"
<1>1. /\ n \in Nat /\ u \in Seq(LineSet) /\ Len(u) = n + 1 /\ u[n + 1] = l
      /\ DOMAIN t = 1 .. n /\ DOMAIN u = 1 .. n + 1
      /\ \A k \in 1 .. n : u[k] = t[k]
  OBVIOUS
<1> HIDE DEF n
<1>2. \A k \in 1 .. n : \A j \in 1 .. k : j \in 1 .. n
  BY ONLY <1>1
<1>3. \A k \in 1 .. n : SectionsTo(u, k) = SectionsTo(t, k)
  <2>1. ASSUME NEW k \in 1 .. n
        PROVE  {j \in 1 .. k : u[j].says = "section"} = {j \in 1 .. k : t[j].says = "section"}
    BY Zenon, <1>1, <1>2
  <2> QED BY Zenon, <2>1 DEF SectionsTo
<1>4. \A k \in Nat : k <= n => (SectionsTo(t, k) # {} => Max(SectionsTo(t, k)) \in 1 .. n)
  <2> SUFFICES ASSUME NEW k \in Nat, k <= n, SectionsTo(t, k) # {} PROVE Max(SectionsTo(t, k)) \in 1 .. n
    BY Zenon
  <2>1. SectionsTo(t, k) \in SUBSET (1 .. k)
    BY Zenon DEF SectionsTo
  <2>2. Max(SectionsTo(t, k)) \in 1 .. k
    BY Zenon, <2>1, Largest
  <2> QED BY ONLY <1>1, <2>2, k \in Nat, k <= n
<1>5. \A k \in 1 .. n : k \in Nat /\ k <= n /\ k \in 1 .. n + 1
  BY ONLY <1>1
<1>6. ASSUME NEW k \in 1 .. n, SectionsTo(t, k) # {} PROVE SectionIn(u, k) = SectionIn(t, k)
  BY Zenon, <1>1, <1>3, <1>4, <1>5, <1>6 DEF SectionIn
<1>7. ASSUME NEW k \in 1 .. n, t[k].says = "set" PROVE SectionsTo(t, k) # {}
  BY Zenon, <1>1, <1>3, <1>5, <1>7 DEF Proper
<1>8. Proper(t)
  <2>1. ParserSize > 2
    BY Zenon DEF Proper
  <2>2. \A k \in 1 .. n : u[k] = t[k] /\ ValueIn(u, k) = ValueIn(t, k) /\ SectionsTo(u, k) = SectionsTo(t, k)
    BY Zenon, <1>1, <1>3 DEF ValueIn
  <2>3. ASSUME NEW k \in 1 .. n
        PROVE  /\ t[k].says # "word"
               /\ t[k].says = "set" => ValueIn(t, k) # << >> /\ Len(t[k].value) + 1 < ParserSize
                                       /\ SectionsTo(t, k) # {}
    BY Zenon, <1>1, <1>5, <2>2 DEF Proper
  <2> QED BY Zenon, <1>1, <2>1, <2>3 DEF Proper
<1>9. ASSUME l.says = "section"
      PROVE  SectionsTo(u, n + 1) # {} /\ SectionIn(u, n + 1) = l.word
  <2> DEFINE K == SectionsTo(u, n + 1)
  <2>1. n + 1 \in Nat /\ n + 1 \in 1 .. n + 1
    BY ONLY <1>1
  <2>2. K \in SUBSET (1 .. n + 1) /\ n + 1 \in K
    BY Zenon, <1>1, <1>9, <2>1 DEF SectionsTo
  <2>3. \A k \in K : k <= n + 1
    <3> HIDE DEF K
    <3> QED BY ONLY <1>1, <2>2
  <2> HIDE DEF K
  <2>4. Max(K) = n + 1
    BY ONLY <2>1, <2>2, <2>3, LargestIs
  <2> QED BY Zenon, <1>1, <2>2, <2>4 DEF K, SectionIn
<1>10. ASSUME l.says # "section" PROVE SectionsTo(u, n + 1) = SectionsTo(t, n)
  <2>1. \A k \in 1 .. n + 1 : k \in 1 .. n \/ k = n + 1
    BY ONLY <1>1
  <2> QED BY Zenon, <1>1, <1>5, <1>10, <2>1 DEF SectionsTo
<1>11. ASSUME l.says # "section", SectionsTo(t, n) # {} PROVE SectionIn(u, n + 1) = SectionIn(t, n)
  <2>1. n \in Nat /\ n <= n
    BY ONLY <1>1
  <2> QED BY Zenon, <1>1, <1>4, <1>10, <1>11, <2>1 DEF SectionIn
<1>12. ASSUME NEW k \in 1 .. n, NEW f PROVE Sets(u, k, f) <=> Sets(t, k, f)
  BY Zenon, <1>1, <1>6, <1>7 DEF Sets
<1> QED BY Zenon, <1>1, <1>8, <1>9, <1>10, <1>11, <1>12 DEF n, OneLonger

-----------------------------------------------------------------------------
(* cfg_callback, and what the lines of a file say.                         *)

\* The settings that a file sets one by one, what a line gives one of them, if it counts,
\* and the values that are colours.
Told == Texts \cup Bools \cup Ints \cup {Proxies}

Given(f, v) == CASE f \in Texts -> Copied(f, v)
                 [] f \in Bools -> v = <<"true">>
                 [] f \in Ints  -> Cast(f, Parsed(v))
                 [] f = Proxies -> Words(v, ProxySize)

Counts(f, v) == f \in Ints => IsNumber(v)

IsColour(v) == Len(v) = 1 /\ v[1] \in Rgba

LEMMA ToldApart ==
    /\ \A f \in Texts : f \notin Bools /\ f \notin Ints /\ f # Proxies
    /\ \A f \in Bools : f \notin Ints /\ f # Proxies
    /\ \A f \in Ints : f # Proxies
    /\ Random \notin Told /\ Colours \notin Told /\ Random # Colours
    /\ \A w : <<"colours", w>> \notin Told
BY DEF Told, Texts, Bools, Ints, Proxies, Random, Colours

\* The settings r are those of cfg but for the setting w of the section x.
HasSet(r, cfg, x, w, v) ==
    /\ DOMAIN r = DOMAIN cfg
    /\ \A f \in Told : r[f] = IF f = <<x, w>> /\ Counts(f, v) THEN Given(f, v) ELSE cfg[f]
    /\ r[Colours] = IF x = "colours" /\ w \in Codes /\ IsColour(v)
                    THEN Append(cfg[Colours], <<w, v[1]>>) ELSE cfg[Colours]

\* cfg_callback with one line of a section.
LEMMA CallbackDoes ==
    ASSUME NEW cfg, Told \subseteq DOMAIN cfg, Colours \in DOMAIN cfg,
           NEW x, NEW w, NEW v
    PROVE  HasSet(Callback(cfg, <<x>>, <<w>>, v), cfg, x, w, v)
<1> DEFINE e == <<x, w>>
           r == Callback(cfg, <<x>>, <<w>>, v)
           n == Cast(e, Parsed(v))
           A == IsNumber(v)
           B == x = "colours" /\ w \in Codes /\ IsColour(v)
           ra == [cfg EXCEPT ![e] = Copied(e, v)]
           rb == [cfg EXCEPT ![e] = (v = <<"true">>)]
           rd == [cfg EXCEPT ![e] = n, ![Random] = @ /\ e # <<"map", "seed">>]
           re == [cfg EXCEPT ![e] = Words(v, ProxySize)]
           rg == [cfg EXCEPT ![Colours] = Append(@, <<w, v[1]>>)]
<1>1. r = CASE e \in Texts -> ra
            [] e \in Bools -> rb
            [] e \in Ints /\ A -> rd
            [] e = Proxies -> re
            [] B -> rg
            [] OTHER -> cfg
  <2>1. Len(<<x>>) = 1 /\ Len(<<w>>) = 1 /\ <<x>>[1] = x /\ <<w>>[1] = w
        /\ (<<x>> = <<"colours">> <=> x = "colours")
    OBVIOUS
  <2> DEFINE s == <<x>>
             k == <<w>>
             c == <<"colours">>
  <2>2. /\ Len(s) = 1 /\ Len(k) = 1 /\ s[1] = x /\ k[1] = w
        /\ (s = c <=> x = "colours")
    BY <2>1
  <2> HIDE DEF s, k
  <2>3. (IF Len(s) = 1 /\ Len(k) = 1 THEN <<s[1], k[1]>> ELSE << >>) = e
    BY <2>2
  <2>4. (s = <<"colours">> /\ Len(k) = 1 /\ Len(v) = 1 /\ k[1] \in Codes /\ v[1] \in Rgba) <=> B
    BY Zenon, <2>2 DEF IsColour
  <2> HIDE DEF e, B
  <2>5. Callback(cfg, s, k, v) = CASE e \in Texts -> ra
            [] e \in Bools -> rb
            [] e \in Ints /\ A -> rd
            [] e = Proxies -> re
            [] B -> rg
            [] OTHER -> cfg
    BY <2>2, <2>3, <2>4 DEF Callback
  <2> QED BY <2>5 DEF s, k
<1>2. B => e \notin Told
  BY Zenon, ToldApart
<1>3. \A f \in Told : f # Random /\ f # Colours
  BY Zenon, ToldApart
<1> HIDE DEF e, r, n, A, B, ra, rb, rd, re, rg
<1>4. e \in Told <=> e \in Texts \/ e \in Bools \/ e \in Ints \/ e = Proxies
  BY Zenon DEF Told
<1>5. \/ e \in Texts /\ r = ra
      \/ e \in Bools /\ r = rb
      \/ e \in Ints /\ A /\ r = rd
      \/ e = Proxies /\ r = re
      \/ e \notin Told /\ B /\ r = rg
      \/ (e \notin Told \/ (e \in Ints /\ ~A)) /\ ~B /\ r = cfg
  BY <1>1, <1>2, <1>4, ToldApart
<1> DEFINE Right == /\ DOMAIN r = DOMAIN cfg
                    /\ \A f \in Told :
                            r[f] = IF f = e /\ Counts(f, v) THEN Given(f, v) ELSE cfg[f]
                    /\ r[Colours] = IF B THEN Append(cfg[Colours], <<w, v[1]>>) ELSE cfg[Colours]
<1> HIDE DEF Right
<1>6. ASSUME e \in Texts, r = ra PROVE Right
  <2>1. Given(e, v) = Copied(e, v) /\ Counts(e, v) /\ ~B /\ e \in DOMAIN cfg
    BY <1>2, <1>4, <1>6, ToldApart DEF Given, Counts
  <2>2. DOMAIN r = DOMAIN cfg /\ r[e] = Copied(e, v) /\ \A f \in DOMAIN cfg : f # e => r[f] = cfg[f]
    BY <1>6, <2>1 DEF ra
  <2> QED BY Zenon, <1>3, <1>4, <1>6, <2>1, <2>2 DEF Right
<1>7. ASSUME e \in Bools, r = rb PROVE Right
  <2>1. Given(e, v) = (v = <<"true">>) /\ Counts(e, v) /\ ~B /\ e \in DOMAIN cfg
    BY <1>2, <1>4, <1>7, ToldApart DEF Given, Counts
  <2>2. DOMAIN r = DOMAIN cfg /\ r[e] = (v = <<"true">>) /\ \A f \in DOMAIN cfg : f # e => r[f] = cfg[f]
    BY <1>7, <2>1 DEF rb
  <2> QED BY Zenon, <1>3, <1>4, <1>7, <2>1, <2>2 DEF Right
<1>8. ASSUME e \in Ints, A, r = rd PROVE Right
  <2>1. Given(e, v) = n /\ Counts(e, v) /\ ~B /\ e \in DOMAIN cfg
    BY <1>2, <1>4, <1>8, ToldApart DEF Given, Counts, n, A
  <2>2. DOMAIN r = DOMAIN cfg /\ r[e] = n /\ \A f \in DOMAIN cfg : f # e /\ f # Random => r[f] = cfg[f]
    BY <1>3, <1>4, <1>8, <2>1 DEF rd
  <2> QED BY Zenon, <1>3, <1>4, <1>8, <2>1, <2>2, ToldApart DEF Right
<1>9. ASSUME e = Proxies, r = re PROVE Right
  <2>1. Given(e, v) = Words(v, ProxySize) /\ Counts(e, v) /\ ~B /\ e \in DOMAIN cfg
    BY <1>2, <1>4, <1>9, ToldApart DEF Given, Counts
  <2>2. DOMAIN r = DOMAIN cfg /\ r[e] = Words(v, ProxySize) /\ \A f \in DOMAIN cfg : f # e => r[f] = cfg[f]
    BY <1>9, <2>1 DEF re
  <2> QED BY Zenon, <1>3, <1>4, <1>9, <2>1, <2>2 DEF Right
<1>10. ASSUME e \notin Told, B, r = rg PROVE Right
  <2>2. DOMAIN r = DOMAIN cfg /\ r[Colours] = Append(cfg[Colours], <<w, v[1]>>)
        /\ \A f \in DOMAIN cfg : f # Colours => r[f] = cfg[f]
    BY <1>10 DEF rg
  <2> QED BY Zenon, <1>3, <1>10, <2>2 DEF Right
<1>11. ASSUME e \notin Told \/ (e \in Ints /\ ~A), ~B, r = cfg PROVE Right
  BY Zenon, <1>11 DEF Counts, A, Right
<1>12. Right
  BY Zenon, <1>5, <1>6, <1>7, <1>8, <1>9, <1>10, <1>11
<1> QED BY Zenon, <1>12 DEF r, e, B, Right, HasSet

\* The first and the last of some numbers, with a larger one.
LEMMA OneMore ==
    ASSUME NEW n \in Nat, NEW K \in SUBSET (1 .. n)
    PROVE  /\ Max(K \cup {n + 1}) = n + 1
           /\ Min(K \cup {n + 1}) = IF K = {} THEN n + 1 ELSE Min(K)
           /\ K # {} => Min(K) \in 1 .. n /\ Max(K) \in 1 .. n /\ Min(K) \in K /\ Max(K) \in K
<1> DEFINE L == K \cup {n + 1}
           m == n + 1
<1>1. m \in Nat /\ L \in SUBSET (1 .. m) /\ m \in L /\ \A k \in L : k <= m
  OBVIOUS
<1>2. K # {} => Min(K) \in K /\ Max(K) \in K /\ \A k \in K : Min(K) <= k
  BY FirstOf, Largest
<1>3. K # {} => Min(K) \in 1 .. n /\ Max(K) \in 1 .. n
  BY <1>2
<1>4. K # {} => Min(K) \in L /\ \A k \in L : Min(K) <= k
  BY <1>2, <1>3
<1>5. K = {} => \A k \in L : m <= k
  BY <1>1
<1> HIDE DEF L, m
<1>6. Max(L) = m
  BY ONLY <1>1, LargestIs
<1>7. K # {} => Min(L) = Min(K)
  <2> SUFFICES ASSUME K # {} PROVE Min(L) = Min(K)
    OBVIOUS
  <2> DEFINE x == Min(K)
  <2>1. x \in L /\ \A k \in L : x <= k
    BY <1>4
  <2> HIDE DEF x
  <2>2. Min(L) = x
    BY ONLY <1>1, <2>1, LeastIs
  <2> QED BY <2>2 DEF x
<1>8. K = {} => Min(L) = m
  <2> SUFFICES ASSUME K = {} PROVE Min(L) = m
    OBVIOUS
  <2>1. \A k \in L : m <= k
    BY <1>5
  <2> QED BY ONLY <1>1, <2>1, LeastIs
<1> QED BY Zenon, <1>2, <1>3, <1>6, <1>7, <1>8 DEF L, m

\* The lines that count for a setting, and for a colour, with one more line.
LinesThat(t, f)  == {k \in LinesFor(t, f) : Counts(f, ValueIn(t, k))}
ColoursIn(t, c)  == {k \in LinesFor(t, <<"colours", c>>) : IsColour(ValueIn(t, k))}

SetsMore(t, l, u) ==
    LET n == Len(t)
        x == SectionIn(t, n)
        v == Trim(l.value)
    IN  /\ n \in Nat /\ \A f : LinesThat(t, f) \in SUBSET (1 .. n)
        /\ \A c : ColoursIn(t, c) \in SUBSET (1 .. n)
        /\ \A k \in 1 .. n : ValueIn(u, k) = ValueIn(t, k)
        /\ ValueIn(u, n + 1) = v
        /\ \A f : LinesThat(u, f) = IF l.says = "set" /\ f = <<x, l.word>> /\ Counts(f, v)
                                    THEN LinesThat(t, f) \cup {n + 1} ELSE LinesThat(t, f)
        /\ \A c : ColoursIn(u, c) = IF l.says = "set" /\ x = "colours" /\ l.word = c /\ IsColour(v)
                                    THEN ColoursIn(t, c) \cup {n + 1} ELSE ColoursIn(t, c)

LEMMA LinesAdded ==
    ASSUME NEW t \in Seq(LineSet), NEW l \in LineSet, NEW u, u = Append(t, l), Proper(u)
    PROVE  SetsMore(t, l, u)
<1> DEFINE n == Len(t)
           x == SectionIn(t, n)
           v == Trim(l.value)
<1>0. OneLonger(t, l, u)
  BY Zenon, LineAdds
<1>1. /\ n \in Nat /\ u[n + 1] = l
      /\ DOMAIN t = 1 .. n /\ DOMAIN u = 1 .. n + 1
      /\ \A k \in 1 .. n : u[k] = t[k]
      /\ \A k \in 1 .. n : \A f : Sets(u, k, f) <=> Sets(t, k, f)
  <2> QED BY Zenon, <1>0 DEF OneLonger
<1>2. l.says = "set" => SectionIn(u, n + 1) = x
  <2> SUFFICES ASSUME l.says = "set" PROVE SectionIn(u, n + 1) = x
    OBVIOUS
  <2>1. l.says # "section"
    OBVIOUS
  <2>2. SectionsTo(u, n + 1) = SectionsTo(t, n) /\ (SectionsTo(t, n) # {} => SectionIn(u, n + 1) = x)
    BY Zenon, <1>0, <2>1 DEF OneLonger
  <2>3. SectionsTo(u, n + 1) # {}
    <3>1. n + 1 \in DOMAIN u /\ u[n + 1].says = "set"
      BY <1>1
    <3> QED BY Zenon, <3>1 DEF Proper
  <2> QED BY Zenon, <2>2, <2>3
<1>3. \A k \in 1 .. n : ValueIn(u, k) = ValueIn(t, k)
  BY Zenon, <1>1 DEF ValueIn
<1>4. ValueIn(u, n + 1) = v
  BY Zenon, <1>1 DEF ValueIn
<1>5. \A f : Sets(u, n + 1, f) <=> l.says = "set" /\ f = <<x, l.word>>
  BY Zenon, <1>1, <1>2 DEF Sets
<1> HIDE DEF x, v, n
<1>6. /\ 1 .. n + 1 = (1 .. n) \cup {n + 1} /\ n + 1 \notin 1 .. n
  BY ONLY <1>1
<1>7. \A f : LinesFor(t, f) \in SUBSET (1 .. n)
  BY Zenon, <1>1 DEF LinesFor
<1>8. ASSUME NEW f
      PROVE  LinesFor(u, f) = IF l.says = "set" /\ f = <<x, l.word>> THEN LinesFor(t, f) \cup {n + 1} ELSE LinesFor(t, f)
  <2>1. \A k : k \in LinesFor(u, f) <=> k \in 1 .. n + 1 /\ Sets(u, k, f)
    BY Zenon, <1>1 DEF LinesFor
  <2>2. \A k : k \in LinesFor(t, f) <=> k \in 1 .. n /\ Sets(t, k, f)
    BY Zenon, <1>1 DEF LinesFor
  <2> DEFINE G == LinesFor(u, f)
             H == LinesFor(t, f)
             m == n + 1
             E == l.says = "set" /\ f = <<x, l.word>>
  <2>3. \A k : k \in 1 .. m <=> k \in 1 .. n \/ k = m
    BY Zenon, <1>6
  <2>4. \A k : k \in G <=> k \in H \/ (k = m /\ E)
    BY Zenon, <1>1, <1>5, <2>1, <2>2, <2>3
  <2> HIDE DEF G, H, E, m
  <2>5. G = IF E THEN H \cup {m} ELSE H
    BY <2>4
  <2> QED BY Zenon, <2>5 DEF G, H, E, m
<1>9. ASSUME NEW f
      PROVE  LinesThat(u, f) = IF l.says = "set" /\ f = <<x, l.word>> /\ Counts(f, v)
                                THEN LinesThat(t, f) \cup {n + 1} ELSE LinesThat(t, f)
  <2> DEFINE E == l.says = "set" /\ f = <<x, l.word>>
             m == n + 1
             H == LinesFor(t, f)
             P(s, k) == Counts(f, ValueIn(s, k))
             Q == Counts(f, v)
  <2>1. LinesFor(u, f) = IF E THEN H \cup {m} ELSE H
    BY Zenon, <1>8
  <2>2. H \in SUBSET (1 .. n) /\ m \notin H /\ \A k \in H : P(u, k) <=> P(t, k)
    BY Zenon, <1>3, <1>6, <1>7
  <2>3. P(u, m) <=> Q
    BY Zenon, <1>4
  <2>4. LinesThat(u, f) = {k \in LinesFor(u, f) : P(u, k)} /\ LinesThat(t, f) = {k \in H : P(t, k)}
    BY Zenon DEF LinesThat
  <2> HIDE DEF E, m, H, P, Q
  <2>5. LinesThat(u, f) = IF E /\ Q THEN LinesThat(t, f) \cup {m} ELSE LinesThat(t, f)
    BY <2>1, <2>2, <2>3, <2>4
  <2> QED BY Zenon, <2>5 DEF E, m, Q
<1>10. ASSUME NEW c
       PROVE  ColoursIn(u, c) = IF l.says = "set" /\ x = "colours" /\ l.word = c /\ IsColour(v)
                                THEN ColoursIn(t, c) \cup {n + 1} ELSE ColoursIn(t, c)
  <2> DEFINE f == <<"colours", c>>
             E == l.says = "set" /\ f = <<x, l.word>>
             m == n + 1
             H == LinesFor(t, f)
             P(s, k) == IsColour(ValueIn(s, k))
             Q == IsColour(v)
  <2>1. LinesFor(u, f) = IF E THEN H \cup {m} ELSE H
    BY Zenon, <1>8
  <2>2. H \in SUBSET (1 .. n) /\ m \notin H /\ \A k \in H : P(u, k) <=> P(t, k)
    BY Zenon, <1>3, <1>6, <1>7
  <2>3. P(u, m) <=> Q
    BY Zenon, <1>4
  <2>4. ColoursIn(u, c) = {k \in LinesFor(u, f) : P(u, k)} /\ ColoursIn(t, c) = {k \in H : P(t, k)}
    BY Zenon DEF ColoursIn
  <2>6. E <=> l.says = "set" /\ x = "colours" /\ l.word = c
    BY Zenon
  <2> HIDE DEF f, E, m, H, P, Q
  <2>5. ColoursIn(u, c) = IF E /\ Q THEN ColoursIn(t, c) \cup {m} ELSE ColoursIn(t, c)
    BY <2>1, <2>2, <2>3, <2>4
  <2> QED BY Zenon, <2>5, <2>6 DEF m, Q
<1>11. /\ \A f : LinesThat(t, f) \in SUBSET (1 .. n)
       /\ \A c : ColoursIn(t, c) \in SUBSET (1 .. n)
  BY Zenon, <1>7 DEF LinesThat, ColoursIn
<1> QED BY Zenon, <1>1, <1>3, <1>4, <1>9, <1>10, <1>11 DEF n, x, v, SetsMore

\* The colours of a name in a list of colours, and the first of them.
Entries(q, c)    == {k \in DOMAIN q : q[k][1] = c}
FirstEntry(q, c) == IF Entries(q, c) = {} THEN Unset ELSE q[Min(Entries(q, c))][2]

EntryOf(q, e, r, c) ==
    /\ e[1] = c => /\ Entries(r, c) # {}
                   /\ FirstEntry(r, c) = IF Entries(q, c) = {} THEN e[2] ELSE FirstEntry(q, c)
    /\ e[1] # c => /\ Entries(r, c) = {} <=> Entries(q, c) = {}
                   /\ FirstEntry(r, c) = FirstEntry(q, c)

LEMMA EntryAdded ==
    ASSUME NEW S, NEW q \in Seq(S), NEW e \in S, NEW r, r = Append(q, e), NEW c
    PROVE  EntryOf(q, e, r, c)
<1> DEFINE n == Len(q)
           m == n + 1
           K == Entries(q, c)
           L == Entries(r, c)
<1>1. /\ n \in Nat /\ DOMAIN q = 1 .. n /\ DOMAIN r = 1 .. m /\ r[m] = e
      /\ \A k \in 1 .. n : r[k] = q[k]
  OBVIOUS
<1> HIDE DEF n
<1>2. \A k : k \in 1 .. m <=> k \in 1 .. n \/ k = m
  BY ONLY <1>1
<1>3. K \in SUBSET (1 .. n)
  BY Zenon, <1>1 DEF Entries
<1>4. L = IF e[1] = c THEN K \cup {m} ELSE K
  <2>1. \A k : k \in L <=> k \in 1 .. m /\ r[k][1] = c
    BY Zenon, <1>1 DEF Entries
  <2>2. \A k : k \in K <=> k \in 1 .. n /\ q[k][1] = c
    BY Zenon, <1>1 DEF Entries
  <2> HIDE DEF K, L, m
  <2>3. \A k : k \in L <=> k \in K \/ (k = m /\ e[1] = c)
    <3> DEFINE E == e[1] = c
               G(k) == q[k][1] = c
               H(k) == r[k][1] = c
    <3>1. (H(m) <=> E) /\ (\A k \in 1 .. n : H(k) <=> G(k)) /\ m \notin 1 .. n
      <4>1. m \notin 1 .. n
        BY <1>1 DEF m
      <4> QED BY Zenon, <1>1, <4>1
    <3>2. (\A k : k \in L <=> k \in 1 .. m /\ H(k)) /\ (\A k : k \in K <=> k \in 1 .. n /\ G(k))
      BY Zenon, <2>1, <2>2
    <3> HIDE DEF E, G, H
    <3>3. \A k : k \in L <=> k \in K \/ (k = m /\ E)
      BY Zenon, <1>2, <3>1, <3>2 DEF m
    <3> QED BY Zenon, <3>3 DEF E
  <2> DEFINE E == e[1] = c
  <2> HIDE DEF E
  <2>4. L = IF E THEN K \cup {m} ELSE K
    <3>1. \A k : k \in L <=> k \in K \/ (k = m /\ E)
      BY Zenon, <2>3 DEF E
    <3> QED BY <3>1
  <2> QED BY Zenon, <2>4 DEF E
<1> HIDE DEF K, L
<1>5. /\ Min(K \cup {m}) = IF K = {} THEN m ELSE Min(K)
      /\ K # {} => Min(K) \in 1 .. n
  <2>1. /\ Min(K \cup {n + 1}) = IF K = {} THEN n + 1 ELSE Min(K)
        /\ K # {} => Min(K) \in 1 .. n
    BY Zenon, <1>1, <1>3, OneMore
  <2> QED BY Zenon, <2>1
<1> HIDE DEF m
<1>6. ASSUME e[1] = c
      PROVE  L # {} /\ FirstEntry(r, c) = IF K = {} THEN e[2] ELSE FirstEntry(q, c)
  <2>1. L = K \cup {m} /\ L # {}
    BY Zenon, <1>4, <1>6
  <2>2. FirstEntry(r, c) = r[Min(L)][2]
    BY Zenon, <2>1 DEF FirstEntry, L
  <2>3. CASE K = {}
    BY Zenon, <1>1, <1>5, <1>6, <2>1, <2>2, <2>3 DEF K, L
  <2>4. CASE K # {}
    <3>1. FirstEntry(q, c) = q[Min(K)][2]
      BY Zenon, <2>4 DEF FirstEntry, K
    <3>2. Min(L) = Min(K) /\ Min(K) \in 1 .. n
      BY Zenon, <1>5, <2>1, <2>4
    <3> QED BY Zenon, <1>1, <1>6, <2>1, <2>2, <2>4, <3>1, <3>2 DEF K, L
  <2> QED BY Zenon, <2>3, <2>4
<1>7. ASSUME e[1] # c
      PROVE  (L = {} <=> K = {}) /\ FirstEntry(r, c) = FirstEntry(q, c)
  <2>1. L = K
    BY Zenon, <1>4, <1>7
  <2>2. CASE K = {}
    BY Zenon, <1>7, <2>1, <2>2 DEF K, L, FirstEntry
  <2>3. CASE K # {}
    <3>1. Min(K) \in 1 .. n
      BY Zenon, <1>5, <2>3
    <3>2. FirstEntry(q, c) = q[Min(K)][2] /\ FirstEntry(r, c) = r[Min(K)][2]
      BY Zenon, <2>1, <2>3 DEF FirstEntry, K, L
    <3> QED BY Zenon, <1>1, <1>7, <2>1, <3>1, <3>2 DEF K, L
  <2> QED BY Zenon, <2>2, <2>3
<1> QED BY Zenon, <1>6, <1>7 DEF EntryOf, K, L

\* What the lines of a file say: of several that set the same, the last, and for a colour
\* the first.
LastValue(t, f) ==
    IF LinesThat(t, f) = {} THEN Cleared[f] ELSE Given(f, ValueIn(t, Max(LinesThat(t, f))))

FirstColour(t, c) ==
    IF ColoursIn(t, c) = {} THEN Unset ELSE ValueIn(t, Min(ColoursIn(t, c)))[1]

Says(cfg, t) ==
    /\ Told \subseteq DOMAIN cfg /\ Colours \in DOMAIN cfg /\ cfg[Colours] \in Seq(Codes \X Rgba)
    /\ \A f \in Told : cfg[f] = LastValue(t, f)
    /\ \A c \in Codes : /\ Entries(cfg[Colours], c) = {} <=> ColoursIn(t, c) = {}
                        /\ FirstEntry(cfg[Colours], c) = FirstColour(t, c)

LEMMA LastValueChanges ==
    ASSUME NEW t, NEW l, NEW u, SetsMore(t, l, u), NEW f
    PROVE  LET v == Trim(l.value)
           IN  LastValue(u, f) = IF l.says = "set" /\ f = <<SectionIn(t, Len(t)), l.word>> /\ Counts(f, v)
                                 THEN Given(f, v) ELSE LastValue(t, f)
<1> DEFINE n == Len(t)
           m == n + 1
           v == Trim(l.value)
           E == l.says = "set" /\ f = <<SectionIn(t, Len(t)), l.word>> /\ Counts(f, v)
           K == LinesThat(t, f)
           L == LinesThat(u, f)
<1>1. /\ n \in Nat /\ K \in SUBSET (1 .. n)
      /\ \A k \in 1 .. n : ValueIn(u, k) = ValueIn(t, k)
      /\ ValueIn(u, m) = v
      /\ L = IF E THEN K \cup {m} ELSE K
  BY Zenon DEF SetsMore
<1> HIDE DEF n, v, E, K, L
<1>2. Max(K \cup {m}) = m /\ (K # {} => Max(K) \in 1 .. n)
  <2>1. Max(K \cup {n + 1}) = n + 1 /\ (K # {} => Max(K) \in 1 .. n)
    BY Zenon, <1>1, OneMore
  <2> QED BY Zenon, <2>1
<1> HIDE DEF m
<1>3. CASE E
  <2>1. L = K \cup {m} /\ L # {}
    BY Zenon, <1>1, <1>3
  <2>2. LastValue(u, f) = Given(f, ValueIn(u, Max(L)))
    BY Zenon, <2>1 DEF LastValue, L
  <2> QED BY Zenon, <1>1, <1>2, <1>3, <2>1, <2>2 DEF E, v
<1>4. CASE ~E
  <2>1. L = K
    BY Zenon, <1>1, <1>4
  <2>2. CASE K = {}
    BY Zenon, <1>4, <2>1, <2>2 DEF LastValue, K, L, E, v
  <2>3. CASE K # {}
    <3>1. ValueIn(u, Max(K)) = ValueIn(t, Max(K))
      BY Zenon, <1>1, <1>2, <2>3
    <3> QED BY Zenon, <1>4, <2>1, <2>3, <3>1 DEF LastValue, K, L, E, v
  <2> QED BY Zenon, <2>2, <2>3
<1> QED BY Zenon, <1>3, <1>4

ColourOf(t, l, u, c) ==
    LET v == Trim(l.value)
        E == l.says = "set" /\ SectionIn(t, Len(t)) = "colours" /\ l.word = c /\ IsColour(v)
    IN  /\ E => /\ ColoursIn(u, c) # {}
                /\ FirstColour(u, c) = IF ColoursIn(t, c) = {} THEN v[1] ELSE FirstColour(t, c)
        /\ ~E => ColoursIn(u, c) = ColoursIn(t, c) /\ FirstColour(u, c) = FirstColour(t, c)

LEMMA FirstColourChanges ==
    ASSUME NEW t, NEW l, NEW u, SetsMore(t, l, u), NEW c
    PROVE  ColourOf(t, l, u, c)
<1> DEFINE n == Len(t)
           m == n + 1
           v == Trim(l.value)
           E == l.says = "set" /\ SectionIn(t, Len(t)) = "colours" /\ l.word = c /\ IsColour(v)
           K == ColoursIn(t, c)
           L == ColoursIn(u, c)
<1>1. /\ n \in Nat /\ K \in SUBSET (1 .. n)
      /\ \A k \in 1 .. n : ValueIn(u, k) = ValueIn(t, k)
      /\ ValueIn(u, m) = v
      /\ L = IF E THEN K \cup {m} ELSE K
  BY Zenon DEF SetsMore
<1> HIDE DEF n, v, E, K, L
<1>2. Min(K \cup {m}) = (IF K = {} THEN m ELSE Min(K)) /\ (K # {} => Min(K) \in 1 .. n)
  <2>1. Min(K \cup {n + 1}) = (IF K = {} THEN n + 1 ELSE Min(K)) /\ (K # {} => Min(K) \in 1 .. n)
    BY Zenon, <1>1, OneMore
  <2> QED BY Zenon, <2>1
<1> HIDE DEF m
<1>3. ASSUME E
      PROVE  L # {} /\ FirstColour(u, c) = IF K = {} THEN v[1] ELSE FirstColour(t, c)
  <2>1. L = K \cup {m} /\ L # {}
    BY Zenon, <1>1, <1>3
  <2>2. FirstColour(u, c) = ValueIn(u, Min(L))[1]
    BY Zenon, <2>1 DEF FirstColour, L
  <2>3. CASE K = {}
    BY Zenon, <1>1, <1>2, <2>1, <2>2, <2>3
  <2>4. CASE K # {}
    <3>1. ValueIn(u, Min(L)) = ValueIn(t, Min(K))
      BY Zenon, <1>1, <1>2, <2>1, <2>4
    <3>2. FirstColour(t, c) = ValueIn(t, Min(K))[1]
      BY Zenon, <2>4 DEF FirstColour, K
    <3> QED BY Zenon, <2>1, <2>2, <2>4, <3>1, <3>2
  <2> QED BY Zenon, <2>3, <2>4
<1>4. ASSUME ~E
      PROVE  L = K /\ FirstColour(u, c) = FirstColour(t, c)
  <2>1. L = K
    BY Zenon, <1>1, <1>4
  <2>2. CASE K = {}
    BY Zenon, <2>1, <2>2 DEF FirstColour, K, L
  <2>3. CASE K # {}
    <3>1. ValueIn(u, Min(K)) = ValueIn(t, Min(K))
      BY Zenon, <1>1, <1>2, <2>3
    <3> QED BY Zenon, <2>1, <2>3, <3>1 DEF FirstColour, K, L
  <2> QED BY Zenon, <2>2, <2>3
<1> QED BY Zenon, <1>3, <1>4 DEF E, K, L, v, ColourOf

\* The place of a file says what its lines do, after one more line too: a line that sets
\* something goes to cfg_callback.
LEMMA SaysGoesOn ==
    ASSUME NEW t \in Seq(LineSet), NEW l \in LineSet, NEW u, u = Append(t, l), Proper(u),
           NEW cfg, Says(cfg, t)
    PROVE  /\ l.says # "set" => Says(cfg, u)
           /\ l.says = "set" => Says(Callback(cfg, <<SectionIn(t, Len(t))>>, <<l.word>>, Trim(l.value)), u)
<1> DEFINE x == SectionIn(t, Len(t))
           w == l.word
           v == Trim(l.value)
           r == Callback(cfg, <<x>>, <<w>>, v)
           E(f) == f = <<x, w>> /\ Counts(f, v)
           B == x = "colours" /\ w \in Codes /\ IsColour(v)
           B1(c) == x = "colours" /\ w = c /\ IsColour(v)
<1>0. SetsMore(t, l, u)
  BY ONLY t \in Seq(LineSet), l \in LineSet, u = Append(t, l), Proper(u), LinesAdded, ZenonT(30)
<1>1. /\ Told \subseteq DOMAIN cfg /\ Colours \in DOMAIN cfg /\ cfg[Colours] \in Seq(Codes \X Rgba)
      /\ \A f \in Told : cfg[f] = LastValue(t, f)
      /\ \A c \in Codes : /\ Entries(cfg[Colours], c) = {} <=> ColoursIn(t, c) = {}
                          /\ FirstEntry(cfg[Colours], c) = FirstColour(t, c)
  BY Zenon DEF Says
<1>2. \A f : LastValue(u, f) = IF l.says = "set" /\ E(f) THEN Given(f, v) ELSE LastValue(t, f)
  BY ZenonT(30), <1>0, LastValueChanges
<1>3. \A c : /\ l.says = "set" /\ B1(c) => /\ ColoursIn(u, c) # {}
                                          /\ FirstColour(u, c) = IF ColoursIn(t, c) = {} THEN v[1] ELSE FirstColour(t, c)
             /\ ~(l.says = "set" /\ B1(c)) => ColoursIn(u, c) = ColoursIn(t, c) /\ FirstColour(u, c) = FirstColour(t, c)
  <2>1. \A c : ColourOf(t, l, u, c)
    BY Zenon, <1>0, FirstColourChanges
  <2> QED BY Zenon, <2>1 DEF ColourOf
<1>4. /\ DOMAIN r = DOMAIN cfg
      /\ \A f \in Told : r[f] = IF E(f) THEN Given(f, v) ELSE cfg[f]
      /\ r[Colours] = IF B THEN Append(cfg[Colours], <<w, v[1]>>) ELSE cfg[Colours]
  <2>1. HasSet(r, cfg, x, w, v)
    BY Zenon, <1>1, CallbackDoes
  <2> QED BY Zenon, <2>1 DEF HasSet
<1>5. \A c \in Codes : B1(c) <=> B /\ w = c
  BY Zenon
<1>6. B => v[1] \in Rgba /\ w \in Codes
  BY Zenon DEF IsColour
<1> DEFINE S == Codes \X Rgba
           q == cfg[Colours]
           e == <<w, v[1]>>
<1>7. e[1] = w /\ e[2] = v[1] /\ (B => e \in S)
  <2> HIDE DEF B
  <2> QED BY <1>6
<1> HIDE DEF x, w, v, r, E, B, B1, S, e
<1>8. ASSUME l.says # "set" PROVE Says(cfg, u)
  BY Zenon, <1>1, <1>2, <1>3, <1>8 DEF Says, S
<1>9. ASSUME l.says = "set" PROVE Says(r, u)
  <2>1. Told \subseteq DOMAIN r /\ Colours \in DOMAIN r
    BY Zenon, <1>1, <1>4
  <2>2. \A f \in Told : r[f] = LastValue(u, f)
    BY Zenon, <1>1, <1>2, <1>4, <1>9
  <2>3. CASE ~B
    <3>1. r[Colours] = q
      BY Zenon, <1>4, <2>3
    <3>2. \A c \in Codes : ColoursIn(u, c) = ColoursIn(t, c) /\ FirstColour(u, c) = FirstColour(t, c)
      BY Zenon, <1>3, <1>5, <2>3
    <3> QED BY Zenon, <1>1, <2>1, <2>2, <3>1, <3>2 DEF Says, S
  <2>4. CASE B
    <3> DEFINE p == r[Colours]
    <3>1. p = Append(q, e) /\ q \in Seq(S) /\ e \in S
      BY Zenon, <1>1, <1>4, <1>7, <2>4 DEF S, e
    <3>2. p \in Seq(S)
      <4> HIDE DEF p, q
      <4> QED BY ONLY <3>1
    <3>3. ASSUME NEW c \in Codes
          PROVE  /\ Entries(p, c) = {} <=> ColoursIn(u, c) = {}
                 /\ FirstEntry(p, c) = FirstColour(u, c)
      <4>1. /\ Entries(q, c) = {} <=> ColoursIn(t, c) = {}
            /\ FirstEntry(q, c) = FirstColour(t, c)
        BY Zenon, <1>1
      <4> HIDE DEF p, q
      <4>5. EntryOf(q, e, p, c)
        BY Zenon, <3>1, EntryAdded
      <4>2. /\ e[1] = c => /\ Entries(p, c) # {}
                           /\ FirstEntry(p, c) = IF Entries(q, c) = {} THEN e[2] ELSE FirstEntry(q, c)
            /\ e[1] # c => /\ Entries(p, c) = {} <=> Entries(q, c) = {}
                           /\ FirstEntry(p, c) = FirstEntry(q, c)
        BY Zenon, <4>5 DEF EntryOf
      <4>3. CASE w = c
        <5>1. B1(c)
          BY Zenon, <1>5, <2>4, <4>3
        <5> QED BY Zenon, <1>3, <1>7, <1>9, <4>1, <4>2, <4>3, <5>1
      <4>4. CASE w # c
        <5>1. ~B1(c)
          BY Zenon, <1>5, <4>4
        <5> QED BY Zenon, <1>3, <1>7, <4>1, <4>2, <4>4, <5>1
      <4> QED BY Zenon, <4>3, <4>4
    <3> QED BY Zenon, <2>1, <2>2, <3>2, <3>3 DEF Says, S
  <2> QED BY Zenon, <2>3, <2>4
<1> QED BY Zenon, <1>8, <1>9 DEF r, x, w, v

-----------------------------------------------------------------------------
(* The parser after each line, and at the end.                             *)

\* The parser is where a line begins; the section is the last one of the file t, and what
\* has been set is what the lines of t say.
AtStart(s, t) ==
    \E se, ke, va \in Text : \E sp, vp, cfg :
        /\ s = AtLine(se, ke, va, sp, vp, cfg) /\ Says(cfg, t)
        /\ SectionsTo(t, Len(t)) # {} => se = <<SectionIn(t, Len(t))>>

LEMMA SectionsAreWords ==
    ASSUME NEW t \in Seq(LineSet), SectionsTo(t, Len(t)) # {}
    PROVE  SectionIn(t, Len(t)) \in Word
<1> DEFINE n == Len(t)
           K == SectionsTo(t, n)
<1>1. n \in Nat /\ \A k \in 1 .. n : t[k] \in LineSet
  OBVIOUS
<1>2. K \in SUBSET (1 .. n) /\ \A k \in K : t[k].says = "section"
  BY Zenon DEF SectionsTo
<1> HIDE DEF K, n
<1>3. K # {}
  BY Zenon DEF K, n
<1>4. Max(K) \in K
  BY Zenon, <1>1, <1>2, <1>3, Largest
<1>5. t[Max(K)] \in LineSet /\ t[Max(K)].says = "section"
  BY Zenon, <1>1, <1>2, <1>4
<1>6. \A l \in LineSet : l.says = "section" => l.word \in Word
  BY Zenon, ConfigAssumption
<1> QED BY Zenon, <1>5, <1>6 DEF SectionIn, K, n

LEMMA WordsAreTexts == ASSUME NEW w \in Word PROVE <<w>> \in Text
<1> DEFINE S == Character
<1>1. w \in S
  BY Zenon, SignsAreCharacters
<1> HIDE DEF S
<1>2. <<w>> \in Seq(S)
  BY <1>1
<1> QED BY <1>2 DEF S, Text

\* One more line.
LEMMA LineIsSaid ==
    ASSUME NEW t \in Seq(LineSet), NEW l \in LineSet, NEW u, u = Append(t, l), Proper(u),
           NEW s, AtStart(s, t)
    PROVE  AtStart(Through(s, Chars(l)), u)
<1> DEFINE n == Len(t)
           m == n + 1
           x == SectionIn(t, n)
           w == l.word
           v == Trim(l.value)
<1>0. OneLonger(t, l, u)
  BY Zenon, LineAdds
<1>1. /\ n \in Nat /\ Len(u) = m /\ u[m] = l /\ DOMAIN u = 1 .. m
      /\ l.says = "section" => SectionsTo(u, m) # {} /\ SectionIn(u, m) = w
      /\ l.says # "section" => /\ SectionsTo(u, m) = SectionsTo(t, n)
                               /\ SectionsTo(t, n) # {} => SectionIn(u, m) = x
  BY Zenon, <1>0 DEF OneLonger
<1>2. m \in DOMAIN u
  BY <1>1
<1>3. /\ ParserSize > 2 /\ l.says # "word"
      /\ l.says = "set" => v # << >> /\ Len(l.value) + 1 < ParserSize /\ SectionsTo(u, m) # {}
  BY Zenon, <1>1, <1>2 DEF Proper, ValueIn
<1>4. PICK se \in Text, ke \in Text, va \in Text : \E sp, vp, cfg :
            /\ s = AtLine(se, ke, va, sp, vp, cfg) /\ Says(cfg, t)
            /\ SectionsTo(t, n) # {} => se = <<x>>
  BY Zenon DEF AtStart
<1>10. PICK sp, vp, cfg :
            /\ s = AtLine(se, ke, va, sp, vp, cfg) /\ Says(cfg, t)
            /\ SectionsTo(t, n) # {} => se = <<x>>
  BY Zenon, <1>4
<1>11. se \in Text /\ ke \in Text /\ va \in Text /\ ParserSize > 2
  BY Zenon, <1>3
<1> DEFINE a == AtLine(se, ke, va, sp, vp, cfg)
<1>5. l.says # "set" => Says(cfg, u)
  BY Zenon, <1>10, SaysGoesOn
<1>6. l.says \in {"section", "set", "comment", "word", "nothing"} /\ (l.says # "nothing" => w \in Word)
  BY Zenon, ConfigAssumption
<1>7. CASE l.says = "section"
  <2>1. Through(s, Chars(l)) = AtLine(<<w>>, ke, va, 1, vp, cfg)
    <3>1. Through(a, Chars(l)) = AtLine(<<w>>, ke, va, 1, vp, cfg)
      BY ONLY l \in LineSet, <1>7, <1>11, SectionLine
    <3> QED BY Zenon, <1>10, <3>1
  <2>2. <<w>> \in Text /\ Says(cfg, u)
    BY Zenon, <1>5, <1>6, <1>7, WordsAreTexts
  <2> QED BY Zenon, <1>1, <1>7, <2>1, <2>2 DEF AtStart
<1>8. CASE l.says = "comment" \/ l.says = "nothing"
  <2>1. Through(s, Chars(l)) = s
    <3>1. Through(a, Chars(l)) = a
      <4>1. CASE l.says = "comment"
        BY ONLY l \in LineSet, <4>1, CommentLine
      <4>2. CASE l.says = "nothing"
        BY ONLY l \in LineSet, <4>2, BlankLine
      <4> QED BY ONLY <1>8, <4>1, <4>2
    <3> QED BY Zenon, <1>10, <3>1
  <2>2. Says(cfg, u) /\ l.says # "section"
    BY Zenon, <1>5, <1>8
  <2> QED BY ZenonT(30), <1>1, <1>10, <2>1, <2>2 DEF AtStart
<1>9. CASE l.says = "set"
  <2>1. SectionsTo(u, m) = SectionsTo(t, n) /\ SectionsTo(t, n) # {} /\ SectionIn(u, m) = x /\ se = <<x>>
    BY Zenon, <1>1, <1>3, <1>9, <1>10
  <2>2. x \in Word
    BY Zenon, <2>1, SectionsAreWords
  <2>3. Trim(se) = <<x>>
    BY Zenon, <2>1, <2>2, TrimWord, WordsAreNoSigns
  <2>4. Says(Callback(cfg, <<x>>, <<w>>, v), u)
    BY Zenon, <1>9, <1>10, SaysGoesOn
  <2>5. l.value \in Text /\ w \in Word
    BY Zenon, <1>9, SetLineIs
  <2>6. <<x>> \in Text /\ <<w>> \in Text /\ v \in Text
    BY Zenon, <2>2, <2>5, WordsAreTexts, TrimKeepsText
  <2>7. PICK p : Through(s, Chars(l)) = AtLine(<<x>>, <<w>>, v, sp, p, Callback(cfg, <<x>>, <<w>>, v))
    <3>1. \E p : Through(AtLine(se, ke, va, sp, vp, cfg), Chars(l))
                    = AtLine(Trim(se), <<w>>, v, sp, p, Callback(cfg, Trim(se), <<w>>, v))
      <4>1. Trim(l.value) # << >> /\ Len(l.value) + 1 < ParserSize
        BY Zenon, <1>3, <1>9
      <4>2. SetDone(l, se, ke, va, sp, vp, cfg)
        BY ONLY l \in LineSet, <1>9, <1>11, <4>1, SetLine
      <4> QED BY Zenon, <4>2 DEF SetDone
    <3> QED BY Zenon, <1>10, <2>3, <3>1
  <2> QED BY Zenon, <1>1, <2>1, <2>4, <2>6, <2>7 DEF AtStart
<1> QED BY Zenon, <1>3, <1>6, <1>7, <1>8, <1>9

\* Before the first line.
LEMMA EmptyFile == Says(Cleared, << >>) /\ SectionsTo(<< >>, Len(<< >>)) = {}
<1> DEFINE t == << >>
<1>1. Len(t) = 0 /\ DOMAIN t = {} /\ 1 .. 0 = {}
  OBVIOUS
<1>2. SectionsTo(t, Len(t)) = {} /\ \A f : LinesFor(t, f) = {}
  <2> HIDE DEF t
  <2>1. SectionsTo(t, 0) = {}
    BY Zenon, <1>1 DEF SectionsTo
  <2> QED BY Zenon, <1>1, <2>1 DEF LinesFor
<1> HIDE DEF t
<1>3. \A f : LinesThat(t, f) = {} /\ LastValue(t, f) = Cleared[f]
  BY Zenon, <1>2 DEF LinesThat, LastValue
<1>4. \A c : ColoursIn(t, c) = {} /\ FirstColour(t, c) = Unset
  BY Zenon, <1>2 DEF ColoursIn, FirstColour
<1>5. DOMAIN Cleared = Told \cup {Random, Colours}
  BY DEF Cleared, Told
<1>6. Cleared[Colours] = << >>
  <2>1. Colours \in DOMAIN Cleared
    BY Zenon, <1>5
  <2>2. Colours \notin Texts \ {Salt} /\ Colours \notin Bools /\ Colours \notin Ints
        /\ Colours # Proxies /\ Colours # Random
    BY DEF Colours, Texts, Bools, Ints, Proxies, Random
  <2> HIDE DEF t
  <2> QED BY <2>1, <2>2 DEF Cleared
<1>7. << >> \in Seq(Codes \X Rgba) /\ \A c : Entries(<< >>, c) = {} /\ FirstEntry(<< >>, c) = Unset
  <2>1. DOMAIN << >> = {}
    OBVIOUS
  <2>2. \A c : Entries(<< >>, c) = {}
    BY Zenon, <2>1 DEF Entries
  <2> QED BY <2>2 DEF FirstEntry
<1>8. Says(Cleared, t)
  BY Zenon, <1>3, <1>4, <1>5, <1>6, <1>7 DEF Says
<1> QED BY Zenon, <1>2, <1>8 DEF t

LEMMA ParserBegins ==
    ASSUME NEW junk \in Text
    PROVE  AtStart([parser |-> NewParser(junk), cfg |-> Cleared], << >>)
<1>1. [parser |-> NewParser(junk), cfg |-> Cleared] = AtLine(junk, junk, junk, 0, 0, Cleared)
  BY DEF NewParser, AtLine, Stage
<1> QED BY Zenon, <1>1, EmptyFile DEF AtStart

\* A line has one "nl", at its end; without it, nothing is set.
EndsLine(t) == Len(t) >= 1 /\ t[Len(t)] = "nl" /\ \A k \in 1 .. Len(t) - 1 : t[k] # "nl"

LEMMA LinesEnd ==
    ASSUME NEW l \in LineSet
    PROVE  EndsLine(Chars(l))
<1> DEFINE t == Chars(l)
           w == l.word
           nl == "nl"
           EndsIt(s) == Len(s) >= 1 /\ s[Len(s)] = nl /\ \A k \in 1 .. Len(s) - 1 : s[k] # nl
<1>1. \A a, b, c, d : a # nl /\ b # nl /\ c # nl /\ d # nl =>
            /\ EndsIt(<<a, nl>>) /\ EndsIt(<<a, b, c, nl>>) /\ EndsIt(<<a, b, c, d, nl>>)
  <2> HIDE DEF nl
  <2> QED OBVIOUS
<1>2. l.says \in {"section", "set", "comment", "word", "nothing"} /\ (l.says # "nothing" => w \in Word)
  BY Zenon, ConfigAssumption
<1>3. (l.says # "nothing" => w # nl) /\ "[" # nl /\ "]" # nl /\ "#" # nl /\ " " # nl /\ "=" # nl
  BY Zenon, <1>2, WordsAreNoSigns
<1>4. CASE l.says = "section"
  <2>1. t = <<"[", w, "]", nl>>
    BY <1>4 DEF Chars
  <2>2. EndsIt(t)
    <3> HIDE DEF nl, EndsIt
    <3> QED BY Zenon, <1>1, <1>3, <1>4, <2>1
  <2> QED BY Zenon, <2>2 DEF EndsLine
<1>5. CASE l.says = "comment"
  <2>1. t = <<"#", w, " ", "=", nl>>
    <3>1. Chars(l) = <<"#", l.word, " ", "=", "nl">>
      BY Zenon, <1>5 DEF Chars
    <3> QED BY Zenon, <3>1
  <2>2. EndsIt(t)
    <3> HIDE DEF nl, EndsIt
    <3> QED BY Zenon, <1>1, <1>3, <1>5, <2>1
  <2> QED BY Zenon, <2>2 DEF EndsLine
<1>6. CASE l.says = "word"
  <2>1. t = <<w, nl>>
    BY <1>6 DEF Chars
  <2>2. EndsIt(t)
    <3> HIDE DEF nl, EndsIt
    <3> QED BY Zenon, <1>1, <1>3, <1>6, <2>1
  <2> QED BY Zenon, <2>2 DEF EndsLine
<1>7. CASE l.says = "nothing"
  <2>1. t = <<" ", nl>>
    <3>1. Chars(l) = <<" ", "nl">>
      BY Zenon, <1>7 DEF Chars
    <3> QED BY Zenon, <3>1
  <2>2. EndsIt(t)
    <3> HIDE DEF nl, EndsIt
    <3> QED BY Zenon, <1>1, <1>3, <1>7, <2>1
  <2> QED BY Zenon, <2>2 DEF EndsLine
<1>8. CASE l.says = "set"
  <2> DEFINE v == l.value
             n == Len(v)
             sp == " "
             eq == "="
  <2>1. /\ n \in Nat /\ Len(t) = n + 6
        /\ t[1] = w /\ t[2] = sp /\ t[3] = eq /\ t[4] = sp
        /\ \A k \in 1 .. n : t[4 + k] = v[k] /\ v[k] # nl
        /\ t[n + 5] = sp /\ t[n + 6] = nl
    BY Zenon, <1>8, SetLineIs
  <2>2. w # nl /\ sp # nl /\ eq # nl
    BY Zenon, <1>3, <1>8
  <2> HIDE DEF t, w, nl, v, n, sp, eq, EndsIt
  <2>3. ASSUME NEW k \in 1 .. n + 5 PROVE t[k] # nl
    <3>1. CASE k \in {1, 2, 3, 4, n + 5}
      BY ONLY <2>1, <2>2, <3>1
    <3>2. CASE k - 4 \in 1 .. n
      <4>1. t[4 + (k - 4)] # nl
        BY ONLY <2>1, <3>2
      <4>2. 4 + (k - 4) = k
        BY ONLY <2>1, k \in 1 .. n + 5
      <4> QED BY ONLY <4>1, <4>2
    <3>3. k \in {1, 2, 3, 4, n + 5} \/ k - 4 \in 1 .. n
      BY ONLY <2>1, k \in 1 .. n + 5
    <3> QED BY Zenon, <3>1, <3>2, <3>3
  <2>4. Len(t) >= 1 /\ t[Len(t)] = nl /\ Len(t) - 1 = n + 5
    BY ONLY <2>1
  <2>5. \A k \in 1 .. Len(t) - 1 : t[k] # nl
    BY Zenon, <2>3, <2>4
  <2> QED BY Zenon, <2>4, <2>5 DEF EndsLine, t, nl
<1> QED BY Zenon, <1>2, <1>4, <1>5, <1>6, <1>7, <1>8

LEMMA Fronts ==
    ASSUME NEW S, NEW t \in Seq(S), Len(t) >= 1
    PROVE  /\ Front(t) \in Seq(S) /\ Len(Front(t)) = Len(t) - 1
           /\ \A k \in 1 .. Len(t) - 1 : Front(t)[k] = t[k]
           /\ t[Len(t)] \in S /\ t = Append(Front(t), t[Len(t)])
<1> DEFINE f == Front(t)
           m == Len(t) - 1
<1>1. f = SubSeq(t, 1, m) /\ m \in Nat
  BY DEF Front
<1>2. f \in Seq(S) /\ Len(f) = m /\ \A k \in 1 .. m : f[k] = t[k]
  <2> HIDE DEF f
  <2>1. m <= Len(t)
    BY <1>1
  <2>2. \A k \in 1 .. m : k \in 1 .. Len(t)
    BY <1>1
  <2> HIDE DEF m
  <2>3. /\ SubSeq(t, 1, m) \in Seq(S) /\ Len(SubSeq(t, 1, m)) = m
        /\ \A k \in 1 .. m : SubSeq(t, 1, m)[k] = t[k]
    BY ONLY t \in Seq(S), <1>1, <2>1, <2>2
  <2> QED BY Zenon, <1>1, <2>3
<1> HIDE DEF f
<1>3. t[Len(t)] \in S /\ t = Append(f, t[Len(t)])
  BY <1>1, <1>2
<1> QED BY Zenon, <1>2, <1>3 DEF f

LEMMA LineIsFront ==
    ASSUME NEW l \in LineSet
    PROVE  LET f == Front(Chars(l))
           IN  /\ f \in Text /\ Chars(l) = Append(f, "nl")
               /\ \A k \in 1 .. Len(f) : f[k] # "nl"
<1> DEFINE t == Chars(l)
           f == Front(t)
           S == Character
<1>1. t \in Seq(S)
  BY Zenon, LinesAreTexts DEF Text
<1>2. Len(t) >= 1 /\ t[Len(t)] = "nl" /\ \A k \in 1 .. Len(t) - 1 : t[k] # "nl"
  BY Zenon, LinesEnd DEF EndsLine
<1> HIDE DEF t, S
<1>3. /\ f \in Seq(S) /\ Len(f) = Len(t) - 1
      /\ \A k \in 1 .. Len(t) - 1 : f[k] = t[k]
      /\ t = Append(f, t[Len(t)])
  BY ONLY <1>1, <1>2, Fronts
<1> QED BY Zenon, <1>2, <1>3 DEF t, S, Text

LEMMA NothingSet ==
    ASSUME NEW t \in Text, \A k \in 1 .. Len(t) : t[k] # "nl", NEW s
    PROVE  Through(s, t).cfg = s.cfg
<1> DEFINE n == Len(t)
<1>1. n \in Nat
  BY DEF Text
<1>2. PICK h : /\ h[0] = s /\ Through(s, t) = h[n]
               /\ \A k \in 1 .. n : h[k] = Parse(h[k - 1], t[k])
  BY ONLY t \in Text, ParseGoesThrough
<1>3. \A r, c : c # "nl" => Parse(r, c).cfg = r.cfg
  BY Zenon, ParseSets
<1>4. ASSUME NEW k \in 1 .. n PROVE h[k].cfg = h[k - 1].cfg
  <2>1. t[k] # "nl"
    OBVIOUS
  <2>2. h[k] = Parse(h[k - 1], t[k])
    BY ONLY <1>2, k \in 1 .. n, Zenon
  <2>3. Parse(h[k - 1], t[k]).cfg = h[k - 1].cfg
    BY ONLY <1>3, <2>1, Zenon
  <2> QED BY ONLY <2>2, <2>3, Zenon
<1> DEFINE C(k) == h[k].cfg
           T == {k \in Nat : k <= n => C(k) = s.cfg}
<1> HIDE DEF n
<1>5. C(0) = s.cfg /\ \A k \in 1 .. n : C(k) = C(k - 1)
  BY Zenon, <1>2, <1>4
<1> HIDE DEF C
<1>6. 0 \in T
  BY <1>5
<1>7. ASSUME NEW k \in Nat, k \in T PROVE k + 1 \in T
  <2> SUFFICES ASSUME k + 1 <= n PROVE C(k + 1) = s.cfg
    OBVIOUS
  <2>1. k + 1 \in 1 .. n /\ (k + 1) - 1 = k /\ k <= n
    BY <1>1
  <2> QED BY <1>5, <1>7, <2>1
<1> HIDE DEF T
<1>8. n \in T
  BY <1>1, <1>6, <1>7, SetInduction
<1>9. C(n) = s.cfg
  BY <1>1, <1>8 DEF T
<1> QED BY Zenon, <1>2, <1>9 DEF C, n

\* The settings after the end of the file, which may come where a line begins or before
\* its "nl".
Done(s, t) == \E cfg : Says(cfg, t) /\ s.cfg = WithDefaults(cfg)

LEMMA EndSets ==
    ASSUME NEW s, Good(s), NEW c \in Character, NEW t, AtStart(s, t)
    PROVE  Done(Finish(s, c), t)
<1>1. PICK se \in Text, ke \in Text, va \in Text : \E sp, vp, cfg :
        s = AtLine(se, ke, va, sp, vp, cfg) /\ Says(cfg, t)
  BY Zenon DEF AtStart
<1>2. PICK sp, vp, cfg : s = AtLine(se, ke, va, sp, vp, cfg) /\ Says(cfg, t)
  BY Zenon, <1>1
<1>3. Parse(AtLine(se, ke, va, sp, vp, cfg), c).cfg = cfg
  <2> DEFINE a == AtLine(se, ke, va, sp, vp, cfg)
  <2>1. a.cfg = cfg /\ a.parser.state = "key"
    BY DEF AtLine, Stage
  <2>2. a.parser.state # "value"
    BY <2>1
  <2> HIDE DEF a
  <2>3. Parse(a, c).cfg = cfg
    BY Zenon, <2>1, <2>2, ParseSets
  <2> QED BY Zenon, <2>3 DEF a
<1>4. Finish(s, c).cfg = WithDefaults(Parse(s, c).cfg)
  <2> DEFINE r == Parse(s, c)
  <2>1. r = [parser |-> r.parser, cfg |-> r.cfg]
    BY ParseKeeps DEF Good
  <2>2. Finish(s, c) = [r EXCEPT !.cfg = WithDefaults(r.cfg)]
    BY DEF Finish
  <2> HIDE DEF r
  <2> QED BY <2>1, <2>2 DEF r
<1> QED BY Zenon, <1>2, <1>3, <1>4 DEF Done

WithRest(t, l, c) == IF c = "nl" THEN Append(t, l) ELSE t

LEMMA BreakSets ==
    ASSUME NEW s, Good(s), NEW c \in Character, NEW t \in Seq(LineSet), NEW l \in LineSet,
           Proper(t) => AtStart(s, t), Proper(WithRest(t, l, c))
    PROVE  Done(Finish(Through(s, Front(Chars(l))), c), WithRest(t, l, c))
<1> DEFINE u == WithRest(t, l, c)
<1> DEFINE f == Front(Chars(l))
           r == Through(s, f)
           q == Parse(r, c)
<1>1. f \in Text /\ Chars(l) = Append(f, "nl") /\ \A k \in 1 .. Len(f) : f[k] # "nl"
  BY Zenon, LineIsFront
<1> HIDE DEF f
<1>2. Good(r) /\ Good(q)
  BY Zenon, <1>1, ParseKeepsAll, ParseKeeps
<1>3. Finish(r, c).cfg = WithDefaults(q.cfg)
  <2>1. q = [parser |-> q.parser, cfg |-> q.cfg]
    BY <1>2 DEF Good
  <2>2. Finish(r, c) = [q EXCEPT !.cfg = WithDefaults(q.cfg)]
    BY DEF Finish
  <2> HIDE DEF q
  <2> QED BY <2>1, <2>2 DEF q
<1>4. Says(q.cfg, u)
  <2>1. CASE c = "nl"
    <3>1. u = Append(t, l) /\ Proper(u)
      BY Zenon, <2>1 DEF WithRest
    <3>0. Proper(t)
      BY Zenon, <3>1, LineAdds DEF OneLonger
    <3>2. AtStart(Through(s, Chars(l)), u)
      BY Zenon, <3>0, <3>1, LineIsSaid
    <3>3. Through(s, Append(f, c)) = q
      BY Zenon, <1>1, ThroughNext
    <3>4. AtStart(q, u)
      BY Zenon, <1>1, <2>1, <3>2, <3>3
    <3>5. PICK se, ke, va, sp, vp, cfg : q = AtLine(se, ke, va, sp, vp, cfg) /\ Says(cfg, u)
      BY Zenon, <3>4 DEF AtStart
    <3>6. AtLine(se, ke, va, sp, vp, cfg).cfg = cfg
      BY DEF AtLine, Stage
    <3> QED BY Zenon, <3>5, <3>6
  <2>2. CASE c # "nl"
    <3>1. u = t /\ AtStart(s, t)
      BY Zenon, <2>2 DEF WithRest
    <3>2. PICK se, ke, va, sp, vp, cfg : s = AtLine(se, ke, va, sp, vp, cfg) /\ Says(cfg, t)
      BY Zenon, <3>1 DEF AtStart
    <3>3. AtLine(se, ke, va, sp, vp, cfg).cfg = cfg
      BY DEF AtLine, Stage
    <3>4. r.cfg = s.cfg
      BY Zenon, <1>1, NothingSet
    <3>5. q.cfg = r.cfg
      BY Zenon, <2>2, ParseSets
    <3> QED BY Zenon, <3>1, <3>2, <3>3, <3>4, <3>5
  <2> QED BY Zenon, <2>1, <2>2
<1> QED BY Zenon, <1>3, <1>4 DEF f, Done

-----------------------------------------------------------------------------
(* The defaults, and what is meant.                                        *)

-----------------------------------------------------------------------------
(* The values that a setting has room for: what is stored of them is what  *)
(* they say.                                                               *)

\* A number that its type has room for.
LEMMA CastKeeps ==
    ASSUME NEW f \in Ints, NEW v, HasRoom(f, v)
    PROVE  Cast(f, Parsed(v)) = Parsed(v)
<1> DEFINE n == Parsed(v)
<1>1. n \in (IF f = Port THEN 0 .. UShortSize - 1 ELSE IF f \in Signed THEN -Half .. Half - 1
             ELSE 0 .. UIntSize - 1)
  <2>1. f \in Ints
    OBVIOUS
  <2>2. f \notin Texts /\ f # Proxies /\ f # Salt
    BY SettingsApart
  <2> QED BY <2>1, <2>2 DEF HasRoom
<1> HIDE DEF n
<1>2. CASE f = Port
  <2>1. n \in 0 .. UShortSize - 1
    BY <1>1, <1>2
  <2>2. n % UShortSize = n
    BY <2>1, UShorts
  <2>3. Port \notin Signed
    BY DEF Port, Signed
  <2> QED BY <1>2, <2>2, <2>3 DEF Cast, n
<1>3. CASE f # Port /\ f \in Signed
  <2>1. n \in -Half .. Half - 1
    BY <1>1, <1>3
  <2>2. n + Half \in 0 .. UIntSize - 1
    BY <2>1, UInts
  <2>3. (n + Half) % UIntSize = n + Half
    BY <2>2, UInts
  <2>4. ((n + Half) % UIntSize) - Half = n
    BY <2>1, <2>3, UInts
  <2> QED BY <1>3, <2>4 DEF Cast, n
<1>4. CASE f # Port /\ f \notin Signed
  <2>1. n \in 0 .. UIntSize - 1
    BY <1>1, <1>4
  <2>2. n % UIntSize = n
    BY <2>1, UInts
  <2> QED BY <1>4, <2>2 DEF Cast, n
<1> QED BY <1>2, <1>3, <1>4

\* The list of words before the first character.
OneEmpty == <<<< >>>>

LEMMA SplitGoesThrough ==
    ASSUME NEW t \in Text, NEW size
    PROVE  \E h : /\ h[0] = OneEmpty /\ Split(t, size) = h[Len(t)]
                  /\ \A k \in 1 .. Len(t) : h[k] = NextChar(h[k - 1], t[k], size)
<1> DEFINE n == Len(t)
           s == OneEmpty
           P(it, m) == it = [r \in SUBSET (1 .. m) |->
                    IF r = {} THEN s ELSE NextChar(it[r \ {Max(r)}], t[Max(r)], size)]
           iter == CHOOSE it : P(it, n)
<1>1. n \in Nat /\ DOMAIN t = 1 .. n
  BY DEF Text
<1>2. Split(t, size) = iter[1 .. n]
  BY <1>1 DEF Split, OneEmpty, FoldLeft, MapThenFoldSet
<1> HIDE DEF n, iter
<1>3. \E it : P(it, 0)
  <2> DEFINE it == [r \in SUBSET (1 .. 0) |-> s]
  <2>1. \A r \in SUBSET (1 .. 0) : r = {}
    OBVIOUS
  <2>2. P(it, 0)
    BY <2>1
  <2> QED BY <2>2
<1>4. ASSUME NEW m \in Nat, \E it : P(it, m) PROVE \E it : P(it, m + 1)
  <2>1. PICK g : P(g, m)
    BY <1>4
  <2> DEFINE D == SUBSET (1 .. m + 1)
             it == [r \in D |-> IF m + 1 \in r THEN NextChar(g[r \ {m + 1}], t[m + 1], size) ELSE g[r]]
  <2>2. ASSUME NEW r \in D
        PROVE  it[r] = IF r = {} THEN s ELSE NextChar(it[r \ {Max(r)}], t[Max(r)], size)
    <3>1. CASE m + 1 \in r
      <4>1. Max(r) = m + 1
        <5>1. m + 1 \in Nat /\ r \in SUBSET (1 .. m + 1) /\ r # {}
          BY <3>1
        <5>2. Max(r) \in r /\ \A k \in r : k <= Max(r)
          BY ONLY <5>1, Largest
        <5>3. m + 1 <= Max(r) /\ Max(r) \in 1 .. m + 1
          BY ONLY <3>1, <5>1, <5>2, Zenon
        <5> HIDE DEF D
        <5> QED BY ONLY <5>3, m \in Nat
      <4>2. r \ {m + 1} \in D /\ m + 1 \notin r \ {m + 1}
        OBVIOUS
      <4>3. it[r \ {m + 1}] = g[r \ {m + 1}]
        BY <4>2
      <4> QED BY <3>1, <4>1, <4>3
    <3>2. CASE m + 1 \notin r
      <4>1. r \in SUBSET (1 .. m)
        BY <3>2
      <4>2. g[r] = IF r = {} THEN s ELSE NextChar(g[r \ {Max(r)}], t[Max(r)], size)
        BY <2>1, <4>1
      <4>3. r \ {Max(r)} \in D /\ m + 1 \notin r \ {Max(r)}
        BY <3>2
      <4>4. it[r \ {Max(r)}] = g[r \ {Max(r)}] /\ it[r] = g[r]
        BY <3>2, <4>3
      <4> QED BY <4>2, <4>4
    <3> QED BY <3>1, <3>2
  <2>3. P(it, m + 1)
    BY <2>2
  <2> QED BY <2>3
<1>5. \E it : P(it, n)
  <2> HIDE DEF P
  <2> DEFINE T == {m \in Nat : \E it : P(it, m)}
  <2>1. 0 \in T
    BY <1>3
  <2>2. \A m \in Nat : m \in T => m + 1 \in T
    <3>1. \A m \in Nat : m + 1 \in Nat
      OBVIOUS
    <3> QED BY Zenon, <1>4, <3>1
  <2> HIDE DEF T
  <2>3. n \in T
    BY <1>1, <2>1, <2>2, SetInduction
  <2> QED BY <2>3 DEF T
<1>6. P(iter, n)
  BY <1>5 DEF iter
<1>7. \A r \in SUBSET (1 .. n) :
        iter[r] = IF r = {} THEN s ELSE NextChar(iter[r \ {Max(r)}], t[Max(r)], size)
  BY <1>6
<1> HIDE DEF P
<1> DEFINE h == [k \in 0 .. n |-> iter[1 .. k]]
<1>8. h[0] = s
  <2>1. 1 .. 0 = {} /\ 0 \in 0 .. n
    BY <1>1
  <2> QED BY <1>7, <2>1
<1>9. ASSUME NEW k \in 1 .. n PROVE h[k] = NextChar(h[k - 1], t[k], size)
  <2> DEFINE r == 1 .. k
  <2>1. r \in SUBSET (1 .. n) /\ r # {} /\ k \in r
    <3>1. k \in Nat /\ k >= 1 /\ k <= n
      BY <1>1
    <3>2. \A j \in 1 .. k : j \in 1 .. n
      BY <1>1, <3>1
    <3> QED BY <3>1, <3>2
  <2>2. Max(r) = k
    <3>1. Max(r) \in r /\ \A j \in r : j <= Max(r)
      BY <1>1, <2>1, Largest
    <3> QED BY <2>1, <3>1
  <2>3. r \ {k} = 1 .. k - 1
    OBVIOUS
  <2>4. iter[1 .. k] = NextChar(iter[1 .. k - 1], t[k], size)
    BY <1>7, <2>1, <2>2, <2>3
  <2>5. k \in 0 .. n /\ k - 1 \in 0 .. n
    BY <1>1
  <2> QED BY <2>4, <2>5
<1>10. Split(t, size) = h[n]
  <2>1. n \in 0 .. n
    BY <1>1
  <2> QED BY <1>2, <2>1
<1> HIDE DEF h
<1>11. /\ h[0] = s /\ Split(t, size) = h[Len(t)]
       /\ \A k \in 1 .. Len(t) : h[k] = NextChar(h[k - 1], t[k], size)
  BY <1>8, <1>9, <1>10 DEF n
<1> QED BY ONLY <1>11, Zenon

\* The words b of some characters with room for any word, and the words a of the same
\* characters by way of the buffer of a proxy.
Alike(a, b) ==
    \/ a = b /\ \A i \in DOMAIN b : Len(b[i]) < ProxySize
    \/ \E i \in DOMAIN b : Len(b[i]) >= ProxySize

Roomy(b, k) == b \in Seq(Text) /\ b # << >> /\ Len(b[Len(b)]) <= k

LEMMA NextCharAlike ==
    ASSUME NEW a, NEW b, NEW k \in Nat, NEW size \in Nat, k + 1 < size, Roomy(b, k), Alike(a, b),
           NEW c \in Character
    PROVE  /\ Roomy(NextChar(b, c, size), k + 1)
           /\ Alike(NextChar(a, c, ProxySize), NextChar(b, c, size))
<1> DEFINE m == Len(b)
           w == b[m]
           x == NextChar(a, c, ProxySize)
           y == NextChar(b, c, size)
           v == Append(w, c)
<1>1. /\ b \in Seq(Text) /\ m \in Nat \ {0} /\ DOMAIN b = 1 .. m /\ m \in DOMAIN b
      /\ \A i \in DOMAIN b : b[i] \in Text /\ Len(b[i]) \in Nat
  <2>1. b \in Seq(Text) /\ b # << >>
    BY DEF Roomy
  <2>2. \A t \in Text : Len(t) \in Nat
    BY DEF Text
  <2> HIDE DEF Roomy
  <2> QED BY <2>1, <2>2
<1>2. w \in Text /\ Len(w) \in Nat /\ Len(w) <= k
  BY <1>1 DEF Roomy
<1>3. v \in Text /\ Len(v) = Len(w) + 1
  BY <1>2 DEF Text
<1>4. ProxySize \in Nat \ {0}
  BY ConfigAssumption
<1>5. << >> \in Text /\ Len(<< >>) = 0
  BY DEF Text
<1>6. CASE c = " "
  <2>1. x = Append(a, << >>) /\ y = Append(b, << >>)
    BY <1>6 DEF NextChar
  <2> DEFINE e == << >>
  <2>2. e \in Text /\ Len(e) = 0
    BY <1>5
  <2> HIDE DEF e
  <2>3. y = Append(b, e) /\ x = Append(a, e)
    BY <2>1 DEF e
  <2> HIDE DEF m, x, y
  <2>4. /\ y \in Seq(Text) /\ Len(y) = m + 1 /\ DOMAIN y = 1 .. m + 1 /\ y[m + 1] = e
        /\ \A i \in 1 .. m : y[i] = b[i]
    BY <1>1, <2>2, <2>3 DEF m
  <2>5. Roomy(y, k + 1)
    BY <1>1, <2>2, <2>4 DEF Roomy
  <2>6. CASE a = b /\ \A i \in DOMAIN b : Len(b[i]) < ProxySize
    <3>1. x = y
      BY <2>3, <2>6
    <3>2. ASSUME NEW i \in 1 .. m + 1 PROVE Len(y[i]) < ProxySize
      <4>1. i \in 1 .. m \/ i = m + 1
        BY <1>1
      <4> QED BY <1>1, <1>4, <2>2, <2>4, <2>6, <4>1
    <3> QED BY <2>4, <2>5, <3>1, <3>2 DEF Alike, x, y
  <2>7. CASE \E i \in DOMAIN b : Len(b[i]) >= ProxySize
    <3>1. PICK i \in 1 .. m : Len(b[i]) >= ProxySize
      BY <1>1, <2>7
    <3>2. i \in DOMAIN y /\ Len(y[i]) >= ProxySize
      BY <1>1, <2>4, <3>1
    <3> QED BY <2>5, <3>2 DEF Alike, x, y
  <2> QED BY <2>6, <2>7 DEF Alike
<1>7. CASE c # " "
  <2>1. y = [b EXCEPT ![m] = v]
    <3>1. ~(Len(w) >= size) /\ Len(w) + 1 # size
      BY <1>2
    <3>2. Longer(w, c, size) = v
      BY <3>1 DEF Longer
    <3> QED BY <1>7, <3>2 DEF NextChar
  <2> HIDE DEF m, y, v
  <2>2. /\ y \in Seq(Text) /\ Len(y) = m /\ DOMAIN y = 1 .. m /\ y[m] = v
        /\ \A i \in 1 .. m : i # m => y[i] = b[i]
    BY <1>1, <1>3, <2>1 DEF m
  <2>3. Roomy(y, k + 1)
    BY <1>1, <1>2, <1>3, <2>2 DEF Roomy
  <2>4. CASE a = b /\ (\A i \in DOMAIN b : Len(b[i]) < ProxySize)
    <3>1. x = [b EXCEPT ![m] = Longer(w, c, ProxySize)]
      BY <1>7, <2>4 DEF NextChar, m
    <3>2. Len(w) < ProxySize
      BY <1>1, <2>4
    <3>3. CASE Len(w) + 1 < ProxySize
      <4>1. Longer(w, c, ProxySize) = v
        BY <1>2, <1>4, <3>2, <3>3 DEF Longer, v
      <4>2. x = y
        BY <2>1, <3>1, <4>1
      <4>3. \A i \in 1 .. m : Len(y[i]) < ProxySize
        BY <1>1, <1>3, <2>2, <2>4, <3>3
      <4> QED BY <2>2, <2>3, <4>2, <4>3 DEF Alike, y
    <3>4. CASE Len(w) + 1 >= ProxySize
      <4>1. m \in DOMAIN y /\ Len(y[m]) >= ProxySize
        BY <1>1, <1>3, <2>2, <3>4
      <4> QED BY <2>3, <4>1 DEF Alike, y
    <3> QED BY <1>2, <1>4, <3>3, <3>4
  <2>5. CASE \E i \in DOMAIN b : Len(b[i]) >= ProxySize
    <3>1. PICK i \in 1 .. m : Len(b[i]) >= ProxySize
      BY <1>1, <2>5
    <3>2. i \in DOMAIN y /\ Len(y[i]) >= ProxySize
      BY <1>1, <1>2, <1>3, <1>4, <2>2, <3>1
    <3> QED BY <2>3, <3>2 DEF Alike, y
  <2> QED BY <2>4, <2>5 DEF Alike
<1> QED BY <1>6, <1>7

\* The proxies of a value whose words are shorter than the buffer.
LEMMA WordsWithRoom ==
    ASSUME NEW v \in Text, HasRoom(Proxies, v)
    PROVE  Words(v, ProxySize) = AllWords(v)
<1> DEFINE n == Len(v)
           s == OneEmpty
<1>1. n \in Nat /\ \A k \in 1 .. n : v[k] \in Character
  BY DEF Text
<1>2. PICK h : /\ h[0] = s /\ Split(v, ProxySize) = h[n]
               /\ \A k \in 1 .. n : h[k] = NextChar(h[k - 1], v[k], ProxySize)
  BY SplitGoesThrough
<1>3. PICK g : /\ g[0] = s /\ Split(v, n + 1) = g[n]
               /\ \A k \in 1 .. n : g[k] = NextChar(g[k - 1], v[k], n + 1)
  BY SplitGoesThrough
<1> DEFINE T == {k \in Nat : k <= n => Roomy(g[k], k) /\ Alike(h[k], g[k])}
<1>4. 0 \in T
  <2>1. s \in Seq(Text) /\ Len(s) = 1 /\ DOMAIN s = {1} /\ Len(s[1]) = 0
    <3>1. << >> \in Text
      BY DEF Text
    <3> QED BY <3>1 DEF OneEmpty
  <2>2. ProxySize \in Nat \ {0}
    BY ConfigAssumption
  <2> HIDE DEF s
  <2>3. Roomy(s, 0) /\ Alike(s, s)
    BY <2>1, <2>2 DEF Roomy, Alike
  <2> QED BY <1>2, <1>3, <2>3
<1>5. ASSUME NEW k \in Nat, k \in T PROVE k + 1 \in T
  <2> SUFFICES ASSUME k + 1 <= n PROVE Roomy(g[k + 1], k + 1) /\ Alike(h[k + 1], g[k + 1])
    OBVIOUS
  <2>1. k + 1 \in 1 .. n /\ (k + 1) - 1 = k /\ k <= n /\ n + 1 \in Nat /\ k + 1 < n + 1
    BY <1>1
  <2>2. Roomy(g[k], k) /\ Alike(h[k], g[k])
    BY <1>5, <2>1
  <2>3. /\ h[k + 1] = NextChar(h[k], v[k + 1], ProxySize)
        /\ g[k + 1] = NextChar(g[k], v[k + 1], n + 1)
        /\ v[k + 1] \in Character
    BY <1>1, <1>2, <1>3, <2>1
  <2> HIDE DEF n
  <2> QED BY <2>1, <2>2, <2>3, NextCharAlike
<1> HIDE DEF T
<1>6. n \in T
  BY <1>1, <1>4, <1>5, SetInduction
<1>7. Alike(h[n], g[n])
  BY <1>1, <1>6 DEF T
<1>8. \A w \in Range(g[n]) : Len(w) < ProxySize
  <2>1. Proxies \notin Ints /\ Proxies # Salt
    BY SettingsApart
  <2> QED BY <1>3, <2>1 DEF HasRoom
<1>9. ASSUME NEW i \in DOMAIN g[n], Len(g[n][i]) >= ProxySize PROVE FALSE
  <2>1. g[n][i] \in Range(g[n])
    BY DEF Range
  <2>2. Len(g[n][i]) \in Nat /\ ProxySize \in Nat
    <3>1. g[n] \in Seq(Text)
      BY <1>1, <1>6 DEF T, Roomy
    <3>2. g[n][i] \in Text
      BY <3>1
    <3> QED BY <3>2, ConfigAssumption DEF Text
  <2> QED BY <1>8, <1>9, <2>1, <2>2
<1>10. h[n] = g[n]
  BY <1>7, <1>9 DEF Alike
<1> QED BY <1>2, <1>3, <1>10 DEF Words, AllWords

\* What the setting f makes of a value that it has room for.
LEMMA StoredIsMeant ==
    ASSUME NEW f \in Told, NEW v \in Text, HasRoom(f, v)
    PROVE  Given(f, v) = CASE f \in Texts -> v
                           [] f \in Bools -> v = <<"true">>
                           [] f \in Ints  -> Parsed(v)
                           [] f = Proxies -> AllWords(v)
<1>1. f \in Texts => Copied(f, v) = v
  <2>1. CASE f \in Texts /\ f = Salt
    <3>1. Len(v) <= SaltSize
      BY <2>1, SettingsApart DEF HasRoom
    <3>2. Len(v) \in Nat /\ SaltSize \in Nat
      BY ConfigAssumption DEF Text
    <3> QED BY <3>1, <3>2 DEF Copied
  <2> QED BY <2>1 DEF Copied
<1>2. f \in Ints => Cast(f, Parsed(v)) = Parsed(v)
  BY CastKeeps
<1>3. f = Proxies => Words(v, ProxySize) = AllWords(v)
  BY WordsWithRoom
<1>4. f \in Texts \/ f \in Bools \/ f \in Ints \/ f = Proxies
  BY Zenon DEF Told
<1> QED BY <1>1, <1>2, <1>3, <1>4, ToldApart DEF Given

\* A setting with its default.
Defaulted(f, x) ==
    IF f \in DOMAIN Default /\ ((f \in Texts /\ x = Unset) \/ (f \in Ints /\ x = 0)) THEN Default[f] ELSE x

LEMMA DefaultsFill ==
    ASSUME NEW cfg, NEW f \in DOMAIN cfg
    PROVE  WithDefaults(cfg)[f] = Defaulted(f, cfg[f])
BY Zenon DEF WithDefaults, Defaulted

LEMMA ClearedIs ==
    /\ Told \subseteq DOMAIN Cleared
    /\ \A f \in Ints : Cleared[f] = 0
<1>1. DOMAIN Cleared = Told \cup {Random, Colours}
  BY DEF Cleared, Told
<1>2. \A f \in Ints : f # Salt /\ f # Colours /\ f \notin Texts /\ f \notin Bools
  BY SettingsApart
<1>3. \A f \in Ints : f \in DOMAIN Cleared
  BY Zenon, <1>1 DEF Told
<1>4. \A f \in Ints : Cleared[f] = 0
  BY <1>2, <1>3, SettingsApart DEF Cleared
<1> QED BY Zenon, <1>1, <1>4

LEMMA WhatIsMeant ==
    ASSUME NEW f
    PROVE  LET K == LinesThat(file, f)
               v == ValueIn(file, Max(K))
           IN  /\ CountingLines(f) = K /\ ValueAt(Max(CountingLines(f))) = v
               /\ Meant(f) = IF K = {} THEN WithDefaults(Cleared)[f]
                          ELSE CASE f \in Texts -> v
                                 [] f \in Bools -> v = <<"true">>
                                 [] f \in Ints  -> IF Parsed(v) = 0 THEN WithDefaults(Cleared)[f]
                                                   ELSE Parsed(v)
                                 [] f = Proxies -> AllWords(v)
<1>1. \A k : ValueAt(k) = ValueIn(file, k) /\ SectionAt(k) = SectionIn(file, k)
  BY Zenon DEF ValueAt, ValueIn, SectionAt, SectionIn, SectionsTo
<1>2. SetLines(f) = LinesFor(file, f)
  BY Zenon, <1>1 DEF SetLines, LinesFor, Sets
<1>3. CountingLines(f) = LinesThat(file, f)
  BY Zenon, <1>1, <1>2 DEF CountingLines, LinesThat, Counts
<1> DEFINE J == CountingLines(f)
           K == LinesThat(file, f)
           w == ValueAt(Max(J))
           v == ValueIn(file, Max(K))
           m(y) == CASE f \in Texts -> y
                     [] f \in Bools -> y = <<"true">>
                     [] f \in Ints  -> IF Parsed(y) = 0 THEN WithDefaults(Cleared)[f] ELSE Parsed(y)
                     [] f = Proxies -> AllWords(y)
<1>4. w = v
  BY Zenon, <1>1, <1>3
<1>5. Meant(f) = IF J = {} THEN WithDefaults(Cleared)[f] ELSE m(w)
  BY Zenon DEF Meant
<1> HIDE DEF m, w, v, J, K
<1>6. J = K
  BY Zenon, <1>3 DEF J, K
<1>7. Meant(f) = IF K = {} THEN WithDefaults(Cleared)[f] ELSE m(v)
  BY Zenon, <1>4, <1>5, <1>6
<1> QED BY Zenon, <1>4, <1>6, <1>7 DEF m, v, w, J, K

LEMMA ColoursMeant ==
    ASSUME NEW c
    PROVE  {k \in SetLines(<<"colours", c>>) : Len(ValueAt(k)) = 1 /\ ValueAt(k)[1] \in Rgba}
                = ColoursIn(file, c)
<1>1. \A k : ValueAt(k) = ValueIn(file, k) /\ SectionAt(k) = SectionIn(file, k)
  BY Zenon DEF ValueAt, ValueIn, SectionAt, SectionIn, SectionsTo
<1>2. SetLines(<<"colours", c>>) = LinesFor(file, <<"colours", c>>)
  BY Zenon, <1>1 DEF SetLines, LinesFor, Sets
<1> QED BY Zenon, <1>1, <1>2 DEF ColoursIn, IsColour

\* With the defaults, what the file says is what it means.
LEMMA SaidIsMeant ==
    ASSUME file \in Seq(LineSet), NEW cfg, Says(cfg, file), reader.cfg = WithDefaults(cfg)
    PROVE  ConfigSays
<1>1. /\ Told \subseteq DOMAIN cfg /\ Colours \in DOMAIN cfg /\ cfg[Colours] \in Seq(Codes \X Rgba)
      /\ \A f \in Told : cfg[f] = LastValue(file, f)
      /\ \A c \in Codes : /\ Entries(cfg[Colours], c) = {} <=> ColoursIn(file, c) = {}
                          /\ FirstEntry(cfg[Colours], c) = FirstColour(file, c)
  BY Zenon DEF Says
<1>2. ASSUME NEW f \in Told,
             CountingLines(f) = {} \/ HasRoom(f, ValueAt(Max(CountingLines(f))))
      PROVE  reader.cfg[f] = Meant(f)
  <2> DEFINE K == LinesThat(file, f)
             v == ValueIn(file, Max(K))
             d == WithDefaults(Cleared)[f]
             n == Parsed(v)
  <2>1. reader.cfg[f] = Defaulted(f, LastValue(file, f))
    BY Zenon, <1>1, DefaultsFill
  <2>2. d = Defaulted(f, Cleared[f])
    BY Zenon, DefaultsFill, ClearedIs
  <2>3. Meant(f) = IF K = {} THEN d
                   ELSE CASE f \in Texts -> v
                          [] f \in Bools -> v = <<"true">>
                          [] f \in Ints  -> IF n = 0 THEN d ELSE n
                          [] f = Proxies -> AllWords(v)
    BY Zenon, WhatIsMeant
  <2>4. LastValue(file, f) = IF K = {} THEN Cleared[f] ELSE Given(f, v)
    BY Zenon DEF LastValue
  <2>5. f \in Texts \/ f \in Bools \/ f \in Ints \/ f = Proxies
    BY Zenon DEF Told
  <2>6. K # {} => v \in Text
    <3> SUFFICES ASSUME K # {} PROVE v \in Text
      OBVIOUS
    <3>1. Len(file) \in Nat /\ DOMAIN file = 1 .. Len(file) /\ \A k \in DOMAIN file : file[k] \in LineSet
      OBVIOUS
    <3>2. K \in SUBSET (1 .. Len(file)) /\ \A k \in K : file[k].says = "set"
      BY Zenon, <3>1 DEF LinesThat, LinesFor, Sets
    <3> HIDE DEF K
    <3>3. Max(K) \in K
      BY Zenon, <3>1, <3>2, Largest
    <3> DEFINE l == file[Max(K)]
    <3>4. l \in LineSet /\ l.says = "set"
      BY Zenon, <3>1, <3>2, <3>3
    <3> HIDE DEF l
    <3>5. l.value \in Text
      BY Zenon, <3>4, SetLineIs
    <3>6. Trim(l.value) \in Text
      BY Zenon, <3>5, TrimKeepsText
    <3> QED BY Zenon, <3>6 DEF ValueIn, l, K
  <2>7. Unset \notin Text
    BY Zenon, ConfigAssumption DEF Text
  <2>13. K # {} => Given(f, v) = CASE f \in Texts -> v
                                   [] f \in Bools -> v = <<"true">>
                                   [] f \in Ints  -> n
                                   [] f = Proxies -> AllWords(v)
    <3>1. K = {} \/ HasRoom(f, v)
      BY Zenon, <1>2, WhatIsMeant
    <3> QED BY Zenon, <2>6, <3>1, StoredIsMeant
  <2> HIDE DEF K, v, d, n
  <2>8. CASE K = {}
    BY Zenon, <2>1, <2>2, <2>3, <2>4, <2>8
  <2>9. ASSUME K # {}, f \in Texts PROVE reader.cfg[f] = Meant(f)
    <3>1. f \notin Bools /\ f \notin Ints /\ f # Proxies
      BY Zenon, <2>9, ToldApart
    <3>2. LastValue(file, f) = v /\ Meant(f) = v
      BY <2>3, <2>4, <2>9, <2>13, <3>1
    <3>3. v # Unset
      BY Zenon, <2>6, <2>7, <2>9
    <3> QED BY Zenon, <2>1, <3>1, <3>2, <3>3 DEF Defaulted
  <2>10. ASSUME K # {}, f \in Bools PROVE reader.cfg[f] = Meant(f)
    <3>1. f \notin Texts /\ f \notin Ints /\ f # Proxies
      BY Zenon, <2>10, ToldApart
    <3>2. LastValue(file, f) = (v = <<"true">>) /\ Meant(f) = (v = <<"true">>)
      BY <2>3, <2>4, <2>10, <2>13, <3>1
    <3> QED BY Zenon, <2>1, <3>1, <3>2 DEF Defaulted
  <2>11. ASSUME K # {}, f \in Ints PROVE reader.cfg[f] = Meant(f)
    <3>1. f \notin Texts /\ f \notin Bools /\ f # Proxies
      BY Zenon, <2>11, ToldApart
    <3>2. LastValue(file, f) = n /\ Meant(f) = IF n = 0 THEN d ELSE n
      BY <2>3, <2>4, <2>11, <2>13, <3>1
    <3>3. Cleared[f] = 0
      BY Zenon, <2>11, ClearedIs
    <3> QED BY Zenon, <2>1, <2>2, <3>1, <3>2, <3>3 DEF Defaulted
  <2>12. ASSUME K # {}, f = Proxies PROVE reader.cfg[f] = Meant(f)
    <3>1. f \notin Texts /\ f \notin Bools /\ f \notin Ints
      BY Zenon, <2>12, ToldApart
    <3>2. LastValue(file, f) = AllWords(v) /\ Meant(f) = AllWords(v)
      BY <2>3, <2>4, <2>12, <2>13, <3>1
    <3> QED BY Zenon, <2>1, <3>1, <3>2 DEF Defaulted
  <2> QED BY Zenon, <2>5, <2>8, <2>9, <2>10, <2>11, <2>12
<1>3. reader.cfg[Colours] = cfg[Colours]
  <2>1. Colours \notin Texts /\ Colours \notin Ints
    BY SettingsApart
  <2>2. reader.cfg[Colours] = Defaulted(Colours, cfg[Colours])
    BY Zenon, <1>1, DefaultsFill
  <2> QED BY Zenon, <2>1, <2>2 DEF Defaulted
<1>4. ASSUME NEW c \in Codes
      PROVE  LET K == {k \in SetLines(<<"colours", c>>) :
                        Len(ValueAt(k)) = 1 /\ ValueAt(k)[1] \in Rgba}
             IN  Colour(reader.cfg, c) = IF K = {} THEN Unset ELSE ValueAt(Min(K))[1]
  <2> DEFINE J == {k \in SetLines(<<"colours", c>>) : Len(ValueAt(k)) = 1 /\ ValueAt(k)[1] \in Rgba}
             K == ColoursIn(file, c)
  <2>1. J = K
    BY Zenon, ColoursMeant
  <2>2. Colour(reader.cfg, c) = FirstEntry(reader.cfg[Colours], c)
    BY Zenon DEF Colour, FirstEntry, Entries
  <2>3. Colour(reader.cfg, c) = FirstColour(file, c)
    BY Zenon, <1>1, <1>3, <2>2
  <2> HIDE DEF J, K
  <2>4. FirstColour(file, c) = IF K = {} THEN Unset ELSE ValueAt(Min(K))[1]
    BY Zenon DEF FirstColour, ValueAt, ValueIn, K
  <2>5. Colour(reader.cfg, c) = IF J = {} THEN Unset ELSE ValueAt(Min(J))[1]
    BY Zenon, <2>1, <2>3, <2>4
  <2> QED BY Zenon, <2>5 DEF J
<1> QED BY Zenon, <1>2, <1>4 DEF ConfigSays, Told

\* The invariant of config_init: a proper file has been read as far as its last line; when
\* it has ended, what its lines say is there, with the defaults.
ReadInv ==
    /\ ConfigInv
    /\ file \in Seq(LineSet)
    /\ ~ready /\ Proper(file) => AtStart(reader, file)
    /\ ready /\ Proper(file) => Done(reader, file)

LEMMA ReadInvSays == ReadInv => ConfigSays
<1> SUFFICES ASSUME ReadInv, ready, ProperFile PROVE ConfigSays
  BY Zenon DEF ConfigSays
<1>1. Proper(file)
  <2>1. \A k : (\E j \in 1 .. k : file[j].says = "section") => SectionsTo(file, k) # {}
    BY Zenon DEF SectionsTo
  <2> QED BY Zenon, <2>1 DEF ProperFile, Proper, ValueIn
<1>2. PICK cfg : Says(cfg, file) /\ reader.cfg = WithDefaults(cfg)
  BY Zenon, <1>1 DEF ReadInv, Done
<1> QED BY Zenon, <1>2, SaidIsMeant DEF ReadInv

LEMMA ReadInvInit == ConfigInit => ReadInv
<1> SUFFICES ASSUME ConfigInit PROVE ReadInv
  OBVIOUS
<1>1. PICK junk \in {<< >>, <<"junk">>} : reader = [parser |-> NewParser(junk), cfg |-> Cleared]
  BY Zenon DEF ConfigInit
<1>2. junk \in Text
  <2>1. "junk" \in Character
    BY Zenon DEF Character
  <2>2. << >> \in Text /\ \A c \in Character : <<c>> \in Text
    <3> DEFINE S == Character
    <3> HIDE DEF S
    <3>1. << >> \in Seq(S) /\ \A c \in S : <<c>> \in Seq(S)
      OBVIOUS
    <3> QED BY <3>1 DEF S, Text
  <2> QED BY Zenon, <2>1, <2>2
<1>3. ~ready /\ file = << >>
  BY DEF ConfigInit
<1>4. << >> \in Seq(LineSet)
  OBVIOUS
<1> QED BY Zenon, <1>1, <1>2, <1>3, <1>4, ConfigInvInit, ParserBegins DEF ReadInv

LEMMA ReadInvNext == ReadInv /\ [ConfigNext]_configVars => ReadInv'
<1> SUFFICES ASSUME ReadInv, [ConfigNext]_configVars PROVE ReadInv'
  OBVIOUS
<1>1. {"nl", " ", "#", "junk"} \subseteq Character
  BY Zenon DEF Character, Signs
<1>2. ConfigInv'
  BY Zenon, ConfigInvNext DEF ReadInv
<1>3. \A l \in LineSet : Append(file, l) \in Seq(LineSet)
  BY DEF ReadInv
<1>4. CASE ReadLine
  <2>1. PICK l \in LineSet : reader' = FoldLeft(Parse, reader, Chars(l)) /\ file' = Append(file, l)
    BY <1>4 DEF ReadLine
  <2>2. ~ready /\ ~ready'
    BY Zenon, <1>4 DEF ReadLine
  <2>3. reader' = Through(reader, Chars(l))
    BY <2>1 DEF Through
  <2>4. ASSUME Proper(file') PROVE AtStart(reader', file')
    <3>1. file \in Seq(LineSet)
      BY Zenon DEF ReadInv
    <3>2. OneLonger(file, l, file')
      BY Zenon, <2>1, <2>4, <3>1, LineAdds
    <3>3. AtStart(reader, file)
      BY Zenon, <2>2, <3>2 DEF OneLonger, ReadInv
    <3>4. AtStart(Through(reader, Chars(l)), file')
      BY Zenon, <2>1, <2>4, <3>1, <3>3, LineIsSaid
    <3> QED BY Zenon, <2>3, <3>4
  <2> QED BY Zenon, <1>2, <1>3, <2>1, <2>2, <2>4 DEF ReadInv
<1>5. CASE FileEnds
  <2>1. PICK c \in {"nl", " ", "#", "junk"} : reader' = Finish(reader, c)
    BY Zenon, <1>5 DEF FileEnds
  <2>2. ~ready /\ ready' /\ file' = file
    BY Zenon, <1>5 DEF FileEnds
  <2>3. ASSUME Proper(file) PROVE Done(reader', file)
    <3>1. Good(reader) /\ AtStart(reader, file) /\ c \in Character
      BY Zenon, <1>1, <2>2, <2>3 DEF ReadInv, ConfigInv
    <3> QED BY Zenon, <2>1, <3>1, EndSets
  <2> QED BY Zenon, <1>2, <2>2, <2>3 DEF ReadInv
<1>6. CASE FileBreaksOff
  <2>1. PICK l \in LineSet, c \in {"nl", " ", "#", "junk"} :
            /\ reader' = Finish(FoldLeft(Parse, reader, Front(Chars(l))), c)
            /\ file' = IF c = "nl" THEN Append(file, l) ELSE file
    BY <1>6 DEF FileBreaksOff
  <2>2. ~ready /\ ready'
    BY Zenon, <1>6 DEF FileBreaksOff
  <2>3. reader' = Finish(Through(reader, Front(Chars(l))), c)
    BY <2>1 DEF Through
  <2>4. file \in Seq(LineSet) /\ file' \in Seq(LineSet)
    BY Zenon, <1>3, <2>1 DEF ReadInv
  <2>5. ASSUME Proper(file') PROVE Done(reader', file')
    <3>1. Good(reader) /\ c \in Character /\ (Proper(file) => AtStart(reader, file))
      BY Zenon, <1>1, <2>2 DEF ReadInv, ConfigInv
    <3>2. file' = WithRest(file, l, c) /\ Proper(WithRest(file, l, c))
      BY Zenon, <2>1, <2>5 DEF WithRest
    <3>3. Done(Finish(Through(reader, Front(Chars(l))), c), WithRest(file, l, c))
      BY Zenon, <2>4, <3>1, <3>2, BreakSets
    <3> QED BY Zenon, <2>3, <3>2, <3>3
  <2> QED BY Zenon, <1>2, <2>2, <2>4, <2>5 DEF ReadInv
<1>7. CASE NoFile
  <2>1. reader' = [reader EXCEPT !.cfg = WithDefaults(Cleared)] /\ ready' = TRUE /\ ~ready
        /\ file = << >> /\ file' = file
    BY Zenon, <1>7 DEF NoFile
  <2>2. reader = [parser |-> reader.parser, cfg |-> reader.cfg]
    BY Zenon, <2>1 DEF ReadInv, ConfigInv, Good
  <2>3. reader'.cfg = WithDefaults(Cleared)
    BY <2>1, <2>2
  <2> QED BY Zenon, <1>2, <2>1, <2>3, EmptyFile DEF ReadInv, Done
<1>8. CASE UNCHANGED configVars
  BY Zenon, <1>2, <1>8 DEF configVars, ReadInv
<1> QED BY Zenon, <1>4, <1>5, <1>6, <1>7, <1>8 DEF ConfigNext

\* config_init: after a file whose settings all follow a section and fit the parser's
\* buffers, each setting has the value of the last line that sets it, where the setting
\* has room for that value (a port of 16 bits, a salt of 16 characters, proxies of less
\* than 64), and a colour that of the first, or its default: whatever the lines and their order, nothing of one line (its key,
\* its section, the rest of a longer value) is left in what another line sets, and a last
\* line that breaks off sets nothing.
THEOREM ConfigMeansWhatItSays == ConfigSpec => []ConfigSays
BY PTL, ReadInvInit, ReadInvNext, ReadInvSays DEF ConfigSpec
=============================================================================
