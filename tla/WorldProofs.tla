---------------------------- MODULE WorldProofs -----------------------------
(***************************************************************************)
(* What World and WorldFile promise, for maps of every size, whatever the   *)
(* generator made of them, and any number of edits, starts and faults.     *)
(***************************************************************************)
EXTENDS WorldFile, CommonLemmas

-----------------------------------------------------------------------------
(* Positions and their places in the array.                                *)

LEMMA Sizes == /\ Width \in Nat \ {0} /\ Depth \in Nat \ {0} /\ Height \in Nat \ {0}
               /\ Size \in Nat
<1>1. Width \in Nat \ {0} /\ Depth \in Nat \ {0} /\ Height \in Nat \ {0}
  BY SizeAssumption
<1>2. Width * Depth \in Nat
  BY <1>1
<1>3. Size \in Nat
  BY <1>1, <1>2 DEF Size
<1> QED BY <1>1, <1>3

LEMMA PosFields ==
    ASSUME NEW p \in Pos
    PROVE  /\ p = <<p[1], p[2], p[3]>>
           /\ p[1] \in 0 .. Width - 1 /\ p[2] \in 0 .. Depth - 1 /\ p[3] \in 0 .. Height - 1
           /\ p[1] \in Nat /\ p[2] \in Nat /\ p[3] \in Nat
BY DEF Pos

LEMMA LayerInside ==
    ASSUME NEW p \in Pos
    PROVE  p[2] * Height + p[3] \in Nat /\ p[2] * Height + p[3] < Depth * Height
BY Sizes, PosFields, RowInside

LEMMA IndexInside ==
    ASSUME NEW p \in Pos
    PROVE  Index(p) \in 0 .. Size - 1
<1>1. p[2] * Height + p[3] \in Nat /\ p[2] * Height + p[3] < Depth * Height
  BY LayerInside
<1>2. Depth * Height \in Nat
  BY Sizes
<1>3. Index(p) \in Nat /\ Index(p) < (Depth * Height) * Width
  BY <1>1, <1>2, Sizes, PosFields, RowInside DEF Index
<1>4. (Depth * Height) * Width = Size
  BY Sizes DEF Size
<1> QED BY <1>3, <1>4, Sizes

LEMMA GetInside ==
    ASSUME NEW w, NEW p \in Pos, NEW g
    PROVE  Get(w, p, g) = BlockAt(w, p)
BY IndexInside DEF Get, BlockAt

LEMMA IndexUnique ==
    ASSUME NEW p \in Pos, NEW q \in Pos, Index(p) = Index(q)
    PROVE  p = q
<1>1. p[2] * Height + p[3] \in Nat /\ q[2] * Height + q[3] \in Nat
  BY LayerInside
<1>2. p[2] * Height + p[3] = q[2] * Height + q[3] /\ p[1] = q[1]
  BY <1>1, Sizes, PosFields, RowUnique DEF Index
<1>3. p[2] = q[2] /\ p[3] = q[3]
  BY <1>2, Sizes, PosFields, RowUnique
<1> QED BY <1>2, <1>3, PosFields

LEMMA IndexOnto ==
    ASSUME NEW n \in 0 .. Size - 1
    PROVE  \E p \in Pos : Index(p) = n
<1> DEFINE x == n % Width
           row == n \div Width
           z == row % Height
           y == row \div Height
           p == <<x, y, z>>
<1>0. n \in Nat /\ n < Size
  BY Sizes
<1>1. row \in Nat /\ x \in 0 .. Width - 1 /\ n = row * Width + x
  BY <1>0, Sizes, DivMod
<1>2. y \in Nat /\ z \in 0 .. Height - 1 /\ row = y * Height + z
  BY <1>1, Sizes, DivMod
<1> HIDE DEF x, row, z, y
<1>3. y < Depth
  <2> SUFFICES ASSUME Depth <= y PROVE FALSE
    BY <1>2, Sizes
  <2>1. Depth * Height <= y * Height /\ Depth * Height \in Nat /\ y * Height \in Nat
    BY <1>2, Sizes, TimesGrows
  <2>2. Depth * Height <= row
    BY <1>2, <2>1
  <2>3. (Depth * Height) * Width <= row * Width /\ row * Width \in Nat
    BY <1>1, <2>1, <2>2, Sizes, TimesGrows
  <2>4. (Depth * Height) * Width = Size
    BY Sizes DEF Size
  <2> QED BY <1>0, <1>1, <2>3, <2>4, Sizes
<1>4. p \in Pos
  BY <1>1, <1>2, <1>3, Sizes DEF Pos
<1>5. Index(p) = n
  BY <1>1, <1>2 DEF Index
<1> QED BY <1>4, <1>5

-----------------------------------------------------------------------------
(* Worlds: the blocks of a world are those it began with, those that the   *)
(* clients hold, and air.                                                  *)

Kind == Present \cup {"air"}

Worlds == [blocks : [0 .. Size - 1 -> Kind], ticks : Seq(Tick), modified : BOOLEAN]

LEMMA KindsAreBlocks == Kind \subseteq Block
<1>1. FirstBlocks \in [0 .. Size - 1 -> Block]
  BY FirstAssumption
<1>2. Hand \subseteq Block
  BY BoundsAssumption
<1>3. {FirstBlocks[n] : n \in 0 .. Size - 1} \subseteq Block
  BY <1>1
<1> QED BY <1>2, <1>3 DEF Kind, Present, Block

LEMMA WorldFields ==
    ASSUME NEW w \in Worlds
    PROVE  /\ w.blocks \in [0 .. Size - 1 -> Kind] /\ w.ticks \in Seq(Tick)
           /\ w.modified \in BOOLEAN
           /\ \A p \in Pos : BlockAt(w, p) \in Kind
<1>1. w.blocks \in [0 .. Size - 1 -> Kind] /\ w.ticks \in Seq(Tick) /\ w.modified \in BOOLEAN
  BY DEF Worlds
<1> QED BY <1>1, IndexInside DEF BlockAt

LEMMA TicksOnly ==
    ASSUME NEW w \in Worlds, NEW T \in Seq(Tick)
    PROVE  /\ [w EXCEPT !.ticks = T] \in Worlds
           /\ [w EXCEPT !.ticks = T].blocks = w.blocks
           /\ [w EXCEPT !.ticks = T].modified = w.modified
           /\ [w EXCEPT !.ticks = T].ticks = T
BY DEF Worlds

\* How long an entry waits at most, and that this is not forever.
Soon(t) == t \in Int /\ \E b \in Present : t <= TickTime(b)

LEMMA SoonIsNotNever ==
    ASSUME NEW t, Soon(t)
    PROVE  t # Never
<1>1. PICK b \in Present : t <= TickTime(b)
  BY DEF Soon
<1>2. TickTime(b) \in {0, 4, 8}
  BY DEF TickTime
<1> QED BY <1>1, <1>2 DEF Soon, Never

LEMMA ZeroIsSoon == Soon(0)
<1>1. 0 \in 0 .. Size - 1
  <2>1. Width * Depth \in Nat \ {0}
    BY Sizes
  <2>2. Size # 0
    BY <2>1, Sizes DEF Size
  <2> QED BY <2>2, Sizes
<1>2. FirstBlocks[0] \in Present
  BY <1>1 DEF Present
<1>3. TickTime(FirstBlocks[0]) \in {0, 4, 8}
  BY DEF TickTime
<1> QED BY <1>2, <1>3 DEF Soon

\* p is scheduled, to come.
Queued(w, p) == \E k \in DOMAIN w.ticks : w.ticks[k].pos = p /\ w.ticks[k].wait # Never

Grows(w, v) ==
    /\ Len(w.ticks) <= Len(v.ticks)
    /\ \A k \in DOMAIN w.ticks : k \in DOMAIN v.ticks /\ v.ticks[k] = w.ticks[k]

LEMMA GrowsQueued ==
    ASSUME NEW w, NEW v, Grows(w, v), NEW p, Queued(w, p)
    PROVE  Queued(v, p)
BY DEF Grows, Queued

\* map_add_tick changes the queue only, and every position that it is called for and
\* whose block has a tick function is scheduled.
LEMMA AddTicksEffect ==
    ASSUME NEW w \in Worlds, NEW Q, NEW ps \in Seq(Q), NEW wait,
           \A q \in Range(ps) \cap Pos : HasTick(BlockAt(w, q)) => Soon(wait[BlockAt(w, q)])
    PROVE  /\ AddTicks(w, ps, wait) \in Worlds
           /\ AddTicks(w, ps, wait).blocks = w.blocks
           /\ AddTicks(w, ps, wait).modified = w.modified
           /\ Grows(w, AddTicks(w, ps, wait))
           /\ \A q \in Range(ps) \cap Pos :
                HasTick(BlockAt(w, q)) => Queued(AddTicks(w, ps, wait), q)
<1> DEFINE tick(q) ==
              IF q \in Pos /\ HasTick(BlockAt(w, q))
              THEN <<[pos |-> q, wait |-> wait[BlockAt(w, q)]]>>
              ELSE << >>
           s == [k \in DOMAIN ps |-> tick(ps[k])]
           more == FlattenSeq(s)
           v == [w EXCEPT !.ticks = @ \o more]
<1>1. AddTicks(w, ps, wait) = v
  BY DEF AddTicks
<1>2. \A k \in DOMAIN ps : tick(ps[k]) \in Seq(Tick)
  <2> SUFFICES ASSUME NEW k \in DOMAIN ps, ps[k] \in Pos, HasTick(BlockAt(w, ps[k]))
               PROVE  [pos |-> ps[k], wait |-> wait[BlockAt(w, ps[k])]] \in Tick
    OBVIOUS
  <2>1. ps[k] \in Range(ps)
    BY DEF Range
  <2>2. Soon(wait[BlockAt(w, ps[k])])
    BY <2>1
  <2> QED BY <2>2 DEF Soon, Tick
<1>3. s \in Seq(Seq(Tick)) /\ DOMAIN s = DOMAIN ps /\ DOMAIN ps = 1 .. Len(ps) /\ Len(ps) \in Nat
  <2>1. DOMAIN ps = 1 .. Len(ps) /\ Len(ps) \in Nat
    OBVIOUS
  <2>2. s \in [1 .. Len(ps) -> Seq(Tick)]
    BY <1>2, <2>1
  <2> QED BY <2>1, <2>2
<1>4. /\ more \in Seq(Tick)
      /\ \A e : e \in Range(more) <=> \E k \in DOMAIN s : e \in Range(s[k])
  <2> HIDE DEF s
  <2> QED BY <1>3, FlattenHolds
<1>5. \A k \in DOMAIN ps : s[k] = tick(ps[k])
  OBVIOUS
<1> HIDE DEF more, s
<1>6. /\ w.ticks \in Seq(Tick) /\ w.blocks \in [0 .. Size - 1 -> Kind] /\ w.modified \in BOOLEAN
  BY WorldFields
<1>7. w.ticks \o more \in Seq(Tick)
  BY <1>4, <1>6
<1>8. v = [w EXCEPT !.ticks = w.ticks \o more]
  OBVIOUS
<1>9. v \in Worlds /\ v.blocks = w.blocks /\ v.modified = w.modified
  BY <1>7, <1>8, TicksOnly
<1>10. v.ticks = w.ticks \o more
  BY <1>7, <1>8, TicksOnly
<1> HIDE DEF v
<1>11. /\ Len(w.ticks) \in Nat /\ Len(more) \in Nat
       /\ DOMAIN w.ticks = 1 .. Len(w.ticks) /\ DOMAIN more = 1 .. Len(more)
       /\ DOMAIN v.ticks = 1 .. Len(w.ticks) + Len(more)
       /\ Len(v.ticks) = Len(w.ticks) + Len(more)
       /\ \A k \in 1 .. Len(w.ticks) : v.ticks[k] = w.ticks[k]
       /\ \A k \in 1 .. Len(more) : v.ticks[Len(w.ticks) + k] = more[k]
  BY <1>4, <1>6, <1>10
<1>12. Grows(w, v)
  BY <1>11 DEF Grows
<1>13. ASSUME NEW q \in Range(ps) \cap Pos, HasTick(BlockAt(w, q))
       PROVE  Queued(v, q)
  <2>1. PICK k \in DOMAIN ps : ps[k] = q
    BY DEF Range
  <2> DEFINE e == [pos |-> q, wait |-> wait[BlockAt(w, q)]]
  <2>2. s[k] = <<e>>
    BY <1>5, <1>13, <2>1
  <2>3. e \in Range(s[k])
    BY <2>2 DEF Range
  <2>4. e \in Range(more)
    BY <1>3, <1>4, <2>1, <2>3
  <2>5. PICK j \in DOMAIN more : more[j] = e
    BY <2>4 DEF Range
  <2> HIDE DEF e
  <2>6. Len(w.ticks) + j \in DOMAIN v.ticks /\ v.ticks[Len(w.ticks) + j] = e
    <3>1. j \in 1 .. Len(more) /\ j \in Int
      BY <1>11
    <3>2. Len(w.ticks) + j \in 1 .. Len(w.ticks) + Len(more)
      BY <1>11, <3>1
    <3> QED BY <1>11, <2>5, <3>1, <3>2
  <2>7. e.wait # Never /\ e.pos = q
    BY <1>13, SoonIsNotNever DEF e
  <2> QED BY <2>6, <2>7 DEF Queued
<1> QED BY <1>1, <1>9, <1>10, <1>12, <1>13

-----------------------------------------------------------------------------
(* The parts of map_set.                                                   *)

Edited(w, v) ==
    /\ v \in Worlds
    /\ Grows(w, v)
    /\ w.modified => v.modified
    /\ v.modified \/ v.blocks = w.blocks

LEMMA GrowsTrans ==
    ASSUME NEW u \in Worlds, NEW w \in Worlds, NEW v \in Worlds, Grows(u, w), Grows(w, v)
    PROVE  Grows(u, v)
<1>1. Len(u.ticks) \in Nat /\ Len(w.ticks) \in Nat /\ Len(v.ticks) \in Nat
  BY WorldFields
<1> QED BY <1>1 DEF Grows

LEMMA EditedRefl ==
    ASSUME NEW w \in Worlds
    PROVE  Edited(w, w)
<1>1. Len(w.ticks) \in Nat
  BY WorldFields
<1> QED BY <1>1 DEF Edited, Grows

LEMMA EditedTrans ==
    ASSUME NEW u \in Worlds, NEW w, NEW v, Edited(u, w), Edited(w, v)
    PROVE  Edited(u, v)
<1>1. Grows(u, v)
  BY GrowsTrans DEF Edited
<1> QED BY <1>1 DEF Edited

LEMMA WriteEffect ==
    ASSUME NEW w \in Worlds, NEW p \in Pos, NEW b \in Kind
    PROVE  /\ Write(w, p, b) \in Worlds
           /\ Write(w, p, b).ticks = w.ticks /\ Write(w, p, b).modified = w.modified
           /\ \A q \in Pos : BlockAt(Write(w, p, b), q) = IF q = p THEN b ELSE BlockAt(w, q)
<1> DEFINE v == Write(w, p, b)
<1>1. Index(p) \in 0 .. Size - 1
  BY IndexInside
<1>2. /\ w.blocks \in [0 .. Size - 1 -> Kind] /\ w.ticks \in Seq(Tick)
      /\ w.modified \in BOOLEAN
  BY WorldFields
<1> DEFINE B == [w.blocks EXCEPT ![Index(p)] = b]
<1>3. B \in [0 .. Size - 1 -> Kind] /\ v = [w EXCEPT !.blocks = B]
  BY <1>1, <1>2 DEF Write
<1>4. \A n \in 0 .. Size - 1 : B[n] = IF n = Index(p) THEN b ELSE w.blocks[n]
  BY <1>1, <1>2
<1> HIDE DEF B, v
<1>5. /\ v \in Worlds /\ v.blocks = B /\ v.ticks = w.ticks /\ v.modified = w.modified
  BY <1>3 DEF Worlds
<1>7. ASSUME NEW q \in Pos PROVE v.blocks[Index(q)] = IF q = p THEN b ELSE w.blocks[Index(q)]
  <2>1. Index(q) \in 0 .. Size - 1 /\ (Index(q) = Index(p) => q = p)
    BY IndexInside, IndexUnique
  <2> QED BY <1>4, <1>5, <2>1
<1>8. \A q \in Pos : BlockAt(v, q) = IF q = p THEN b ELSE BlockAt(w, q)
  BY <1>7 DEF BlockAt
<1> QED BY <1>5, <1>8 DEF v

Above(p) == <<p[1], p[2] + 1, p[3]>>

\* A block and its neighbours, the one above it among them.
Nearby(p) == Range(Around(p))

LEMMA AroundHolds ==
    ASSUME NEW p
    PROVE  Around(p) \in Seq(Nearby(p)) /\ {p, Above(p)} \subseteq Nearby(p)
<1>1. /\ DOMAIN Around(p) = 1 .. 7 /\ Around(p)[1] = p /\ Around(p)[5] = Above(p)
      /\ Around(p) \in Seq({Around(p)[1], Around(p)[2], Around(p)[3], Around(p)[4],
                              Around(p)[5], Around(p)[6], Around(p)[7]})
  BY DEF Around, Above
<1>2. Range(Around(p)) = {Around(p)[1], Around(p)[2], Around(p)[3], Around(p)[4],
                          Around(p)[5], Around(p)[6], Around(p)[7]}
  BY <1>1 DEF Range
<1> QED BY <1>1, <1>2 DEF Nearby

\* The end of map_set: the block and its neighbours are scheduled.
LEMMA ChangedEffect ==
    ASSUME NEW w \in Worlds, NEW p \in Pos, NEW t, Soon(t)
    PROVE  /\ Changed(w, p, t) \in Worlds
           /\ Changed(w, p, t).blocks = w.blocks
           /\ Changed(w, p, t).modified = TRUE
           /\ Grows(w, Changed(w, p, t))
           /\ \A q \in Nearby(p) \cap Pos :
                HasTick(BlockAt(w, q)) => Queued(Changed(w, p, t), q)
<1> DEFINE wait == [b \in Block |-> t]
           u == AddTicks(w, Around(p), wait)
           v == Changed(w, p, t)
<1>1. \A q \in Pos : Soon(wait[BlockAt(w, q)])
  BY WorldFields, KindsAreBlocks
<1> HIDE DEF wait
<1>2. /\ u \in Worlds /\ u.blocks = w.blocks /\ Grows(w, u)
      /\ \A q \in Nearby(p) \cap Pos : HasTick(BlockAt(w, q)) => Queued(u, q)
  <2>1. Around(p) \in Seq(Nearby(p))
    BY AroundHolds
  <2> QED BY <1>1, <2>1, AddTicksEffect DEF Nearby
<1>3. v = [u EXCEPT !.modified = TRUE]
  BY DEF Changed, wait
<1> HIDE DEF u
<1>4. v \in Worlds /\ v.blocks = u.blocks /\ v.ticks = u.ticks /\ v.modified = TRUE
  BY <1>2, <1>3 DEF Worlds
<1>5. Grows(w, v)
  BY <1>2, <1>4 DEF Grows
<1>6. \A q : Queued(u, q) => Queued(v, q)
  BY <1>4 DEF Queued
<1> QED BY <1>2, <1>4, <1>5, <1>6

\* Setting a block to air.
LEMMA SetAirEffect ==
    ASSUME NEW w \in Worlds, NEW p
    PROVE  /\ Edited(w, SetAir(w, p))
           /\ \A q \in Pos : BlockAt(SetAir(w, p), q) = IF q = p THEN "air" ELSE BlockAt(w, q)
           /\ SetAir(w, p) = w \/
                (p \in Pos /\ \A q \in Nearby(p) \cap Pos :
                    HasTick(BlockAt(SetAir(w, p), q)) => Queued(SetAir(w, p), q))
<1>1. CASE p \notin Pos \/ BlockAt(w, p) = "air"
  BY <1>1, EditedRefl DEF SetAir
<1>2. CASE ~(p \notin Pos \/ BlockAt(w, p) = "air")
  <2> DEFINE u == Write(w, p, "air")
             v == Changed(u, p, 0)
  <2>1. SetAir(w, p) = v /\ p \in Pos
    BY <1>2 DEF SetAir
  <2>2. /\ u \in Worlds /\ u.ticks = w.ticks /\ u.modified = w.modified
        /\ \A q \in Pos : BlockAt(u, q) = IF q = p THEN "air" ELSE BlockAt(w, q)
    BY <2>1, WriteEffect DEF Kind
  <2> HIDE DEF u
  <2>3. /\ v \in Worlds /\ v.blocks = u.blocks /\ v.modified = TRUE /\ Grows(u, v)
        /\ \A q \in Nearby(p) \cap Pos : HasTick(BlockAt(u, q)) => Queued(v, q)
    BY <2>1, <2>2, ZeroIsSoon, ChangedEffect
  <2> HIDE DEF v
  <2>4. \A q : BlockAt(v, q) = BlockAt(u, q)
    BY <2>3 DEF BlockAt
  <2>5. Edited(w, v)
    BY <2>2, <2>3 DEF Edited, Grows
  <2> QED BY <2>1, <2>2, <2>3, <2>4, <2>5
<1> QED BY <1>1, <1>2

-----------------------------------------------------------------------------
(* The functions of the sponge.                                            *)

\* The loops of a sponge find the liquid that is near, and nothing else.
LEMMA LiquidNearHolds ==
    ASSUME NEW w, NEW p \in Pos, NEW r \in Nat, NEW g
    PROVE  /\ LiquidNear(w, p, r, g) \in Seq(Near(p, r))
           /\ \A q : q \in Range(LiquidNear(w, p, r, g)) <=>
                    q \in Near(p, r) /\ Liquid(Get(w, q, g))
<1>1. CASE Near(p, r) = {}
  <2>1. LiquidNear(w, p, r, g) = << >>
    BY <1>1 DEF LiquidNear, InOrder
  <2>2. << >> \in Seq(Near(p, r)) /\ Range(<< >>) = {}
    BY DEF Range
  <2> QED BY <1>1, <2>1, <2>2
<1>2. CASE Near(p, r) # {}
  <2> DEFINE n == 2 * r + 1
             at(x, y, z) == <<p[1] - r + x - 1, p[2] - r + y - 1, p[3] - r + z - 1>>
             E == Near(p, r)
             part(q) == IF Liquid(Get(w, q, g)) THEN <<q>> ELSE << >>
             row(x, y) == [z \in 1 .. n |-> part(at(x, y, z))]
             plane(x) == [y \in 1 .. n |-> FlattenSeq(row(x, y))]
             cube == [x \in 1 .. n |-> FlattenSeq(plane(x))]
  <2>1. LiquidNear(w, p, r, g) = FlattenSeq(cube)
    BY <1>2 DEF LiquidNear, InOrder
  <2>2. p[1] \in Int /\ p[2] \in Int /\ p[3] \in Int /\ n \in Nat
    BY PosFields
  <2>3. E = (p[1] - r .. p[1] + r) \X (p[2] - r .. p[2] + r) \X (p[3] - r .. p[3] + r)
    BY <1>2 DEF Near
  <2>4. \A x, y, z \in 1 .. n : at(x, y, z) \in E
    BY <2>2, <2>3
  <2>5. ASSUME NEW q \in E
        PROVE  \E x, y, z \in 1 .. n : q = at(x, y, z)
    <3>1. /\ q = <<q[1], q[2], q[3]>> /\ q[1] \in p[1] - r .. p[1] + r
          /\ q[2] \in p[2] - r .. p[2] + r /\ q[3] \in p[3] - r .. p[3] + r
      BY <2>3
    <3> DEFINE x == q[1] - p[1] + r + 1
               y == q[2] - p[2] + r + 1
               z == q[3] - p[3] + r + 1
    <3>2. x \in 1 .. n /\ y \in 1 .. n /\ z \in 1 .. n
      BY <2>2, <3>1
    <3>3. q = at(x, y, z)
      BY <2>2, <3>1
    <3> QED BY <3>2, <3>3
  <2> HIDE DEF at, E, n
  <2>6. \A x, y, z \in 1 .. n : part(at(x, y, z)) \in Seq(E)
    BY <2>4
  <2>7. \A q, e : e \in Range(part(q)) <=> e = q /\ Liquid(Get(w, q, g))
    BY DEF Range
  <2> HIDE DEF part
  <2>8. ASSUME NEW x \in 1 .. n, NEW y \in 1 .. n
        PROVE  /\ FlattenSeq(row(x, y)) \in Seq(E)
               /\ \A e : e \in Range(FlattenSeq(row(x, y))) <=>
                        \E z \in 1 .. n : e \in Range(part(at(x, y, z)))
    <3>1. row(x, y) \in Seq(Seq(E)) /\ DOMAIN row(x, y) = 1 .. n
      <4>1. row(x, y) \in [1 .. n -> Seq(E)]
        BY <2>6
      <4> QED BY <2>2, <4>1
    <3>2. \A z \in 1 .. n : row(x, y)[z] = part(at(x, y, z))
      OBVIOUS
    <3> HIDE DEF row
    <3> QED BY <3>1, <3>2, FlattenHolds
  <2> HIDE DEF row
  <2>9. ASSUME NEW x \in 1 .. n
        PROVE  /\ FlattenSeq(plane(x)) \in Seq(E)
               /\ \A e : e \in Range(FlattenSeq(plane(x))) <=>
                        \E y \in 1 .. n : e \in Range(FlattenSeq(row(x, y)))
    <3>1. plane(x) \in Seq(Seq(E)) /\ DOMAIN plane(x) = 1 .. n
      <4>1. plane(x) \in [1 .. n -> Seq(E)]
        BY <2>8
      <4> QED BY <2>2, <4>1
    <3>2. \A y \in 1 .. n : plane(x)[y] = FlattenSeq(row(x, y))
      OBVIOUS
    <3> HIDE DEF plane
    <3> QED BY <3>1, <3>2, FlattenHolds
  <2> HIDE DEF plane
  <2>10. /\ FlattenSeq(cube) \in Seq(E)
         /\ \A e : e \in Range(FlattenSeq(cube)) <=>
                 \E x \in 1 .. n : e \in Range(FlattenSeq(plane(x)))
    <3>1. cube \in Seq(Seq(E)) /\ DOMAIN cube = 1 .. n
      <4>1. cube \in [1 .. n -> Seq(E)]
        BY <2>9
      <4> QED BY <2>2, <4>1
    <3>2. \A x \in 1 .. n : cube[x] = FlattenSeq(plane(x))
      OBVIOUS
    <3> HIDE DEF cube
    <3> QED BY <3>1, <3>2, FlattenHolds
  <2> HIDE DEF cube
  <2>11. \A e : e \in Range(FlattenSeq(cube)) <=>
                \E x, y, z \in 1 .. n : e \in Range(part(at(x, y, z)))
    BY <2>8, <2>9, <2>10
  <2>12. ASSUME NEW q PROVE q \in Range(FlattenSeq(cube)) <=> q \in E /\ Liquid(Get(w, q, g))
    BY <2>4, <2>5, <2>7, <2>11
  <2> QED BY <2>1, <2>10, <2>12 DEF E
<1> QED BY <1>1, <1>2

\* Breaking a sponge changes the queue only, and schedules the liquid near it.
LEMMA BrokenEffect ==
    ASSUME NEW w \in Worlds, NEW p \in Pos, NEW old, NEW g
    PROVE  /\ Broken(w, p, old, g) \in Worlds
           /\ Broken(w, p, old, g).blocks = w.blocks
           /\ Broken(w, p, old, g).modified = w.modified
           /\ Grows(w, Broken(w, p, old, g))
           /\ old = "sponge" =>
                \A q \in Near(p, 3) \cap Pos :
                    Flows(BlockAt(w, q)) => Queued(Broken(w, p, old, g), q)
<1>1. CASE old = "sponge"
  <2> DEFINE ps == LiquidNear(w, p, 3, g)
             wait == [b \in Block |-> TickTime(b)]
  <2>1. ps \in Seq(Near(p, 3)) /\ \A q \in Range(ps) : Liquid(Get(w, q, g))
    BY LiquidNearHolds
  <2>2. ASSUME NEW q \in Range(ps) \cap Pos
        PROVE  Soon(wait[BlockAt(w, q)])
    <3>1. Get(w, q, g) = BlockAt(w, q)
      BY IndexInside DEF Get, BlockAt
    <3>2. BlockAt(w, q) \in Present
      BY <2>1, <3>1, WorldFields DEF Kind, Liquid
    <3>3. wait[BlockAt(w, q)] = TickTime(BlockAt(w, q)) /\ TickTime(BlockAt(w, q)) \in {0, 4, 8}
      BY <3>2, KindsAreBlocks DEF Kind, TickTime
    <3> QED BY <3>2, <3>3 DEF Soon
  <2>3. Broken(w, p, old, g) = AddTicks(w, ps, wait)
    BY <1>1 DEF Broken
  <2>4. \A q \in Near(p, 3) \cap Pos :
            Flows(BlockAt(w, q)) => q \in Range(ps) \cap Pos /\ HasTick(BlockAt(w, q))
    BY LiquidNearHolds, GetInside DEF HasTick, Flows, Liquid
  <2> HIDE DEF ps, wait
  <2> QED BY <2>1, <2>2, <2>3, <2>4, AddTicksEffect
<1>2. CASE old # "sponge"
  BY <1>2, EditedRefl DEF Broken, Edited
<1> QED BY <1>1, <1>2

LEMMA DriedRuns ==
    ASSUME NEW w \in Worlds, NEW Q, NEW ps \in Seq(Q)
    PROVE  \E h : /\ Dried(w, ps) = h[Len(ps)] /\ h[0] = w
                  /\ \A k \in 1 .. Len(ps) : h[k] = SetAir(h[k - 1], ps[k])
                  /\ \A k \in 1 .. Len(ps) : h[k - 1] \in Worlds => h[k] \in Worlds
<1> DEFINE n == Len(ps)
           f == [k \in 1 .. n |-> [v \in Worlds |-> SetAir(v, ps[k])]]
           h == CHOOSE h : h = [k \in 0 .. n |-> IF k = 0 THEN w ELSE SetAir(h[k - 1], ps[k])]
<1>1. n \in Nat
  OBVIOUS
<1>2. \A v \in Worlds : \A q : SetAir(v, q) \in Worlds
  BY SetAirEffect DEF Edited
<1>3. f \in [1 .. n -> [Worlds -> Worlds]]
  BY <1>2
<1>4. \A k \in 1 .. n, v \in Worlds : f[k][v] = SetAir(v, ps[k])
  OBVIOUS
<1>5. Dried(w, ps) = h[n]
  BY DEF Dried, Loop
<1> HIDE DEF f, n
<1>6. PICK r \in [0 .. n -> Worlds] : Runs(r, f, w, n)
  BY <1>1, <1>3, LoopExists
<1>7. \A k \in 1 .. n : r[k] = SetAir(r[k - 1], ps[k])
  <2>1. \A k \in 1 .. n : k - 1 \in 0 .. n
    BY <1>1
  <2> QED BY <1>4, <1>6, <2>1 DEF Runs
<1>8. r = [k \in 0 .. n |-> IF k = 0 THEN w ELSE SetAir(r[k - 1], ps[k])]
  <2>1. \A k \in 0 .. n : k # 0 => k \in 1 .. n
    BY <1>1
  <2> QED BY <1>6, <1>7, <2>1 DEF Runs
<1>9. h = [k \in 0 .. n |-> IF k = 0 THEN w ELSE SetAir(h[k - 1], ps[k])]
  BY <1>8
<1> HIDE DEF h
<1>10. h[0] = w /\ \A k \in 1 .. n : h[k] = SetAir(h[k - 1], ps[k])
  <2>1. 0 \in 0 .. n /\ \A k \in 1 .. n : k \in 0 .. n /\ k # 0
    BY <1>1
  <2> QED BY <1>9, <2>1
<1>11. \A k \in 1 .. n : h[k - 1] \in Worlds => h[k] \in Worlds
  BY <1>2, <1>10
<1> QED BY <1>5, <1>10, <1>11 DEF n

\* A sponge that is placed turns the liquid of the list to air and leaves the other
\* blocks alone.
LEMMA DriedEffect ==
    ASSUME NEW w \in Worlds, NEW Q, NEW ps \in Seq(Q)
    PROVE  /\ Edited(w, Dried(w, ps))
           /\ \A q \in Pos : BlockAt(Dried(w, ps), q) =
                    IF q \in Range(ps) THEN "air" ELSE BlockAt(w, q)
<1> DEFINE n == Len(ps)
           W == {v \in Worlds : Edited(w, v) /\
                    \A q \in Pos \ Range(ps) : BlockAt(v, q) = BlockAt(w, q)}
           K(q) == {v \in Worlds : BlockAt(v, q) = "air"}
<1>1. PICK h : /\ Dried(w, ps) = h[n] /\ h[0] = w
               /\ \A k \in 1 .. n : h[k] = SetAir(h[k - 1], ps[k])
               /\ \A k \in 1 .. n : h[k - 1] \in Worlds => h[k] \in Worlds
  BY DriedRuns
<1>2. n \in Nat /\ DOMAIN ps = 1 .. n
  OBVIOUS
<1>3. h[n] \in W
  <2>1. h[0] \in W
    BY <1>1, EditedRefl
  <2>2. ASSUME NEW k \in 1 .. n, h[k - 1] \in W PROVE h[k] \in W
    <3>1. ps[k] \in Range(ps)
      BY <1>2 DEF Range
    <3>2. /\ h[k] \in Worlds /\ Edited(h[k - 1], h[k])
          /\ \A q \in Pos \ Range(ps) : BlockAt(h[k], q) = BlockAt(h[k - 1], q)
      BY <1>1, <2>2, <3>1, SetAirEffect
    <3>3. Edited(w, h[k])
      BY <2>2, <3>2, EditedTrans
    <3> QED BY <2>2, <3>2, <3>3
  <2> HIDE DEF W, n
  <2> QED BY <1>2, <2>1, <2>2, LoopKeeps
<1>4. ASSUME NEW q \in Pos, q \in Range(ps)
      PROVE  h[n] \in K(q)
  <2>1. PICK j \in 1 .. n : ps[j] = q
    BY <1>2, <1>4 DEF Range
  <2>2. h[0] \in Worlds
    BY <1>1
  <2>3. ASSUME NEW k \in 1 .. n, h[k - 1] \in K(q) PROVE h[k] \in K(q)
    BY <1>1, <2>3, SetAirEffect
  <2>4. h[j - 1] \in Worlds => h[j] \in K(q)
    BY <1>1, <2>1, SetAirEffect
  <2> HIDE DEF K, n
  <2> QED BY <1>1, <1>2, <2>2, <2>3, <2>4, LoopReaches
<1> QED BY <1>1, <1>3, <1>4

-----------------------------------------------------------------------------
(* Sand that hangs.                                                        *)

LEMMA LeastNumber ==
    ASSUME NEW S \in SUBSET Nat, S # {}
    PROVE  \E x \in S : \A y \in S : x <= y
<1> DEFINE R == OpToRel(<, Nat)
<1>1. IsWellFoundedOn(R, Nat)
  BY NatLessThanWellFounded
<1>2. \A x, y \in Nat : <<y, x>> \in R <=> y < x
  BY DEF OpToRel
<1> HIDE DEF R
<1>3. PICK x \in S : \A y \in S : ~ (<<y, x>> \in R)
  BY <1>1, WFMin
<1>4. \A y \in S : y \in Nat /\ x \in Nat /\ ~ (y < x)
  BY <1>2, <1>3
<1>5. \A y \in S : x <= y
  BY <1>4
<1> QED BY <1>5

\* Where blocktick_gravity puts a block, and when it moves it at all.
LEMMA LandingIs ==
    ASSUME NEW w \in Worlds, NEW p \in Pos
    PROVE  /\ Landing(w, p) \in Pos
           /\ Landing(w, p) # p <=> p[2] > 0 /\ ~Solid(BlockAt(w, Below(p)))
           /\ Landing(w, p) # p => ~Solid(BlockAt(w, Landing(w, p)))
<1> DEFINE free(y) == \A k \in y .. p[2] - 1 : ~Solid(BlockAt(w, <<p[1], k, p[3]>>))
           Low(y) == free(y) /\ \A k \in 0 .. y - 1 : ~free(k)
           low == CHOOSE y \in 0 .. p[2] : Low(y)
           F == {y \in 0 .. p[2] : free(y)}
<1>1. /\ p = <<p[1], p[2], p[3]>> /\ p[2] \in Nat
      /\ p[1] \in 0 .. Width - 1 /\ p[2] \in 0 .. Depth - 1 /\ p[3] \in 0 .. Height - 1
  BY PosFields
<1>2. p[2] \in F
  BY <1>1
<1>3. PICK y \in F : \A k \in F : y <= k
  <2>1. F \in SUBSET Nat /\ F # {}
    BY <1>1, <1>2
  <2> HIDE DEF F
  <2> QED BY <2>1, LeastNumber
<1>4. y \in 0 .. p[2] /\ Low(y)
  <2>1. y \in 0 .. p[2] /\ free(y)
    BY <1>3
  <2>2. ASSUME NEW k \in 0 .. y - 1, free(k) PROVE FALSE
    <3>1. k \in 0 .. p[2] /\ k < y
      BY <1>1, <2>1
    <3>2. k \in F
      BY <2>2, <3>1
    <3> QED BY <1>1, <1>3, <3>1, <3>2
  <2> HIDE DEF free
  <2> QED BY <2>1, <2>2
<1> HIDE DEF Low
<1>5. low \in 0 .. p[2] /\ Low(low)
  BY <1>4
<1>6. Landing(w, p) = <<p[1], low, p[3]>>
  BY DEF Landing, Low
<1> HIDE DEF low
<1>7. Landing(w, p) \in Pos
  <2>1. low \in 0 .. Depth - 1
    BY <1>1, <1>5, Sizes
  <2> QED BY <1>1, <1>6, <2>1 DEF Pos
<1>8. Landing(w, p) # p <=> low # p[2]
  BY <1>1, <1>6
<1>9. ASSUME low # p[2] PROVE p[2] > 0 /\ ~Solid(BlockAt(w, Below(p)))
  <2>1. low < p[2] /\ p[2] - 1 \in low .. p[2] - 1
    BY <1>1, <1>5, <1>9
  <2> QED BY <1>1, <1>5, <2>1 DEF Low, Below
<1>10. ASSUME p[2] > 0, ~Solid(BlockAt(w, Below(p))), low = p[2] PROVE FALSE
  <2>1. p[2] - 1 \in 0 .. low - 1
    BY <1>1, <1>10
  <2>2. \A k \in p[2] - 1 .. p[2] - 1 : k = p[2] - 1
    BY <1>1
  <2>3. free(p[2] - 1)
    BY <1>10, <2>2 DEF Below
  <2> QED BY <1>5, <2>1, <2>3 DEF Low
<1>11. ASSUME low # p[2] PROVE ~Solid(BlockAt(w, Landing(w, p)))
  <2>1. low \in low .. p[2] - 1
    BY <1>1, <1>5, <1>11
  <2> QED BY <1>5, <1>6, <2>1 DEF Low
<1> QED BY <1>7, <1>8, <1>9, <1>10, <1>11

LEMMA HangsIff ==
    ASSUME NEW w \in Worlds, NEW p \in Pos
    PROVE  Hangs(w, p) <=>
                /\ BlockAt(w, p) = "sand" /\ p[2] > 0 /\ ~Solid(BlockAt(w, Below(p)))
                /\ ~(AsLeft(w, p) /\ AsLeft(w, Below(p)))
BY LandingIs DEF Hangs, Falls

LEMMA SameBlocks ==
    ASSUME NEW w \in Worlds, NEW v \in Worlds, v.blocks = w.blocks
    PROVE  /\ \A p \in Pos : Hangs(v, p) <=> Hangs(w, p)
           /\ KeptDry(w) => KeptDry(v)
<1>1. \A p : BlockAt(v, p) = BlockAt(w, p) /\ (AsLeft(v, p) <=> AsLeft(w, p))
  BY DEF BlockAt, AsLeft
<1>2. \A p \in Pos : Hangs(v, p) <=> Hangs(w, p)
  BY <1>1, HangsIff
<1>3. KeptDry(w) => KeptDry(v)
  BY <1>1 DEF KeptDry
<1> QED BY <1>2, <1>3

\* Sand that hangs outside of E is scheduled.
SandAwaits(w, E) == \A p \in Pos \ E : Hangs(w, p) => Queued(w, p)

\* A change of one block makes only that block or the one above it hang.
LEMMA HangsNearChange ==
    ASSUME NEW w \in Worlds, NEW v \in Worlds, NEW p \in Pos,
           \A q \in Pos \ {p} : BlockAt(v, q) = BlockAt(w, q),
           NEW q \in Pos \ Nearby(p), Hangs(v, q)
    PROVE  Hangs(w, q)
<1>0. q \notin {p, Above(p)}
  BY AroundHolds
<1>1. /\ BlockAt(v, q) = "sand" /\ q[2] > 0 /\ ~Solid(BlockAt(v, Below(q)))
      /\ ~(AsLeft(v, q) /\ AsLeft(v, Below(q)))
  BY HangsIff
<1>2. Below(q) \in Pos /\ Below(q) # p
  BY <1>0, <1>1, PosFields, Sizes DEF Below, Above, Pos
<1>3. BlockAt(w, q) = BlockAt(v, q) /\ BlockAt(w, Below(q)) = BlockAt(v, Below(q))
  BY <1>0, <1>2
<1>4. ~(AsLeft(w, q) /\ AsLeft(w, Below(q)))
  BY <1>1, <1>3 DEF AsLeft
<1> QED BY <1>1, <1>3, <1>4, HangsIff

LEMMA SetAirSand ==
    ASSUME NEW w \in Worlds, NEW p, NEW E, SandAwaits(w, E)
    PROVE  SandAwaits(SetAir(w, p), E)
<1> DEFINE v == SetAir(w, p)
<1> SUFFICES ASSUME v # w, NEW q \in Pos \ E, Hangs(v, q) PROVE Queued(v, q)
  BY DEF SandAwaits
<1>1. /\ v \in Worlds /\ Grows(w, v) /\ p \in Pos
      /\ \A r \in Pos : BlockAt(v, r) = IF r = p THEN "air" ELSE BlockAt(w, r)
      /\ \A r \in Nearby(p) \cap Pos : HasTick(BlockAt(v, r)) => Queued(v, r)
  BY SetAirEffect DEF Edited
<1> HIDE DEF v
<1>2. BlockAt(v, q) = "sand"
  BY <1>1, HangsIff
<1>3. CASE q \in Nearby(p)
  BY <1>1, <1>2, <1>3 DEF HasTick, Falls
<1>4. CASE q \notin Nearby(p)
  BY <1>1, <1>4, HangsNearChange, GrowsQueued DEF SandAwaits
<1> QED BY <1>3, <1>4

LEMMA DriedSand ==
    ASSUME NEW w \in Worlds, NEW Q, NEW ps \in Seq(Q), NEW E, SandAwaits(w, E)
    PROVE  SandAwaits(Dried(w, ps), E)
<1> DEFINE n == Len(ps)
           W == {v \in Worlds : SandAwaits(v, E)}
<1>1. PICK h : /\ Dried(w, ps) = h[n] /\ h[0] = w
               /\ \A k \in 1 .. n : h[k] = SetAir(h[k - 1], ps[k])
               /\ \A k \in 1 .. n : h[k - 1] \in Worlds => h[k] \in Worlds
  BY DriedRuns
<1>2. n \in Nat /\ h[0] \in W
  BY <1>1
<1>3. ASSUME NEW k \in 1 .. n, h[k - 1] \in W PROVE h[k] \in W
  BY <1>1, <1>3, SetAirSand
<1> HIDE DEF W, n
<1>4. h[n] \in W
  BY <1>2, <1>3, LoopKeeps
<1> QED BY <1>1, <1>4 DEF W

\* The place functions turn blocks to air, and leave sand that hangs scheduled.
LEMMA PlacedEffect ==
    ASSUME NEW w \in Worlds, NEW p \in Pos, NEW b, NEW g
    PROVE  /\ Edited(w, Placed(w, p, b, g))
           /\ \A q \in Pos : BlockAt(Placed(w, p, b, g), q) \in {BlockAt(w, q), "air"}
           /\ \A E : SandAwaits(w, E) => SandAwaits(Placed(w, p, b, g), E)
<1>1. CASE b = "sponge"
  <2>1. Placed(w, p, b, g) = Dried(w, LiquidNear(w, p, 2, g))
    BY <1>1 DEF Placed
  <2>2. LiquidNear(w, p, 2, g) \in Seq(Near(p, 2))
    BY LiquidNearHolds
  <2> QED BY <2>1, <2>2, DriedEffect, DriedSand
<1>2. CASE b = "water" /\ SpongeNear(w, p, g)
  <2>1. Placed(w, p, b, g) = SetAir(w, p)
    BY <1>2 DEF Placed
  <2> QED BY <2>1, SetAirEffect, SetAirSand
<1>3. CASE b # "sponge" /\ ~(b = "water" /\ SpongeNear(w, p, g))
  <2>1. Placed(w, p, b, g) = w
    BY <1>3 DEF Placed
  <2> QED BY <2>1, EditedRefl
<1> QED BY <1>1, <1>2, <1>3

LEMMA DelayIsSoon ==
    ASSUME NEW b \in Kind, NEW tick \in Nat
    PROVE  Soon(Delay(b, tick))
<1>1. TickTime(b) \in {0, 4, 8}
  BY DEF TickTime
<1>2. CASE TickTime(b) = 0
  BY <1>2, ZeroIsSoon DEF Delay
<1>3. CASE TickTime(b) \in {4, 8}
  <2>1. b \in Present
    BY <1>3 DEF Kind, TickTime
  <2>2. tick % 4 \in 0 .. 3 /\ tick % 8 \in 0 .. 7
    OBVIOUS
  <2>3. Delay(b, tick) \in Int /\ Delay(b, tick) <= TickTime(b)
    BY <1>3, <2>2 DEF Delay
  <2> QED BY <2>1, <2>3 DEF Soon
<1> QED BY <1>1, <1>2, <1>3

-----------------------------------------------------------------------------
(* map_set.                                                                *)

\* What a call of map_set may do: it sets p to b, or to air, and others to air.
LEMMA SetEffect ==
    ASSUME NEW w \in Worlds, NEW p, NEW b \in Kind, NEW tick \in Nat, NEW g
    PROVE  /\ Edited(w, Set(w, p, b, tick, g))
           /\ \A q \in Pos : BlockAt(Set(w, p, b, tick, g), q) \in
                {IF q = p THEN b ELSE BlockAt(w, q), "air"}
           /\ SandAwaits(w, {}) => SandAwaits(Set(w, p, b, tick, g), {})
<1>1. CASE p \notin Pos \/ BlockAt(w, p) = b
  BY <1>1, EditedRefl DEF Set
<1>2. CASE ~(p \notin Pos \/ BlockAt(w, p) = b)
  <2> DEFINE w1 == Write(w, p, b)
             w2 == Broken(w1, p, BlockAt(w, p), g)
             w3 == Placed(w2, p, b, g)
             w4 == Changed(w3, p, Delay(b, tick))
             E == Nearby(p)
  <2>0. p \in Pos /\ Set(w, p, b, tick, g) = w4
    BY <1>2 DEF Set
  <2>1. /\ w1 \in Worlds /\ w1.ticks = w.ticks /\ w1.modified = w.modified
        /\ \A q \in Pos : BlockAt(w1, q) = IF q = p THEN b ELSE BlockAt(w, q)
    BY <2>0, WriteEffect
  <2> HIDE DEF w1
  <2>2. /\ w2 \in Worlds /\ w2.blocks = w1.blocks /\ w2.modified = w1.modified
        /\ Grows(w1, w2)
    BY <2>0, <2>1, BrokenEffect
  <2> HIDE DEF w2
  <2>3. /\ Edited(w2, w3)
        /\ \A q \in Pos : BlockAt(w3, q) \in {BlockAt(w2, q), "air"}
        /\ SandAwaits(w2, E) => SandAwaits(w3, E)
    BY <2>0, <2>2, PlacedEffect
  <2>4. w3 \in Worlds /\ Grows(w2, w3)
    BY <2>3 DEF Edited
  <2> HIDE DEF w3
  <2>5. /\ w4 \in Worlds /\ w4.blocks = w3.blocks /\ w4.modified = TRUE /\ Grows(w3, w4)
        /\ \A q \in E \cap Pos : HasTick(BlockAt(w3, q)) => Queued(w4, q)
    BY <2>0, <2>4, DelayIsSoon, ChangedEffect
  <2> HIDE DEF w4
  <2>6. (\A q : BlockAt(w2, q) = BlockAt(w1, q)) /\ \A q : BlockAt(w4, q) = BlockAt(w3, q)
    BY <2>2, <2>5 DEF BlockAt
  <2>7. Grows(w, w4)
    <3>1. Grows(w, w2)
      BY <2>1, <2>2 DEF Grows
    <3> QED BY <2>2, <2>4, <2>5, <3>1, GrowsTrans
  <2>8. Edited(w, w4)
    BY <2>5, <2>7 DEF Edited
  <2>9. \A q \in Pos : BlockAt(w4, q) \in {IF q = p THEN b ELSE BlockAt(w, q), "air"}
    BY <2>1, <2>3, <2>6
  <2>10. ASSUME SandAwaits(w, {}) PROVE SandAwaits(w4, {})
    <3>1. SandAwaits(w2, E)
      <4> SUFFICES ASSUME NEW q \in Pos \ E, Hangs(w2, q) PROVE Queued(w2, q)
        BY DEF SandAwaits
      <4>1. \A r \in Pos \ {p} : BlockAt(w2, r) = BlockAt(w, r)
        BY <2>1, <2>6
      <4>2. Hangs(w, q)
        BY <2>0, <2>2, <4>1, HangsNearChange
      <4>3. Queued(w, q)
        BY <2>10, <4>2 DEF SandAwaits
      <4>4. Queued(w1, q)
        BY <2>1, <4>3 DEF Queued
      <4> QED BY <2>2, <4>4, GrowsQueued
    <3>2. SandAwaits(w3, E)
      BY <2>3, <3>1
    <3> SUFFICES ASSUME NEW q \in Pos, Hangs(w4, q) PROVE Queued(w4, q)
      BY DEF SandAwaits
    <3>3. BlockAt(w3, q) = "sand"
      BY <2>5, <2>6, HangsIff
    <3>4. CASE q \in E
      BY <2>5, <3>3, <3>4 DEF HasTick, Falls
    <3>5. CASE q \notin E
      <4>1. Hangs(w3, q)
        BY <2>4, <2>5, SameBlocks
      <4> QED BY <2>5, <3>2, <3>5, <4>1, GrowsQueued DEF SandAwaits
    <3> QED BY <3>4, <3>5
  <2> QED BY <2>0, <2>8, <2>9, <2>10
<1> QED BY <1>1, <1>2

-----------------------------------------------------------------------------
(* Sponges keep dry.                                                       *)

LEMMA NearBothWays ==
    ASSUME NEW p \in Pos, NEW q \in Near(p, 2) \cap Pos, Near(q, 2) # {}
    PROVE  p \in Near(q, 2)
<1>1. /\ p = <<p[1], p[2], p[3]>> /\ p[1] \in Nat /\ p[2] \in Nat /\ p[3] \in Nat
      /\ q = <<q[1], q[2], q[3]>> /\ q[1] \in Nat /\ q[2] \in Nat /\ q[3] \in Nat
  BY PosFields
<1>2. q \in (p[1] - 2 .. p[1] + 2) \X (p[2] - 2 .. p[2] + 2) \X (p[3] - 2 .. p[3] + 2)
  BY DEF Near
<1>3. /\ q[1] \in p[1] - 2 .. p[1] + 2 /\ q[2] \in p[2] - 2 .. p[2] + 2
      /\ q[3] \in p[3] - 2 .. p[3] + 2
  BY <1>2
<1>4. Near(q, 2) = (q[1] - 2 .. q[1] + 2) \X (q[2] - 2 .. q[2] + 2) \X (q[3] - 2 .. q[3] + 2)
  BY DEF Near
<1>5. /\ p[1] \in q[1] - 2 .. q[1] + 2 /\ p[2] \in q[2] - 2 .. q[2] + 2
      /\ p[3] \in q[3] - 2 .. q[3] + 2
  BY <1>1, <1>3
<1> QED BY <1>1, <1>4, <1>5

\* Every call of map_set, whatever it sets, leaves the boxes of the sponges dry.
LEMMA SetKeepsDry ==
    ASSUME NEW w \in Worlds, NEW p, NEW b \in Kind, NEW tick \in Nat, NEW g, KeptDry(w)
    PROVE  KeptDry(Set(w, p, b, tick, g))
<1>1. CASE p \notin Pos \/ BlockAt(w, p) = b
  BY <1>1 DEF Set
<1>2. CASE ~(p \notin Pos \/ BlockAt(w, p) = b)
  <2> DEFINE w1 == Write(w, p, b)
             w2 == Broken(w1, p, BlockAt(w, p), g)
             w3 == Placed(w2, p, b, g)
             w4 == Changed(w3, p, Delay(b, tick))
  <2>0. p \in Pos /\ Set(w, p, b, tick, g) = w4
    BY <1>2 DEF Set
  <2>1. /\ w1 \in Worlds
        /\ \A q \in Pos : BlockAt(w1, q) = IF q = p THEN b ELSE BlockAt(w, q)
    BY <2>0, WriteEffect
  <2> HIDE DEF w1
  <2>2. w2 \in Worlds /\ w2.blocks = w1.blocks
    BY <2>0, <2>1, BrokenEffect
  <2> HIDE DEF w2
  <2>3. w3 \in Worlds /\ \A q \in Pos : BlockAt(w3, q) \in {BlockAt(w2, q), "air"}
    BY <2>0, <2>2, PlacedEffect DEF Edited
  <2>4. w4.blocks = w3.blocks
    BY <2>0, <2>3, DelayIsSoon, ChangedEffect
  <2>5. (\A q : BlockAt(w2, q) = BlockAt(w1, q)) /\ \A q : BlockAt(w4, q) = BlockAt(w3, q)
    BY <2>2, <2>4 DEF BlockAt
  <2> SUFFICES ASSUME NEW s \in Pos, BlockAt(w4, s) = "sponge",
                      NEW q \in Near(s, 2) \cap Pos, Near(q, 2) # {}, BlockAt(w4, q) = "water"
               PROVE  AsLeft(w4, s) /\ AsLeft(w4, q)
    BY <2>0 DEF KeptDry
  <2>6. BlockAt(w3, s) = "sponge" /\ BlockAt(w3, q) = "water"
    BY <2>5
  <2>7. BlockAt(w2, s) = "sponge" /\ BlockAt(w2, q) = "water"
    BY <2>3, <2>6
  <2>8. CASE s # p /\ q # p
    <3>1. BlockAt(w, s) = "sponge" /\ BlockAt(w, q) = "water"
      BY <2>1, <2>5, <2>7, <2>8
    <3>2. AsLeft(w, s) /\ AsLeft(w, q)
      BY <3>1 DEF KeptDry
    <3>3. BlockAt(w4, s) = BlockAt(w, s) /\ BlockAt(w4, q) = BlockAt(w, q)
      BY <2>5, <2>6, <3>1
    <3> QED BY <3>2, <3>3 DEF AsLeft
  <2>9. CASE s = p
    <3> DEFINE ps == LiquidNear(w2, p, 2, g)
    <3>1. b = "sponge"
      BY <2>1, <2>5, <2>7, <2>9
    <3>2. w3 = Dried(w2, ps)
      BY <3>1 DEF Placed
    <3>3. q \in Range(ps) /\ ps \in Seq(Near(p, 2))
      BY <2>0, <2>7, <2>9, GetInside, LiquidNearHolds DEF Liquid
    <3> HIDE DEF ps, w3
    <3>4. BlockAt(w3, q) = "air"
      BY <2>2, <3>2, <3>3, DriedEffect
    <3> QED BY <2>6, <3>4
  <2>10. CASE q = p
    <3>1. b = "water"
      BY <2>1, <2>5, <2>7, <2>10
    <3>2. s \in Near(p, 2) /\ Get(w2, s, g) = "sponge"
      BY <2>7, <2>10, NearBothWays, GetInside
    <3>3. w3 = SetAir(w2, p)
      BY <3>1, <3>2 DEF Placed, SpongeNear
    <3>4. BlockAt(w3, q) = "air"
      BY <2>2, <2>10, <3>3, SetAirEffect
    <3> QED BY <2>6, <3>4
  <2> QED BY <2>8, <2>9, <2>10
<1> QED BY <1>1, <1>2

-----------------------------------------------------------------------------
(* map_tick.                                                               *)

LEMMA GravityEffect ==
    ASSUME NEW w \in Worlds, NEW p \in Pos, NEW b \in Kind, NEW tick \in Nat, NEW g
    PROVE  LET v == Gravity(w, p, b, tick, g)
           IN  /\ Edited(w, v)
               /\ SandAwaits(w, {}) => SandAwaits(v, {})
               /\ ~Hangs(v, p)
               /\ KeptDry(w) => KeptDry(v)
<1> DEFINE v == Gravity(w, p, b, tick, g)
<1>1. CASE Landing(w, p) = p
  BY <1>1, EditedRefl DEF Gravity, Hangs
<1>2. CASE Landing(w, p) # p
  <2> DEFINE l == Landing(w, p)
             u == Set(w, p, "air", tick, g)
  <2>0. l \in Pos /\ l # p /\ "air" \in Kind
    BY <1>2, LandingIs DEF Kind
  <2>1. v = Set(u, l, b, tick, g)
    BY <1>2 DEF Gravity
  <2> HIDE DEF v, l
  <2>2. /\ Edited(w, u)
        /\ SandAwaits(w, {}) => SandAwaits(u, {})
        /\ BlockAt(u, p) = "air"
        /\ KeptDry(w) => KeptDry(u)
    BY <2>0, SetEffect, SetKeepsDry
  <2> HIDE DEF u
  <2>3. u \in Worlds
    BY <2>2 DEF Edited
  <2>4. /\ Edited(u, v)
        /\ SandAwaits(u, {}) => SandAwaits(v, {})
        /\ BlockAt(v, p) = "air"
        /\ KeptDry(u) => KeptDry(v)
    BY <2>0, <2>1, <2>2, <2>3, SetEffect, SetKeepsDry
  <2>5. ~Hangs(v, p)
    BY <2>4 DEF Hangs, Falls
  <2> QED BY <2>2, <2>4, <2>5, EditedTrans DEF v
<1> QED BY <1>1, <1>2

LEMMA FlowIntoEffect ==
    ASSUME NEW w \in Worlds, NEW q, NEW b \in Kind, NEW tick \in Nat, NEW g
    PROVE  LET v == FlowInto(w, q, b, tick, g)
           IN  /\ Edited(w, v)
               /\ SandAwaits(w, {}) => SandAwaits(v, {})
               /\ \A p \in Pos : b # "sand" /\ BlockAt(w, p) # "sand" => BlockAt(v, p) # "sand"
               /\ KeptDry(w) => KeptDry(v)
<1>1. CASE q \in Pos /\ CanFlowTo(w, q, g)
  <2> DEFINE v == Set(w, q, b, tick, g)
  <2>1. FlowInto(w, q, b, tick, g) = v
    BY <1>1 DEF FlowInto
  <2>2. /\ Edited(w, v)
        /\ SandAwaits(w, {}) => SandAwaits(v, {})
        /\ \A p \in Pos : BlockAt(v, p) \in {IF p = q THEN b ELSE BlockAt(w, p), "air"}
        /\ KeptDry(w) => KeptDry(v)
    BY SetEffect, SetKeepsDry
  <2> HIDE DEF v
  <2> QED BY <2>1, <2>2
<1>2. CASE ~(q \in Pos /\ CanFlowTo(w, q, g))
  BY <1>2, EditedRefl DEF FlowInto
<1> QED BY <1>1, <1>2

LEMMA FlowRuns ==
    ASSUME NEW w \in Worlds, NEW p \in Pos, NEW b \in Kind, NEW tick \in Nat, NEW g
    PROVE  \E h : /\ Flow(w, p, b, tick, g) = h[5] /\ h[0] = w
                  /\ \A k \in 1 .. 5 :
                        h[k] = FlowInto(h[k - 1], FlowTargets(p)[k], b, tick, g)
<1> DEFINE to == FlowTargets(p)
           f == [k \in 1 .. 5 |-> [v \in Worlds |-> FlowInto(v, to[k], b, tick, g)]]
           h == CHOOSE h : h = [k \in 0 .. 5 |->
                    IF k = 0 THEN w ELSE FlowInto(h[k - 1], to[k], b, tick, g)]
<1>1. \A v \in Worlds : \A q : FlowInto(v, q, b, tick, g) \in Worlds
  BY FlowIntoEffect DEF Edited
<1>2. f \in [1 .. 5 -> [Worlds -> Worlds]]
  BY <1>1
<1>3. \A k \in 1 .. 5, v \in Worlds : f[k][v] = FlowInto(v, to[k], b, tick, g)
  OBVIOUS
<1>4. Flow(w, p, b, tick, g) = h[5]
  BY DEF Flow, Loop
<1> HIDE DEF f, to
<1>5. PICK r \in [0 .. 5 -> Worlds] : Runs(r, f, w, 5)
  BY <1>2, LoopExists
<1>6. \A k \in 1 .. 5 : r[k] = FlowInto(r[k - 1], to[k], b, tick, g)
  <2>1. \A k \in 1 .. 5 : k - 1 \in 0 .. 5
    OBVIOUS
  <2> QED BY <1>3, <1>5, <2>1 DEF Runs
<1>7. r = [k \in 0 .. 5 |-> IF k = 0 THEN w ELSE FlowInto(r[k - 1], to[k], b, tick, g)]
  <2>1. \A k \in 0 .. 5 : k # 0 => k \in 1 .. 5
    OBVIOUS
  <2> QED BY <1>5, <1>6, <2>1 DEF Runs
<1>8. h = [k \in 0 .. 5 |-> IF k = 0 THEN w ELSE FlowInto(h[k - 1], to[k], b, tick, g)]
  BY <1>7
<1> HIDE DEF h
<1>9. h[0] = w /\ \A k \in 1 .. 5 : h[k] = FlowInto(h[k - 1], to[k], b, tick, g)
  <2>1. 0 \in 0 .. 5 /\ \A k \in 1 .. 5 : k \in 0 .. 5 /\ k # 0
    OBVIOUS
  <2> QED BY <1>8, <2>1
<1> QED BY <1>4, <1>9 DEF to

LEMMA FlowEffect ==
    ASSUME NEW w \in Worlds, NEW p \in Pos, NEW b \in Kind, b # "sand", BlockAt(w, p) # "sand",
           NEW tick \in Nat, NEW g
    PROVE  LET v == Flow(w, p, b, tick, g)
           IN  /\ Edited(w, v)
               /\ SandAwaits(w, {}) => SandAwaits(v, {})
               /\ ~Hangs(v, p)
               /\ KeptDry(w) => KeptDry(v)
<1> DEFINE to == FlowTargets(p)
           W == {v \in Worlds :
                    /\ Edited(w, v)
                    /\ SandAwaits(w, {}) => SandAwaits(v, {})
                    /\ BlockAt(v, p) # "sand"
                    /\ KeptDry(w) => KeptDry(v)}
<1>1. PICK h : /\ Flow(w, p, b, tick, g) = h[5] /\ h[0] = w
               /\ \A k \in 1 .. 5 : h[k] = FlowInto(h[k - 1], to[k], b, tick, g)
  BY FlowRuns
<1>2. h[0] \in W
  BY <1>1, EditedRefl
<1>3. ASSUME NEW k \in 1 .. 5, h[k - 1] \in W PROVE h[k] \in W
  <2> DEFINE u == h[k - 1]
             v == FlowInto(u, to[k], b, tick, g)
  <2>1. u \in Worlds /\ h[k] = v
    BY <1>1, <1>3
  <2>2. /\ Edited(u, v)
        /\ SandAwaits(u, {}) => SandAwaits(v, {})
        /\ BlockAt(u, p) # "sand" => BlockAt(v, p) # "sand"
        /\ KeptDry(u) => KeptDry(v)
    BY <2>1, FlowIntoEffect
  <2> HIDE DEF v
  <2>3. Edited(w, v) /\ v \in Worlds
    BY <1>3, <2>2, EditedTrans DEF Edited
  <2> QED BY <1>3, <2>1, <2>2, <2>3
<1> HIDE DEF W
<1>4. h[5] \in W
  BY <1>2, <1>3, LoopKeeps
<1>5. ~Hangs(h[5], p)
  BY <1>4 DEF W, Hangs, Falls
<1> QED BY <1>1, <1>4, <1>5 DEF W

\* What a scheduled tick does; sand at its position does not hang when it has run.
LEMMA RunTickEffect ==
    ASSUME NEW w \in Worlds, NEW p \in Pos, NEW tick \in Nat, NEW g
    PROVE  LET v == RunTick(w, p, tick, g)
           IN  /\ Edited(w, v)
               /\ SandAwaits(w, {}) => SandAwaits(v, {})
               /\ ~Hangs(v, p)
               /\ KeptDry(w) => KeptDry(v)
<1> DEFINE b == BlockAt(w, p)
<1>1. b \in Kind
  BY WorldFields
<1>2. CASE Falls(b)
  <2>1. RunTick(w, p, tick, g) = Gravity(w, p, b, tick, g)
    BY <1>2 DEF RunTick, Falls, Flows
  <2> HIDE DEF b
  <2> QED BY <1>1, <2>1, GravityEffect
<1>3. CASE Flows(b)
  <2>1. RunTick(w, p, tick, g) = Flow(w, p, b, tick, g) /\ b # "sand"
    BY <1>3 DEF RunTick, Falls, Flows
  <2> QED BY <1>1, <2>1, FlowEffect
<1>4. CASE ~Falls(b) /\ ~Flows(b)
  <2>1. RunTick(w, p, tick, g) = w
    BY <1>4 DEF RunTick
  <2> QED BY <1>4, <2>1, EditedRefl DEF Hangs
<1> QED BY <1>2, <1>3, <1>4

LEMMA SubSeqIs ==
    ASSUME NEW S, NEW s \in Seq(S), NEW m \in Nat, NEW n \in Nat, m >= 1, n <= Len(s)
    PROVE  /\ SubSeq(s, m, n) \in Seq(S)
           /\ Len(SubSeq(s, m, n)) = IF m <= n THEN n - m + 1 ELSE 0
           /\ \A k \in 1 .. n - m + 1 : SubSeq(s, m, n)[k] = s[m + k - 1]
OBVIOUS

LEMMA ConcatIs ==
    ASSUME NEW S, NEW a \in Seq(S), NEW c \in Seq(S)
    PROVE  /\ a \o c \in Seq(S) /\ Len(a \o c) = Len(a) + Len(c)
           /\ DOMAIN (a \o c) = 1 .. Len(a) + Len(c)
           /\ \A j \in 1 .. Len(a) + Len(c) :
                (a \o c)[j] = IF j <= Len(a) THEN a[j] ELSE c[j - Len(a)]
OBVIOUS

\* The entry that leaves the queue takes no other with it.
LEMMA AfterEffect ==
    ASSUME NEW w \in Worlds, NEW k \in DOMAIN w.ticks
    PROVE  /\ After(w, k) \in Worlds
           /\ After(w, k).blocks = w.blocks /\ After(w, k).modified = w.modified
           /\ \A p : p # w.ticks[k].pos /\ Queued(w, p) => Queued(After(w, k), p)
<1> DEFINE s == w.ticks
           n == Len(s)
           a == SubSeq(s, 1, k - 1)
           c == SubSeq(s, k + 1, n)
           T == a \o c
           v == After(w, k)
<1>1. s \in Seq(Tick) /\ n \in Nat /\ DOMAIN s = 1 .. n /\ k \in 1 .. n
  BY WorldFields
<1> HIDE DEF s
<1>2. /\ a \in Seq(Tick) /\ Len(a) = k - 1 /\ \A j \in 1 .. k - 1 : a[j] = s[j]
  <2>1. k - 1 \in Nat /\ 1 \in Nat /\ k - 1 <= n
    BY <1>1
  <2>2. Len(a) = k - 1 /\ a \in Seq(Tick) /\ \A j \in 1 .. (k - 1) - 1 + 1 : a[j] = s[1 + j - 1]
    BY <1>1, <2>1, SubSeqIs
  <2> QED BY <2>1, <2>2
<1>3. /\ c \in Seq(Tick) /\ Len(c) = n - k /\ \A j \in 1 .. n - k : c[j] = s[k + j]
  <2>1. k + 1 \in Nat /\ k + 1 >= 1 /\ n <= n
    BY <1>1
  <2>2. /\ c \in Seq(Tick) /\ Len(c) = IF k + 1 <= n THEN n - (k + 1) + 1 ELSE 0
        /\ \A j \in 1 .. n - (k + 1) + 1 : c[j] = s[(k + 1) + j - 1]
    BY <1>1, <2>1, SubSeqIs
  <2> QED BY <1>1, <2>2
<1> HIDE DEF a, c
<1>4. /\ T \in Seq(Tick) /\ Len(T) = n - 1 /\ DOMAIN T = 1 .. n - 1
      /\ \A j \in 1 .. n - 1 : T[j] = IF j <= k - 1 THEN a[j] ELSE c[j - (k - 1)]
  <2>1. Len(a) + Len(c) = n - 1
    BY <1>1, <1>2, <1>3
  <2>2. /\ T \in Seq(Tick) /\ Len(T) = Len(a) + Len(c) /\ DOMAIN T = 1 .. Len(a) + Len(c)
        /\ \A j \in 1 .. Len(a) + Len(c) : T[j] = IF j <= Len(a) THEN a[j] ELSE c[j - Len(a)]
    BY <1>2, <1>3, ConcatIs
  <2> QED BY <1>2, <2>1, <2>2
<1>5. v = [w EXCEPT !.ticks = T]
  BY DEF After, RemoveAt, a, c, s
<1> HIDE DEF T, v
<1>6. v \in Worlds /\ v.blocks = w.blocks /\ v.modified = w.modified /\ v.ticks = T
  BY <1>4, <1>5, TicksOnly
<1>7. ASSUME NEW p, p # s[k].pos, Queued(w, p) PROVE Queued(v, p)
  <2>1. PICK j \in 1 .. n : s[j].pos = p /\ s[j].wait # Never
    BY <1>1, <1>7 DEF Queued, s
  <2>2. CASE j < k
    <3>1. j \in 1 .. n - 1 /\ T[j] = s[j]
      BY <1>1, <1>2, <1>4, <2>2
    <3> QED BY <1>4, <1>6, <2>1, <3>1 DEF Queued
  <2>3. CASE j > k
    <3>1. j - 1 \in 1 .. n - 1 /\ ~(j - 1 <= k - 1) /\ j - k \in 1 .. n - k
          /\ (j - 1) - (k - 1) = j - k /\ k + (j - k) = j
      BY <1>1, <2>3
    <3>2. T[j - 1] = s[j]
      BY <1>3, <1>4, <3>1
    <3> QED BY <1>4, <1>6, <2>1, <3>1, <3>2 DEF Queued
  <2>4. j # k
    BY <1>7, <2>1
  <2> QED BY <1>1, <2>2, <2>3, <2>4
<1> QED BY <1>6, <1>7 DEF v, s

LEMMA TickFields ==
    ASSUME NEW t \in Tick
    PROVE  t.pos \in Pos /\ t.wait \in Int /\ (t.wait = Never \/ Soon(t.wait))
BY DEF Tick, Soon

LEMMA SoonerTick ==
    ASSUME NEW t \in Tick
    PROVE  /\ Sooner(t) \in Tick /\ Sooner(t).pos = t.pos
           /\ t.wait # Never => Sooner(t).wait # Never
<1>1. CASE t.wait = Never \/ t.wait < 0
  BY <1>1 DEF Sooner
<1>2. CASE ~(t.wait = Never \/ t.wait < 0)
  <2>1. t.wait \in Int /\ Soon(t.wait)
    BY <1>2, TickFields
  <2>2. Soon(t.wait - 1)
    <3>1. PICK b \in Present : t.wait <= TickTime(b)
      BY <2>1 DEF Soon
    <3>2. TickTime(b) \in Int
      BY DEF TickTime
    <3>3. t.wait - 1 \in Int /\ t.wait - 1 <= TickTime(b)
      BY <2>1, <3>1, <3>2
    <3> QED BY <3>3 DEF Soon
  <2>3. Sooner(t) = [t EXCEPT !.wait = t.wait - 1]
    BY <1>2 DEF Sooner
  <2>4. t \in [pos : Pos, wait : Int]
    BY DEF Tick
  <2>5. /\ Sooner(t) \in [pos : Pos, wait : Int] /\ Sooner(t).pos = t.pos
        /\ Sooner(t).wait = t.wait - 1
    BY <2>1, <2>3, <2>4
  <2> QED BY <2>2, <2>5, SoonIsNotNever DEF Tick, Soon
<1> QED BY <1>1, <1>2

-----------------------------------------------------------------------------
(* Every step of the world.                                                *)

WorldType ==
    /\ world \in Worlds
    /\ phase \in 0 .. Period - 1
    /\ i \in Nat \ {0}

\* What a step keeps, of what it is true before.
Kept ==
    /\ world' \in Worlds
    /\ world.modified => world'.modified
    /\ world'.modified \/ world'.blocks = world.blocks
    /\ KeptDry(world) => KeptDry(world')
    /\ SandAwaits(world, {}) => SandAwaits(world', {})

LEMMA TickRunsKeeps ==
    ASSUME WorldType, TickRuns
    PROVE  Kept
<1> DEFINE p == world.ticks[i].pos
<1>1. i \in DOMAIN world.ticks /\ p \in Pos
  <2>1. i \in DOMAIN world.ticks /\ world.ticks \in Seq(Tick)
    BY WorldFields DEF WorldType, TickRuns, Due
  <2>2. world.ticks[i] \in Tick
    BY <2>1
  <2> QED BY <2>1, <2>2, TickFields
<1>2. PICK g \in Garbage : world' = After(RunTick(world, p, phase, g), i)
  BY DEF TickRuns
<1> DEFINE u == RunTick(world, p, phase, g)
           v == After(u, i)
<1>3. /\ Edited(world, u)
      /\ SandAwaits(world, {}) => SandAwaits(u, {})
      /\ ~Hangs(u, p)
      /\ KeptDry(world) => KeptDry(u)
  BY <1>1, RunTickEffect DEF WorldType
<1> HIDE DEF u
<1>4. u \in Worlds /\ i \in DOMAIN u.ticks /\ u.ticks[i].pos = p
  BY <1>1, <1>3 DEF Edited, Grows
<1>5. /\ v \in Worlds /\ v.blocks = u.blocks /\ v.modified = u.modified
      /\ \A q : q # p /\ Queued(u, q) => Queued(v, q)
  BY <1>4, AfterEffect
<1> HIDE DEF v
<1>6. SandAwaits(u, {}) => SandAwaits(v, {})
  BY <1>3, <1>4, <1>5, SameBlocks DEF SandAwaits
<1>7. KeptDry(u) => KeptDry(v)
  BY <1>4, <1>5, SameBlocks
<1> QED BY <1>2, <1>3, <1>5, <1>6, <1>7 DEF Kept, Edited, u, v

\* Time passes for every entry.
LEMMA EndTickQueue ==
    ASSUME WorldType, EndTick
    PROVE  /\ world' \in Worlds
           /\ world'.blocks = world.blocks /\ world'.modified = world.modified
           /\ \A p : Queued(world, p) => Queued(world', p)
<1> DEFINE T == [k \in DOMAIN world.ticks |-> Sooner(world.ticks[k])]
<1>1. /\ world.ticks \in Seq(Tick) /\ world \in Worlds
      /\ DOMAIN world.ticks = 1 .. Len(world.ticks) /\ Len(world.ticks) \in Nat
  BY WorldFields DEF WorldType
<1>2. \A k \in DOMAIN world.ticks :
        /\ Sooner(world.ticks[k]) \in Tick
        /\ Sooner(world.ticks[k]).pos = world.ticks[k].pos
        /\ world.ticks[k].wait # Never => Sooner(world.ticks[k]).wait # Never
  BY <1>1, SoonerTick
<1>3. T \in Seq(Tick)
  <2>1. T \in [1 .. Len(world.ticks) -> Tick]
    BY <1>1, <1>2
  <2> QED BY <1>1, <2>1
<1>4. DOMAIN T = DOMAIN world.ticks /\ \A k \in DOMAIN T : T[k] = Sooner(world.ticks[k])
  OBVIOUS
<1>5. world' = [world EXCEPT !.ticks = T]
  BY DEF EndTick
<1> HIDE DEF T
<1>6. /\ world' \in Worlds /\ world'.blocks = world.blocks /\ world'.modified = world.modified
      /\ world'.ticks = T
  BY <1>1, <1>3, <1>5, TicksOnly
<1>7. \A p : Queued(world, p) => Queued(world', p)
  BY <1>2, <1>4, <1>6 DEF Queued
<1> QED BY <1>6, <1>7

LEMMA EndTickKeeps ==
    ASSUME WorldType, EndTick
    PROVE  Kept
<1>1. /\ world \in Worlds /\ world' \in Worlds
      /\ world'.blocks = world.blocks /\ world'.modified = world.modified
      /\ \A p : Queued(world, p) => Queued(world', p)
  BY EndTickQueue DEF WorldType
<1>2. SandAwaits(world, {}) => SandAwaits(world', {})
  BY <1>1, SameBlocks DEF SandAwaits
<1> QED BY <1>1, <1>2, SameBlocks DEF Kept

LEMMA SetBlockKeeps ==
    ASSUME WorldType, NEW p \in Reach, NEW b \in Hand, NEW op \in Rights, SetBlock(p, b, op)
    PROVE  Kept
<1>1. PICK g \in Garbage : world' = Set(world, p, b, phase, g)
  BY DEF SetBlock
<1>2. b \in Kind /\ world \in Worlds /\ phase \in Nat
  BY DEF Kind, Present, WorldType
<1> QED BY <1>1, <1>2, SetEffect, SetKeepsDry DEF Kept, Edited

LEMMA StepKeeps ==
    ASSUME WorldType, Next
    PROVE  Kept /\ WorldType'
<1>0. Period \in Nat \ {0} /\ phase \in Nat
  BY PeriodAssumption DEF WorldType
<1>1. ASSUME world' = world PROVE Kept
  BY <1>1 DEF Kept, WorldType
<1>2. CASE StartTick
  BY <1>1, <1>2 DEF StartTick, WorldType
<1>3. CASE TickWaits
  BY <1>1, <1>3 DEF TickWaits, WorldType
<1>4. CASE TickRuns
  BY <1>4, TickRunsKeeps DEF TickRuns, Kept, WorldType
<1>5. CASE TicksEnd
  BY <1>1, <1>5 DEF TicksEnd, WorldType
<1>6. CASE EndTick
  <2>1. (phase + 1) % Period \in 0 .. Period - 1
    BY <1>0
  <2> QED BY <1>6, <2>1, EndTickKeeps DEF EndTick, Kept, WorldType
<1>7. CASE Clients
  <2>1. PICK p \in Reach, b \in Hand, op \in Rights : SetBlock(p, b, op)
    BY <1>7 DEF Clients
  <2> QED BY <2>1, SetBlockKeeps DEF SetBlock, Kept, WorldType
<1> QED BY <1>2, <1>3, <1>4, <1>5, <1>6, <1>7 DEF Next, MainLoop

LEMMA FirstWorldKept ==
    FirstWorld \in Worlds /\ KeptDry(FirstWorld) /\ SandAwaits(FirstWorld, {})
<1>1. FirstBlocks \in [0 .. Size - 1 -> Block]
  BY FirstAssumption
<1>2. FirstBlocks \in [0 .. Size - 1 -> Kind]
  <2>1. \A n \in 0 .. Size - 1 : FirstBlocks[n] \in Kind
    BY DEF Kind, Present
  <2> QED BY <1>1, <2>1
<1>3. FirstWorld \in Worlds
  BY <1>2 DEF FirstWorld, Worlds
<1> QED BY <1>3 DEF SandAwaits, Hangs, KeptDry, AsLeft

LEMMA WorldsAreWorld == Worlds \subseteq World
<1> SUFFICES ASSUME NEW w \in Worlds PROVE w \in World
  OBVIOUS
<1>1. \A n \in 0 .. Size - 1 : w.blocks[n] \in Block
  BY WorldFields, KindsAreBlocks
<1>2. w.blocks \in [0 .. Size - 1 -> Block]
  BY <1>1, WorldFields
<1> QED BY <1>2, WorldFields DEF Worlds, World

WorldInv == WorldType /\ KeptDry(world) /\ SandAwaits(world, {})

LEMMA WorldInvInit == Init => WorldInv
BY FirstWorldKept, PeriodAssumption DEF Init, WorldInv, WorldType

LEMMA WorldInvNext == WorldInv /\ [Next]_vars => WorldInv'
<1>1. ASSUME WorldInv, Next PROVE WorldInv'
  BY <1>1, StepKeeps DEF WorldInv, Kept
<1>2. ASSUME WorldInv, UNCHANGED vars PROVE WorldInv'
  BY <1>2 DEF WorldInv, WorldType, vars
<1> QED BY <1>1, <1>2

Rest ==
    /\ pc \in {"loop", "ticks", "clients", "end"}
    /\ edits \in 0 .. MaxEdits
    /\ blind \in BOOLEAN

LEMMA RestNext == Rest /\ [Next]_vars => Rest'
<1> SUFFICES ASSUME Rest, [Next]_vars PROVE Rest'
  OBVIOUS
<1>0. MaxEdits \in Nat
  BY BoundsAssumption
<1>1. CASE StartTick
  BY <1>1 DEF StartTick, Rest
<1>2. CASE TickWaits
  BY <1>2 DEF TickWaits, Rest
<1>3. CASE TickRuns
  BY <1>3 DEF TickRuns, Rest
<1>4. CASE TicksEnd
  BY <1>4 DEF TicksEnd, Rest
<1>5. CASE EndTick
  BY <1>5 DEF EndTick, Rest
<1>6. CASE Clients
  <2>1. PICK p \in Reach, b \in Hand, op \in Rights : SetBlock(p, b, op)
    BY <1>6 DEF Clients
  <2>2. edits' = edits + 1 /\ edits < MaxEdits /\ pc' = pc /\ blind' \in BOOLEAN
    BY <2>1 DEF SetBlock, Rest
  <2> QED BY <1>0, <2>2 DEF Rest
<1>7. CASE UNCHANGED vars
  BY <1>7 DEF vars, Rest
<1> QED BY <1>1, <1>2, <1>3, <1>4, <1>5, <1>6, <1>7 DEF Next, MainLoop

-----------------------------------------------------------------------------

\* The world stays a map of its size, and map_tick, which reads the block of an entry
\* without a check, finds every entry in it, on maps of every size.
THEOREM WorldTypeCorrect == Spec => []TypeOK
<1>1. Init => WorldInv /\ Rest
  <2>1. 0 \in 0 .. MaxEdits
    BY BoundsAssumption
  <2>2. Init => Rest
    BY <2>1 DEF Init, Rest
  <2> QED BY <2>2, WorldInvInit
<1>2. WorldInv /\ Rest => TypeOK
  BY WorldsAreWorld DEF WorldInv, WorldType, Rest, TypeOK
<1> QED BY <1>1, <1>2, WorldInvNext, RestNext, PTL DEF Spec

\* No order of setting, breaking and flowing brings flowing water within two blocks of a
\* sponge, or a sponge to water, where both are two blocks or more away from the low
\* edges, on maps of every size: what blockplace_sponge does not dry is as far from the
\* sponge as the water's own blockplace_liquid looks for one.  Only a sponge and water
\* that the generator put side by side stay so.  Lava and the still liquids, which have
\* no place function, are not kept away.
THEOREM SpongesKeepDry == Spec => []SpongeKeepsDry
<1>1. WorldInv => SpongeKeepsDry
  BY DEF WorldInv, SpongeKeepsDry
<1> QED BY <1>1, WorldInvInit, WorldInvNext, PTL DEF Spec

\* Sand that nothing holds is always scheduled to fall, unless it hangs where the
\* generator left it and the block below has not changed either: map_set schedules what
\* stands on the block it changes, and an entry leaves the queue only when its block has
\* landed.
THEOREM SandStaysScheduled == Spec => []SandIsScheduled
<1>1. WorldInv => SandIsScheduled
  BY DEF WorldInv, SandAwaits, SandIsScheduled, Queued, Pending
<1> QED BY <1>1, WorldInvInit, WorldInvNext, PTL DEF Spec

-----------------------------------------------------------------------------
(* Liquid that can spread.                                                 *)

\* Liquid that can spread, outside of E, is scheduled.
LiquidAwaits(w, E) == \A p \in Pos \ E : CanSpread(w, p) => Queued(w, p)

\* A liquid flows to blocks beside it, which schedule it when they change.
LEMMA TargetsAreNear ==
    ASSUME NEW p \in Pos, NEW k \in 1 .. 5
    PROVE  /\ FlowTargets(p)[k] # p
           /\ p \in Nearby(FlowTargets(p)[k])
           /\ \A r \in Near(FlowTargets(p)[k], 2) :
                /\ r[1] - 3 <= p[1] /\ p[1] <= r[1] + 3
                /\ r[2] - 3 <= p[2] /\ p[2] <= r[2] + 3
                /\ r[3] - 3 <= p[3] /\ p[3] <= r[3] + 3
<1> DEFINE q == FlowTargets(p)[k]
<1>1. /\ p = <<p[1], p[2], p[3]>> /\ p[1] \in Nat /\ p[2] \in Nat /\ p[3] \in Nat
  BY PosFields
<1>2. q \in {<<p[1] - 1, p[2], p[3]>>, <<p[1] + 1, p[2], p[3]>>, <<p[1], p[2], p[3] - 1>>,
             <<p[1], p[2], p[3] + 1>>, <<p[1], p[2] - 1, p[3]>>}
  BY DEF FlowTargets
<1> HIDE DEF q
<1>3. q # p
  BY <1>1, <1>2
<1>4. /\ \E j \in 1 .. 7 : Around(q)[j] = p
      /\ DOMAIN Around(q) = 1 .. 7
  <2>1. CASE q = <<p[1] - 1, p[2], p[3]>>
    BY <1>1, <2>1 DEF Around
  <2>2. CASE q = <<p[1] + 1, p[2], p[3]>>
    BY <1>1, <2>2 DEF Around
  <2>3. CASE q = <<p[1], p[2], p[3] - 1>>
    BY <1>1, <2>3 DEF Around
  <2>4. CASE q = <<p[1], p[2], p[3] + 1>>
    BY <1>1, <2>4 DEF Around
  <2>5. CASE q = <<p[1], p[2] - 1, p[3]>>
    BY <1>1, <2>5 DEF Around
  <2> QED BY <1>2, <2>1, <2>2, <2>3, <2>4, <2>5
<1>5. p \in Nearby(q)
  BY <1>4 DEF Nearby, Range
<1>6. /\ q[1] \in Int /\ q[2] \in Int /\ q[3] \in Int
      /\ q[1] - 1 <= p[1] /\ p[1] <= q[1] + 1
      /\ q[2] - 1 <= p[2] /\ p[2] <= q[2] + 1
      /\ q[3] - 1 <= p[3] /\ p[3] <= q[3] + 1
  BY <1>1, <1>2
<1>7. ASSUME NEW r \in Near(q, 2)
      PROVE  /\ r[1] \in q[1] - 2 .. q[1] + 2 /\ r[2] \in q[2] - 2 .. q[2] + 2
             /\ r[3] \in q[3] - 2 .. q[3] + 2
  <2>1. r \in (q[1] - 2 .. q[1] + 2) \X (q[2] - 2 .. q[2] + 2) \X (q[3] - 2 .. q[3] + 2)
    BY <1>7 DEF Near
  <2> QED BY <2>1
<1>8. ASSUME NEW r \in Near(q, 2)
      PROVE  /\ r[1] - 3 <= p[1] /\ p[1] <= r[1] + 3
             /\ r[2] - 3 <= p[2] /\ p[2] <= r[2] + 3
             /\ r[3] - 3 <= p[3] /\ p[3] <= r[3] + 3
  BY <1>1, <1>6, <1>7
<1> QED BY <1>3, <1>5, <1>8 DEF q

\* Reads past a high edge find blocks of another row, none of which is three blocks
\* or more away from each low edge.
LEMMA WrapsLow ==
    ASSUME NEW q \in Pos, NEW r \in Near(q, 2), NEW x \in Pos, Near(x, 3) # {},
           Index(r) = Index(x)
    PROVE  r = x
<1>1. /\ q[1] \in 0 .. Width - 1 /\ q[2] \in 0 .. Depth - 1 /\ q[3] \in 0 .. Height - 1
      /\ x = <<x[1], x[2], x[3]>> /\ x[1] \in 0 .. Width - 1 /\ x[2] \in 0 .. Depth - 1
      /\ x[3] \in 0 .. Height - 1
  BY PosFields
<1>2. /\ r = <<r[1], r[2], r[3]>> /\ r[1] \in q[1] - 2 .. q[1] + 2
      /\ r[2] \in q[2] - 2 .. q[2] + 2 /\ r[3] \in q[3] - 2 .. q[3] + 2
  <2>1. r \in (q[1] - 2 .. q[1] + 2) \X (q[2] - 2 .. q[2] + 2) \X (q[3] - 2 .. q[3] + 2)
    BY DEF Near
  <2> QED BY <2>1
<1>3. ~(q[1] < 2) /\ ~(q[2] < 2) /\ ~(q[3] < 2)
  BY DEF Near
<1>4. ~(x[1] < 3) /\ ~(x[2] < 3) /\ ~(x[3] < 3)
  BY DEF Near
<1>5. Width \in Nat /\ Depth \in Nat /\ Height \in Nat
  BY Sizes
<1>6. /\ r[1] \in 0 .. Width + 1 /\ r[2] \in Nat /\ r[3] \in 0 .. Height + 1
      /\ Width > 2 /\ Height > 2
  BY <1>1, <1>2, <1>3, <1>5
<1> DEFINE a == r[2] * Height + r[3]
           c == x[2] * Height + x[3]
<1>7. a \in Nat /\ c \in Nat
  BY <1>1, <1>5, <1>6
<1>8. a * Width + r[1] = c * Width + x[1]
  BY DEF Index
<1>9. r[1] < Width
  <2> SUFFICES ASSUME Width <= r[1] PROVE FALSE
    BY <1>5, <1>6
  <2>1. r[1] - Width \in 0 .. Width - 1 /\ r[1] - Width <= 1
    BY <1>5, <1>6
  <2>2. (a + 1) * Width = a * Width + Width /\ a + 1 \in Nat /\ a * Width \in Nat
    BY <1>5, <1>7
  <2>3. (a + 1) * Width + (r[1] - Width) = c * Width + x[1]
    BY <1>5, <1>6, <1>8, <2>2
  <2> HIDE DEF a, c
  <2>4. x[1] = r[1] - Width
    BY <1>1, <1>5, <1>7, <2>1, <2>2, <2>3, RowUnique
  <2> QED BY <1>1, <1>4, <2>1, <2>4
<1>10. a = c /\ r[1] = x[1]
  <2>1. r[1] \in 0 .. Width - 1
    BY <1>5, <1>6, <1>9
  <2> HIDE DEF a, c
  <2> QED BY <1>1, <1>5, <1>7, <1>8, <2>1, RowUnique
<1>11. r[3] < Height
  <2> SUFFICES ASSUME Height <= r[3] PROVE FALSE
    BY <1>5, <1>6
  <2>1. r[3] - Height \in 0 .. Height - 1 /\ r[3] - Height <= 1
    BY <1>5, <1>6
  <2>2. /\ (r[2] + 1) * Height = r[2] * Height + Height /\ r[2] + 1 \in Nat
        /\ r[2] * Height \in Nat
    BY <1>5, <1>6
  <2>3. (r[2] + 1) * Height + (r[3] - Height) = x[2] * Height + x[3]
    BY <1>5, <1>6, <1>10, <2>2
  <2>4. x[3] = r[3] - Height
    BY <1>1, <1>5, <2>1, <2>2, <2>3, RowUnique
  <2> QED BY <1>1, <1>4, <2>1, <2>4
<1>12. r[2] = x[2] /\ r[3] = x[3]
  <2>1. r[3] \in 0 .. Height - 1
    BY <1>5, <1>6, <1>11
  <2> QED BY <1>1, <1>5, <1>6, <1>10, <2>1, RowUnique
<1> QED BY <1>1, <1>2, <1>10, <1>12

\* Where sponges stay, no read that finds one finds anything else.
LEMMA SpongesStay ==
    ASSUME NEW w \in Worlds, NEW v \in Worlds,
           \A q \in Pos : BlockAt(w, q) = "sponge" => BlockAt(v, q) = "sponge",
           NEW q, NEW g, SpongeNear(w, q, g)
    PROVE  SpongeNear(v, q, g)
<1>1. PICK r \in Near(q, 2) : Get(w, r, g) = "sponge"
  BY DEF SpongeNear
<1>2. CASE Index(r) \in 0 .. Size - 1
  <2>1. PICK s \in Pos : Index(s) = Index(r)
    BY <1>2, IndexOnto
  <2>2. BlockAt(w, s) = "sponge"
    BY <1>1, <1>2, <2>1 DEF Get, BlockAt
  <2>3. Get(v, r, g) = "sponge"
    BY <1>2, <2>1, <2>2 DEF Get, BlockAt
  <2> QED BY <2>3 DEF SpongeNear
<1>3. CASE Index(r) \notin 0 .. Size - 1
  BY <1>1, <1>3 DEF Get, SpongeNear
<1> QED BY <1>2, <1>3

\* A change of one block lets only its neighbours spread; where a sponge goes, what
\* is within three blocks as well.
LEMMA SpreadsNearChange ==
    ASSUME NEW w \in Worlds, NEW v \in Worlds, NEW x \in Pos,
           \A q \in Pos \ {x} : BlockAt(v, q) = BlockAt(w, q),
           NEW p \in Pos \ Nearby(x), CanSpread(v, p),
           BlockAt(w, x) = "sponge" => Near(x, 3) # {} /\ p \notin Near(x, 3)
    PROVE  CanSpread(w, p)
<1>1. PICK k \in 1 .. 5 :
        /\ FlowTargets(p)[k] \in Pos
        /\ Open(v, p, FlowTargets(p)[k])
        /\ ~(/\ Open(FirstWorld, p, FlowTargets(p)[k])
             /\ AsLeft(v, p) /\ AsLeft(v, FlowTargets(p)[k]))
  BY DEF CanSpread
<1> DEFINE q == FlowTargets(p)[k]
<1>2. /\ Flows(BlockAt(v, p)) /\ BlockAt(v, q) # BlockAt(v, p)
      /\ \A g \in Garbage : CanFlowTo(v, q, g)
  BY <1>1 DEF Open
<1>3. p # x /\ q # x
  <2>1. x \in Nearby(x) /\ p \in Nearby(q)
    BY AroundHolds, TargetsAreNear
  <2> QED BY <2>1
<1>4. BlockAt(w, p) = BlockAt(v, p) /\ BlockAt(w, q) = BlockAt(v, q)
  BY <1>1, <1>3
<1>5. ASSUME NEW g \in Garbage PROVE CanFlowTo(w, q, g)
  <2>1. CanFlowTo(v, q, g)
    BY <1>2
  <2>2. ~Solid(Get(w, q, g))
    BY <1>1, <1>4, <2>1, GetInside DEF CanFlowTo
  <2> SUFFICES ASSUME NEW r \in Near(q, 2), Get(w, r, g) = "sponge" PROVE FALSE
    BY <2>2 DEF CanFlowTo, SpongeNear
  <2>3. Get(v, r, g) # "sponge"
    BY <2>1 DEF CanFlowTo, SpongeNear
  <2>4. Index(r) \in 0 .. Size - 1 /\ v.blocks[Index(r)] # w.blocks[Index(r)]
        /\ w.blocks[Index(r)] = "sponge"
    BY <2>3 DEF Get
  <2>5. PICK s \in Pos : Index(s) = Index(r)
    BY <2>4, IndexOnto
  <2>6. s = x /\ BlockAt(w, x) = "sponge"
    BY <2>4, <2>5 DEF BlockAt
  <2>7. r = x
    <3>1. q \in Pos /\ Near(x, 3) # {} /\ Index(r) = Index(x)
      BY <1>1, <2>5, <2>6
    <3> HIDE DEF q
    <3> QED BY <3>1, WrapsLow
  <2>8. /\ x[1] - 3 <= p[1] /\ p[1] <= x[1] + 3
        /\ x[2] - 3 <= p[2] /\ p[2] <= x[2] + 3
        /\ x[3] - 3 <= p[3] /\ p[3] <= x[3] + 3
    BY <2>7, TargetsAreNear
  <2>9. p \in Near(x, 3)
    <3>1. /\ p = <<p[1], p[2], p[3]>> /\ p[1] \in Nat /\ p[2] \in Nat /\ p[3] \in Nat
          /\ x[1] \in Nat /\ x[2] \in Nat /\ x[3] \in Nat
      BY PosFields
    <3>2. Near(x, 3) = (x[1] - 3 .. x[1] + 3) \X (x[2] - 3 .. x[2] + 3) \X (x[3] - 3 .. x[3] + 3)
      BY <2>6 DEF Near
    <3>3. /\ p[1] \in x[1] - 3 .. x[1] + 3 /\ p[2] \in x[2] - 3 .. x[2] + 3
          /\ p[3] \in x[3] - 3 .. x[3] + 3
      BY <2>8, <3>1
    <3> QED BY <3>1, <3>2, <3>3
  <2> QED BY <2>6, <2>9
<1> HIDE DEF q
<1>6. Open(w, p, q)
  BY <1>2, <1>4, <1>5 DEF Open
<1>7. ~(Open(FirstWorld, p, q) /\ AsLeft(w, p) /\ AsLeft(w, q))
  BY <1>1, <1>4 DEF AsLeft, q
<1> QED BY <1>1, <1>6, <1>7 DEF CanSpread, q

LEMMA SpreadsFlows ==
    ASSUME NEW w, NEW p, CanSpread(w, p)
    PROVE  Flows(BlockAt(w, p))
BY DEF CanSpread, Open

LEMMA SetAirLiquid ==
    ASSUME NEW w \in Worlds, NEW p, p \in Pos => BlockAt(w, p) # "sponge",
           NEW E, LiquidAwaits(w, E)
    PROVE  LiquidAwaits(SetAir(w, p), E)
<1> DEFINE v == SetAir(w, p)
<1> SUFFICES ASSUME v # w, NEW q \in Pos \ E, CanSpread(v, q) PROVE Queued(v, q)
  BY DEF LiquidAwaits
<1>1. /\ v \in Worlds /\ Grows(w, v) /\ p \in Pos
      /\ \A r \in Pos : BlockAt(v, r) = IF r = p THEN "air" ELSE BlockAt(w, r)
      /\ \A r \in Nearby(p) \cap Pos : HasTick(BlockAt(v, r)) => Queued(v, r)
  BY SetAirEffect DEF Edited
<1> HIDE DEF v
<1>2. Flows(BlockAt(v, q))
  BY SpreadsFlows
<1>3. CASE q \in Nearby(p)
  BY <1>1, <1>2, <1>3 DEF HasTick
<1>4. CASE q \notin Nearby(p)
  <2>1. CanSpread(w, q)
    BY <1>1, <1>4, SpreadsNearChange
  <2> QED BY <1>1, <2>1, GrowsQueued DEF LiquidAwaits
<1> QED BY <1>3, <1>4

LEMMA DriedLiquid ==
    ASSUME NEW w \in Worlds, NEW Q, NEW ps \in Seq(Q),
           \A q \in Range(ps) \cap Pos : BlockAt(w, q) # "sponge",
           NEW E, LiquidAwaits(w, E)
    PROVE  LiquidAwaits(Dried(w, ps), E)
<1> DEFINE n == Len(ps)
           NoSponge(v) == \A q \in Range(ps) \cap Pos : BlockAt(v, q) # "sponge"
           W == {v \in Worlds : LiquidAwaits(v, E) /\ NoSponge(v)}
<1>1. PICK h : /\ Dried(w, ps) = h[n] /\ h[0] = w
               /\ \A k \in 1 .. n : h[k] = SetAir(h[k - 1], ps[k])
               /\ \A k \in 1 .. n : h[k - 1] \in Worlds => h[k] \in Worlds
  BY DriedRuns
<1>2. n \in Nat /\ h[0] \in W /\ DOMAIN ps = 1 .. n
  BY <1>1
<1>3. ASSUME NEW k \in 1 .. n, h[k - 1] \in W PROVE h[k] \in W
  <2>1. ps[k] \in Range(ps) /\ h[k - 1] \in Worlds /\ NoSponge(h[k - 1])
    BY <1>2, <1>3 DEF Range
  <2>2. h[k] = SetAir(h[k - 1], ps[k]) /\ h[k] \in Worlds
    BY <1>1, <2>1
  <2>3. LiquidAwaits(h[k], E)
    BY <1>3, <2>1, <2>2, SetAirLiquid
  <2>4. \A q \in Pos : BlockAt(h[k], q) = IF q = ps[k] THEN "air" ELSE BlockAt(h[k - 1], q)
    BY <2>1, <2>2, SetAirEffect
  <2> QED BY <2>1, <2>2, <2>3, <2>4
<1> HIDE DEF W, n
<1>4. h[n] \in W
  BY <1>2, <1>3, LoopKeeps
<1> QED BY <1>1, <1>4 DEF W

LEMMA PlacedLiquid ==
    ASSUME NEW w \in Worlds, NEW p \in Pos, NEW b, NEW g, b = BlockAt(w, p),
           NEW E, LiquidAwaits(w, E)
    PROVE  LiquidAwaits(Placed(w, p, b, g), E)
<1>1. CASE b = "sponge"
  <2> DEFINE ps == LiquidNear(w, p, 2, g)
  <2>1. Placed(w, p, b, g) = Dried(w, ps)
    BY <1>1 DEF Placed
  <2>2. ps \in Seq(Near(p, 2)) /\ \A q \in Range(ps) : Liquid(Get(w, q, g))
    BY LiquidNearHolds
  <2> HIDE DEF ps
  <2>3. \A q \in Range(ps) \cap Pos : BlockAt(w, q) # "sponge"
    BY <2>2, GetInside DEF Liquid
  <2> QED BY <2>1, <2>2, <2>3, DriedLiquid
<1>2. CASE b = "water" /\ SpongeNear(w, p, g)
  <2>1. Placed(w, p, b, g) = SetAir(w, p)
    BY <1>2 DEF Placed
  <2> QED BY <1>2, <2>1, SetAirLiquid
<1>3. CASE b # "sponge" /\ ~(b = "water" /\ SpongeNear(w, p, g))
  BY <1>3 DEF Placed
<1> QED BY <1>1, <1>2, <1>3

LEMMA SameSpread ==
    ASSUME NEW w, NEW v, v.blocks = w.blocks, NEW p
    PROVE  CanSpread(v, p) <=> CanSpread(w, p)
<1>1. (\A q : BlockAt(v, q) = BlockAt(w, q)) /\ \A q, g : Get(v, q, g) = Get(w, q, g)
  BY DEF BlockAt, Get
<1>2. \A q, r : Open(v, q, r) <=> Open(w, q, r)
  BY <1>1 DEF Open, CanFlowTo, SpongeNear
<1> QED BY <1>1, <1>2 DEF CanSpread, AsLeft

\* A call of map_set leaves what can spread scheduled; where it breaks a sponge, the
\* loops of its break function have to have turns.
LEMMA SetLiquid ==
    ASSUME NEW w \in Worlds, NEW p, NEW b \in Kind, NEW tick \in Nat, NEW g,
           LiquidAwaits(w, {}), p \in Pos /\ BlockAt(w, p) = "sponge" => Near(p, 3) # {}
    PROVE  LiquidAwaits(Set(w, p, b, tick, g), {})
<1>1. CASE p \notin Pos \/ BlockAt(w, p) = b
  BY <1>1 DEF Set
<1>2. CASE ~(p \notin Pos \/ BlockAt(w, p) = b)
  <2> DEFINE w1 == Write(w, p, b)
             old == BlockAt(w, p)
             w2 == Broken(w1, p, old, g)
             w3 == Placed(w2, p, b, g)
             w4 == Changed(w3, p, Delay(b, tick))
             E == Nearby(p)
  <2>0. p \in Pos /\ Set(w, p, b, tick, g) = w4
    BY <1>2 DEF Set
  <2>1. /\ w1 \in Worlds /\ w1.ticks = w.ticks
        /\ \A q \in Pos : BlockAt(w1, q) = IF q = p THEN b ELSE BlockAt(w, q)
    BY <2>0, WriteEffect
  <2> HIDE DEF w1
  <2>2. /\ w2 \in Worlds /\ w2.blocks = w1.blocks /\ Grows(w1, w2)
        /\ old = "sponge" =>
             \A q \in Near(p, 3) \cap Pos : Flows(BlockAt(w1, q)) => Queued(w2, q)
    BY <2>0, <2>1, BrokenEffect
  <2> HIDE DEF w2
  <2>3. \A q : BlockAt(w2, q) = BlockAt(w1, q)
    BY <2>2 DEF BlockAt
  <2>4. LiquidAwaits(w2, E)
    <3> SUFFICES ASSUME NEW q \in Pos \ E, CanSpread(w2, q) PROVE Queued(w2, q)
      BY DEF LiquidAwaits
    <3>1. CASE old = "sponge" /\ q \in Near(p, 3)
      <4>1. Flows(BlockAt(w1, q))
        BY <2>3, SpreadsFlows
      <4> QED BY <2>2, <3>1, <4>1
    <3>2. CASE ~(old = "sponge" /\ q \in Near(p, 3))
      <4>1. \A r \in Pos \ {p} : BlockAt(w2, r) = BlockAt(w, r)
        BY <2>1, <2>3
      <4>2. CanSpread(w, q)
        BY <2>0, <2>2, <3>2, <4>1, SpreadsNearChange
      <4>3. Queued(w1, q)
        BY <2>1, <4>2 DEF LiquidAwaits, Queued
      <4> QED BY <2>2, <4>3, GrowsQueued
    <3> QED BY <3>1, <3>2
  <2>5. w3 \in Worlds /\ LiquidAwaits(w3, E)
    <3>1. BlockAt(w2, p) = b
      BY <2>0, <2>1, <2>3
    <3> QED BY <2>0, <2>2, <2>4, <3>1, PlacedEffect, PlacedLiquid DEF Edited
  <2> HIDE DEF w3
  <2>6. /\ w4 \in Worlds /\ w4.blocks = w3.blocks /\ Grows(w3, w4)
        /\ \A q \in E \cap Pos : HasTick(BlockAt(w3, q)) => Queued(w4, q)
    BY <2>0, <2>5, DelayIsSoon, ChangedEffect
  <2> HIDE DEF w4
  <2>7. \A q \in Pos : CanSpread(w4, q) => CanSpread(w3, q)
    BY <2>6, SameSpread
  <2> SUFFICES ASSUME NEW q \in Pos, CanSpread(w4, q) PROVE Queued(w4, q)
    BY <2>0 DEF LiquidAwaits
  <2>8. CanSpread(w3, q) /\ Flows(BlockAt(w3, q))
    BY <2>7, SpreadsFlows
  <2>9. CASE q \in E
    BY <2>6, <2>8, <2>9 DEF HasTick
  <2>10. CASE q \notin E
    BY <2>5, <2>6, <2>8, <2>10, GrowsQueued DEF LiquidAwaits
  <2> QED BY <2>9, <2>10
<1> QED BY <1>1, <1>2

LEMMA GravityLiquid ==
    ASSUME NEW w \in Worlds, NEW p \in Pos, NEW b, b = BlockAt(w, p), Falls(b),
           NEW tick \in Nat, NEW g, LiquidAwaits(w, {})
    PROVE  /\ LiquidAwaits(Gravity(w, p, b, tick, g), {})
           /\ ~CanSpread(Gravity(w, p, b, tick, g), p)
<1> DEFINE v == Gravity(w, p, b, tick, g)
<1>0. b = "sand" /\ b \in Kind /\ "air" \in Kind
  BY WorldFields DEF Falls, Kind
<1>1. CASE Landing(w, p) = p
  BY <1>0, <1>1, SpreadsFlows DEF Gravity, Flows
<1>2. CASE Landing(w, p) # p
  <2> DEFINE l == Landing(w, p)
             u == Set(w, p, "air", tick, g)
  <2>0. l \in Pos /\ l # p /\ ~Solid(BlockAt(w, l))
    BY <1>2, LandingIs
  <2>1. v = Set(u, l, b, tick, g)
    BY <1>2 DEF Gravity
  <2> HIDE DEF v, l
  <2>2. /\ u \in Worlds /\ LiquidAwaits(u, {})
        /\ \A q \in Pos : BlockAt(u, q) \in {IF q = p THEN "air" ELSE BlockAt(w, q), "air"}
    BY <1>0, SetEffect, SetLiquid DEF Edited
  <2> HIDE DEF u
  <2>3. BlockAt(u, l) # "sponge" /\ BlockAt(u, p) = "air"
    BY <2>0, <2>2 DEF Solid
  <2>4. /\ LiquidAwaits(v, {})
        /\ \A q \in Pos : BlockAt(v, q) \in {IF q = l THEN b ELSE BlockAt(u, q), "air"}
    BY <1>0, <2>1, <2>2, <2>3, SetEffect, SetLiquid
  <2>5. BlockAt(v, p) = "air"
    BY <2>0, <2>3, <2>4
  <2> QED BY <2>4, <2>5, SpreadsFlows DEF v, Flows
<1> QED BY <1>1, <1>2

\* What a liquid finds at q when nothing is left to do there.
Refused(w, q, b, g) == BlockAt(w, q) = b \/ ~CanFlowTo(w, q, g)

\* A flow to a block that takes it sets that block and no other: no sponge is near, so
\* blockplace_liquid leaves it there.
LEMMA FlowSets ==
    ASSUME NEW w \in Worlds, NEW q \in Pos, NEW b \in Kind, Flows(b), NEW tick \in Nat, NEW g,
           CanFlowTo(w, q, g)
    PROVE  \A r \in Pos : BlockAt(Set(w, q, b, tick, g), r) = IF r = q THEN b ELSE BlockAt(w, r)
<1>1. CASE BlockAt(w, q) = b
  BY <1>1 DEF Set
<1>2. CASE BlockAt(w, q) # b
  <2> DEFINE w1 == Write(w, q, b)
             v == Changed(w1, q, Delay(b, tick))
  <2>1. BlockAt(w, q) # "sponge"
    BY GetInside DEF CanFlowTo, Solid
  <2>2. /\ w1 \in Worlds
        /\ \A r \in Pos : BlockAt(w1, r) = IF r = q THEN b ELSE BlockAt(w, r)
    BY WriteEffect
  <2>3. Broken(w1, q, BlockAt(w, q), g) = w1
    BY <2>1 DEF Broken
  <2> HIDE DEF w1
  <2>4. ~SpongeNear(w1, q, g)
    <3>1. \A r \in Pos : BlockAt(w1, r) = "sponge" => BlockAt(w, r) = "sponge"
      BY <2>2 DEF Flows
    <3> QED BY <2>2, <3>1, SpongesStay DEF CanFlowTo
  <2>5. Placed(w1, q, b, g) = w1
    BY <2>4 DEF Placed, Flows
  <2>6. Set(w, q, b, tick, g) = v
    BY <1>2, <2>3, <2>5 DEF Set, w1
  <2>7. v.blocks = w1.blocks
    BY <2>2, DelayIsSoon, ChangedEffect
  <2> HIDE DEF v
  <2> QED BY <2>2, <2>6, <2>7 DEF BlockAt
<1> QED BY <1>1, <1>2

\* What the flow of b from w to v, into q, does and keeps.
FlowDone(w, v, q, b, g) ==
    /\ LiquidAwaits(w, {}) => LiquidAwaits(v, {})
    /\ q \in Pos => Refused(v, q, b, g)
    /\ \A r \in Pos : Refused(w, r, b, g) => Refused(v, r, b, g)
    /\ \A r \in Pos : BlockAt(w, r) = b => BlockAt(v, r) = b

LEMMA FlowIntoLiquid ==
    ASSUME NEW w \in Worlds, NEW q, NEW b \in Kind, Flows(b), NEW tick \in Nat, NEW g
    PROVE  FlowDone(w, FlowInto(w, q, b, tick, g), q, b, g)
<1>1. CASE q \in Pos /\ CanFlowTo(w, q, g)
  <2> DEFINE v == Set(w, q, b, tick, g)
  <2>1. FlowInto(w, q, b, tick, g) = v
    BY <1>1 DEF FlowInto
  <2>2. BlockAt(w, q) # "sponge" /\ ~Solid(BlockAt(w, q))
    BY <1>1, GetInside DEF CanFlowTo, Solid
  <2>3. v \in Worlds /\ (LiquidAwaits(w, {}) => LiquidAwaits(v, {}))
    BY <2>2, SetEffect, SetLiquid DEF Edited
  <2>4. \A r \in Pos : BlockAt(v, r) = IF r = q THEN b ELSE BlockAt(w, r)
    BY <1>1, FlowSets
  <2> HIDE DEF v
  <2>5. ASSUME NEW r \in Pos, Refused(w, r, b, g) PROVE Refused(v, r, b, g)
    <3>1. CASE BlockAt(w, r) = b \/ r = q
      BY <2>4, <3>1 DEF Refused
    <3>2. CASE ~CanFlowTo(w, r, g) /\ r # q
      <4>1. CASE Solid(Get(w, r, g))
        BY <2>4, <3>2, <4>1, GetInside DEF Refused, CanFlowTo
      <4>2. CASE SpongeNear(w, r, g)
        <5>1. \A s \in Pos : BlockAt(w, s) = "sponge" => BlockAt(v, s) = "sponge"
          BY <2>2, <2>4
        <5>2. SpongeNear(v, r, g)
          BY <2>3, <4>2, <5>1, SpongesStay
        <5> QED BY <5>2 DEF Refused, CanFlowTo
      <4> QED BY <3>2, <4>1, <4>2 DEF CanFlowTo
    <3> QED BY <2>5, <3>1, <3>2 DEF Refused
  <2>6. q \in Pos => Refused(v, q, b, g)
    BY <2>4 DEF Refused
  <2>7. \A r \in Pos : BlockAt(w, r) = b => BlockAt(v, r) = b
    BY <2>4
  <2> QED BY <2>1, <2>3, <2>5, <2>6, <2>7 DEF FlowDone
<1>2. CASE ~(q \in Pos /\ CanFlowTo(w, q, g))
  BY <1>2 DEF FlowInto, Refused, FlowDone
<1> QED BY <1>1, <1>2

\* When a liquid has flowed, nothing is left for it to do, of what it found then.
LEMMA FlowLiquid ==
    ASSUME NEW w \in Worlds, NEW p \in Pos, NEW b, b = BlockAt(w, p), Flows(b),
           NEW tick \in Nat, NEW g \in Garbage, LiquidAwaits(w, {})
    PROVE  /\ LiquidAwaits(Flow(w, p, b, tick, g), {})
           /\ ~CanSpread(Flow(w, p, b, tick, g), p)
<1> DEFINE to == FlowTargets(p)
           W == {v \in Worlds : LiquidAwaits(v, {}) /\ BlockAt(v, p) = b}
           K(j) == {v \in Worlds : Refused(v, to[j], b, g)}
<1>0. b \in Kind /\ Flows(b)
  BY WorldFields
<1>1. PICK h : /\ Flow(w, p, b, tick, g) = h[5] /\ h[0] = w
               /\ \A k \in 1 .. 5 : h[k] = FlowInto(h[k - 1], to[k], b, tick, g)
  BY <1>0, FlowRuns
<1> HIDE DEF to
<1>2. h[0] \in W
  BY <1>1
<1>3. ASSUME NEW k \in 1 .. 5, h[k - 1] \in Worlds
      PROVE  /\ h[k] \in Worlds
             /\ LiquidAwaits(h[k - 1], {}) => LiquidAwaits(h[k], {})
             /\ to[k] \in Pos => Refused(h[k], to[k], b, g)
             /\ \A r \in Pos : Refused(h[k - 1], r, b, g) => Refused(h[k], r, b, g)
             /\ BlockAt(h[k - 1], p) = b => BlockAt(h[k], p) = b
  <2> DEFINE u == h[k - 1]
             v == FlowInto(u, to[k], b, tick, g)
  <2>1. u \in Worlds /\ h[k] = v
    BY <1>1, <1>3
  <2> HIDE DEF u
  <2>2. v \in Worlds
    BY <1>0, <2>1, FlowIntoEffect DEF Edited
  <2>3. FlowDone(u, v, to[k], b, g)
    BY <1>0, <2>1, FlowIntoLiquid
  <2> HIDE DEF v
  <2> QED BY <2>1, <2>2, <2>3 DEF u, FlowDone
<1>4. ASSUME NEW k \in 1 .. 5, h[k - 1] \in W PROVE h[k] \in W
  BY <1>3, <1>4
<1>5. ASSUME NEW j \in 1 .. 5, to[j] \in Pos PROVE h[5] \in K(j)
  <2>1. ASSUME NEW k \in 1 .. 5, h[k - 1] \in K(j) PROVE h[k] \in K(j)
    BY <1>3, <1>5, <2>1
  <2>2. h[j - 1] \in Worlds => h[j] \in K(j)
    BY <1>3, <1>5
  <2>3. h[0] \in Worlds /\ 5 \in Nat
    BY <1>1
  <2> HIDE DEF K
  <2> QED BY <1>3, <2>1, <2>2, <2>3, LoopReaches
<1> HIDE DEF W
<1>6. h[5] \in W
  BY <1>2, <1>4, LoopKeeps
<1>7. ~CanSpread(h[5], p)
  BY <1>5, <1>6 DEF CanSpread, Open, Refused, W, to
<1> QED BY <1>1, <1>6, <1>7 DEF W

LEMMA RunTickLiquid ==
    ASSUME NEW w \in Worlds, NEW p \in Pos, NEW tick \in Nat, NEW g \in Garbage,
           LiquidAwaits(w, {})
    PROVE  /\ LiquidAwaits(RunTick(w, p, tick, g), {})
           /\ ~CanSpread(RunTick(w, p, tick, g), p)
<1> DEFINE b == BlockAt(w, p)
<1>1. CASE Falls(b)
  <2>1. RunTick(w, p, tick, g) = Gravity(w, p, b, tick, g)
    BY <1>1 DEF RunTick, Falls, Flows
  <2> HIDE DEF b
  <2> QED BY <1>1, <2>1, GravityLiquid DEF b
<1>2. CASE Flows(b)
  <2>1. RunTick(w, p, tick, g) = Flow(w, p, b, tick, g)
    BY <1>2 DEF RunTick, Falls, Flows
  <2> QED BY <1>2, <2>1, FlowLiquid
<1>3. CASE ~Falls(b) /\ ~Flows(b)
  BY <1>3, SpreadsFlows DEF RunTick
<1> QED BY <1>1, <1>2, <1>3

LiquidInv == blind \/ LiquidAwaits(world, {})

LEMMA TickRunsLiquid ==
    ASSUME WorldType, TickRuns, LiquidAwaits(world, {})
    PROVE  LiquidAwaits(world', {})
<1> DEFINE p == world.ticks[i].pos
<1>1. i \in DOMAIN world.ticks /\ p \in Pos
  <2>1. i \in DOMAIN world.ticks /\ world.ticks \in Seq(Tick)
    BY WorldFields DEF WorldType, TickRuns, Due
  <2>2. world.ticks[i] \in Tick
    BY <2>1
  <2> QED BY <2>1, <2>2, TickFields
<1>2. PICK g \in Garbage : world' = After(RunTick(world, p, phase, g), i)
  BY DEF TickRuns
<1> DEFINE u == RunTick(world, p, phase, g)
           v == After(u, i)
<1>3. Edited(world, u) /\ LiquidAwaits(u, {}) /\ ~CanSpread(u, p)
  BY <1>1, RunTickEffect, RunTickLiquid DEF WorldType
<1> HIDE DEF u
<1>4. u \in Worlds /\ i \in DOMAIN u.ticks /\ u.ticks[i].pos = p
  BY <1>1, <1>3 DEF Edited, Grows
<1>5. v.blocks = u.blocks /\ \A q : q # p /\ Queued(u, q) => Queued(v, q)
  BY <1>4, AfterEffect
<1> HIDE DEF v
<1>6. LiquidAwaits(v, {})
  BY <1>3, <1>5, SameSpread DEF LiquidAwaits
<1> QED BY <1>2, <1>6 DEF u, v

LEMMA LiquidInvNext == WorldInv /\ LiquidInv /\ [Next]_vars => LiquidInv'
<1> SUFFICES ASSUME WorldInv, LiquidInv, [Next]_vars, ~blind' PROVE LiquidAwaits(world', {})
  BY DEF LiquidInv
<1>0. WorldType
  BY DEF WorldInv
<1>1. ASSUME UNCHANGED <<world, blind>> PROVE LiquidAwaits(world', {})
  BY <1>1 DEF LiquidInv
<1>2. CASE StartTick
  BY <1>1, <1>2 DEF StartTick
<1>3. CASE TickWaits
  BY <1>1, <1>3 DEF TickWaits
<1>4. CASE TickRuns
  BY <1>0, <1>4, TickRunsLiquid DEF TickRuns, LiquidInv
<1>5. CASE TicksEnd
  BY <1>1, <1>5 DEF TicksEnd
<1>6. CASE EndTick
  <2>1. world'.blocks = world.blocks /\ \A p : Queued(world, p) => Queued(world', p)
    BY <1>0, <1>6, EndTickQueue
  <2>2. LiquidAwaits(world, {})
    BY <1>6 DEF EndTick, LiquidInv
  <2> QED BY <2>1, <2>2, SameSpread DEF LiquidAwaits
<1>7. CASE Clients
  <2>1. PICK p \in Reach, b \in Hand, op \in Rights : SetBlock(p, b, op)
    BY <1>7 DEF Clients
  <2>2. PICK g \in Garbage : world' = Set(world, p, b, phase, g)
    BY <2>1 DEF SetBlock
  <2>3. b \in Kind /\ world \in Worlds /\ phase \in Nat
    BY <1>0 DEF Kind, Present, WorldType
  <2>4. LiquidAwaits(world, {}) /\ (BlockAt(world, p) = "sponge" => Near(p, 3) # {})
    BY <2>1 DEF SetBlock, LiquidInv
  <2> QED BY <2>2, <2>3, <2>4, SetLiquid
<1>8. CASE UNCHANGED vars
  BY <1>1, <1>8 DEF vars
<1> QED BY <1>2, <1>3, <1>4, <1>5, <1>6, <1>7, <1>8 DEF Next, MainLoop

\* Liquid that has somewhere to go is always scheduled, unless the generator left it and
\* the block it can flow to like that, or a sponge was broken so near a low edge that
\* its loops had no turns: an entry leaves the queue only when its
\* block found nothing more to flow to, map_set schedules the neighbours of what it
\* changes, and a sponge that goes wakes what it kept away, on maps of every size.
THEOREM LiquidStaysScheduled == Spec => []LiquidIsScheduled
<1>1. Init => LiquidInv
  BY DEF Init, LiquidInv, LiquidAwaits, CanSpread, AsLeft
<1>2. LiquidInv => LiquidIsScheduled
  BY DEF LiquidInv, LiquidAwaits, LiquidIsScheduled, Queued, Pending
<1> QED BY <1>1, <1>2, LiquidInvNext, WorldInvInit, WorldInvNext, PTL DEF Spec

-----------------------------------------------------------------------------
(* The world and its file.                                                 *)

\* A turn of the main loop neither saves nor stops, and does not take over while
\* the world is being saved: what server_tick and its handlers do to the world
\* leaves the file alone.
LEMMA TurnGoesOn ==
    ASSUME Turn
    PROVE  /\ pc \notin {"saving", "off"} /\ pc' \in {"loop", "ticks", "clients", "end"}
           /\ UNCHANGED fileVars
<1>1. MainLoop => pc \notin {"saving", "off"} /\ pc' \in {"loop", "ticks", "clients", "end"}
  BY DEF MainLoop, StartTick, TickWaits, TickRuns, Due, TicksEnd, EndTick
<1>2. Clients => pc \notin {"saving", "off"} /\ pc' \in {"loop", "ticks", "clients", "end"}
  BY DEF Clients, SetBlock
<1> QED BY <1>1, <1>2 DEF Turn, Next

\* map_save leaves a broken file only while it runs, unless a fault happens.
LEMMA SaveKeepsWhole ==
    ASSUME NEW to, WholeUnlessFault, pc # "saving", Save(to), faulted' = faulted
    PROVE  WholeUnlessFault'
<1>1. CASE world.modified
  BY <1>1 DEF Save, WholeUnlessFault
<1>2. CASE ~world.modified
  BY <1>2 DEF Save, WholeUnlessFault
<1> QED
  BY <1>1, <1>2

LEMMA WholeNext == WholeUnlessFault /\ [FileNext]_allVars => WholeUnlessFault'
<1> SUFFICES ASSUME WholeUnlessFault, [FileNext]_allVars PROVE WholeUnlessFault'
  OBVIOUS
<1>1. CASE Turn
  BY <1>1, TurnGoesOn DEF WholeUnlessFault, fileVars
<1>2. CASE SaveDone
  BY <1>2 DEF SaveDone, Saved, WholeUnlessFault
<1>3. CASE SaveFails
  BY <1>3 DEF SaveFails, WholeUnlessFault
<1>4. CASE LastLeaves
  BY <1>4, SaveKeepsWhole DEF LastLeaves
<1>5. CASE Stop
  BY <1>5, SaveKeepsWhole DEF Stop
<1>6. CASE Crash
  BY <1>6 DEF Crash, WholeUnlessFault
<1>7. CASE Load
  BY <1>7 DEF Load, WholeUnlessFault
<1>8. CASE Generate
  BY <1>8 DEF Generate, WholeUnlessFault
<1>9. CASE LoadDies
  BY <1>9 DEF LoadDies, Started, WholeUnlessFault
<1>10. CASE UNCHANGED allVars
  BY <1>10 DEF allVars, vars, fileVars, WholeUnlessFault
<1> QED
  BY <1>1, <1>2, <1>3, <1>4, <1>5, <1>6, <1>7, <1>8, <1>9, <1>10
  DEF FileNext

\* The world file is whole at every moment but while map_save writes it and, after a
\* crash or a failed save, until it is written again: no interleaving of saves,
\* stops, starts and edits breaks it otherwise.
THEOREM FileStaysWhole == FileSpec => []WholeUnlessFault
<1>1. FileInit => WholeUnlessFault
  BY DEF FileInit, WholeUnlessFault, FileKind
<1> QED BY <1>1, WholeNext, PTL DEF FileSpec

-----------------------------------------------------------------------------
(* Saving and loading.                                                     *)

Entry == {e \in [index : 0 .. Size - 1, time : Int] : Soon(e.time)}

File ==
    {FileKind("none"), FileKind("cut")} \cup
    [kind : {"whole"}, blocks : [0 .. Size - 1 -> Kind], ticks : Seq(Entry)]

LEMMA FileFields ==
    ASSUME NEW f \in File, f.kind = "whole"
    PROVE  /\ f.blocks \in [0 .. Size - 1 -> Kind] /\ f.ticks \in Seq(Entry)
           /\ DOMAIN f.ticks = 1 .. Len(f.ticks) /\ Len(f.ticks) \in Nat
           /\ \A k \in DOMAIN f.ticks :
                /\ f.ticks[k].index \in 0 .. Size - 1 /\ f.ticks[k].time \in Int
                /\ Soon(f.ticks[k].time)
<1>1. f \in [kind : {"whole"}, blocks : [0 .. Size - 1 -> Kind], ticks : Seq(Entry)]
  BY DEF File, FileKind
<1>2. f.blocks \in [0 .. Size - 1 -> Kind] /\ f.ticks \in Seq(Entry)
  BY <1>1
<1>3. \A k \in DOMAIN f.ticks : f.ticks[k] \in Entry
  BY <1>2
<1> QED BY <1>2, <1>3 DEF Entry

LEMMA MinusOneIsSoon == Soon(-1)
<1>1. PICK b \in Present : 0 <= TickTime(b)
  BY ZeroIsSoon DEF Soon
<1>2. TickTime(b) \in {0, 4, 8}
  BY DEF TickTime
<1> QED BY <1>1, <1>2 DEF Soon

\* map_save writes the blocks and, for every entry, its place and its distance.
LEMMA SavedEffect ==
    ASSUME NEW w \in Worlds
    PROVE  /\ Saved(w) \in File /\ Saved(w).kind = "whole" /\ Saved(w).blocks = w.blocks
           /\ DOMAIN Saved(w).ticks = DOMAIN w.ticks
           /\ \A k \in DOMAIN w.ticks :
                /\ Saved(w).ticks[k].index = Index(w.ticks[k].pos)
                /\ Saved(w).ticks[k].time =
                        IF w.ticks[k].wait = Never THEN -1 ELSE w.ticks[k].wait
<1> DEFINE time(t) == IF t.wait = Never THEN -1 ELSE t.wait
           entry(t) == [index |-> Index(t.pos), time |-> time(t)]
           T == [k \in DOMAIN w.ticks |-> entry(w.ticks[k])]
<1>1. /\ w.blocks \in [0 .. Size - 1 -> Kind] /\ w.ticks \in Seq(Tick)
      /\ DOMAIN w.ticks = 1 .. Len(w.ticks) /\ Len(w.ticks) \in Nat
  BY WorldFields
<1>2. \A t \in Tick : entry(t) \in Entry
  <2> SUFFICES ASSUME NEW t \in Tick PROVE entry(t) \in Entry
    OBVIOUS
  <2>1. t.pos \in Pos /\ t.wait \in Int /\ (t.wait = Never \/ Soon(t.wait))
    BY TickFields
  <2>2. time(t) \in Int /\ Soon(time(t))
    BY <2>1, MinusOneIsSoon
  <2>3. Index(t.pos) \in 0 .. Size - 1
    BY <2>1, IndexInside
  <2> HIDE DEF time
  <2> QED BY <2>2, <2>3 DEF Entry
<1>3. T \in Seq(Entry)
  <2>1. \A k \in DOMAIN w.ticks : w.ticks[k] \in Tick
    BY <1>1
  <2> HIDE DEF entry
  <2>2. T \in [1 .. Len(w.ticks) -> Entry]
    BY <1>1, <1>2, <2>1
  <2> QED BY <1>1, <2>2
<1>4. Saved(w) = [kind |-> "whole", blocks |-> w.blocks, ticks |-> T]
  BY DEF Saved
<1>5. DOMAIN T = DOMAIN w.ticks /\ \A k \in DOMAIN w.ticks : T[k] = entry(w.ticks[k])
  OBVIOUS
<1>9. \A t : entry(t).index = Index(t.pos) /\ entry(t).time = time(t)
  OBVIOUS
<1> HIDE DEF T, entry
<1>6. Saved(w) \in File
  BY <1>1, <1>3, <1>4 DEF File
<1>7. /\ Saved(w).kind = "whole" /\ Saved(w).blocks = w.blocks
      /\ Saved(w).ticks = T
  BY <1>4
<1>8. \A k \in DOMAIN w.ticks :
         T[k].index = Index(w.ticks[k].pos) /\ T[k].time = time(w.ticks[k])
  BY <1>5, <1>9
<1> QED BY <1>5, <1>6, <1>7, <1>8

\* map_load: the world has the blocks of the file, and schedules each entry whose
\* place is one of a block that ticks.
LEMMA LoadedEffect ==
    ASSUME NEW f \in File, f.kind = "whole"
    PROVE  /\ Loaded(f) \in Worlds /\ Loaded(f).blocks = f.blocks
           /\ Loaded(f).modified = FALSE
           /\ \A k \in DOMAIN f.ticks :
                LET p == PosOf(f.ticks[k].index)
                IN  p \in Pos /\ HasTick(f.blocks[Index(p)]) /\ f.ticks[k].time >= 0
                        => Queued(Loaded(f), p)
<1> DEFINE wait(t) == IF t.time < 0 THEN Never ELSE t.time
           tick(t) ==
              IF PosOf(t.index) \in Pos /\ HasTick(f.blocks[Index(PosOf(t.index))])
              THEN <<[pos |-> PosOf(t.index), wait |-> wait(t)]>>
              ELSE << >>
           s == [k \in DOMAIN f.ticks |-> tick(f.ticks[k])]
           T == FlattenSeq(s)
           v == Loaded(f)
<1>1. v = [blocks |-> f.blocks, ticks |-> T, modified |-> FALSE]
  BY DEF Loaded
<1>2. /\ f.blocks \in [0 .. Size - 1 -> Kind] /\ f.ticks \in Seq(Entry)
      /\ DOMAIN f.ticks = 1 .. Len(f.ticks) /\ Len(f.ticks) \in Nat
      /\ \A k \in DOMAIN f.ticks : f.ticks[k].time \in Int /\ Soon(f.ticks[k].time)
  BY FileFields
<1>3. ASSUME NEW k \in DOMAIN f.ticks PROVE tick(f.ticks[k]) \in Seq(Tick)
  <2>1. wait(f.ticks[k]) \in Int /\ (wait(f.ticks[k]) = Never \/ Soon(wait(f.ticks[k])))
    BY <1>2 DEF Never
  <2> HIDE DEF wait
  <2>2. \A p \in Pos : [pos |-> p, wait |-> wait(f.ticks[k])] \in Tick
    BY <2>1 DEF Tick, Soon
  <2> QED BY <2>2
<1>4. s \in Seq(Seq(Tick)) /\ DOMAIN s = DOMAIN f.ticks
  <2> HIDE DEF tick
  <2>1. s \in [1 .. Len(f.ticks) -> Seq(Tick)]
    BY <1>2, <1>3
  <2> QED BY <1>2, <2>1
<1>5. \A k \in DOMAIN f.ticks : s[k] = tick(f.ticks[k])
  OBVIOUS
<1> HIDE DEF s
<1>6. T \in Seq(Tick) /\ \A e : e \in Range(T) <=> \E k \in DOMAIN s : e \in Range(s[k])
  BY <1>4, FlattenHolds
<1> HIDE DEF T
<1>7. v \in Worlds /\ v.blocks = f.blocks /\ v.modified = FALSE /\ v.ticks = T
  BY <1>1, <1>2, <1>6 DEF Worlds
<1>8. ASSUME NEW k \in DOMAIN f.ticks, PosOf(f.ticks[k].index) \in Pos,
             HasTick(f.blocks[Index(PosOf(f.ticks[k].index))]), f.ticks[k].time >= 0
      PROVE  Queued(v, PosOf(f.ticks[k].index))
  <2> DEFINE e == [pos |-> PosOf(f.ticks[k].index), wait |-> f.ticks[k].time]
  <2>1. wait(f.ticks[k]) = f.ticks[k].time
    BY <1>2, <1>8
  <2>2. s[k] = <<e>>
    BY <1>5, <1>8, <2>1
  <2>3. e \in Range(s[k])
    BY <2>2 DEF Range
  <2>4. e \in Range(T)
    BY <1>4, <1>6, <2>3
  <2>5. PICK j \in DOMAIN T : T[j] = e
    BY <2>4 DEF Range
  <2>6. e.wait # Never
    BY <1>2, SoonIsNotNever
  <2> QED BY <1>7, <2>5, <2>6 DEF Queued
<1> QED BY <1>7, <1>8

\* Where the map is as deep as high, map_index_to_pos finds the place that was saved.
LEMMA PosOfIndex ==
    ASSUME Depth = Height, NEW p \in Pos
    PROVE  PosOf(Index(p)) = p
<1> DEFINE r == p[3] * Width + p[1]
           d == Width * Height
<1>1. /\ p = <<p[1], p[2], p[3]>> /\ p[1] \in 0 .. Width - 1 /\ p[3] \in Nat /\ p[3] < Height
      /\ p[1] \in Nat /\ p[2] \in Nat /\ Width \in Nat /\ Height \in Nat
  BY PosFields, Sizes
<1>2. r \in Nat /\ r < Height * Width
  BY <1>1, RowInside
<1>3. d \in Nat /\ d = Height * Width /\ Width * Depth = d
  BY <1>1
<1>4. Index(p) = p[2] * d + r
  <2>1. (p[2] * Height + p[3]) * Width = (p[2] * Height) * Width + p[3] * Width
    BY <1>1
  <2>2. (p[2] * Height) * Width = p[2] * d
    BY <1>1, <1>3
  <2>3. (p[2] * Height) * Width \in Nat /\ p[3] * Width \in Nat
    BY <1>1, <1>3, <2>2
  <2> QED BY <1>1, <2>1, <2>2, <2>3 DEF Index
<1>5. r \in 0 .. d - 1
  BY <1>2, <1>3
<1> HIDE DEF d
<1>6. Index(p) \div d = p[2] /\ Index(p) - p[2] * d = r
  <2> HIDE DEF r
  <2>1. p[2] * d \in Nat
    BY <1>1, <1>3
  <2>2. (p[2] * d + r) \div d = p[2]
    BY <1>1, <1>3, <1>5, RowDivides
  <2> QED BY <1>4, <1>5, <2>1, <2>2
<1>7. r \div Width = p[3] /\ r % Width = p[1]
  BY <1>1, RowDivides
<1>8. Index(p) - p[2] * Width * Depth = r
  <2>1. p[2] * Width * Depth = p[2] * d
    BY <1>1, <1>3, Sizes DEF d
  <2> QED BY <1>6, <2>1
<1> QED BY <1>1, <1>3, <1>6, <1>7, <1>8 DEF PosOf

-----------------------------------------------------------------------------
(* The states of the server and its file.                                  *)

FileType ==
    /\ WorldType
    /\ pc \in {"loop", "ticks", "clients", "end", "saving", "off"}
    /\ file \in File
    /\ next \in {"loop", "end", "off"}
    /\ starts \in 0 .. MaxStarts
    /\ faulted \subseteq {"crash", "deflate", "disk"}
    /\ late \in BOOLEAN

LEMMA FileIsTyped == FileType => FileTypeOK
<1> SUFFICES ASSUME FileType PROVE FileTypeOK
  OBVIOUS
<1>1. world \in World
  BY WorldsAreWorld DEF FileType, WorldType
<1>2. \/ file \in {FileKind("none"), FileKind("cut")}
      \/ /\ file.kind = "whole"
         /\ file.blocks \in [0 .. Size - 1 -> Block]
         /\ file.ticks \in Seq([index : 0 .. Size - 1, time : Int])
  <2> SUFFICES ASSUME file \notin {FileKind("none"), FileKind("cut")}
               PROVE  /\ file.kind = "whole"
                      /\ file.blocks \in [0 .. Size - 1 -> Block]
                      /\ file.ticks \in Seq([index : 0 .. Size - 1, time : Int])
    OBVIOUS
  <2>1. file.kind = "whole"
    BY DEF FileType, File
  <2>2. file.blocks \in [0 .. Size - 1 -> Kind] /\ file.ticks \in Seq(Entry)
    BY <2>1, FileFields DEF FileType
  <2>3. file.blocks \in [0 .. Size - 1 -> Block]
    BY <2>2, KindsAreBlocks
  <2>4. file.ticks \in Seq([index : 0 .. Size - 1, time : Int])
    <3> DEFINE R == [index : 0 .. Size - 1, time : Int]
    <3>1. Entry \subseteq R
      BY DEF Entry
    <3> HIDE DEF R
    <3>2. file.ticks \in Seq(R)
      <4>1. Seq(Entry) \subseteq Seq(R)
        BY <3>1
      <4> QED BY <2>2, <4>1
    <3> QED BY <3>2 DEF R
  <2> QED BY <2>1, <2>3, <2>4
<1> QED BY <1>1, <1>2 DEF FileType, FileTypeOK, WorldType

LEMMA FileTypeInit == FileInit => FileType
<1>1. 0 \in 0 .. MaxStarts /\ 0 \in 0 .. Period - 1
  BY FaultAssumption, PeriodAssumption
<1>2. FileKind("none") \in File
  BY DEF File
<1>3. FileInit => WorldType
  BY <1>1, FirstWorldKept DEF FileInit, WorldType
<1> QED BY <1>1, <1>2, <1>3 DEF FileInit, FileType

\* What a save, whether needed or not, does to the file.
LEMMA SaveEffect ==
    ASSUME FileType, NEW to \in {"end", "off"}, Save(to)
    PROVE  /\ file' \in File /\ next' \in {"loop", "end", "off"}
           /\ \/ world.modified /\ pc' = "saving" /\ file'.kind = "cut"
              \/ ~world.modified /\ pc' = to /\ file' = file
<1>1. FileKind("cut") \in File /\ FileKind("cut").kind = "cut"
  BY DEF File, FileKind
<1> QED BY <1>1 DEF Save, FileType

LEMMA Unmodified ==
    ASSUME world \in Worlds
    PROVE  /\ [world EXCEPT !.modified = FALSE] \in Worlds
           /\ [world EXCEPT !.modified = FALSE].blocks = world.blocks
           /\ [world EXCEPT !.modified = FALSE].ticks = world.ticks
BY DEF Worlds

LEMMA FileTypeNext == FileType /\ [FileNext]_allVars => FileType'
<1> SUFFICES ASSUME FileType, [FileNext]_allVars PROVE FileType'
  OBVIOUS
<1>0. /\ MaxStarts \in Nat /\ 0 \in 0 .. Period - 1 /\ FileKind("cut") \in File
      /\ world \in Worlds
  BY FaultAssumption, PeriodAssumption DEF File, FileType, WorldType
<1>1. CASE Turn
  BY <1>1, TurnGoesOn, StepKeeps DEF Turn, FileType, fileVars
<1>2. CASE SaveDone
  <2>1. Saved(world) \in File
    BY <1>0, SavedEffect
  <2>2. late' \in BOOLEAN
    BY <1>2 DEF SaveDone, FileType
  <2> QED BY <1>0, <1>2, <2>1, <2>2, Unmodified DEF SaveDone, FileType, WorldType
<1>3. CASE SaveFails
  <2>1. world' \in Worlds
    BY <1>0, <1>3, Unmodified DEF SaveFails
  <2>2. faulted' \subseteq {"crash", "deflate", "disk"}
    BY <1>3 DEF SaveFails, FileType
  <2> QED BY <1>3, <2>1, <2>2 DEF SaveFails, FileType, WorldType
<1>4. CASE LastLeaves
  <2>1. Save("end") /\ UNCHANGED <<world, phase, i, starts, faulted, late>>
    BY <1>4 DEF LastLeaves
  <2> QED BY <2>1, SaveEffect DEF FileType, WorldType
<1>5. CASE Stop
  <2>1. Save("off") /\ UNCHANGED <<world, phase, i, starts, faulted, late>>
    BY <1>5 DEF Stop
  <2> QED BY <2>1, SaveEffect DEF FileType, WorldType
<1>6. CASE Crash
  BY <1>6 DEF Crash, FileType, WorldType
<1>7. ASSUME Started
      PROVE  /\ starts' \in 0 .. MaxStarts /\ phase' \in 0 .. Period - 1 /\ i' \in Nat \ {0}
             /\ UNCHANGED late
  BY <1>0, <1>7 DEF Started, FileType
<1>8. CASE Load
  BY <1>7, <1>8, LoadedEffect DEF Load, FileType, WorldType
<1>9. CASE Generate
  BY <1>0, <1>7, <1>9, FirstWorldKept DEF Generate, FileType, WorldType
<1>10. CASE LoadDies
  BY <1>7, <1>10 DEF LoadDies, FileType, WorldType
<1>11. CASE UNCHANGED allVars
  BY <1>11 DEF allVars, vars, fileVars, FileType, WorldType
<1> QED
  BY <1>1, <1>2, <1>3, <1>4, <1>5, <1>6, <1>8, <1>9, <1>10, <1>11 DEF FileNext

\* Whatever crashes and writes fail, and however often the server starts, the world is a
\* map of its size, and so is what the file holds whenever it is whole: map_load,
\* which copies the file's bytes into the map without looking at their number, gets as many
\* as the map has, and every entry of the file has the index of a place in the map.
THEOREM FileTypeCorrect == FileSpec => []FileTypeOK
BY FileIsTyped, FileTypeInit, FileTypeNext, PTL DEF FileSpec

-----------------------------------------------------------------------------
(* What is saved.                                                          *)

\* A stopped server, and a running one that believes that nothing is to be saved, have
\* their world in the file.  A file may be cut only while it is written or after a
\* fault, so that a start that finds one cut is not counted on.
\* A world is saved only when its flag is set.
SavedInv ==
    /\ FileType /\ WholeUnlessFault /\ UnmodifiedIsSaved /\ StopSaves
    /\ pc = "saving" => world.modified

LEMMA SavedInvNext == SavedInv /\ [FileNext]_allVars => SavedInv'
<1> SUFFICES ASSUME SavedInv, [FileNext]_allVars
             PROVE  /\ UnmodifiedIsSaved' /\ StopSaves' /\ WholeUnlessFault'
                    /\ pc' = "saving" => world'.modified
  BY FileTypeNext DEF SavedInv
<1>0. /\ FileType /\ WholeUnlessFault /\ UnmodifiedIsSaved /\ StopSaves
      /\ (pc = "saving" => world.modified) /\ next \in {"loop", "end", "off"}
      /\ world \in Worlds /\ world.modified \in BOOLEAN
  BY WorldFields DEF SavedInv, FileType, WorldType
<1>12. FirstWorld.modified /\ FileKind("cut").kind # "whole"
  BY DEF FirstWorld, FileKind
<1>11. WholeUnlessFault'
  BY <1>0, WholeNext
<1>1. CASE Turn
  <2>1. /\ pc \notin {"saving", "off"} /\ pc' \notin {"saving", "off"} /\ UNCHANGED fileVars
        /\ world.modified => world'.modified
        /\ world'.modified \/ world'.blocks = world.blocks
    BY <1>0, <1>1, TurnGoesOn, StepKeeps DEF Turn, FileType, Kept
  <2> QED BY <1>0, <2>1, <1>11 DEF UnmodifiedIsSaved, StopSaves, Holds, fileVars
<1>2. CASE SaveDone
  <2>1. file'.kind = "whole" /\ file'.blocks = world'.blocks
    BY <1>0, <1>2, SavedEffect, Unmodified DEF SaveDone
  <2>2. pc' # "saving"
    BY <1>0, <1>2 DEF SaveDone
  <2> QED BY <2>1, <2>2, <1>11 DEF UnmodifiedIsSaved, StopSaves, Holds
<1>3. CASE SaveFails
  <2>1. faulted' # {} /\ pc' # "saving"
    BY <1>0, <1>3 DEF SaveFails
  <2>2. "disk" \in faulted' \/ world'.modified
    BY <1>0, <1>3 DEF SaveFails
  <2> QED BY <2>1, <2>2, <1>11 DEF UnmodifiedIsSaved, StopSaves
<1>4. CASE LastLeaves
  <2>1. Save("end") /\ pc = "clients" /\ UNCHANGED <<world, starts, faulted>>
    BY <1>4 DEF LastLeaves
  <2> QED BY <1>0, <2>1, SaveEffect, <1>11 DEF UnmodifiedIsSaved, StopSaves, Holds
<1>5. CASE Stop
  <2>1. Save("off") /\ pc = "loop" /\ UNCHANGED <<world, starts, faulted>>
    BY <1>5 DEF Stop
  <2> QED BY <1>0, <2>1, SaveEffect, <1>11 DEF UnmodifiedIsSaved, StopSaves, Holds
<1>6. CASE Crash
  <2>1. faulted' # {} /\ pc' = "off"
    BY <1>6 DEF Crash
  <2> QED BY <2>1, <1>11 DEF UnmodifiedIsSaved, StopSaves
<1>7. CASE Load
  <2>1. file'.kind = "whole" /\ file'.blocks = world'.blocks
    BY <1>0, <1>7, LoadedEffect DEF Load, FileType
  <2>2. pc' = "loop"
    BY <1>7 DEF Load
  <2> QED BY <2>1, <2>2, <1>11 DEF UnmodifiedIsSaved, StopSaves, Holds
<1>8. CASE Generate
  BY <1>8, <1>11, <1>12 DEF Generate, UnmodifiedIsSaved, StopSaves
<1>9. CASE LoadDies
  BY <1>0, <1>9, <1>11 DEF LoadDies, Started, WholeUnlessFault, UnmodifiedIsSaved, StopSaves
<1>10. CASE UNCHANGED allVars
  BY <1>0, <1>10, <1>11
  DEF allVars, vars, fileVars, UnmodifiedIsSaved, StopSaves, Holds
<1> QED
  BY <1>11, <1>1, <1>2, <1>3, <1>4, <1>5, <1>6, <1>7, <1>8, <1>9, <1>10 DEF FileNext

LEMMA SavedInvAlways == FileSpec => []SavedInv
<1>1. FileInit => SavedInv
  BY FileTypeInit DEF FileInit, SavedInv, WholeUnlessFault, UnmodifiedIsSaved, StopSaves,
                      FileKind
<1> QED BY <1>1, SavedInvNext, PTL DEF FileSpec

\* A running server whose `modified` is clear has its world in the file, after any
\* number of starts, saves and edits: no step that changes a block leaves the flag
\* clear, and none but a save or a load clears it.  Crashes and saves that zlib gives
\* up are among the steps; a write that fails unnoticed is not (disk).
THEOREM NothingToSaveIsSaved == FileSpec => []UnmodifiedIsSaved
<1>1. SavedInv => UnmodifiedIsSaved
  BY DEF SavedInv
<1> QED BY <1>1, SavedInvAlways, PTL

\* A server that stopped without a fault since it started or saved left the whole
\* world in its file, whatever went wrong before: the save that
\* server_shutdown leaves out because `modified` is clear was not needed.
THEOREM StoppedIsSaved == FileSpec => []StopSaves
<1>1. SavedInv => StopSaves
  BY DEF SavedInv
<1> QED BY <1>1, SavedInvAlways, PTL

-----------------------------------------------------------------------------
(* What a restart brings back.                                             *)

\* Every block of sand in the file that hangs has an entry there, to come.
SandIsFiled(f) ==
    \A p \in Pos : Hangs(f, p) =>
        \E k \in DOMAIN f.ticks : f.ticks[k].index = Index(p) /\ f.ticks[k].time >= 0

FiledInv ==
    /\ FileType
    /\ KeptDry(world)
    /\ file.kind = "whole" => KeptDry(file)

SandInv ==
    ~late => SandAwaits(world, {}) /\ (file.kind = "whole" => SandIsFiled(file))

\* What a world and a file with the same blocks have in common.
LEMMA SameInFile ==
    ASSUME NEW w, NEW f, f.blocks = w.blocks
    PROVE  /\ \A p : BlockAt(f, p) = BlockAt(w, p)
           /\ \A p : Hangs(f, p) <=> Hangs(w, p)
           /\ KeptDry(f) <=> KeptDry(w)
<1>1. \A p : BlockAt(f, p) = BlockAt(w, p)
  BY DEF BlockAt
<1>2. \A p : Landing(f, p) = Landing(w, p)
  BY <1>1 DEF Landing
<1> QED BY <1>1, <1>2 DEF Hangs, KeptDry, AsLeft

\* Sand that is scheduled is written with a time that is to come, unless its own has
\* passed.
LEMMA SandIsSaved ==
    ASSUME NEW w \in Worlds, SandAwaits(w, {}),
           \A k \in DOMAIN Saved(w).ticks : ~(Saved(w).ticks[k].time < 0)
    PROVE  SandIsFiled(Saved(w))
<1> SUFFICES ASSUME NEW p \in Pos, Hangs(Saved(w), p)
             PROVE  \E k \in DOMAIN Saved(w).ticks :
                        Saved(w).ticks[k].index = Index(p) /\ Saved(w).ticks[k].time >= 0
  BY DEF SandIsFiled
<1>1. Hangs(w, p)
  BY SavedEffect, SameInFile
<1>2. PICK k \in DOMAIN w.ticks : w.ticks[k].pos = p /\ w.ticks[k].wait # Never
  BY <1>1 DEF SandAwaits, Queued
<1>3. k \in DOMAIN Saved(w).ticks /\ Saved(w).ticks[k].index = Index(p)
  BY <1>2, SavedEffect
<1>4. Saved(w).ticks[k].time \in Int
  BY <1>3, SavedEffect, FileFields
<1> QED BY <1>3, <1>4

\* Where the map is as deep as high, map_load schedules what was saved.
LEMMA SandIsLoaded ==
    ASSUME Depth = Height, NEW f \in File, f.kind = "whole", SandIsFiled(f)
    PROVE  SandAwaits(Loaded(f), {})
<1> SUFFICES ASSUME NEW p \in Pos, Hangs(Loaded(f), p) PROVE Queued(Loaded(f), p)
  BY DEF SandAwaits
<1>1. Hangs(f, p)
  BY LoadedEffect, SameInFile
<1>2. PICK k \in DOMAIN f.ticks : f.ticks[k].index = Index(p) /\ f.ticks[k].time >= 0
  BY <1>1 DEF SandIsFiled
<1>3. PosOf(f.ticks[k].index) = p
  BY <1>2, PosOfIndex
<1>4. HasTick(f.blocks[Index(p)])
  BY <1>1 DEF Hangs, Falls, BlockAt, HasTick
<1> QED BY <1>2, <1>3, <1>4, LoadedEffect

LEMMA FiledInvNext == FiledInv /\ [FileNext]_allVars => FiledInv'
<1> SUFFICES ASSUME FiledInv, [FileNext]_allVars
             PROVE  KeptDry(world)' /\ (file.kind = "whole" => KeptDry(file))'
  BY FileTypeNext DEF FiledInv
<1>0. /\ FileType /\ world \in Worlds /\ KeptDry(world)
      /\ file.kind = "whole" => KeptDry(file)
      /\ FileKind("cut").kind = "cut"
  BY DEF FiledInv, FileType, WorldType, FileKind
<1>1. CASE Turn
  BY <1>0, <1>1, TurnGoesOn, StepKeeps DEF Turn, FileType, Kept, fileVars
<1>2. CASE SaveDone
  <2>1. KeptDry(Saved(world))
    BY <1>0, SavedEffect, SameInFile
  <2>2. KeptDry([world EXCEPT !.modified = FALSE])
    BY <1>0, Unmodified, SameInFile
  <2> QED BY <1>2, <2>1, <2>2 DEF SaveDone
<1>3. CASE SaveFails
  <2>1. KeptDry([world EXCEPT !.modified = FALSE])
    BY <1>0, Unmodified, SameInFile
  <2> QED BY <1>0, <1>3, <2>1 DEF SaveFails
<1>4. CASE LastLeaves
  <2>1. Save("end") /\ UNCHANGED world
    BY <1>4 DEF LastLeaves
  <2> QED BY <1>0, <2>1, SaveEffect
<1>5. CASE Stop
  <2>1. Save("off") /\ UNCHANGED world
    BY <1>5 DEF Stop
  <2> QED BY <1>0, <2>1, SaveEffect
<1>6. CASE Crash
  BY <1>0, <1>6 DEF Crash
<1>7. CASE Load
  <2>1. KeptDry(Loaded(file))
    BY <1>0, <1>7, LoadedEffect, SameInFile DEF Load, FileType
  <2> QED BY <1>0, <1>7, <2>1 DEF Load
<1>8. CASE Generate
  BY <1>0, <1>8, FirstWorldKept DEF Generate
<1>9. CASE LoadDies
  BY <1>0, <1>9 DEF LoadDies
<1>10. CASE UNCHANGED allVars
  BY <1>0, <1>10 DEF allVars, vars, fileVars
<1> QED
  BY <1>1, <1>2, <1>3, <1>4, <1>5, <1>6, <1>7, <1>8, <1>9, <1>10 DEF FileNext

\* Nor does flowing water come to a sponge, away from the low edges, over any number of
\* saves, crashes and starts, but where the generator put it.
THEOREM SpongesStayDry == FileSpec => []SpongeKeepsDry
<1>1. FileInit => FiledInv
  BY FileTypeInit, FirstWorldKept DEF FileInit, FiledInv, FileKind
<1>2. FiledInv => SpongeKeepsDry
  BY DEF FiledInv, SpongeKeepsDry
<1> QED BY <1>1, <1>2, FiledInvNext, PTL DEF FileSpec

LEMMA SandInvNext ==
    ASSUME Depth = Height
    PROVE  FileType /\ SandInv /\ [FileNext]_allVars => SandInv'
<1> SUFFICES ASSUME FileType, SandInv, [FileNext]_allVars, ~late'
             PROVE  SandAwaits(world, {})' /\ (file.kind = "whole" => SandIsFiled(file))'
  BY DEF SandInv
<1>0. /\ world \in Worlds /\ FileKind("cut").kind = "cut"
      /\ ~late => SandAwaits(world, {}) /\ (file.kind = "whole" => SandIsFiled(file))
  BY DEF FileType, WorldType, FileKind, SandInv
<1>1. ASSUME SandAwaits(world, {}) PROVE SandAwaits([world EXCEPT !.modified = FALSE], {})
  <2> DEFINE v == [world EXCEPT !.modified = FALSE]
  <2>1. v.ticks = world.ticks /\ v.blocks = world.blocks
    BY <1>0, Unmodified
  <2> HIDE DEF v
  <2>2. \A p : Hangs(v, p) <=> Hangs(world, p)
    BY <2>1, SameInFile
  <2>3. SandAwaits(v, {})
    BY <1>1, <2>1, <2>2 DEF SandAwaits, Queued
  <2> QED BY <2>3 DEF v
<1>2. CASE Turn
  BY <1>0, <1>2, TurnGoesOn, StepKeeps DEF Turn, FileType, Kept, fileVars
<1>3. CASE SaveDone
  <2>1. /\ ~late /\ file' = Saved(world)
        /\ \A k \in DOMAIN file'.ticks : ~(file'.ticks[k].time < 0)
    BY <1>3 DEF SaveDone
  <2> QED BY <1>0, <1>1, <1>3, <2>1, SandIsSaved DEF SaveDone
<1>4. CASE SaveFails
  BY <1>0, <1>1, <1>4 DEF SaveFails
<1>5. CASE LastLeaves
  <2>1. Save("end") /\ UNCHANGED <<world, late>>
    BY <1>5 DEF LastLeaves
  <2> QED BY <1>0, <2>1, SaveEffect
<1>6. CASE Stop
  <2>1. Save("off") /\ UNCHANGED <<world, late>>
    BY <1>6 DEF Stop
  <2> QED BY <1>0, <2>1, SaveEffect
<1>7. CASE Crash
  BY <1>0, <1>7 DEF Crash
<1>8. CASE Load
  <2>1. file.kind = "whole" /\ UNCHANGED <<file, late>> /\ world' = Loaded(file)
    BY <1>8 DEF Load, Started
  <2> QED BY <1>0, <2>1, SandIsLoaded DEF FileType
<1>9. CASE Generate
  BY <1>0, <1>9, FirstWorldKept DEF Generate
<1>10. CASE LoadDies
  BY <1>0, <1>10 DEF LoadDies, Started
<1>11. CASE UNCHANGED allVars
  BY <1>0, <1>11 DEF allVars, vars, fileVars
<1> QED
  BY <1>2, <1>3, <1>4, <1>5, <1>6, <1>7, <1>8, <1>9, <1>10, <1>11 DEF FileNext

\* On a map that is as deep as high, sand that nothing holds is scheduled to fall after
\* any number of saves, crashes and starts, unless it hangs where the generator left
\* it or an entry was saved when its time had passed.  On other maps it is not (see the run axes): map_index_to_pos divides
\* by the wrong size, and the hypothesis is what the proof needs of it.
THEOREM SandKeepsFalling ==
    ASSUME Depth = Height
    PROVE  FileSpec => []SandFallsOn
<1>1. FileInit => FileType /\ SandInv
  BY FileTypeInit, FirstWorldKept DEF FileInit, SandInv, FileKind
<1>2. FileType /\ SandInv => SandFallsOn
  BY DEF SandInv, SandAwaits, SandFallsOn, SandIsScheduled, Queued, Pending
<1> QED BY <1>1, <1>2, FileTypeNext, SandInvNext, PTL DEF FileSpec
=============================================================================
