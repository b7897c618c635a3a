------------------------------- MODULE Blocks -------------------------------
(***************************************************************************)
(* The world as data: the array of blocks, its scheduled ticks, and what   *)
(* map_set and the block functions of blocks.c do to them.                 *)
(*                                                                         *)
(* A world is a record: `blocks` is the flat array, `ticks` the queue and  *)
(* `modified` the flag that asks for a save.  A tick's `wait` is its time  *)
(* relative to server.tick.  Positions are <<x, y, z>> with y upwards, as  *)
(* in the code: width, depth and height bound x, y and z.                  *)
(***************************************************************************)
EXTENDS Integers, SequencesExt

CONSTANTS
    Width, Depth, Height,   \* the sizes of the map
    Garbage                 \* what a read past the end of the array may return

ASSUME SizeAssumption == {Width, Depth, Height} \subseteq Nat \ {0}

\* The blocks that differ in the block table; "stone" stands for every solid
\* block without functions and "rose" for every other block without them.  "still"
\* is water_still or lava_still: liquid, but solid, and without functions.
Block ==
    {"air", "stone", "bedrock", "sand", "water", "lava", "still", "sponge", "rose"}

Solid(b)   == b \in {"stone", "bedrock", "sand", "still", "sponge"}
Liquid(b)  == b \in {"water", "lava", "still"}
Flows(b)   == b \in {"water", "lava"}
Falls(b)   == b = "sand"
HasTick(b) == Falls(b) \/ Flows(b)

TickTime(b) == CASE b = "water" -> 4 [] b = "lava" -> 8 [] OTHER -> 0

\* op_only_place and op_only_break.
OpPlace(b) == Liquid(b) \/ b = "bedrock"
OpBreak(b) == b = "bedrock"

ASSUME GarbageAssumption == Garbage \subseteq Block

-----------------------------------------------------------------------------
(* map.h                                                                   *)

Pos == (0 .. Width - 1) \X (0 .. Depth - 1) \X (0 .. Height - 1)

Size == Width * Depth * Height

Index(p) == (p[2] * Height + p[3]) * Width + p[1]

\* The inverse that map_load uses; its layers are Width * Depth blocks.
PosOf(n) ==
    LET y    == n \div (Width * Depth)
        rest == n - y * Width * Depth
    IN  <<rest % Width, y, rest \div Width>>

\* map_get does not check its position: one that is out of the map reads the
\* block of another row, or memory after the array (g).
Get(w, p, g) == IF Index(p) \in 0 .. Size - 1 THEN w.blocks[Index(p)] ELSE g

BlockAt(w, p) == w.blocks[Index(p)]

-----------------------------------------------------------------------------
(* Loops.  Those over the blocks around a position start at x - r in       *)
(* unsigned arithmetic: where a coordinate is below r the start is huge    *)
(* and the loop ends before its first turn.                                *)

\* What a loop with the turns 1 .. n makes of w.
Loop(step(_, _), w, n) ==
    LET after[k \in 0 .. n] == IF k = 0 THEN w ELSE step(after[k - 1], k)
    IN  after[n]

\* The positions that the loops around p reach.
Near(p, r) ==
    IF \E k \in 1 .. 3 : p[k] < r
    THEN {}
    ELSE (p[1] - r .. p[1] + r) \X (p[2] - r .. p[2] + r) \X (p[3] - r .. p[3] + r)

\* Those among them that pass a test, in the order of the loops.
InOrder(p, r, test(_)) ==
    LET n == 2 * r + 1
        at(x, y, z) == <<p[1] - r + x - 1, p[2] - r + y - 1, p[3] - r + z - 1>>
    IN  IF Near(p, r) = {}
        THEN << >>
        ELSE FlattenSeq([x \in 1 .. n |->
                 FlattenSeq([y \in 1 .. n |->
                     FlattenSeq([z \in 1 .. n |->
                         IF test(at(x, y, z)) THEN <<at(x, y, z)>> ELSE << >>])])])

\* The order in which map_set schedules the block and its neighbours.
Around(p) ==
    LET x == p[1] y == p[2] z == p[3]
    IN  << p, <<x + 1, y, z>>, <<x - 1, y, z>>, <<x, y - 1, z>>,
           <<x, y + 1, z>>, <<x, y, z - 1>>, <<x, y, z + 1>> >>

-----------------------------------------------------------------------------
(* map_add_tick and map_set.  Setting a block runs the break function of   *)
(* the old and the place function of the new block, which may set blocks   *)
(* to air in turn; air has no functions of its own.                        *)

\* wait gives the time to wait for every block.
AddTicks(w, ps, wait) ==
    LET tick(q) ==
            IF q \in Pos /\ HasTick(BlockAt(w, q))
            THEN <<[pos |-> q, wait |-> wait[BlockAt(w, q)]]>>
            ELSE << >>
    IN  [w EXCEPT !.ticks = @ \o FlattenSeq([k \in DOMAIN ps |-> tick(ps[k])])]

Write(w, p, b) == [w EXCEPT !.blocks[Index(p)] = b]

\* The part of map_set after the functions have run.
Changed(w, p, wait) == [AddTicks(w, Around(p), [b \in Block |-> wait]) EXCEPT !.modified = TRUE]

SetAir(w, p) ==
    IF p \notin Pos \/ BlockAt(w, p) = "air"
    THEN w
    ELSE Changed(Write(w, p, "air"), p, 0)

LiquidNear(w, p, r, g) == InOrder(p, r, LAMBDA q : Liquid(Get(w, q, g)))

SpongeNear(w, p, g) == \E q \in Near(p, 2) : Get(w, q, g) = "sponge"

\* Mutant: breaking a sponge wakes nothing.
Broken_NoWaking(w, p, old, g) == w

\* blockbreak_sponge wakes the liquids that the sponge kept away.
Broken(w, p, old, g) ==
    IF old = "sponge"
    THEN AddTicks(w, LiquidNear(w, p, 3, g), [b \in Block |-> TickTime(b)])
    ELSE w

\* What is dried leaves the other blocks near as they are.
Dried(w, ps) == Loop(LAMBDA v, k : SetAir(v, ps[k]), w, Len(ps))

\* Mutant: water has no place function.
Placed_NoLiquid(w, p, b, g) ==
    IF b = "sponge" THEN Dried(w, LiquidNear(w, p, 2, g)) ELSE w

\* blockplace_sponge dries what is near; blockplace_liquid takes the liquid away
\* again.  Only water has it: the lines behind the entries of water_still, lava and
\* lava_still set it for water once more.
Placed(w, p, b, g) ==
    CASE b = "sponge" -> Dried(w, LiquidNear(w, p, 2, g))
      [] b = "water" /\ SpongeNear(w, p, g) -> SetAir(w, p)
      [] OTHER -> w

\* Mutant: the time since the last multiple is added.
Delay_Plus(b, tick) == IF TickTime(b) = 0 THEN 0 ELSE TickTime(b) + (tick % TickTime(b))

\* Ticks come at multiples of the block's tick time; tick is server.tick.
Delay(b, tick) == IF TickTime(b) = 0 THEN 0 ELSE TickTime(b) - (tick % TickTime(b))

Set(w, p, b, tick, g) ==
    IF p \notin Pos \/ BlockAt(w, p) = b
    THEN w
    ELSE LET broken == Broken(Write(w, p, b), p, BlockAt(w, p), g)
         IN  Changed(Placed(broken, p, b, g), p, Delay(b, tick))

-----------------------------------------------------------------------------
(* The tick functions of blocks.c.                                         *)

\* The lowest place that a block at p falls to.
Landing(w, p) ==
    LET free(y) == \A k \in y .. p[2] - 1 : ~Solid(BlockAt(w, <<p[1], k, p[3]>>))
        low     == CHOOSE y \in 0 .. p[2] : free(y) /\ \A k \in 0 .. y - 1 : ~free(k)
    IN  <<p[1], low, p[3]>>

\* Mutant: sand that lies is lifted and put down again.
Gravity_Always(w, p, b, tick, g) ==
    Set(Set(w, p, "air", tick, g), Landing(w, p), b, tick, g)

Gravity(w, p, b, tick, g) ==
    IF Landing(w, p) = p
    THEN w
    ELSE Set(Set(w, p, "air", tick, g), Landing(w, p), b, tick, g)

CanFlowTo(w, p, g) == ~Solid(Get(w, p, g)) /\ ~SpongeNear(w, p, g)

FlowTargets(p) ==
    LET x == p[1] y == p[2] z == p[3]
    IN  << <<x - 1, y, z>>, <<x + 1, y, z>>, <<x, y, z - 1>>, <<x, y, z + 1>>,
           <<x, y - 1, z>> >>

\* Outside the map a liquid may be allowed to flow, but map_set refuses.
FlowInto(w, q, b, tick, g) ==
    IF q \in Pos /\ CanFlowTo(w, q, g) THEN Set(w, q, b, tick, g) ELSE w

Flow(w, p, b, tick, g) ==
    Loop(LAMBDA v, k : FlowInto(v, FlowTargets(p)[k], b, tick, g), w, 5)

\* What map_tick runs for the entry of position p.
RunTick(w, p, tick, g) ==
    LET b == BlockAt(w, p)
    IN  CASE Falls(b) -> Gravity(w, p, b, tick, g)
          [] Flows(b) -> Flow(w, p, b, tick, g)
          [] OTHER    -> w
=============================================================================
