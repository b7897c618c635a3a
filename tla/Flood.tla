-------------------------------- MODULE Flood --------------------------------
(***************************************************************************)
(* Water and lava of a world that is being generated: flood_fill, with its *)
(* stack, from the shores and from the sources of gen_water and gen_lava.  *)
(* The sources, which are random, and the order of the calls are left      *)
(* open.  Blocks are numbered as in the array.                             *)
(***************************************************************************)
EXTENDS Integers, Sequences

CONSTANTS
    Width, Depth, Height,   \* the sizes of the map
    Block,                  \* the blocks in play
    Terrains,               \* maps before the water comes
    MaxCalls                \* bound: calls of flood_fill

Cells == 0 .. Width * Depth * Height - 1

Fillable == {"air", "magenta_wool"}

ASSUME FloodAssumption ==
    /\ {Width, Depth, Height} \subseteq Nat \ {0}
    /\ {"water", "lava"} \subseteq Block
    /\ Terrains \subseteq [Cells -> Block]
    /\ MaxCalls \in Nat

VARIABLES
    blocks,     \* map->blocks
    stack,
    liquid,     \* the block that is poured
    pc,         \* water, lava: between the calls of gen_water and of gen_lava; fill
    calls,      \* calls so far
    before,     \* history: the blocks when flood_fill was called last,
    start       \* and where it started

floodVars == <<blocks, stack, liquid, pc, calls, before, start>>

X(n) == n % Width
Y(n) == n \div (Width * Height)
Z(n) == (n \div Width) % Height

If(cond, n) == IF cond THEN <<n>> ELSE << >>

\* Mutant: a row goes on in the next one.
Beside_Wraps(n) ==
    <<n - 1, n + 1>> \o If(Z(n) > 0, n - Width) \o If(Z(n) < Height - 1, n + Width) \o
    If(Y(n) > 0, n - Width * Height)

\* The blocks that n flows to, in the order of their calls.
Beside(n) ==
    If(X(n) > 0, n - 1) \o If(X(n) < Width - 1, n + 1) \o
    If(Z(n) > 0, n - Width) \o If(Z(n) < Height - 1, n + Width) \o
    If(Y(n) > 0, n - Width * Height)

\* Mutant: the stack stays as large as it was created.
Pushed_Full(s, t) == SubSeq(s \o t, 1, IF Len(s \o t) < 4 THEN Len(s \o t) ELSE 4)

\* fastintstack_push, for each of t: the stack grows when it is full.
Pushed(s, t) == s \o t

FloodInit ==
    /\ blocks \in Terrains
    /\ stack = << >> /\ liquid = "water" /\ pc = "water" /\ calls = 0
    /\ before = blocks /\ start = 0

Index(x, y, z) == (y * Height + z) * Width + x

WaterLevel == Depth \div 2 - 1

\* The shores of gen_water, which are at the level of the water, and the sources, which
\* are there or one below.  A level below the map makes a number that is none of a
\* block.
WaterStarts ==
    {Index(x, WaterLevel - d, z) : x \in 0 .. Width - 1, z \in 0 .. Height - 1, d \in 0 .. 1}

\* The level of lava is (WaterLevel - 3) times a number from 0 to 1, without its fraction.
LavaStarts ==
    LET bottom == IF WaterLevel < 3 THEN WaterLevel - 3 ELSE 0
        top    == IF WaterLevel > 3 THEN WaterLevel - 3 ELSE 0
    IN  {Index(x, y, z) : x \in 0 .. Width - 1, z \in 0 .. Height - 1, y \in bottom .. top}

Call(n, b) ==
    /\ calls < MaxCalls
    /\ stack' = <<n>> /\ liquid' = b /\ start' = n
    /\ before' = blocks
    /\ calls' = calls + 1
    /\ pc' = "fill"
    /\ UNCHANGED blocks

Water == pc = "water" /\ \E n \in WaterStarts : Call(n, "water")

Lava == pc \in {"water", "lava"} /\ \E n \in LavaStarts : Call(n, "lava")

\* One turn of flood_fill's loop.
Pop ==
    /\ pc = "fill" /\ stack # << >>
    /\ LET n    == stack[Len(stack)]
           rest == SubSeq(stack, 1, Len(stack) - 1)
       IN  IF n \in Cells /\ blocks[n] \in Fillable
           THEN /\ blocks' = [blocks EXCEPT ![n] = liquid]
                /\ stack' = Pushed(rest, Beside(n))
           ELSE /\ stack' = rest
                /\ UNCHANGED blocks
    /\ UNCHANGED <<liquid, pc, calls, before, start>>

Filled ==
    /\ pc = "fill" /\ stack = << >>
    /\ pc' = liquid
    /\ UNCHANGED <<blocks, stack, liquid, calls, before, start>>

FloodNext == Water \/ Lava \/ Pop \/ Filled

FloodSpec == FloodInit /\ [][FloodNext]_floodVars

-----------------------------------------------------------------------------
(* Properties                                                              *)

FlowsTo(n) == {Beside(n)[k] : k \in DOMAIN Beside(n)}

Fills(n) == n \in Cells /\ before[n] \in Fillable

\* That S has the start of the call and, with a block, those that it flows to, as far
\* as they can be filled.
Closed(S) ==
    /\ Fills(start) => start \in S
    /\ \A n \in S : \A m \in FlowsTo(n) : Fills(m) => m \in S

Poured == {n \in Cells : blocks[n] # before[n]}

\* A call pours its liquid into the least set of blocks that has its start and is
\* closed under flowing, sideways and downwards, and changes nothing else, although
\* blocks come to the stack more than once.
FillsReach ==
    (pc = "fill" /\ stack = << >>) =>
        /\ \A n \in Poured : Fills(n) /\ blocks[n] = liquid
        /\ Closed(Poured)
        /\ \A S \in SUBSET Poured : Closed(S) => S = Poured

Place(n) == CHOOSE p \in (0 .. Width - 1) \X (0 .. Depth - 1) \X (0 .. Height - 1) :
                n = Index(p[1], p[2], p[3])

\* With nothing but numbers of blocks, the liquid still flows to the blocks that are
\* beside one and below it, at the edges too: no row goes on in the next one.
FlowsSideways ==
    pc = "fill" => \A n \in Poured : \A m \in Cells :
        m \in FlowsTo(n) <=>
            LET p == Place(n)
                q == Place(m)
            IN  q \in {<<p[1] + d, p[2], p[3]>> : d \in {-1, 1}} \cup
                              {<<p[1], p[2], p[3] + d>> : d \in {-1, 1}} \cup
                              {<<p[1], p[2] - 1, p[3]>>}
=============================================================================
