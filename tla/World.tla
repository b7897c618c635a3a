------------------------------- MODULE World --------------------------------
(***************************************************************************)
(* The world while the server runs: clients set blocks, and map_tick works *)
(* through the queue of scheduled ticks at the start of every turn of the  *)
(* main loop.  Worlds of fewer than 16^3 blocks have no random ticks.      *)
(***************************************************************************)
EXTENDS Blocks

CONSTANTS
    FirstBlocks,    \* the blocks of the world at first
    Reach,          \* the positions, the blocks and the rights that clients
    Hand,           \* send packets with
    Rights,
    Period,         \* a multiple of every tick time
    MaxEdits        \* bound: blocks that clients set

VARIABLES
    world,      \* server.map
    phase,      \* server.tick modulo Period
    pc,         \* where the main thread is: loop, ticks, clients (and, once
                \* a save is over, end)
    i,          \* the loop variable of map_tick, from 1
    edits,      \* blocks set by clients so far
    blind       \* history: a sponge was broken where its break function's loop
                \* has no turns

vars == <<world, phase, pc, i, edits, blind>>

\* The wait of an entry whose time the tick counter does not reach.
Never == 1000000

Present == Hand \cup {FirstBlocks[n] : n \in 0 .. Size - 1}

\* No entry is made to wait longer than the longest tick time there is.
Tick ==
    {t \in [pos : Pos, wait : Int] :
        t.wait = Never \/ \E b \in Present : t.wait <= TickTime(b)}

World == [blocks : [0 .. Size - 1 -> Block], ticks : Seq(Tick), modified : BOOLEAN]

FirstWorld == [blocks |-> FirstBlocks, ticks |-> << >>, modified |-> TRUE]

\* Generators set any block anywhere and schedule no ticks: what they leave hanging,
\* open or wet stays so while nothing sets the blocks that make it so.
AsLeft(w, p) == BlockAt(w, p) = BlockAt(FirstWorld, p)

Below(p) == <<p[1], p[2] - 1, p[3]>>

\* Sand that nothing holds.
Hangs(w, p) ==
    /\ Falls(BlockAt(w, p))
    /\ Landing(w, p) # p
    /\ ~(AsLeft(w, p) /\ AsLeft(w, Below(p)))

\* A liquid that has somewhere to go, whatever is read past the end of the array: a
\* flow that such a read refuses is not tried again.
Open(w, p, q) ==
    /\ Flows(BlockAt(w, p))
    /\ BlockAt(w, q) # BlockAt(w, p)
    /\ \A g \in Garbage : CanFlowTo(w, q, g)

CanSpread(w, p) ==
    \E k \in 1 .. 5 :
        LET q == FlowTargets(p)[k]
        IN  /\ q \in Pos
            /\ Open(w, p, q)
            /\ ~(Open(FirstWorld, p, q) /\ AsLeft(w, p) /\ AsLeft(w, q))

ASSUME BoundsAssumption ==
    /\ Reach \subseteq Pos /\ Hand \subseteq Block /\ Rights \subseteq BOOLEAN
    /\ MaxEdits \in Nat

ASSUME PeriodAssumption ==
    /\ Period \in Nat \ {0}
    /\ \A b \in Present : TickTime(b) # 0 => Period % TickTime(b) = 0

ASSUME FirstAssumption == FirstBlocks \in [0 .. Size - 1 -> Block]

\* The world stays a map of its size, and every scheduled tick is of a position in
\* it: map_tick reads the block there without a check.
TypeOK ==
    /\ world \in World
    /\ phase \in 0 .. Period - 1
    /\ pc \in {"loop", "ticks", "clients", "end"}
    /\ i \in Nat \ {0}
    /\ edits \in 0 .. MaxEdits
    /\ blind \in BOOLEAN

Init ==
    /\ world = FirstWorld
    /\ phase = 0
    /\ pc = "loop"
    /\ i = 1
    /\ edits = 0
    /\ blind = FALSE

-----------------------------------------------------------------------------
(* server_tick and map_tick.                                               *)

StartTick ==
    /\ pc = "loop"
    /\ pc' = "ticks"
    /\ i' = 1
    /\ UNCHANGED <<world, phase, edits, blind>>

TickWaits ==
    /\ pc = "ticks"
    /\ i \in DOMAIN world.ticks
    /\ world.ticks[i].wait > 0
    /\ i' = i + 1
    /\ UNCHANGED <<world, phase, pc, edits, blind>>

Due == pc = "ticks" /\ i \in DOMAIN world.ticks /\ world.ticks[i].wait <= 0

\* The entry that has run leaves the queue.
After(w, k) == [w EXCEPT !.ticks = RemoveAt(@, k)]

\* The entries behind move up, and i goes on past the one that moved here.
TickRuns ==
    /\ Due
    /\ \E g \in Garbage :
        world' = After(RunTick(world, world.ticks[i].pos, phase, g), i)
    /\ i' = i + 1
    /\ UNCHANGED <<phase, pc, edits, blind>>

TicksEnd ==
    /\ pc = "ticks"
    /\ i \notin DOMAIN world.ticks
    /\ pc' = "clients"
    /\ i' = 1
    /\ UNCHANGED <<world, phase, edits, blind>>

\* How long ago a time has passed is of no interest.
Sooner(t) == IF t.wait = Never \/ t.wait < 0 THEN t ELSE [t EXCEPT !.wait = @ - 1]

\* server.tick++.
EndTick ==
    /\ pc \in {"clients", "end"}
    /\ pc' = "loop"
    /\ phase' = (phase + 1) % Period
    /\ world' = [world EXCEPT !.ticks = [k \in DOMAIN @ |-> Sooner(@[k])]]
    /\ UNCHANGED <<i, edits, blind>>

-----------------------------------------------------------------------------
(* The set_block packet; breaking is setting to air.                       *)

MayEdit(op, old, b) ==
    op \/ (~OpBreak(old) /\ (b = "air" \/ ~OpPlace(b)))

SetBlock(p, b, op) ==
    /\ pc = "clients"
    /\ edits < MaxEdits
    /\ MayEdit(op, BlockAt(world, p), b)
    /\ \E g \in Garbage : world' = Set(world, p, b, phase, g)
    /\ edits' = edits + 1
    /\ blind' = (blind \/ (BlockAt(world, p) = "sponge" /\ Near(p, 3) = {}))
    /\ UNCHANGED <<phase, pc, i>>

-----------------------------------------------------------------------------
MainLoop == StartTick \/ TickWaits \/ TickRuns \/ TicksEnd \/ EndTick

Clients == \E p \in Reach, b \in Hand, op \in Rights : SetBlock(p, b, op)

Next == MainLoop \/ Clients

Spec == Init /\ [][Next]_vars

\* The main loop goes on.  The last conjunct is WF_vars(TickRuns), which alone steps
\* on while an entry is due, in a form that TLC evaluates sooner.
FairSpec ==
    /\ Spec
    /\ WF_vars(StartTick \/ TickWaits \/ TicksEnd \/ EndTick)
    /\ []<>~Due \/ []<><<Due /\ i' # i>>_vars

-----------------------------------------------------------------------------
(* Properties                                                              *)

Pending(p) ==
    \E k \in DOMAIN world.ticks : world.ticks[k].pos = p /\ world.ticks[k].wait # Never

\* Sand that nothing holds is scheduled to fall, whatever order blocks were set
\* in and ticks were skipped by map_tick's loop.  What the generator left is not,
\* until it or the block below it changes.
SandIsScheduled == \A p \in Pos : Hangs(world, p) => Pending(p)

\* Liquid that can spread is scheduled to, unless the generator left it open or a
\* sponge was broken so near the edge that nothing was woken.
LiquidIsScheduled == blind \/ \A p \in Pos : CanSpread(world, p) => Pending(p)

\* Whatever is set, broken and flows, and in whatever order, no flowing water comes
\* to a sponge, nor a sponge to water, away from the low edges; what the generator
\* left wet is excepted.  Still water and lava may be set beside a sponge and stay.
KeptDry(w) ==
    \A p \in Pos :
        BlockAt(w, p) = "sponge" =>
            \A q \in Near(p, 2) \cap Pos :
                Near(q, 2) # {} /\ BlockAt(w, q) = "water" => AsLeft(w, p) /\ AsLeft(w, q)

SpongeKeepsDry == KeptDry(world)

\* When the clients stop, the world comes to rest: every entry of the queue runs
\* although the loop skips entries, and what they do ends, unless there is water
\* and lava, which may flow into each other for ever.
Settles == <>[](world.ticks = << >> \/ {"water", "lava"} \subseteq Range(world.blocks))
=============================================================================
