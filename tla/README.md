# A TLA+ verification of Thirty

Thirty is a Minecraft Classic (ClassiCube) server in C. One thread runs the main
loop; other threads compress levels, send heartbeats and draw map images. The
code has no tests and few comments, so most properties state what the functions
and the packets are for. Sources are named relative to `src/src/`.

## The system

| Part | State | Operations | Correct when | Modules |
|---|---|---|---|---|
| Main loop, `server.c` | `server.clients` (a realloc'd array), `num_clients`, `tick` | `server_tick`: accept one connection, tick the map, tick every client in order, remove the disconnected ones; `server_broadcast`, `server_shutdown` | names unique, limit kept, every disconnected client removed, every stop reached | `ClientTable`, `Server`, `Roster`, `Shutdown` |
| Client protocol, `client.c` | one `client_t`: socket, `connected`, `idx`, `name`, `spawned`, extensions, `mapsend_state`, `mapgz_buffer`, the two packet buffers, `out_mutex` | `client_tick` = receive, ping, send level; one case per packet; `client_flush`, `client_disconnect` | who is spawned asked to be and is seen; games show the server's blocks; no two threads in one buffer, no deadlock | `Server`, `Outgoing`, `PacketStream` |
| Map sender, `mapsend.c` | a `client_t *`; for the plain kind a snapshot of the blocks | `mapsend_thread_start` (plain) hands over a compressed buffer; `mapsend_fast_thread_start` flushes packets itself | a level that was asked for arrives, and is the world | `Server`, `Outgoing` |
| WebSocket transport, `client.c` | frame, mask | upgrade, unframe, wrap | packets are handled as they were sent | `PacketStream` |
| Map and ticks, `map.c` | blocks, queue of scheduled ticks, `modified` | `map_set`, `map_tick`, `map_add_tick` | what can fall or flow is scheduled; the world comes to rest | `Blocks`, `World` |
| Block physics, `blocks.c` | table of functions | gravity, flow, sponge, grass, tree | sponges keep their boxes dry | `Blocks` |
| World file, `mapsave.c`, `nbt.c` | `<name>.cw` | `map_save`, `map_load`; tags made, written, read, searched | nothing lost without a fault, `modified` true, trees read back as written | `WorldFile`, `Nbt` |
| Buffers, `buffer.c` | bytes, offset, size | seek, read, write, resize | nothing written is lost, the offset stays inside | `Buffer` |
| Generators, `mapgen*.c` | the blocks, a stack | `flood_fill` from shores and sources, and what depends on noise | the liquid fills exactly what it can reach | `Flood` |
| Name lists, `namelist.c` | names, parser state | parse, search | the list says what its file says | `NameList` |
| Configuration, `config.c` | settings, parser state | parse, call back, defaults | settings say what the file says and can be used | `Config` |
| Log and signals, `log.c`, `main.c` | `log_mutex`, `running` | `log_printf` by any thread, `signal_handler` | the server exits | `Shutdown` |

The main loop calls everything else. Its handlers write to the out buffers of
other clients and start map-send threads; those write `mapgz_buffer`,
`mapsend_state` and, by a flush, `connected`, behind its back. `map_set` calls
block functions that call it again, and writes to every out buffer.

What is hard here: the loop over the table runs handlers that may disconnect any
client of the table (a flush that finds a connection reset runs
`client_disconnect`, which broadcasts, which flushes...); `connected` is tested
once per tick; slots move while threads hold pointers to them; the removal loop
skips slots; a send that fails does so with a mutex taken; levels are sent while
the world changes; a signal may interrupt a thread that holds a lock; a save may
be cut short. `PROJECT.json` lists these hazards with their lines, and the
properties that watch them.

## Modules

**`ClientTable`** is the data: a table is a sequence of client records, and the
operators are what `client_init`, `client_disconnect`, the flushes, the spawn
exchange, the login and the level transfer do to it. A slot is a position, a
connection is an identity (like a descriptor it may be used again once its client is
out of the table). Three fields are observations: `sees`, the player ids that the game
at the other end shows; `missed`, that it was not sent all that was for it; and
`levels`, the times the level was asked for, up to 2. Positions, blocks, chat and key
material are left out; `Whitelist`, `BannedIPs` and `BannedUsers` stand for the name
lists, and a failed key is a nondeterministic `verified`.

**`Server`** is the control: `server_tick` with a program counter (`accept`,
`tick` = first half of a `client_tick`, `more` = inside the loop over one
`recv()`, `send` = second half, `reap`), one action per packet handler or
branch, and the map-send threads as processes of their own.

* A handler is one step, with every flush it makes: `FlushTo`, `FlushAll` and
  `Disconnect` return all tables that reset connections and lost packets may lead to:
  `client_send` has rewound the buffer before it looks at what `send()` returned, so
  what that did not take is never sent (`Missing`), and what the game shows is not
  followed any further. A despawn that follows is in the same step, as in the code.
  The resets of one step are taken before or after what the step itself writes, which
  loses only the order in which two of its packets were queued.
* A thread's `slot` is its pointer. `ReapRemove` moves clients and leaves the
  pointers; a `realloc` or `free` may leave them dangling (`MayMove`,
  `AllDangling`): a write to freed memory changes nothing that the model keeps,
  a test of freed memory may give either answer. `torn` remembers that a running
  thread once pointed at a slot that was not its client's, `clash` that a new
  connection got a player id still in the table.
* `waiting` remembers the slots of disconnected clients when a pass of the removal
  loop begins. An extension entry without a name leaves its slot empty
  (`NoExtension`).
* A WebSocket client goes on with its next frame after a refused packet, a plain
  one does not (`HandlerReturns`).
* A packet that the out buffer has no room for is `missed` with the flush that follows
  it. Left out: what the packets say of blocks, and send errors other than a reset and
  `EAGAIN`, which call `client_disconnect` under `out_mutex`. Both are in `Outgoing`.

**`Roster`** is the abstract specification: a set of distinct, admitted names
within the limit that players join, leave and change one at a time.

**`MCServer`** adds the symmetry set and, for `ids`, the constraint `NoMishap`.
**`ServerProofs`** holds the theorems: names and the roster first, then who is spawned
and who is shown to whom.

**`Shutdown`** is `main()`'s loop, the signal handler as a frame on top of
whatever a thread was doing, and `log_mutex`. A kind of signal is blocked while
its handler runs; the other kind is not. **`MCShutdown`** instantiates it,
**`ShutdownProofs`** has its theorems.

**`Blocks`** is the world as data: a record of the flat block array, the queue
of scheduled ticks and `modified`. `Set` is `map_set` with everything it calls:
the break function of the old block, the place function of the new one (which may
set blocks to air in turn) and the ticks of the block and its six neighbours. The
block table is cut down to one block of each behaviour; `"still"` is still water or
lava: liquid, but solid and without functions (of the liquids, water alone has a place
function: blocks.c:67, 73 and 76 give it to water again). `Near` is a
box that is walked from `x - r` in `size_t` (`Loop`), which has no turns where a
coordinate is below `r`; `Get` is
`map_get` without a check of its position: it reads the next row, or after the
array a value of `Garbage`. An entry's `wait` is its time minus `server.tick`, and
`server.tick` itself is kept modulo `Period`, a multiple of every tick time.

**`World`** runs it: `map_tick` as a loop over the queue, one action per entry
(`TickWaits`, `TickRuns`), with the entry removed after its function has run and
the next one skipped, and clients that set blocks (`SetBlock`). Random ticks are
left out: a map of fewer than 16^3 blocks has none. The packets that `map_set`
queues are in `Outgoing`. The first world is any (`FirstAssumption` says only what its
blocks are): generators set every block anywhere and schedule nothing. `AsLeft` names
the places where it still is as they left it.

**`WorldFile`** extends `World` with the `.cw` file: `map_save` opens the file
(which empties it), writes and clears `modified` (`Save`, `SaveDone`,
`SaveFails`); it runs when the last client has left, when the server stops and
after a world was generated. `Load` is `map_load`: times are kept relative to
`server.tick`, positions as indices. `Crash` may come at any step. A file that was
cut is found out, and a world generated in its place, or brings the server down
on the NULL tree. `faulted` remembers the faults since the file was last written or read
whole. A cut file that still parses is not modelled, nor is
`disable_save`. **`MCWorld`** and **`MCWorldFile`** hold the small maps,
**`WorldProofs`** the theorems about the world and its file.

**`Outgoing`** is everything the server sends, and what the games at the other end
show of it. A thread is the sequence of the steps it has before it, `todo`: a
function that is called puts its steps in front (`Tell`, `Disconnect`, `Finished`,
...), so that a broadcast inside a disconnect inside a flush is that deep in
the model too, and every lock, write and `send()` is a step that others come between.

* `send()` takes all of a buffer, a part or nothing of it (the buffer is rewound all
  the same), finds the connection reset, or fails otherwise. A reset clears
  `connected` before `client_disconnect`; another error does not, and the broadcast
  then waits for the mutex its caller holds. The close frame of a WebSocket is sent
  without the mutex.
* Games are external: one shows the blocks it is sent, ignores them while it has no
  level, and shows what its player sets before the server knows of it.
* The table is fixed (`Server` is about the table that changes), and so is a
  client's kind: plain, or with FastMap, whose level a thread of its own sends.
* Four observations name what a property leaves out. `missed`: blocks changed
  while the level was on its way. `lost`: clients that a packet was not sent to.
  `broken`: a send that failed with an error other than a reset. `crossed`: a fast
  thread that found its client reset when that was spawned, and told the others.

**`OutgoingProofs`** has the theorems about its mutexes and buffers,
**`OutgoingTypeProofs`** its types and what each function puts before a thread, and
**`GamesProofs`**, on top of both, what the games show.

The parts that work alone have a module each, with operators for the functions
and a small system that calls them.

* **`Buffer`**: memory buffers that grow or do not. `image` remembers what was
  written where.
* **`NameList`**: `namelist_parse` character by character, with the extra turn at
  the end of the file, and the search that ignores case. The end of a name that fills
  the buffer is written one past it, over `namep` or over nothing (`Terminated`).
* **`Config`**: the parser of `settings.ini`, `cfg_callback`, the defaults. A
  character is a word or a sign, since only these tell lines apart. A number loses
  what its type has no room for (`Cast`: 16 bits for the port, `UIntSize` values for
  the others, half of them negative for the seed and the image interval), a salt what
  is behind its first `SaltSize` characters (`strncpy` clears the rest), and a proxy
  goes through a buffer of its own, whose end is written one past it when it is full
  (`Longer`; `Resets` says whether that is the place of the next character).
* **`Nbt`**: trees of tags, the bytes they are written as and the tree that is
  read from them; `nbt_read` takes the elements of a list for the type of the
  list that was begun last, which may be one inside it.
* **`Flood`**: `flood_fill` with its stack, one step per turn of its loop, from
  the places that `gen_water` and `gen_lava` may start it at.
* **`PacketStream`**: packets and WebSocket frames as bytes, cut by `recv()` where
  it likes. `client_receive` reads from the start of `in_buffer` every time and
  keeps nothing of a packet that was cut; bytes of an earlier call lie behind the
  new ones. What is read where nothing is left is any byte.

**`MCParts`** runs these six, one at a time (`part` says which): they share nothing, and
a run of their product would say no more. **`PartsProofs`** holds the theorems about
`Buffer`, `Flood`, `NameList` and `Config`. `Nbt` and `PacketStream` use recursive
operators, and no module with a theorem uses them.

**`CommonLemmas`** is about sequences and the folds of the community modules, for all
the proofs: induction over the natural numbers, what `FlattenSeq` and
`FoldLeft` do one element at a time, and loops over rows of numbers.

## Runs

| Run | Instance | Shows |
|---|---|---|
| `names` | 4 connections, 1 from a banned address; 4 names, 1 banned; limit 2 | names are unique, the limit holds, the table implements `Roster`; a pass of the removal loop, which skips slots, takes everybody who waits out of the table or nearer to its front |
| `levels` | 2 connections, 2 names, 1 thread, 5 chunks | types; nobody spawns unasked unless a pointer went stale; spawned players see each other unless an id was shared or a packet was lost |
| `cpe` | 2 connections, 1 from a banned address; CPE, 1 thread of either kind, 4 chunks | a level asked for once arrives, also from the fast thread, which leaves no buffer; a disconnected client is removed, also one that the loop skips |
| `joined` | 1 connection, 1 thread | violated: a disconnected client still spawns and is announced |
| `ids` | 3 connections, 1 thread, nothing lost or stale (`NoMishap`) | violated: a reused id hides a player |
| `exit` | 3 threads, 3 signals | violated: a signal inside `log_printf` blocks the server for good |
| `exit_unless` | the same | at any other point the server exits; however handlers nest, two lines of the log never mix and no signal is forgotten |
| `water` | 7 x 7 x 6 blocks, a corridor in bedrock with water behind a sponge, generated water beside a sponge and in the air; 2 edits of water, still water, sponge, sand or air | sponges keep flowing water away; water that can spread is scheduled; the world comes to rest |
| `restart` | 1 x 3 x 3 blocks with hanging sand, 2 edits, 3 starts, every fault | a stop without a fault since the last save loses nothing; `modified` is right, also after saves that were given up; sand goes on falling after a restart; the world of the last start comes to rest |
| `axes` | 1 x 3 x 2 blocks (depth 3, height 2) | violated: saved ticks are loaded for other blocks |
| `outgoing` | 2 clients, one with a level, one with FastMap and a WebSocket; 2 edits, 1 level, failures | games agree with the server; the fast thread and the main loop neither mix what they send nor block each other; the main loop comes round |
| `parts` | the six parts, see below | buffers, lists, settings, tags, liquids and packets, each against what it is for |

Bounds. `Conns`: three clients are needed for a removal to skip a slot and for an id
to repeat; `names` has one more so that the table can be fuller than the limit. In
`cpe` the banned connection is what another removal skips: it arrives behind the first
or before it, and is disconnected at once. `Chunks`: 5 is one full group of four and a
partial last one, 4 is the group that ends exactly, 0 a level that needs none.
`Workers` bounds the threads that run at a time, so a level request waits for a free
one: a second thread for a client, which restarts its transfer, begins when the first
has ended. `levels` saturates at 2. `MaxSignals` is 3, one more than there are kinds.
Sand needs three blocks in a column (a fall past one block), a sponge's box needs
three blocks on each side to be wholly in the map; two edits are enough to break a
support after the world has moved, or to move a sponge. `MaxStarts` 3 lets a world be
generated, saved, loaded, saved and loaded.

In `outgoing`, an out buffer of `Cap` = 2 packets is one that two edits fill between
two flushes; two edits are what it takes for two players to set the same block in
turn; one level is under way at a time. `MaxFaults` 2 is used up by two resets (both
clients, each found by either thread) or by one other failure. In `parts`: writes of
up to 2 bytes into buffers of up to 2 at first (a write may start inside, at the end,
or cross it); files of 6 characters with a name buffer of 4, so that a name fits
exactly or not; proxies of 3 characters, a salt of 2 and numbers of 131072 values, so
that some values fit and others are cut or wrap; three lines, so that a section, a
setting and one that overrides it fit; trees of 4 tags under a root of 2 places, so
that one finds no place; a map 2 x 4 x 2 with every cave in its two lower layers,
which is enough for a block to come to the stack twice; packets of 2 and 3 bytes in at
most 3 sends, so that a packet, and a frame that is shorter than the one before,
follow another in one `recv()`; `RecvSize` 17 is less than three frames; `MaxTorn` 1
ends a run behind the first packet that was cut.

The systems that may stop (`CHECK_DEADLOCK FALSE`) are `Shutdown`, where `main()`
returns, `WorldFile`, after the last start, `Outgoing`, where a thread may wait for
its own mutex, and `MCParts`, where a part's bounds are used up.

Fairness. The main loop runs until a signal, so `WF(MainStep)` in `Server` and
`Outgoing`. One `recv()` fills a finite buffer, so the loop over its packets ends:
`WF(EndOfInput)`. Threads are scheduled: `WF(WorkerStep(w))`, none of whose steps
waits for another in `Server`, and `WF(ThreadStep(t))` in `Outgoing`, where a
step that waits for a mutex is not enabled. In `Shutdown` a waiting
thread gets `log_mutex` in the end (`SF(Lock(t))`) because the main thread sleeps 50
ms between ticks, and each tick logs finitely often (`SF(MainProceeds)`). `World` and
`WorldFile` have weak fairness of the turns of the main loop; for `TickRuns`,
whose `ENABLED` would have TLC run the block functions, `FairSpec` writes it
out: infinitely often no entry is due, or infinitely often one is run. Nothing else
is fair: players may say nothing forever, compressions may fail.

## Findings

1. `joined`: `client_tick` goes on after `client_receive` has disconnected its
   client, sets `spawned` and tells everybody that the player joined.
2. `ids`: `idx` is the length of the table at arrival, so ids repeat after a
   removal.
3. `exit`: the signal handler logs, and `log_mutex` is not recursive.
4. `axes`: `map_index_to_pos` is the inverse of `map_get_block_index` only on maps
   whose depth equals their height, which `settings.ini` does not ask for.

Some properties exclude what the code does and no document denies.

* `blind` in `LiquidIsScheduled`: a sponge within three blocks of a low edge wakes
  no water when it is broken. `CanSpread` asks for room whatever is read past the end
  of the array: a flow that such a read refuses once is not tried again.
* `late` in `SandFallsOn` and `SettlesAgain`: an entry whose time has passed (the
  loop skipped it, or it was added after `map_tick` in the last turn before the
  server stopped, where `server.tick` is incremented before the save) is saved with
  a negative distance, which `map_load` turns into a time near 2^64: that block
  hangs until something beside it changes.
* `torn` in `SpawnOnRequest` and `LevelArrives`, and `clash` in
  `SeeEachOtherUnlessClash`, above. `missed` there too: a game that lost a spawn packet
  is never sent it again.
* `AsLeft` in `SpongeKeepsDry`, `LiquidIsScheduled` and `SandFallsOn`: what generators
  leave wet, open or hanging stays so while nothing sets the blocks that make it so.
  `KeptDry` leaves out water within two blocks of a low edge, whose search for a sponge
  has no turns, and speaks of flowing water only: still water may be set beside a
  sponge, and stays. `Settles` and `SettlesAgain` leave out worlds with water and lava,
  which may flow into each other for ever.
* `faulted` in `StopSaves`, `UnmodifiedIsSaved` and `WholeUnlessFault`: a crash in the
  middle of a save leaves a file that is cut, until the next save; a write that fails
  unnoticed ("disk") clears the flag all the same, which is all that
  `UnmodifiedIsSaved` leaves out.
* `missed` and `lost` in `GamesAgree`: a block set after the snapshot, or behind the
  place the fast thread has read to, is missing from the level for good, and so
  is a packet that did not fit the out buffer, that `send()` did not take, or
  that another thread overwrote.
* `broken` and `crossed` in `NoRace`, `NoEmbrace` and `MainComesRound`: a fast thread
  that finds its client reset after that has spawned writes to everybody's buffers
  at the same time as the main loop; an error other than a reset ends in a
  deadlock. `OneSender` leaves out the close frame.
* `PlainLine` and `ProperFile` exclude names and settings that the parser's buffers
  have no room for, which are cut, and settings without a value, which take the one
  that is still in the buffer. `HasRoom` excludes values that their setting has no room
  for: long salts and proxies, which are cut, and numbers, which wrap.
* `Plain` in `RoundTrip` excludes lists with a list in them that is not the last,
  list places never filled, and long arrays with an item: none is read back as it was
  written, and the world file has none.
* `torn` in `InStep`: once `recv()` has cut a packet, the rest of it is taken for the
  start of another.

## Proofs

`ServerProofs`, for all values of the constants that satisfy the assumptions of
`ClientTable` and `Server` (at least one connection, `NoName` is no name,
`Chunks` and `MaxPlayers` natural numbers):

* `TypeCorrect`: `Spec => []TypeOK`. `TypeOK` is inductive because it says that
  the index of a client that is being ticked is within the table.
* `StepType` is the lemma the rest stands on: every step is of one of four kinds.
  It leaves connections and names in their slots, appends a nameless client
  (`Arrival`), gives one client a name that was free in a table that was not full
  (`Naming`), or removes one slot (`Removal`).
* `NamesStayUnique`, `PlayersStayBounded`: each is inductive under those kinds.
  The limit is tested against the table's length and not against the number of
  names; what makes it hold is that a name is only given when the whole table is
  within the limit, so the other slots are fewer than `MaxPlayers` (`OthersBound`).
* `ImplementsRoster`: `Spec => R!Spec`. A removal is a `Leave` because names are
  unique, a naming is a `Join` or a `Rename`.

Its second half follows ids, what the games show and the levels, which the four
kinds say nothing of: `StepEffect` says what any step does to them.

* `SpawnsOnRequest`: `Spec => []SpawnOnRequest`, by `LevelInv`. As long as `torn` is
  false every running thread serves the connection it was started for, so that a
  `success` in a record is that of a level its client asked for.
* `PlayersSeeEachOther`: `Spec => []SeeEachOtherUnlessClash`, by `SeeInv`. As long
  as `clash` is false ids tell clients apart (`IdxDistinct`), so a despawn hides the
  one that leaves and nobody else; whoever spawns is shown, in the same step, to
  every game that has missed no packet.
* `PassesMoveUp`: `Spec => []PassMovesUp`, by `MoveInv`. While a pass goes on, one who
  waited when it began is not behind the slot he was in, and once the loop has come
  past him he is before it: one that it skips has been moved up by the removal in front
  of him. Threads may disconnect clients in the middle of the pass; those wait from the
  next one on.

`ShutdownProofs`, for any set of helper threads and any number of signals:

* `TypeCorrect`: `Spec => []TypeOK`. A thread's own code is exactly at the bottom of
  its stack: what lies on it are handlers.
* `LogLinesApart`: `Spec => []OneWriter`. `WriterInv` says that a
  thread holds `log_mutex` exactly while one frame of its stack writes, and which
  frames may lie on which.
* `SignalIsKept`: `Spec => []SignalKept`.

`WorldProofs`, for maps of every size, every block table that the assumptions of
`Blocks` and `World` allow, and any number of edits. `map_set` calls itself
through the block functions; `SetEffect` says once what a call of it does to types,
to the queue and to `modified`, and the theorems use nothing else of it.

* `WorldTypeCorrect`: the world keeps its size and its blocks are those of the table,
  ticks are for positions in it, and none waits longer than the longest tick time.
* `SpongesKeepDry`: the rule that the tick of water and the right to place
  it follow is the same box that the sponge dries when it is placed, so `KeptDry`
  is kept by every `Set`. The first world may be as wet as it likes: a place that is not
  `AsLeft` was set since, by a `Set` that left it dry.
* `SandStaysScheduled`: sand that nothing holds has an entry in the queue, unless it and
  the block below are `AsLeft`: whatever sets either of them schedules both.
  `SandAwaits(w, E)` names the positions `E` that a `map_set` which is not over yet has
  still to schedule.
* `LiquidStaysScheduled`: `Spec => []LiquidIsScheduled`, by `LiquidAwaits`, in the same
  way, with two things more to see. A liquid may spread anew because a sponge has gone:
  then it is within three blocks, where `blockbreak_sponge` looks. The unchecked
  reads past a high edge could tell of a sponge elsewhere; but they find the first two
  blocks of another row only, and a sponge there is broken `blind` (`WrapsLow`). And an
  entry leaves the queue when its liquid has been offered to five places:
  `Refused` says that what found no room stays without while the other places fill.
* `FileStaysWhole`: a turn of the main loop cannot run in the middle of a save
  (`TurnGoesOn`), and a save that has begun ends with a whole file or a fault
  (`SaveKeepsWhole` for the two places that begin one; `WholeNext`).
* `FileTypeCorrect` (`FileType`: what is in the file has the size of the map), and from
  it `NothingToSaveIsSaved` and `StoppedIsSaved`. These two need each other:
  `SavedInv` is their conjunction with `WholeUnlessFault`. `faulted` is emptied by every
  save and every load that goes well, so they speak of servers that had faults before.
* `SpongesStayDry` and `SandKeepsFalling`, over saves, crashes and starts
  (`FiledInv`, `SandInv`): the blocks of the file too are dry, and its sand scheduled,
  but where the generator left them otherwise. `SandKeepsFalling` has the hypothesis
  `Depth = Height`: only then is `map_index_to_pos` the inverse of
  `map_get_block_index` (`PosOfIndex`). The run `axes` shows that it is needed.

`PartsProofs`, for bytes, sizes and writes of every kind and terrain of every shape:

* `OffsetStaysInside` and `WrittenIsKept`. The invariant says that the buffer is
  sound and that it holds its image (`Holds`). Each function has a lemma that says
  what it keeps; the one that matters is `GrownSound`: after growing there is room
  from the offset on, so nothing of a write is dropped, and what was there before stays.
* `FloodCorrect`: `FloodSpec => []FillsReach`. The invariant `FloodInv` has two halves
  that meet when the stack is empty. Nothing is forgotten (`Pending`): the
  start, and every block that a filled one flows to, is filled or on the stack if it
  can be filled. Nothing is filled too much (`Within`, for every closed set): such a
  set has all that is filled and all on the stack that can be.
* `FloodFlowsSideways`: `FlowsTo`, which is arithmetic on the numbers of blocks, is the
  neighbourhood of positions in space.
* `ListIsTheFile`: `ListSpec => []ListSays`, for letters of any kind (none of them a
  space, a "#" or the end of a line). `TextGrows`: one more character begins a new
  line or makes the last one longer. `HasRead` says what the reader holds of the last
  line: only spaces, or the characters from the first that is no space to the last
  (`Framed`), if the line is a name that has room, with the spaces behind them in
  `spaceskip`; nothing is claimed of a line that has no room for an end or has a "#"
  in it. `SpacesComeBack` is the step where a space in a name is put back. At the end
  of a line the buffer holds what `Trimmed` says (`LineHasEnded`). The extra turn at
  the end of the file is one more character (`ListInvTakes`), so the invariant is
  about the finished list too.
* `ConfigIsUsable`: `ConfigSpec => []Usable`, for files of any words, since `strtol`
  takes any of them for any number. The parser's buffers are texts whatever it reads
  (`Placed`: the place of the buffer that is being written is within it, and after
  `trim` it is not used before it is 0 again), so each setting is a text, a number or
  unset (`Settled`), and the port is 0 or one of 16 bits. `ParseGoesThrough` turns the
  fold over the characters of a line into steps.
* `ConfigMeansWhatItSays`: `ConfigSpec => []ConfigSays`, for files of any words (none
  of them a sign) and lines in any order. The parser's buffers keep what earlier lines
  have left in them, so the invariant (`ReadInv`) is about where a line begins
  (`AtLine`): no part of a key is there, the section is that of the last section line
  (`AtStart`), and the settings are what the lines so far say (`Says`), the last line
  of a setting and the first of a colour; nothing is claimed of what else is in the
  buffers. Each kind of line keeps this: `SectionLine`, `CommentLine`, `BlankLine`,
  and `SetLine`, whose value is an induction over its characters (`HasTaken`) that
  `ValueTrims` ends. `CallbackDoes` says what one call of `cfg_callback` changes,
  `SaysGoesOn` what one line adds to what a file says, `BreakSets` that a line without
  its end sets nothing, and `SaidIsMeant` that with the defaults this is `Meant`. What
  is stored is what the line says if there is room for it (`StoredIsMeant`): a number
  of its type is what it was cast from (`CastKeeps`), and the buffer for a proxy, one
  character at a time, and a longer one hold the same words (`WordsWithRoom`).

`OutgoingProofs`, for any number of clients of every kind, a finite world, and any
number of edits, levels and failures:

* `OneSenderAlways`: `Spec => []OneSender`. A thread that has taken a mutex owes it:
  among the steps before it is one that gives the mutex back (`Held`), that step gives
  it back only while the thread has it, and there is only one such step (`Owes`).
  A thread whose next step is a send owes the mutex, so it has it.
* `NoEmbraceAlways`: `Spec => []NoEmbrace`. A thread that waits for one mutex and has
  another gives that one back by the `unlock` behind a send that failed, for its
  sends come before anything else (`Ordered`). The client of such a mutex has gone
  (`Gone`), so nobody begins to wait for it; hence no step closes a ring (`Apart`).
  This is where `connected = false` before `client_disconnect` is needed: with any
  other error than a reset the argument, and the program, fail.
* `NoRaceAlways`: `Spec => []NoRace`. Of two threads one is a client's own, which has
  nothing but its reads, its packets and the end of its client before it (`Aside`).
* The invariant speaks of sequences of steps of any length. A step of a thread is of
  one of nine kinds by what it does to `todo` and `mutex` (`ThreadKinds`,
  `MainKinds`); each kind has one lemma that says it keeps the invariant
  (`GoesOnKeeps`, ..., `BeginsKeeps`), so that the proofs about sequences are done once
  and not for each action.

`OutgoingTypeProofs`, under the same assumptions:

* `OutgoingTypeCorrect`: `Spec => []TypeOK`. `TodoInv` says which steps may be before
  which thread: the main thread has those of a handler, and a packet of a level
  only with its flush right behind it (`MainShape`); a client's thread reads, posts and
  ends, and may have the steps of a disconnection in front (`FastShape`). Each step
  is described once, by what it puts in front of the rest (`Goes`), and each handler
  by the sequence that it starts (`Handles`); `Tells` says what such a sequence
  writes to whom.

`GamesProofs`:

* `GamesShowTheWorld`: `Spec => []GamesAgree`, by the invariant `SightInv`: what is
  known of each client that is sent everything (`Live`) while packets, requests,
  levels and threads are under way. What a game of it will show once all has arrived
  is in four places: what is to be written to its out buffer (`Due`), the out buffer,
  the data of its level, and the positions its thread has yet to read (`Unread`).
  `Orderly`: a packet of a level is in the out buffer with nothing but talk behind it.
  `Phase`: how `mapsend_state` goes with these; for instance, a level that is complete
  has nothing unread, and no finish is under way before. `Asked`: a level is asked for
  once. `View`, for each position: the last block that is under way is the block of
  the world; if none is, the game shows it, or shows what its player set last and the
  server has yet to hear of. A send shows a whole buffer at once: `OutShown` and
  `LevelShown` are inductions over the packets of it, each shown as `PhaseShown` and
  `ViewShown` say. For each action there is a lemma that ends in `Sight`; a step that
  is not about a client leaves all it is known by (`SightElsewhere`,
  `HandlesElsewhere`, `IdleSight`).

Only model-checked: all liveness (under fairness, out of the prover's reach), and what
`Nbt` and `PacketStream` compute (`RoundTrip`, `FirstIsFound` and `InStep`: recursive
operators over the bytes, and in `PacketStream` the exclusive or of a mask). Every
other property of a passing run is stated by a theorem.

## Not modelled

* Random ticks (a map has one per 4096 blocks, in places that no map of TLC's size
  has), so neither grass, saplings nor the trees they grow.
* Noise, heights, caves, ores and plants of the generators (floating point), and
  the random numbers, whose 48 bits TLC's integers do not hold: the models choose
  freely where these decide.
* The heartbeat's HTTP, the upgrade's headers, the map image, sockets and string
  helpers, gzip, the wording of the log, the Windows branch: input and output
  without state that a property here could be about.
* Frames longer than 65535 bytes, which no buffer holds; 64-byte strings; chat
  commands and positions, which count as packets; fallback blocks for old clients.
* Buffers over files, which pass every call on; floating-point tags and the dump of a
  tree; a world file that was cut and still parses; `disable_save`.

What is left to prove is what no run checks yet: rings of more than two threads in
`Outgoing`, where each waits for a mutex that the next one holds.
