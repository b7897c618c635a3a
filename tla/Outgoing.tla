------------------------------ MODULE Outgoing ------------------------------
(***************************************************************************)
(* What the server sends and what the games at the other end then show:    *)
(* the out buffers, send() and its failures, the mutex of every client,    *)
(* block changes, and levels, which a client with FastMap is sent by a     *)
(* thread of its own while the world changes.                              *)
(*                                                                         *)
(* A thread is the sequence of the steps it has before it: a function that *)
(* is called puts its steps in front.  The main thread's is empty between  *)
(* two handlers of server_tick; the rest is in `at` and `step`.            *)
(*                                                                         *)
(* The table is fixed: nobody arrives, and a disconnected client keeps its *)
(* place (module Server removes them).  What send() takes is shown by the  *)
(* game at once; what is under way is in out_buffer.                       *)
(***************************************************************************)
EXTENDS Integers, SequencesExt

CONSTANTS
    N,              \* server.num_clients
    Fast,           \* clients with FastMap, whose levels a thread of theirs sends
    WebSocket,      \* clients that use a WebSocket
    Loaded,         \* clients that have been spawned already
    Pos, Block,     \* positions and blocks
    First,          \* the block that is everywhere at first
    Cap,            \* BUFFER_SIZE, in packets
    MaxEdits, MaxAsks, MaxFaults    \* bounds: blocks set, levels asked for and
                                    \* failures of the network

Clients == 1 .. N
Main    == 0
Nobody  == -1
Threads == {Main} \cup Fast

ASSUME ClientsAssumption ==
    /\ N \in Nat \ {0} /\ Fast \subseteq Clients
    /\ WebSocket \subseteq Clients /\ Loaded \subseteq Clients
ASSUME WorldAssumption == IsFiniteSet(Pos) /\ First \in Block /\ Cap \in Nat \ {0}
ASSUME BoundsAssumption == {MaxEdits, MaxAsks, MaxFaults} \subseteq Nat

VARIABLES
    world,      \* server.map
    game,       \* what the games show
    inq,        \* packets on their way to the server
    client,     \* connected, spawned and mapsend_state
    out,        \* out_buffer
    level,      \* level data: mapgz_buffer, or the fast thread's packetbuffer
    mutex,      \* the thread that holds out_mutex
    todo,       \* the steps each thread has before it
    at, step,   \* the client that server_tick is at, 0 between two ticks, and
                \* how far client_tick is
    spent,      \* how much of the bounds is used up
    seen        \* history: see Seen

vars == <<world, game, inq, client, out, level, mutex, todo, at, step, spent, seen>>

\* Packets to the client.  "talk" is any packet that says nothing about blocks.
Packet ==
    {<<"init">>, <<"finish">>, <<"talk">>}
        \cup ({"set", "piece"} \X Pos \X Block)

Request == {<<"ask">>} \cup ({"edit"} \X Pos \X Block)

\* A game's `missed` is not shown by it: the blocks that were changed while it
\* had no level.
Game == [loaded : BOOLEAN, view : [Pos -> Block], missed : SUBSET Pos]

Record ==
    [connected : BOOLEAN, spawned : BOOLEAN, mapsend : {"none", "busy", "success", "sent"}]

Task ==
    {<<"write", c, p>> : c \in Clients, p \in Packet}
        \cup ({"flush", "post", "send", "sendlevel", "unlock", "close",
               "start", "done", "spawned", "down"} \X Clients)
        \cup ({"read"} \X Clients \X Pos)
        \cup ({"lock"} \X Clients \X {"send", "sendlevel"})

\* lost: clients that some packet was not sent to; broken: a send failed with an
\* error that is not a reset; crossed: a fast thread found its client reset when
\* that client was spawned.
Seen == [lost : SUBSET Clients, broken : BOOLEAN, crossed : BOOLEAN]

TypeOK ==
    /\ world \in [Pos -> Block]
    /\ game \in [Clients -> Game]
    /\ inq \in [Clients -> Seq(Request)]
    /\ client \in [Clients -> Record]
    /\ out \in [Clients -> Seq(Packet)] /\ \A c \in Clients : Len(out[c]) <= Cap
    /\ level \in [Clients -> Seq(Packet)]
    /\ mutex \in [Clients -> Threads \cup {Nobody}]
    /\ todo \in [Threads -> Seq(Task)]
    /\ at \in 0 .. N /\ step \in {"enter", "receive", "send"}
    /\ spent \in [edits : 0 .. MaxEdits, asks : 0 .. MaxAsks, faults : 0 .. MaxFaults]
    /\ seen \in Seen

Init ==
    /\ world = [p \in Pos |-> First]
    /\ game = [c \in Clients |-> [loaded |-> c \in Loaded, view |-> world, missed |-> {}]]
    /\ inq = [c \in Clients |-> << >>]
    /\ client = [c \in Clients |->
                    [connected |-> TRUE, spawned |-> c \in Loaded,
                     mapsend |-> IF c \in Loaded THEN "sent" ELSE "none"]]
    /\ out = [c \in Clients |-> << >>]
    /\ level = [c \in Clients |-> << >>]
    /\ mutex = [c \in Clients |-> Nobody]
    /\ todo = [t \in Threads |-> << >>]
    /\ at = 0 /\ step = "enter"
    /\ spent = [edits |-> 0, asks |-> 0, faults |-> 0]
    /\ seen = [lost |-> {}, broken |-> FALSE, crossed |-> FALSE]

-----------------------------------------------------------------------------
(* The games: one ignores blocks while it has no level, and shows what its *)
(* player sets before the server has heard of it.  A player acts between   *)
(* two handlers of the server: within one, every game is sent what it      *)
(* shows at most once.                                                     *)

Shows(g, p) ==
    CASE p[1] = "init"   -> [g EXCEPT !.loaded = FALSE, !.missed = {}]
      [] p[1] = "piece"  -> [g EXCEPT !.view[p[2]] = p[3]]
      [] p[1] = "finish" -> [g EXCEPT !.loaded = TRUE]
      [] p[1] = "set" /\ g.loaded ->
            [g EXCEPT !.view[p[2]] = p[3], !.missed = @ \ {p[2]}]
      [] OTHER -> g

GameEdits(c, p, b) ==
    /\ todo[Main] = << >>
    /\ client[c].connected /\ game[c].loaded
    /\ game[c].view[p] # b
    /\ spent.edits < MaxEdits
    /\ spent' = [spent EXCEPT !.edits = @ + 1]
    /\ game' = [game EXCEPT ![c].view[p] = b]
    /\ inq' = [inq EXCEPT ![c] = Append(@, <<"edit", p, b>>)]
    /\ UNCHANGED <<world, client, out, level, mutex, todo, at, step, seen>>

\* Login, or a support level, again after the level has come.
GameAsks(c) ==
    /\ todo[Main] = << >>
    /\ client[c].connected
    /\ client[c].mapsend \in {"none", "sent"}
    /\ <<"ask">> \notin Range(inq[c])
    /\ spent.asks < MaxAsks
    /\ spent' = [spent EXCEPT !.asks = @ + 1]
    /\ inq' = [inq EXCEPT ![c] = Append(@, <<"ask">>)]
    /\ UNCHANGED <<world, game, client, out, level, mutex, todo, at, step, seen>>

-----------------------------------------------------------------------------
(* Functions, as the steps they put in front of their caller's.            *)

\* Packets written to the out buffers of clients, each with a flush behind it: the
\* k-th packet to the k-th client.
Tell(cs, ps) ==
    [k \in 1 .. 2 * Len(cs) |->
        IF k % 2 = 1
        THEN <<"write", cs[(k + 1) \div 2], ps[(k + 1) \div 2]>>
        ELSE <<"flush", cs[k \div 2]>>]

Talk(cs) == Tell(cs, [k \in DOMAIN cs |-> <<"talk">>])

\* Everybody, and everybody but one.
All == [c \in Clients |-> c]

Others(c) == [k \in 1 .. N - 1 |-> IF k < c THEN k ELSE k + 1]

\* server_broadcast.
Broadcast == Talk(All)

\* client_disconnect of a client that is connected.
Disconnect(c) ==
    Talk(<<c>>)
        \o (IF c \in WebSocket THEN << <<"close", c>> >> ELSE << >>)
        \o << <<"down", c>> >>

\* map_set's packets.
SetPackets(p, b) == [c \in Clients |-> <<"write", c, <<"set", p, b>>>>]

\* Mutant: the thread tells its client, through the out buffer, that it starts.
FastThread_Talks(c) == Talk(<<c>>) \o << <<"done", c>> >>

\* mapsend_fast_thread_start, whose packet buffer takes one piece here.
FastThread(c) ==
    [k \in 1 .. 2 * Cardinality(Pos) + 1 |->
        IF k = 2 * Cardinality(Pos) + 1 THEN <<"done", c>>
        ELSE IF k % 2 = 1 THEN <<"read", c, SetToSeq(Pos)[(k + 1) \div 2]>>
        ELSE <<"post", c>>]

\* The rest of client_tick when the whole level has been sent: the finish and the
\* position, the spawn exchange with each of the others, and the broadcast.
Finished(c) ==
    Tell(<<c, c>>, << <<"finish">>, <<"talk">> >>)
        \o Talk([k \in 1 .. 2 * (N - 1) |->
                    IF k % 2 = 1 THEN c ELSE Others(c)[k \div 2]])
        \o << <<"spawned", c>> >>
        \o Broadcast
        \o << <<"flush", c>> >>

\* Thread t goes on with these steps and then with what it was doing.
Then(t, steps) == todo' = [todo EXCEPT ![t] = steps \o Tail(@)]

IsNext(t, what, c) == todo[t] # << >> /\ todo[t][1][1] = what /\ todo[t][1][2] = c

\* The next step of t writes to the out buffer of c or reads it.
Touches(t, c) == IsNext(t, "write", c) \/ IsNext(t, "send", c)

Race(c) == \E t, u \in Threads : t # u /\ Touches(t, c) /\ Touches(u, c)

Lost(C) == seen' = [seen EXCEPT !.lost = @ \cup C]

-----------------------------------------------------------------------------
(* The steps of a thread.                                                  *)

\* Mutant: what does not fit is written all the same.
Fits_Always(c) == TRUE

Fits(c) == Len(out[c]) < Cap

\* buffer_write drops what does not fit.  What is in the buffer of a client that
\* is not connected is of no interest.
Write(t, c) ==
    /\ IsNext(t, "write", c)
    /\ Then(t, << >>)
    /\ IF client[c].connected /\ Fits(c)
       THEN out' = [out EXCEPT ![c] = Append(@, todo[t][1][3])]
       ELSE UNCHANGED out
    /\ Lost(IF Race(c) \/ ~Fits(c) THEN {c} ELSE {})
    /\ UNCHANGED <<world, game, inq, client, level, mutex, at, step, spent>>

\* Mutant: the mutex is not taken.
Acquires_Free(t, c, what) == Then(t, << <<what, c>> >>) /\ UNCHANGED mutex

\* pthread_mutex_lock: the mutex is taken at once, or waited for.
Acquires(t, c, what) ==
    IF mutex[c] = Nobody
    THEN Then(t, << <<what, c>> >>) /\ mutex' = [mutex EXCEPT ![c] = t]
    ELSE Then(t, << <<"lock", c, what>> >>) /\ UNCHANGED mutex

\* client_flush_buffer, of the out buffer or of the fast thread's packets.
Flush(t, c) ==
    /\ \/ IsNext(t, "flush", c)
       \/ IsNext(t, "post", c)
    /\ IF client[c].connected
       THEN Acquires(t, c, IF IsNext(t, "flush", c) THEN "send" ELSE "sendlevel")
       ELSE Then(t, << >>) /\ UNCHANGED mutex
    /\ UNCHANGED <<world, game, inq, client, out, level, at, step, spent, seen>>

Lock(t, c) ==
    /\ IsNext(t, "lock", c)
    /\ mutex[c] = Nobody
    /\ mutex' = [mutex EXCEPT ![c] = t]
    /\ Then(t, << <<todo[t][1][3], c>> >>)
    /\ UNCHANGED <<world, game, inq, client, out, level, at, step, spent, seen>>

\* The end of client_flush_buffer after a failure of its send.
Unlock(t, c) ==
    /\ IsNext(t, "unlock", c)
    /\ mutex' = [mutex EXCEPT ![c] = Nobody]
    /\ Then(t, << >>)
    /\ UNCHANGED <<world, game, inq, client, out, level, at, step, spent, seen>>

\* What the next step of t, a call of client_send, has to send; the close frame
\* of a WebSocket is sent without the mutex.
Sends(t, c) == IsNext(t, "send", c) \/ IsNext(t, "sendlevel", c) \/ IsNext(t, "close", c)

Data(t, c) ==
    CASE IsNext(t, "send", c)      -> out[c]
      [] IsNext(t, "sendlevel", c) -> level[c]
      [] OTHER                     -> << <<"talk">> >>

\* The buffer is rewound whatever send() returned.
Rewound(t, c) ==
    /\ out' = IF IsNext(t, "send", c) THEN [out EXCEPT ![c] = << >>] ELSE out
    /\ level' = IF IsNext(t, "sendlevel", c) THEN [level EXCEPT ![c] = << >>] ELSE level

\* Mutant: the mutex is kept when nothing could be sent.
Returns_Kept(t, c) == UNCHANGED mutex

\* client_send returns, and the mutex, if it was taken for it, is given back.
Returns(t, c) == mutex' = IF IsNext(t, "close", c) THEN mutex ELSE [mutex EXCEPT ![c] = Nobody]

\* The steps of client_flush_buffer that are left after those of a failed send.
Before(t, c) == IF IsNext(t, "close", c) THEN << >> ELSE << <<"unlock", c>> >>

\* A failure that uses up n of the bound.
Fault(n) ==
    /\ spent.faults + n <= MaxFaults
    /\ spent' = [spent EXCEPT !.faults = @ + n]

SendsAll(t, c) ==
    /\ Sends(t, c)
    /\ game' = [game EXCEPT ![c] = FoldLeft(Shows, @, Data(t, c))]
    /\ Rewound(t, c)
    /\ Then(t, << >>)
    /\ Returns(t, c)
    /\ Lost(IF Race(c) THEN {c} ELSE {})
    /\ UNCHANGED <<world, inq, client, at, step, spent>>

\* send() takes a part, or nothing (EAGAIN).
SendsPart(t, c) ==
    /\ Sends(t, c)
    /\ \E k \in 0 .. Len(Data(t, c)) - 1 :
        game' = [game EXCEPT ![c] = FoldLeft(Shows, @, SubSeq(Data(t, c), 1, k))]
    /\ Fault(2)
    /\ Rewound(t, c)
    /\ Then(t, << >>)
    /\ Returns(t, c)
    /\ Lost({c})
    /\ UNCHANGED <<world, inq, client, at, step>>

\* Mutant: `connected` is left to client_disconnect.
SendFindsReset_Connected(t, c) ==
    /\ Sends(t, c) /\ Data(t, c) # << >>
    /\ Fault(1)
    /\ Rewound(t, c)
    /\ Then(t, Disconnect(c) \o Before(t, c))
    /\ UNCHANGED <<world, game, inq, client, mutex, at, step, seen>>

SendFindsReset(t, c) ==
    /\ Sends(t, c) /\ Data(t, c) # << >>
    /\ Fault(1)
    /\ Rewound(t, c)
    /\ client' = [client EXCEPT ![c].connected = FALSE]
    /\ Then(t, << <<"down", c>> >> \o Before(t, c))
    /\ UNCHANGED <<world, game, inq, mutex, at, step, seen>>

\* Any other error: client_disconnect with `connected` still set.
SendFails(t, c) ==
    /\ Sends(t, c) /\ Data(t, c) # << >>
    /\ Fault(2)
    /\ Rewound(t, c)
    /\ Then(t, Disconnect(c) \o Before(t, c))
    /\ seen' = [seen EXCEPT !.broken = TRUE]
    /\ UNCHANGED <<world, game, inq, client, mutex, at, step>>

\* The end of client_disconnect.
Down(t, c) ==
    /\ IsNext(t, "down", c)
    /\ client' = [client EXCEPT ![c].connected = FALSE, ![c].spawned = FALSE]
    /\ Then(t, IF client[c].spawned THEN Broadcast \o Talk(Others(c)) ELSE << >>)
    /\ seen' = [seen EXCEPT !.crossed = @ \/ (client[c].spawned /\ t # Main)]
    /\ UNCHANGED <<world, game, inq, out, level, mutex, at, step, spent>>

Spawned(t, c) ==
    /\ IsNext(t, "spawned", c)
    /\ client' = [client EXCEPT ![c].spawned = TRUE]
    /\ Then(t, << >>)
    /\ UNCHANGED <<world, game, inq, out, level, mutex, at, step, spent, seen>>

\* client_start_mapsave takes a copy of the world, client_start_fast_mapsave
\* starts a thread that reads it.
Start(t, c) ==
    /\ IsNext(t, "start", c)
    /\ IF c \in Fast
       THEN /\ todo[c] = << >>
            /\ todo' = [todo EXCEPT ![t] = Tail(@), ![c] = FastThread(c)]
            /\ UNCHANGED level
       ELSE /\ Then(t, << >>)
            /\ level' = [level EXCEPT ![c] =
                    [k \in 1 .. Cardinality(Pos) |->
                        LET p == SetToSeq(Pos)[k] IN <<"piece", p, world[p]>>]]
    /\ UNCHANGED <<world, game, inq, client, out, mutex, at, step, spent, seen>>

\* The fast thread stops when it finds the client disconnected.
Read(t, c) ==
    /\ IsNext(t, "read", c)
    /\ LET p == todo[t][1][3]
       IN  IF client[c].connected
           THEN /\ level' = [level EXCEPT ![c] = Append(@, <<"piece", p, world[p]>>)]
                /\ Then(t, << >>)
           ELSE todo' = [todo EXCEPT ![t] = << >>] /\ UNCHANGED level
    /\ UNCHANGED <<world, game, inq, client, out, mutex, at, step, spent, seen>>

Done(t, c) ==
    /\ IsNext(t, "done", c)
    /\ client' = [client EXCEPT ![c].mapsend = "success"]
    /\ Then(t, << >>)
    /\ UNCHANGED <<world, game, inq, out, level, mutex, at, step, spent, seen>>

ThreadStep(t) ==
    \E c \in Clients :
        \/ Write(t, c) \/ Flush(t, c) \/ Lock(t, c) \/ Unlock(t, c)
        \/ SendsAll(t, c) \/ SendsPart(t, c) \/ SendFindsReset(t, c) \/ SendFails(t, c)
        \/ Down(t, c) \/ Spawned(t, c) \/ Start(t, c) \/ Read(t, c) \/ Done(t, c)

-----------------------------------------------------------------------------
(* The main loop, between the steps of its functions.                      *)

Between(s) == todo[Main] = << >> /\ at \in Clients /\ step = s

Do(steps) == todo' = [todo EXCEPT ![Main] = steps]

NextClient == at' = (at + 1) % (N + 1) /\ step' = "enter"

StartTick ==
    /\ todo[Main] = << >>
    /\ at = 0
    /\ NextClient
    /\ UNCHANGED <<world, game, inq, client, out, level, mutex, todo, spent, seen>>

Enter ==
    /\ Between("enter")
    /\ IF client[at].connected THEN step' = "receive" /\ UNCHANGED at ELSE NextClient
    /\ UNCHANGED <<world, game, inq, client, out, level, mutex, todo, spent, seen>>

\* The next packet from the client.
Packets(kind) == Between("receive") /\ inq[at] # << >> /\ inq[at][1][1] = kind

Taken == inq' = [inq EXCEPT ![at] = Tail(@)]

\* Mutant: the client that asked is not answered.
Refused_Silently(c, p) == << >>

\* A client that may not is sent the block that is there.
Refused(c, p) == Tell(<<c>>, << <<"set", p, world[p]>> >>)

RecvEditRefused ==
    /\ Packets("edit")
    /\ Taken
    /\ Do(Refused(at, inq[at][1][2]))
    /\ UNCHANGED <<world, game, client, out, level, mutex, at, step, spent, seen>>

\* map_set.
RecvEdit ==
    /\ Packets("edit")
    /\ Taken
    /\ LET p == inq[at][1][2]
           b == inq[at][1][3]
       IN  IF world[p] = b
           THEN UNCHANGED <<world, todo, game>>
           ELSE /\ world' = [world EXCEPT ![p] = b]
                /\ Do(SetPackets(p, b))
                /\ game' = [c \in Clients |->
                                IF game[c].loaded THEN game[c]
                                ELSE [game[c] EXCEPT !.missed = @ \cup {p}]]
    /\ UNCHANGED <<client, out, level, mutex, at, step, spent, seen>>

\* client_send_level.  mapsend_state is not set here in the code; "busy" says that
\* a level is being prepared.
RecvAsk ==
    /\ Packets("ask")
    /\ Taken
    /\ Do(Tell(<<at>>, << <<"init">> >>) \o << <<"start", at>> >>)
    /\ client' = [client EXCEPT ![at].mapsend = "busy"]
    /\ UNCHANGED <<world, game, out, level, mutex, at, step, spent, seen>>

\* The client is told to go, or recv() finds the connection reset.
Kick ==
    /\ Between("receive")
    /\ client[at].connected
    /\ Fault(1)
    /\ Do(Disconnect(at))
    /\ UNCHANGED <<world, game, inq, client, out, level, mutex, at, step, seen>>

RecvFindsReset ==
    /\ Between("receive")
    /\ client[at].connected
    /\ Fault(1)
    /\ client' = [client EXCEPT ![at].connected = FALSE]
    /\ Do(<< <<"down", at>> >>)
    /\ UNCHANGED <<world, game, inq, out, level, mutex, at, step, seen>>

EndReceive ==
    /\ Between("receive")
    /\ step' = "send"
    /\ UNCHANGED <<world, game, inq, client, out, level, mutex, todo, at, spent, seen>>

NoLevel ==
    /\ Between("send")
    /\ client[at].mapsend # "success"
    /\ Do(<< <<"flush", at>> >>)
    /\ NextClient
    /\ UNCHANGED <<world, game, inq, client, out, level, mutex, spent, seen>>

\* The chunks of a level; level_finish follows in this tick or, when there were
\* four of them, in the next.
SendChunks ==
    /\ Between("send")
    /\ client[at].mapsend = "success"
    /\ level[at] # << >>
    /\ Do(Tell([k \in DOMAIN level[at] |-> at], level[at]) \o << <<"flush", at>> >>)
    /\ level' = [level EXCEPT ![at] = << >>]
    /\ NextClient \/ UNCHANGED <<at, step>>
    /\ UNCHANGED <<world, game, inq, client, out, mutex, spent, seen>>

FinishLevel ==
    /\ Between("send")
    /\ client[at].mapsend = "success"
    /\ level[at] = << >>
    /\ client' = [client EXCEPT ![at].mapsend = "sent"]
    /\ Do(Finished(at))
    /\ NextClient
    /\ UNCHANGED <<world, game, inq, out, level, mutex, spent, seen>>

MainStep ==
    \/ ThreadStep(Main)
    \/ StartTick \/ Enter
    \/ RecvEditRefused \/ RecvEdit \/ RecvAsk \/ Kick \/ RecvFindsReset \/ EndReceive
    \/ NoLevel \/ SendChunks \/ FinishLevel

\* mapsend_thread_start.
Compressed(c) ==
    /\ c \notin Fast
    /\ client[c].mapsend = "busy" /\ level[c] # << >>
    /\ client' = [client EXCEPT ![c].mapsend = "success"]
    /\ UNCHANGED <<world, game, inq, out, level, mutex, todo, at, step, spent, seen>>

Next ==
    \/ MainStep
    \/ \E t \in Fast : ThreadStep(t)
    \/ \E c \in Clients :
        \/ Compressed(c)
        \/ GameAsks(c)
        \/ \E p \in Pos, b \in Block : GameEdits(c, p, b)

Spec == Init /\ [][Next]_vars

\* Threads are scheduled.
FairSpec == Spec /\ WF_vars(MainStep) /\ \A t \in Fast : WF_vars(ThreadStep(t))

-----------------------------------------------------------------------------
(* Properties                                                              *)

\* out_mutex (client.c) keeps two threads from sending to one client at a time:
\* packets of a level and other packets do not mix.  The close frame of a
\* WebSocket, which client_disconnect sends without it, is the exception.
OneSender ==
    \A c \in Clients : \A t, u \in Threads :
        t # u /\ Sends(t, c) /\ Sends(u, c) => IsNext(t, "close", c) \/ IsNext(u, "close", c)

\* No two threads use one out buffer at the same time, although nothing locks it
\* while it is written: the fast thread writes to those of the others only when it
\* finds its own client reset, or unable to be sent to, after that has spawned.
NoRace == \A c \in Clients : Race(c) => seen.crossed \/ seen.broken

Quiet ==
    /\ at = 0
    /\ \A t \in Threads : todo[t] = << >>
    /\ \A c \in Clients : client[c].connected => out[c] = << >> /\ inq[c] = << >>

\* When nothing is under way, a game that has a level shows the blocks of the
\* server, whichever player set them last or was refused to (the set_block packet,
\* map_set), save those changed while the level was on its way, and unless a packet
\* was lost.
GamesAgree ==
    Quiet =>
        \A c \in Clients \ seen.lost :
            client[c].connected /\ game[c].loaded =>
                \A p \in Pos \ game[c].missed : game[c].view[p] = world[p]

Waits(t, c) == IsNext(t, "lock", c)

\* No thread waits for a mutex that it holds, and no two wait for each other's.
\* Both may hold one: a send that finds its client reset disconnects it, which
\* tells all others, with its mutex still taken (client_send, client_disconnect).
\* What keeps them apart is that `connected` has been cleared by then, so that
\* nobody else waits for that mutex any more.

NoEmbrace ==
    ~seen.broken =>
        \A t, u \in Threads, c, d \in Clients :
            ~(Waits(t, c) /\ mutex[c] = u /\ Waits(u, d) /\ mutex[d] = t)

\* The main loop comes round again, unless a send failed with another error than
\* a reset: client_disconnect then waits for the mutex that its caller holds.
MainComesRound == []<>(at = 0) \/ <>seen.broken
=============================================================================
