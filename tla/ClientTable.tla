---------------------------- MODULE ClientTable ----------------------------
(***************************************************************************)
(* The client table of the server, server.clients, and what the functions  *)
(* of client.c do to it.  A table is a sequence of client records; the     *)
(* slot of a client is its position, and a map-send thread knows a client  *)
(* only by the address of its slot.                                        *)
(*                                                                         *)
(* Of a client_t the model keeps what decides who is on the server and     *)
(* who is told about whom.  Three fields are not in the C structure:       *)
(* `sees` is the set of player ids the game at the other end shows after   *)
(* the spawn and despawn packets handed to its socket, `missed` says that  *)
(* send() took less than it was given, and `levels` counts, up to 2, the   *)
(* times the level was asked for.  Nothing is sent again, so a game that   *)
(* missed a packet, or the rest of one, may show anybody: its `sees` is    *)
(* not followed any further.  No guard reads the three fields.             *)
(***************************************************************************)
EXTENDS Integers, SequencesExt

CONSTANTS
    Conns,      \* sockets that accept() can return
    Names,      \* user names, equal when strcasecmp says so
    NoName,     \* the empty name of a client that has not identified
    Chunks      \* level_chunk packets a compressed level takes

ASSUME ConnsAssumption  == Conns # {}
ASSUME NoNameAssumption == NoName \notin Names
ASSUME ChunksAssumption == Chunks \in Nat

\* client_tick sends at most this many chunks (its loop over 0 <= i < 4).
ChunksPerTick == 4

Extensions == {"CustomBlocks", "FastMap", "other"}

\* The name of an extension slot that is empty.
NoExtension == ""

Client ==
    [conn      : Conns,                   \* socket_fd
     connected : BOOLEAN,
     idx       : Nat,                     \* player id on the wire
     name      : Names \cup {NoName},
     spawned   : BOOLEAN,
     room      : Nat,                     \* extension slots still empty
     exts      : SUBSET Extensions,       \* extension slots filled
     custom    : BOOLEAN,                 \* customblocks_support >= 1
     mapsend   : {"none", "success", "sent", "failure"},
     mapgz     : 0 .. Chunks,             \* chunks left in mapgz_buffer, 0 for NULL
     sees      : SUBSET Nat,
     missed    : BOOLEAN,
     levels    : 0 .. 2]

\* client_init; idx is the length of the table before the client joins it.
Fresh(c, idx) ==
    [conn |-> c, connected |-> TRUE, idx |-> idx, name |-> NoName,
     spawned |-> FALSE, room |-> 0, exts |-> {}, custom |-> FALSE,
     mapsend |-> "none", mapgz |-> 0, sees |-> {},
     missed |-> FALSE, levels |-> 0]

ConnsIn(t) == {t[k].conn : k \in DOMAIN t}

Connected(t) == {k \in DOMAIN t : t[k].connected}

-----------------------------------------------------------------------------
(* Leaving.  client_disconnect marks the client and, when it was spawned,  *)
(* sends a despawn packet with its id to every other client.  The same     *)
(* function runs when a flush finds the connection reset, so a handler     *)
(* that flushes to several clients may take several of them down.  A flush *)
(* also comes back when send() takes a part of the buffer or none          *)
(* (EAGAIN): client_send has rewound the buffer before it looks.           *)

Despawned(t, D) == {t[k].idx : k \in {d \in D : t[d].spawned}}

Down(t, D) ==
    [k \in DOMAIN t |->
        IF k \in D
        THEN [t[k] EXCEPT !.connected = FALSE, !.spawned = FALSE,
                          !.sees = {}, !.missed = FALSE]
        ELSE [t[k] EXCEPT !.sees = @ \ Despawned(t, D)]]

\* The clients of L were not sent all that was for them.
Missing(t, L) ==
    [k \in DOMAIN t |->
        IF k \in L THEN [t[k] EXCEPT !.missed = TRUE, !.sees = {}] ELSE t[k]]

\* What flushes to everybody leave when they find the clients of F reset, after
\* client_disconnect was called for those of D.
Flushed(t, D, F) ==
    {Missing(Down(t, D \cup F), L) : L \in SUBSET (Connected(t) \ (D \cup F))}

FlushAll(t) == UNION {Flushed(t, {}, F) : F \in SUBSET Connected(t)}

\* The tables client_disconnect can leave: only for a spawned client is there a
\* broadcast, which may find other connections reset or lose packets.
Disconnect(t, i) ==
    IF t[i].spawned
    THEN UNION {Flushed(t, {i}, F) : F \in SUBSET Connected(t)}
    ELSE {Down(t, {i})}

\* The tables a flush to client i can leave.
FlushTo(t, i) ==
    {t} \cup IF t[i].connected THEN {Missing(t, {i})} \cup Disconnect(t, i) ELSE {}

-----------------------------------------------------------------------------
(* Spawning.  When a level has been sent, client_tick exchanges spawn      *)
(* packets between the client and every other client of the table, spawned *)
(* or not; a flush to a client that is not connected sends nothing.  What  *)
(* the out buffer has no room for, or send() does not take, is missing     *)
(* after the flush that follows.                                           *)

\* Mutant: the others are not told.
Announce_OneWay(t, i) ==
    IF t[i].connected /\ ~t[i].missed
    THEN [t EXCEPT ![i].sees = @ \cup {t[j].idx : j \in DOMAIN t \ {i}}]
    ELSE t

Announce(t, i) ==
    [k \in DOMAIN t |->
        IF ~t[k].connected \/ t[k].missed THEN t[k]
        ELSE [t[k] EXCEPT !.sees = @ \cup
                {t[j].idx : j \in IF k = i THEN DOMAIN t \ {i} ELSE {i}}]]

-----------------------------------------------------------------------------
(* Login.                                                                  *)

\* Mutant: clients that have been disconnected no longer hold their name.
NameTaken_Connected(t, u) == \E k \in Connected(t) : t[k].name = u

\* The comparison runs over the whole table, the client itself included.
NameTaken(t, u) == \E k \in DOMAIN t : t[k].name = u

\* The extension entry goes to the first empty slot, if there is one; an entry
\* without a name leaves it empty.
AddExtension(t, i, e) ==
    IF t[i].room = 0 \/ e = NoExtension THEN t
    ELSE [t EXCEPT ![i].room = @ - 1, ![i].exts = @ \cup {e}]

\* client_login asks for the level itself unless the client has CustomBlocks;
\* those answer with their support level first.
LoginSendsLevel(t, i) == "CustomBlocks" \notin t[i].exts

\* client_send_level takes the fast thread for these clients.
FastLevel(t, i) == "FastMap" \in t[i].exts /\ t[i].custom

CountLevel(t, i) == [t EXCEPT ![i].levels = IF @ = 2 THEN 2 ELSE @ + 1]

-----------------------------------------------------------------------------
(* Sending the level, in client_tick.                                      *)

\* Mutant: the state of the transfer is not consulted.
LevelReady_Always(c) == TRUE

\* Mutant: a level without a buffer, as the fast thread leaves it, is forgotten.
LevelReady_Buffered(c) == c.mapsend = "success" /\ c.mapgz > 0

LevelReady(c) == c.mapsend = "success"

\* Mutant: a last group of fewer than four chunks is not recognised.
LastChunks_Empty(c) == c.mapgz = 0

\* The rest of the level goes out in this tick.
LastChunks(c) == c.mapgz < ChunksPerTick
=============================================================================
