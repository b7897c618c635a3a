------------------------------- MODULE Server -------------------------------
(***************************************************************************)
(* The main loop of the server and the threads that prepare levels.        *)
(*                                                                         *)
(* One turn of the loop, server_tick, accepts at most one connection,      *)
(* ticks every client in the order of the table, and removes those that    *)
(* are no longer connected.  A client that logs in starts a map-send       *)
(* thread, which runs while the loop goes on and reports through a pointer *)
(* to the client's slot.  The removal loop moves clients to other slots,   *)
(* and a reallocation of the table may leave every pointer dangling.       *)
(*                                                                         *)
(* A flush delivers, loses a packet or a part of one, or finds the         *)
(* connection reset.  Any other error of send() never returns: the         *)
(* disconnection that follows flushes to the same client under its own     *)
(* mutex.  Outgoing has that error; here it does not happen.               *)
(***************************************************************************)
EXTENDS ClientTable

CONSTANTS
    Workers,            \* map-send threads that may run at a time
    MaxPlayers,         \* config.server.max_players
    EnableOldClients,   \* config.server.enable_old_clients
    BannedIPs,          \* connections whose address is in banned_ips.txt
    BannedUsers,        \* names in banned_users.txt
    Whitelist,          \* names let in: all, NoName too, with the whitelist off
    ExtCounts,          \* extension counts that clients announce,
    ExtNames,           \* the extensions they name,
    SupportLevels       \* and whether their block support level is 1 or more

ASSUME MaxPlayersAssumption == MaxPlayers \in Nat
ASSUME CPEAssumption ==
    ExtCounts \subseteq Nat /\ ExtNames \subseteq Extensions \cup {NoExtension} /\ SupportLevels \subseteq BOOLEAN
ASSUME OldAssumption        == EnableOldClients \in BOOLEAN

VARIABLES
    clients,    \* server.clients and server.num_clients
    pc,         \* where the main thread is in server_tick
    i,          \* the loop variable of the loop it is in, from 1
    removed,    \* the local `removed` of server_tick
    workers,    \* the map-send threads
    torn,       \* history: a running thread has pointed past its own client
    clash,      \* history: a connection was given an id already in the table
    waiting     \* history: the slot in which a disconnected client was when the
                \* pass of the removal loop began, 0 for others and between passes

mainVars == <<pc, i, removed>>
vars == <<clients, pc, i, removed, workers, torn, clash, waiting>>

Dangling == 0

\* A thread: the slot its pointer refers to and the connection it was started
\* for.  A "compress" thread of the snapshot kind first hands over the buffer
\* and then, as "publish", the result.
Idle == [stage |-> "idle", slot |-> Dangling, owner |-> "nobody", fast |-> FALSE]

Running ==
    [stage : {"compress", "publish"}, slot : Nat, owner : Conns, fast : BOOLEAN]

IsRunning(w) == workers[w].stage # "idle"

TypeOK ==
    /\ clients \in Seq(Client)
    /\ pc \in {"accept", "tick", "more", "send", "reap"}
    /\ i \in Nat \ {0}
    /\ pc \in {"more", "send"} => i <= Len(clients)
    /\ removed \in BOOLEAN
    /\ workers \in [Workers -> Running \cup {Idle}]
    /\ torn \in BOOLEAN
    /\ clash \in BOOLEAN
    /\ waiting \in [Conns -> Nat]

\* Some running thread would write to a slot that is not its client's.
Misdirected(t, ws) ==
    \E w \in Workers :
        /\ ws[w].stage # "idle"
        /\ \/ ws[w].slot \notin DOMAIN t
           \/ t[ws[w].slot].conn # ws[w].owner

NoteTorn == torn' = (torn \/ Misdirected(clients', workers'))

Init ==
    /\ clients = << >>
    /\ pc = "accept"
    /\ i = 1
    /\ removed = FALSE
    /\ workers = [w \in Workers |-> Idle]
    /\ torn = FALSE
    /\ clash = FALSE
    /\ waiting = [c \in Conns |-> 0]

-----------------------------------------------------------------------------
(* Memory.  realloc may move the table, and free always gives it up; a     *)
(* later allocation may or may not return the old address.                 *)

AllDangling ==
    [w \in Workers |-> [workers[w] EXCEPT !.slot = Dangling]]

MayMove == workers' \in {workers, AllDangling}

-----------------------------------------------------------------------------
(* server_accept.                                                          *)

NoConnection ==
    /\ pc = "accept"
    /\ pc' = "tick"
    /\ i' = 1
    /\ UNCHANGED <<clients, removed, workers, torn, clash, waiting>>

Accept(c) ==
    /\ pc = "accept"
    /\ c \notin ConnsIn(clients)
    /\ LET joined == Append(clients, Fresh(c, Len(clients)))
       IN  clients' = IF c \in BannedIPs
                      THEN Down(joined, {Len(joined)})
                      ELSE joined
    /\ clash' = (clash \/ \E k \in DOMAIN clients : clients[k].idx = Len(clients))
    /\ MayMove
    /\ NoteTorn
    /\ pc' = "tick"
    /\ i' = 1
    /\ UNCHANGED <<removed, waiting>>

-----------------------------------------------------------------------------
(* client_tick, first part: client_receive and client_handle_in_buffer.    *)
(* `connected` is tested on entry only.  One recv() may hold many packets: *)
(* after a handler that does not return, pc is "more".  A handler that     *)
(* returns ends the recv() of a plain client, but only the frame of a      *)
(* WebSocket client, whose next frame is still handled.                    *)

\* clients[i] is not connected: client_tick returns at once.
SkipClient ==
    /\ pc = "tick"
    /\ i \in DOMAIN clients
    /\ ~clients[i].connected
    /\ i' = i + 1
    /\ UNCHANGED <<clients, pc, removed, workers, torn, clash, waiting>>

Receiving ==
    \/ pc = "more"
    \/ pc = "tick" /\ i \in Connected(clients)

HandlerReturns == pc' \in {"more", "send"}

\* recv() has nothing, returns 0, or the buffer is used up.
EndOfInput ==
    /\ Receiving
    /\ pc' = "send"
    /\ UNCHANGED <<clients, i, removed, workers, torn, clash, waiting>>

\* A read error, an unknown packet or a refused WebSocket upgrade.
Hangup ==
    /\ Receiving
    /\ clients' \in Disconnect(clients, i)
    /\ HandlerReturns
    /\ UNCHANGED <<i, removed, workers, torn, clash, waiting>>

\* Packets that leave this client as it is but may flush to any client: chat,
\* positions, blocks and pings.
RecvOther ==
    /\ Receiving
    /\ clients' \in FlushAll(clients)
    /\ pc' = "more"
    /\ UNCHANGED <<i, removed, workers, torn, clash, waiting>>

\* client_send_level on table t: a thread for the client in slot i.
StartLevel(t) ==
    \E w \in Workers :
        /\ ~IsRunning(w)
        /\ workers' = [workers EXCEPT ![w] =
                [stage |-> "compress", slot |-> i,
                 owner |-> t[i].conn, fast |-> FastLevel(t, i)]]
        /\ clients' \in FlushTo(CountLevel(t, i), i)

\* client_login on table t.
Login(t) ==
    IF LoginSendsLevel(t, i)
    THEN StartLevel(t)
    ELSE clients' \in FlushTo(t, i) /\ UNCHANGED workers

\* "Client is too old!": the client is disconnected, and login goes on.
AfterVersion(old) ==
    IF old /\ ~EnableOldClients THEN Disconnect(clients, i) ELSE {clients}

\* Mutant: the limit is tested with >= by one more.
Full_OffByOne == Len(clients) > MaxPlayers + 1

Full == Len(clients) > MaxPlayers

\* Mutant: banned_users.txt is not consulted.
Refused_NoBans(u, verified) ==
    Full \/ NameTaken(clients, u) \/ ~verified \/ u \notin Whitelist

Refused(u, verified) ==
    \/ Full
    \/ NameTaken(clients, u)
    \/ u \in BannedUsers
    \/ ~verified
    \/ u \notin Whitelist

RecvIdentRefused(u, old, verified) ==
    /\ Receiving
    /\ Refused(u, verified)
    /\ \E t \in AfterVersion(old) : clients' \in Disconnect(t, i)
    /\ HandlerReturns
    /\ UNCHANGED <<i, removed, workers, torn, clash, waiting>>

\* A client may identify again, and then changes its name.
RecvIdentAccepted(u, old, cpe) ==
    /\ Receiving
    /\ ~Refused(u, TRUE)
    /\ \E t \in AfterVersion(old) :
           LET named == [t EXCEPT ![i].name = u]
           IN  IF cpe
               THEN clients' \in FlushTo(named, i) /\ UNCHANGED workers
               ELSE Login(named)
    /\ pc' = "more"
    /\ UNCHANGED <<i, removed, torn, clash, waiting>>

RecvExtInfo(n) ==
    /\ Receiving
    /\ clients' = [clients EXCEPT ![i].room = n, ![i].exts = {}]
    /\ pc' = "more"
    /\ UNCHANGED <<i, removed, workers, torn, clash, waiting>>

\* The entry for the last empty slot completes the login, and does so again as
\* long as entries without a name leave it empty.
RecvExtEntry(e) ==
    /\ Receiving
    /\ LET t == AddExtension(clients, i, e)
       IN  IF clients[i].room = 1
           THEN Login(t)
           ELSE clients' = t /\ UNCHANGED workers
    /\ pc' = "more"
    /\ UNCHANGED <<i, removed, torn, clash, waiting>>

\* Sends the level, however often the packet comes.
RecvSupportLevel(supports) ==
    /\ Receiving
    /\ StartLevel([clients EXCEPT ![i].custom = supports])
    /\ pc' = "more"
    /\ UNCHANGED <<i, removed, torn, clash, waiting>>

-----------------------------------------------------------------------------
(* client_tick, second part: pings, the level, and the last flush.  The    *)
(* client may have been disconnected by the first part.                    *)

NextClient == pc' = "tick" /\ i' = i + 1

NoLevel ==
    /\ pc = "send"
    /\ ~LevelReady(clients[i])
    /\ clients' \in FlushTo(clients, i)
    /\ NextClient
    /\ UNCHANGED <<removed, workers, torn, clash, waiting>>

SendChunks ==
    /\ pc = "send"
    /\ LevelReady(clients[i])
    /\ ~LastChunks(clients[i])
    /\ clients' \in FlushTo([clients EXCEPT ![i].mapgz = @ - ChunksPerTick], i)
    /\ NextClient
    /\ UNCHANGED <<removed, workers, torn, clash, waiting>>

\* Connections may be found reset and packets lost before the spawn packets, by
\* them, and by the "joined" broadcast.
FinishLevel ==
    /\ pc = "send"
    /\ LevelReady(clients[i])
    /\ LastChunks(clients[i])
    /\ \E sent \in FlushAll([clients EXCEPT ![i].mapsend = "sent", ![i].mapgz = 0]) :
       \E told \in FlushAll(Announce(sent, i)) :
           clients' \in FlushAll([told EXCEPT ![i].spawned = TRUE])
    /\ NextClient
    /\ UNCHANGED <<removed, workers, torn, clash, waiting>>

\* The slot of the disconnected client of connection c, 0 if there is none.
SlotDown(c) ==
    IF \E k \in DOMAIN clients : clients[k].conn = c /\ ~clients[k].connected
    THEN CHOOSE k \in DOMAIN clients : clients[k].conn = c /\ ~clients[k].connected
    ELSE 0

TickEnd ==
    /\ pc = "tick"
    /\ i \notin DOMAIN clients
    /\ pc' = "reap"
    /\ i' = 1
    /\ waiting' = [c \in Conns |-> SlotDown(c)]
    /\ UNCHANGED <<clients, removed, workers, torn, clash>>

-----------------------------------------------------------------------------
(* The removal loop of server_tick and what follows it.                    *)

\* Mutant: the loop starts at the second client.
Gone_NotFirst == i \in DOMAIN clients \ {1} /\ ~clients[i].connected

Gone == i \in DOMAIN clients /\ ~clients[i].connected

ReapKeep ==
    /\ pc = "reap"
    /\ i \in DOMAIN clients /\ ~Gone
    /\ i' = i + 1
    /\ UNCHANGED <<clients, pc, removed, workers, torn, clash, waiting>>

\* The clients behind move up one slot, and i goes on past the one that moved
\* into this slot.
ReapRemove ==
    /\ pc = "reap"
    /\ Gone
    /\ clients' = RemoveAt(clients, i)
    /\ removed' = TRUE
    /\ i' = i + 1
    /\ UNCHANGED <<pc, workers, clash, waiting>>
    /\ NoteTorn

ReapEnd ==
    /\ pc = "reap"
    /\ i \notin DOMAIN clients
    /\ IF removed THEN MayMove ELSE UNCHANGED workers
    /\ removed' = FALSE
    /\ pc' = "accept"
    /\ i' = 1
    /\ waiting' = [c \in Conns |-> 0]
    /\ UNCHANGED <<clients, clash>>
    /\ NoteTorn

-----------------------------------------------------------------------------
(* The map-send threads.                                                   *)

Finish(w) == workers' = [workers EXCEPT ![w] = Idle]

\* The slot behind the thread's pointer still exists.
Aimed(w) == workers[w].slot \in DOMAIN clients

\* A write through the pointer; to freed memory it changes nothing here.
Through(w, t) == clients' = IF Aimed(w) THEN t ELSE clients

\* mapsend_thread_start: the compressed level replaces what was there.
HandOver(w) ==
    /\ workers[w].stage = "compress"
    /\ ~workers[w].fast
    /\ Through(w, [clients EXCEPT ![workers[w].slot].mapgz = Chunks])
    /\ workers' = [workers EXCEPT ![w].stage = "publish"]
    /\ UNCHANGED <<mainVars, torn, clash, waiting>>

\* Either thread's last step, once its level is compressed (and, by the fast
\* thread, sent).
Publish(w) ==
    /\ \/ workers[w].stage = "publish"
       \/ workers[w].stage = "compress" /\ workers[w].fast
    /\ Through(w, [clients EXCEPT ![workers[w].slot].mapsend = "success"])
    /\ Finish(w)
    /\ UNCHANGED <<mainVars, torn, clash, waiting>>

\* zlib could not be initialised or, in the fast thread, failed.
Fail(w) ==
    /\ workers[w].stage = "compress"
    /\ Through(w, [clients EXCEPT ![workers[w].slot].mapsend = "failure"])
    /\ Finish(w)
    /\ UNCHANGED <<mainVars, torn, clash, waiting>>

\* The fast thread finds its client disconnected (or reads freed memory).
FastAbort(w) ==
    /\ workers[w].stage = "compress"
    /\ workers[w].fast
    /\ Aimed(w) => ~clients[workers[w].slot].connected
    /\ Finish(w)
    /\ UNCHANGED <<clients, mainVars, torn, clash, waiting>>

\* The fast thread's own flush finds the connection reset: client_disconnect
\* runs in this thread.
FastHangup(w) ==
    /\ workers[w].stage = "compress"
    /\ workers[w].fast
    /\ workers[w].slot \in Connected(clients)
    /\ clients' \in Disconnect(clients, workers[w].slot)
    /\ UNCHANGED <<mainVars, workers, torn, clash, waiting>>

-----------------------------------------------------------------------------
Receive ==
    \/ EndOfInput
    \/ Hangup
    \/ RecvOther
    \/ \E u \in Names \cup {NoName}, old \in BOOLEAN, verified \in BOOLEAN :
           RecvIdentRefused(u, old, verified)
    \/ \E u \in Names \cup {NoName}, old \in BOOLEAN, cpe \in BOOLEAN :
           RecvIdentAccepted(u, old, cpe)
    \/ \E n \in ExtCounts : RecvExtInfo(n)
    \/ \E e \in ExtNames : RecvExtEntry(e)
    \/ \E supports \in SupportLevels : RecvSupportLevel(supports)

MainStep ==
    \/ NoConnection
    \/ \E c \in Conns : Accept(c)
    \/ SkipClient
    \/ Receive
    \/ NoLevel
    \/ SendChunks
    \/ FinishLevel
    \/ TickEnd
    \/ ReapKeep
    \/ ReapRemove
    \/ ReapEnd

WorkerStep(w) == HandOver(w) \/ Publish(w) \/ Fail(w) \/ FastAbort(w) \/ FastHangup(w)

Next == MainStep \/ \E w \in Workers : WorkerStep(w)

Spec == Init /\ [][Next]_vars

\* The main loop keeps running, a recv() holds finitely many packets, and the
\* threads are scheduled.
Fairness ==
    /\ WF_vars(MainStep)
    /\ WF_vars(EndOfInput)
    /\ \A w \in Workers : WF_vars(WorkerStep(w))

FairSpec == Spec /\ Fairness

-----------------------------------------------------------------------------
(* Properties                                                              *)

\* No two clients of the table hold the same name, not even when one of them
\* has been disconnected and waits for its removal: client.c compares a new
\* name with every name of the table before it is taken.
NamesUnique ==
    \A j, k \in DOMAIN clients :
        clients[j].name = clients[k].name /\ clients[j].name # NoName => j = k

\* settings.ini: max_players is the "maximum amount of players allowed on at a
\* time".  The limit is tested against the whole table at login only, yet the
\* clients that hold a name never exceed it.
Named == {clients[k].conn : k \in {j \in DOMAIN clients : clients[j].name # NoName}}

PlayersBounded == Cardinality(Named) <= MaxPlayers

\* Seen from outside the table is a roster of players: names come and go one at
\* a time, within the limit, none of them banned, although a name is only given
\* up when the removal loop gets to its client.
OnlineNames == {clients[k].name : k \in DOMAIN clients} \ {NoName}

R == INSTANCE Roster WITH
        online <- OnlineNames,
        Barred <- BannedUsers \cup (Names \ Whitelist)

RosterSpec == R!Spec

\* A client is spawned only by a level it asked for itself, as long as no
\* thread was left pointing at another client's slot.
SpawnOnRequest ==
    torn \/ \A k \in DOMAIN clients : clients[k].spawned => clients[k].levels > 0

\* The game of a spawned player shows every other one, unless send() did not
\* take a packet for it: the exchange of spawn packets when the later one spawns
\* suffices, whoever is reset in the middle of it, as long as player ids were
\* never shared.
SpawnedSeeEachOther ==
    \A j, k \in DOMAIN clients :
        (/\ j # k
         /\ clients[j].spawned /\ clients[j].connected /\ ~clients[j].missed
         /\ clients[k].spawned /\ clients[k].connected)
            => clients[k].idx \in clients[j].sees

SeeEachOtherUnlessClash == clash \/ SpawnedSeeEachOther

\* A client that was told to go does not join again: the server broadcasts
\* "joined the game" (client.c) for connected clients only.
DownNeverJoins ==
    [][pc = "send" /\ ~clients[i].connected /\ ~clients[i].spawned
          => ~clients'[i].spawned]_vars

\* The removal loop skips the client behind each one it removes.  Yet a pass
\* leaves nobody who was disconnected when it began in the slot he was in: he is
\* removed, or has moved up, so that he goes within as many passes as his slot
\* has a number, whoever arrives and whoever else is removed in the meantime.
PassMovesUp ==
    pc = "reap" =>
        \A k \in DOMAIN clients :
            k < i /\ waiting[clients[k].conn] # 0 => k < waiting[clients[k].conn]

\* Every disconnected client is removed from the table, also one that the removal
\* loop skips behind another one, pass after pass.
Reaped ==
    \A c \in Conns :
        (\E k \in DOMAIN clients : clients[k].conn = c /\ ~clients[k].connected)
            ~> (c \notin ConnsIn(clients))

\* A client that asked for its level once is spawned, unless it leaves, the
\* compression fails, or a thread was left pointing at another client's slot.
LevelArrives ==
    \A c \in Conns :
        (\E k \in DOMAIN clients : clients[k].conn = c /\ clients[k].levels = 1)
            ~> (\/ torn
                \/ c \notin ConnsIn(clients)
                \/ \E k \in DOMAIN clients :
                       /\ clients[k].conn = c
                       /\ \/ clients[k].spawned
                          \/ ~clients[k].connected
                          \/ clients[k].levels = 2
                          \/ clients[k].mapsend = "failure")
=============================================================================
