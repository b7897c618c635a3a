---------------------------- MODULE ServerProofs ----------------------------
(***************************************************************************)
(* Proofs about Server, for any set of connections, names and threads.     *)
(***************************************************************************)
EXTENDS Server, SequenceTheorems, FiniteSetTheorems, TLAPS

\* Two tables with the same clients in the same slots, under the same names.
SameClients(t, u) ==
    /\ Len(u) = Len(t)
    /\ \A k \in 1 .. Len(t) : u[k].conn = t[k].conn /\ u[k].name = t[k].name

-----------------------------------------------------------------------------
(* The operators on tables.                                                *)

\* Taking clients down changes no name and moves no client.
LEMMA DownType ==
    ASSUME NEW t \in Seq(Client), NEW D
    PROVE  Down(t, D) \in Seq(Client) /\ SameClients(t, Down(t, D))
<1> DEFINE u == Down(t, D)
<1>1. DOMAIN t = 1 .. Len(t) /\ Len(t) \in Nat
  OBVIOUS
<1>2. ASSUME NEW k \in 1 .. Len(t)
      PROVE  u[k] \in Client /\ u[k].conn = t[k].conn /\ u[k].name = t[k].name
  <2>1. t[k] \in Client
    OBVIOUS
  <2>2. CASE k \in D
    BY <2>1, <2>2, <1>1 DEF Down, Client
  <2>3. CASE k \notin D
    BY <2>1, <2>3, <1>1 DEF Down, Client
  <2> QED BY <2>2, <2>3
<1>3. u = [k \in 1 .. Len(t) |-> u[k]]
  BY <1>1 DEF Down
<1>4. u \in Seq(Client) /\ Len(u) = Len(t)
  <2> HIDE DEF u
  <2> QED BY <1>1, <1>2, <1>3
<1> QED BY <1>2, <1>4 DEF SameClients

\* Nor does a packet that is lost.
LEMMA MissingType ==
    ASSUME NEW t \in Seq(Client), NEW L
    PROVE  Missing(t, L) \in Seq(Client) /\ SameClients(t, Missing(t, L))
<1> DEFINE u == Missing(t, L)
<1>1. DOMAIN t = 1 .. Len(t) /\ Len(t) \in Nat
  OBVIOUS
<1>2. ASSUME NEW k \in 1 .. Len(t)
      PROVE  u[k] \in Client /\ u[k].conn = t[k].conn /\ u[k].name = t[k].name
  <2>1. t[k] \in Client
    OBVIOUS
  <2>2. CASE k \in L
    BY <2>1, <2>2, <1>1 DEF Missing, Client
  <2>3. CASE k \notin L
    BY <2>1, <2>3, <1>1 DEF Missing
  <2> QED BY <2>2, <2>3
<1>3. u = [k \in 1 .. Len(t) |-> u[k]]
  BY <1>1 DEF Missing
<1>4. u \in Seq(Client) /\ Len(u) = Len(t)
  <2> HIDE DEF u
  <2> QED BY <1>1, <1>2, <1>3
<1> QED BY <1>2, <1>4 DEF SameClients

\* Two steps that keep the clients in their slots keep them together.
LEMMA SameTrans ==
    ASSUME NEW t, NEW u, NEW v, SameClients(t, u), SameClients(u, v)
    PROVE  SameClients(t, v)
BY DEF SameClients

\* So whatever connections a flush or a disconnection finds reset and whatever
\* is lost, the table keeps its clients and their names.
LEMMA DisconnectType ==
    ASSUME NEW t \in Seq(Client), NEW k \in 1 .. Len(t)
    PROVE  /\ \A u \in Disconnect(t, k) : u \in Seq(Client) /\ SameClients(t, u)
           /\ \A u \in FlushTo(t, k) : u \in Seq(Client) /\ SameClients(t, u)
           /\ \A u \in FlushAll(t) : u \in Seq(Client) /\ SameClients(t, u)
<1>1. SameClients(t, t)
  BY DEF SameClients
<1>2. ASSUME NEW D, NEW F, NEW u \in Flushed(t, D, F)
      PROVE  u \in Seq(Client) /\ SameClients(t, u)
  <2>1. PICK L : u = Missing(Down(t, D \cup F), L)
    BY DEF Flushed
  <2>2. Down(t, D \cup F) \in Seq(Client) /\ SameClients(t, Down(t, D \cup F))
    BY DownType
  <2> QED BY <2>1, <2>2, MissingType, SameTrans
<1>3. \A u \in Disconnect(t, k) : u \in Seq(Client) /\ SameClients(t, u)
  BY <1>2, DownType DEF Disconnect
<1>4. \A u \in FlushTo(t, k) : u \in Seq(Client) /\ SameClients(t, u)
  BY <1>1, <1>3, MissingType DEF FlushTo
<1>5. \A u \in FlushAll(t) : u \in Seq(Client) /\ SameClients(t, u)
  BY <1>2 DEF FlushAll
<1> QED BY <1>3, <1>4, <1>5

\* The exchange of spawn packets changes what the games show and nothing else.
LEMMA AnnounceType ==
    ASSUME NEW t \in Seq(Client), NEW i0 \in 1 .. Len(t)
    PROVE  Announce(t, i0) \in Seq(Client) /\ SameClients(t, Announce(t, i0))
<1> DEFINE u == Announce(t, i0)
<1>1. DOMAIN t = 1 .. Len(t) /\ Len(t) \in Nat /\ \A k \in 1 .. Len(t) : t[k] \in Client
  OBVIOUS
<1>2. \A k \in 1 .. Len(t) :
          {t[j].idx : j \in IF k = i0 THEN DOMAIN t \ {i0} ELSE {i0}} \subseteq Nat
  BY <1>1, SMTT(30) DEF Client
<1>3. ASSUME NEW k \in 1 .. Len(t)
      PROVE  u[k] \in Client /\ u[k].conn = t[k].conn /\ u[k].name = t[k].name
  <2> DEFINE ids == {t[j].idx : j \in IF k = i0 THEN DOMAIN t \ {i0} ELSE {i0}}
  <2>1. ids \subseteq Nat
    BY <1>2
  <2>2. u[k] = IF ~t[k].connected \/ t[k].missed THEN t[k]
               ELSE [t[k] EXCEPT !.sees = @ \cup ids]
    BY <1>1 DEF Announce
  <2> HIDE DEF ids, u
  <2>3. t[k] \in Client
    BY <1>1
  <2>4. [t[k] EXCEPT !.sees = @ \cup ids] \in Client
    BY <2>1, <2>3 DEF Client
  <2>5. CASE ~t[k].connected \/ t[k].missed
    BY <2>2, <2>3, <2>5
  <2>6. CASE ~(~t[k].connected \/ t[k].missed)
    BY <2>2, <2>3, <2>4, <2>6 DEF Client
  <2> QED BY <2>5, <2>6
<1>4. u = [k \in 1 .. Len(t) |-> u[k]]
  BY <1>1 DEF Announce
<1>5. u \in Seq(Client) /\ Len(u) = Len(t)
  <2> HIDE DEF u
  <2> QED BY <1>1, <1>3, <1>4
<1> QED BY <1>3, <1>5 DEF SameClients

\* Removing a slot moves the clients behind it up by one.
LEMMA RemoveAtType ==
    ASSUME NEW t \in Seq(Client), NEW n \in 1 .. Len(t)
    PROVE  /\ RemoveAt(t, n) \in Seq(Client)
           /\ Len(RemoveAt(t, n)) = Len(t) - 1
           /\ \A k \in 1 .. Len(t) - 1 :
                  RemoveAt(t, n)[k] = t[IF k < n THEN k ELSE k + 1]
<1> DEFINE a == SubSeq(t, 1, n - 1)
           b == SubSeq(t, n + 1, Len(t))
<1>1. a \in Seq(Client) /\ Len(a) = n - 1 /\ \A k \in 1 .. n - 1 : a[k] = t[k]
  BY SubSeqProperties
<1>2. /\ b \in Seq(Client)
      /\ Len(b) = Len(t) - n
      /\ \A k \in 1 .. Len(t) - n : b[k] = t[n + k]
  BY SubSeqProperties
<1>3. RemoveAt(t, n) = a \o b
  BY DEF RemoveAt
<1> HIDE DEF a, b
<1>4. n \in Int /\ Len(t) \in Nat /\ 1 <= n /\ n <= Len(t)
  OBVIOUS
<1>5. a \o b \in Seq(Client) /\ Len(a \o b) = Len(a) + Len(b)
  BY <1>1, <1>2, ConcatProperties
<1>6. \A k \in 1 .. Len(a) + Len(b) :
          (a \o b)[k] = IF k <= Len(a) THEN a[k] ELSE b[k - Len(a)]
  BY <1>1, <1>2, ConcatProperties
<1>7. Len(a \o b) = Len(t) - 1
  BY <1>1, <1>2, <1>4, <1>5
<1>8. ASSUME NEW k \in 1 .. Len(t) - 1
      PROVE  (a \o b)[k] = t[IF k < n THEN k ELSE k + 1]
  <2>1. (a \o b)[k] = IF k <= n - 1 THEN a[k] ELSE b[k - (n - 1)]
    BY <1>1, <1>2, <1>4, <1>6
  <2>2. CASE k < n
    BY <1>1, <1>4, <2>1, <2>2
  <2>3. CASE ~(k < n)
    <3>1. k - (n - 1) \in 1 .. Len(t) - n /\ n + (k - (n - 1)) = k + 1
      BY <1>4, <2>3
    <3>2. b[k - (n - 1)] = t[k + 1]
      BY <1>2, <3>1
    <3> QED BY <1>4, <2>1, <2>3, <3>2
  <2> QED BY <2>2, <2>3
<1> QED BY <1>3, <1>5, <1>7, <1>8

\* An update of one client that leaves its connection and name alone.
LEMMA UpdateType ==
    ASSUME NEW t \in Seq(Client), NEW k \in 1 .. Len(t), NEW r \in Client,
           r.conn = t[k].conn, r.name = t[k].name
    PROVE  [t EXCEPT ![k] = r] \in Seq(Client) /\ SameClients(t, [t EXCEPT ![k] = r])
BY ExceptSeq DEF SameClients

\* Filling an extension slot keeps the table well formed.
LEMMA AddExtensionType ==
    ASSUME NEW t \in Seq(Client), NEW k \in 1 .. Len(t),
           NEW e \in Extensions \cup {NoExtension}
    PROVE  AddExtension(t, k, e) \in Seq(Client) /\ SameClients(t, AddExtension(t, k, e))
<1>1. t[k] \in Client
  OBVIOUS
<1>2. CASE t[k].room = 0 \/ e = NoExtension
  BY <1>2 DEF AddExtension, SameClients
<1>3. CASE ~(t[k].room = 0 \/ e = NoExtension)
  <2> DEFINE nr == t[k].room - 1
             ne == t[k].exts \cup {e}
             r == [t[k] EXCEPT !.room = nr, !.exts = ne]
  <2>1. nr \in Nat /\ ne \in SUBSET Extensions
    BY <1>1, <1>3 DEF Client
  <2>2. AddExtension(t, k, e) = [t EXCEPT ![k] = r]
    BY <1>3 DEF AddExtension
  <2> HIDE DEF nr, ne
  <2>3. r \in Client /\ r.conn = t[k].conn /\ r.name = t[k].name
    BY <1>1, <2>1, ZenonT(60) DEF Client
  <2> HIDE DEF r
  <2> QED BY <2>2, <2>3, UpdateType
<1> QED BY <1>2, <1>3

\* Nor does a group of chunks that has been sent, which leaves at least none behind.
LEMMA ChunksType ==
    ASSUME NEW t \in Seq(Client), NEW k \in 1 .. Len(t), ~LastChunks(t[k]),
           NEW n, n = t[k].mapgz - ChunksPerTick
    PROVE  [t EXCEPT ![k].mapgz = n] \in Seq(Client) /\ SameClients(t, [t EXCEPT ![k].mapgz = n])
<1> DEFINE r == [t[k] EXCEPT !.mapgz = n]
<1>1. t[k] \in Client
  OBVIOUS
<1>2. t[k].mapgz \in 0 .. Chunks
  BY <1>1 DEF Client
<1>3. n \in 0 .. Chunks
  BY <1>2, ChunksAssumption DEF LastChunks, ChunksPerTick
<1>4. r \in Client /\ r.conn = t[k].conn /\ r.name = t[k].name
  BY <1>1, <1>3, ZenonT(60) DEF Client
<1>5. [t EXCEPT ![k].mapgz = n] = [t EXCEPT ![k] = r]
  OBVIOUS
<1> HIDE DEF r
<1> QED BY <1>4, <1>5, UpdateType

-----------------------------------------------------------------------------
(* The kinds of step.  Every step of the specification leaves the clients  *)
(* of the table and their names alone, or adds a client, names one, or     *)
(* removes one.                                                            *)

Arrival ==
    \E c \in Conns : SameClients(Append(clients, Fresh(c, Len(clients))), clients')

Naming ==
    \E u \in Names \cup {NoName}, k \in 1 .. Len(clients) :
        /\ ~Refused(u, TRUE)
        /\ SameClients([clients EXCEPT ![k].name = u], clients')

Removal == \E k \in 1 .. Len(clients) : clients' = RemoveAt(clients, k)

Kind == SameClients(clients, clients') \/ Arrival \/ Naming \/ Removal

WorkersType == workers \in [Workers -> Running \cup {Idle}]

\* A table that moves leaves the threads well formed.
LEMMA MoveType ==
    ASSUME WorkersType, MayMove
    PROVE  WorkersType'
<1>1. ASSUME NEW w \in Workers
      PROVE  [workers[w] EXCEPT !.slot = Dangling] \in Running \cup {Idle}
  <2>1. \A r \in Running : [r EXCEPT !.slot = Dangling] \in Running
    BY DEF Running, Dangling
  <2>2. [Idle EXCEPT !.slot = Dangling] = Idle
    BY DEF Idle, Dangling
  <2> QED BY <2>1, <2>2 DEF WorkersType
<1>2. AllDangling \in [Workers -> Running \cup {Idle}]
  BY <1>1 DEF AllDangling
<1> QED BY <1>2 DEF MayMove, WorkersType

\* Asking for a level keeps the clients.
LEMMA StartLevelType ==
    ASSUME NEW t \in Seq(Client), i \in 1 .. Len(t), WorkersType, StartLevel(t)
    PROVE  clients' \in Seq(Client) /\ SameClients(t, clients') /\ WorkersType'
<1> DEFINE u == CountLevel(t, i)
<1>1. t[i] \in Client /\ Len(t) \in Nat /\ i \in Nat
  OBVIOUS
<1>2. PICK n \in 0 .. 2 : u = [t EXCEPT ![i].levels = n]
  <2>1. t[i].levels \in 0 .. 2
    BY <1>1 DEF Client
  <2>2. (IF t[i].levels = 2 THEN 2 ELSE t[i].levels + 1) \in 0 .. 2
    BY <2>1
  <2> QED BY <2>2 DEF CountLevel
<1>3. u \in Seq(Client) /\ SameClients(t, u)
  <2>1. [t[i] EXCEPT !.levels = n] \in Client
    BY <1>1 DEF Client
  <2>2. /\ [t[i] EXCEPT !.levels = n].conn = t[i].conn
        /\ [t[i] EXCEPT !.levels = n].name = t[i].name
    BY <1>1 DEF Client
  <2>3. u = [t EXCEPT ![i] = [t[i] EXCEPT !.levels = n]]
    BY <1>2
  <2> HIDE DEF u
  <2> DEFINE r == [t[i] EXCEPT !.levels = n]
  <2>4. r \in Client /\ r.conn = t[i].conn /\ r.name = t[i].name /\ u = [t EXCEPT ![i] = r]
    BY <2>1, <2>2, <2>3
  <2> HIDE DEF r
  <2> QED BY <2>4, UpdateType
<1>4. clients' \in FlushTo(u, i)
  BY DEF StartLevel
<1>5. i \in 1 .. Len(u)
  BY <1>3 DEF SameClients
<1>6. clients' \in Seq(Client) /\ SameClients(u, clients')
  <2> HIDE DEF u
  <2> QED BY <1>3, <1>4, <1>5, DisconnectType
<1>7. SameClients(t, clients')
  BY <1>3, <1>6, SameTrans
<1>8. WorkersType'
  <2>1. FastLevel(t, i) \in BOOLEAN
    BY DEF FastLevel
  <2>2. t[i].conn \in Conns
    BY <1>1 DEF Client
  <2> QED BY <1>1, <2>1, <2>2 DEF StartLevel, WorkersType, Running
<1> QED BY <1>6, <1>7, <1>8

\* Logging in keeps the clients, whether or not it asks for the level.
LEMMA LoginType ==
    ASSUME NEW t \in Seq(Client), i \in 1 .. Len(t), WorkersType, Login(t)
    PROVE  clients' \in Seq(Client) /\ SameClients(t, clients') /\ WorkersType'
<1>1. CASE LoginSendsLevel(t, i)
  BY <1>1, StartLevelType DEF Login
<1>2. CASE ~LoginSendsLevel(t, i)
  BY <1>2, DisconnectType DEF Login, WorkersType
<1> QED BY <1>1, <1>2

\* Naming a client changes its name and nothing else.
LEMMA NameType ==
    ASSUME NEW t \in Seq(Client), NEW k \in 1 .. Len(t), NEW u \in Names \cup {NoName}
    PROVE  /\ [t EXCEPT ![k].name = u] \in Seq(Client)
           /\ Len([t EXCEPT ![k].name = u]) = Len(t)
           /\ \A j \in 1 .. Len(t) :
                 /\ [t EXCEPT ![k].name = u][j].conn = t[j].conn
                 /\ [t EXCEPT ![k].name = u][j].name = IF j = k THEN u ELSE t[j].name
<1> DEFINE r == [t[k] EXCEPT !.name = u]
<1>1. t[k] \in Client
  OBVIOUS
<1>2. r \in Client /\ r.conn = t[k].conn /\ r.name = u
  BY <1>1 DEF Client
<1>3. [t EXCEPT ![k].name = u] = [t EXCEPT ![k] = r]
  OBVIOUS
<1> HIDE DEF r
<1> QED BY <1>2, <1>3, ExceptSeq

\* Every step of the server keeps the types and is of one of the four kinds.
LEMMA StepType ==
    ASSUME TypeOK, [Next]_vars
    PROVE  TypeOK' /\ Kind
<1> USE DEF TypeOK
<1> DEFINE Kept == clients' \in Seq(Client) /\ SameClients(clients, clients')
<1>0. /\ Len(clients) \in Nat
      /\ DOMAIN clients = 1 .. Len(clients)
      /\ \A k \in 1 .. Len(clients) : clients[k] \in Client
      /\ SameClients(clients, clients)
      /\ WorkersType
  BY DEF SameClients, WorkersType
<1>0a. Receiving => i \in 1 .. Len(clients)
  BY <1>0 DEF Receiving, Connected
<1>0b. clients \in Seq(Client)
  BY DEF TypeOK
<1>1. CASE NoConnection
  BY <1>0, <1>1 DEF NoConnection, Kind
<1>2. ASSUME NEW c \in Conns, Accept(c)
      PROVE  TypeOK' /\ Kind
  <2> DEFINE joined == Append(clients, Fresh(c, Len(clients)))
  <2>1. Fresh(c, Len(clients)) \in Client
    BY <1>0, ChunksAssumption DEF Fresh, Client
  <2>2. joined \in Seq(Client)
    BY <2>1, AppendProperties
  <2>3. clients' \in Seq(Client) /\ SameClients(joined, clients')
    <3>1. clients' = joined \/ clients' = Down(joined, {Len(joined)})
      BY <1>2 DEF Accept
    <3> HIDE DEF joined
    <3> QED BY <2>2, <3>1, DownType DEF SameClients
  <2>4. Arrival
    BY <2>3 DEF Arrival
  <2>5. WorkersType'
    BY <1>0, <1>2, MoveType DEF Accept
  <2>6. /\ pc' = "tick" /\ i' = 1 /\ removed' = removed /\ torn' \in BOOLEAN /\ clash' \in BOOLEAN
        /\ waiting' = waiting
    BY <1>2 DEF Accept, NoteTorn, Misdirected
  <2> QED BY <2>3, <2>4, <2>5, <2>6 DEF Kind, WorkersType
<1>3. CASE SkipClient
  BY <1>0, <1>3 DEF SkipClient, Kind
<1>4. CASE EndOfInput
  BY <1>0, <1>0a, <1>4 DEF EndOfInput, Kind
<1>5. CASE Hangup
  <2>1. Kept
    BY <1>0a, <1>5, DisconnectType DEF Hangup
  <2> QED BY <1>0a, <1>5, <2>1 DEF Hangup, HandlerReturns, Kind, SameClients
<1>6. CASE RecvOther
  <2>1. Kept
    BY <1>0a, <1>6, DisconnectType DEF RecvOther
  <2> QED BY <1>0a, <1>6, <2>1 DEF RecvOther, Kind, SameClients
<1>7. ASSUME NEW u \in Names \cup {NoName}, NEW old \in BOOLEAN, NEW verified \in BOOLEAN,
             RecvIdentRefused(u, old, verified)
      PROVE  TypeOK' /\ Kind
  <2>1. PICK t \in AfterVersion(old) : clients' \in Disconnect(t, i)
    BY <1>7 DEF RecvIdentRefused
  <2>2. i \in 1 .. Len(clients)
    BY <1>0a, <1>7 DEF RecvIdentRefused
  <2>3. t \in Seq(Client) /\ SameClients(clients, t)
    BY <1>0, <2>1, <2>2, DisconnectType DEF AfterVersion
  <2>4. Kept
    BY <2>1, <2>2, <2>3, DisconnectType, SameTrans DEF SameClients
  <2> QED BY <1>7, <2>2, <2>4 DEF RecvIdentRefused, HandlerReturns, Kind, SameClients
<1>8. ASSUME NEW u \in Names \cup {NoName}, NEW old \in BOOLEAN, NEW cpe \in BOOLEAN,
             RecvIdentAccepted(u, old, cpe)
      PROVE  TypeOK' /\ Kind
  <2>1. PICK t \in AfterVersion(old) :
            LET named == [t EXCEPT ![i].name = u]
            IN  IF cpe
                THEN clients' \in FlushTo(named, i) /\ UNCHANGED workers
                ELSE Login(named)
    BY <1>8 DEF RecvIdentAccepted
  <2>2. i \in 1 .. Len(clients)
    BY <1>0a, <1>8 DEF RecvIdentAccepted
  <2>3. t \in Seq(Client) /\ SameClients(clients, t)
    BY <1>0, <2>1, <2>2, DisconnectType DEF AfterVersion
  <2> DEFINE named == [t EXCEPT ![i].name = u]
             plain == [clients EXCEPT ![i].name = u]
  <2>4. named \in Seq(Client) /\ Len(named) = Len(clients)
    <3>1. i \in 1 .. Len(t) /\ Len(t) = Len(clients)
      BY <2>2, <2>3 DEF SameClients
    <3> QED BY <2>3, <3>1, NameType, ZenonT(60)
  <2>5. SameClients(plain, named)
    BY <2>2, <2>3, NameType DEF SameClients
  <2>6. clients' \in Seq(Client) /\ SameClients(named, clients') /\ WorkersType'
    <3>1. IF cpe THEN clients' \in FlushTo(named, i) /\ UNCHANGED workers ELSE Login(named)
      BY <2>1
    <3>2. i \in 1 .. Len(named)
      BY <2>2, <2>4
    <3> HIDE DEF named
    <3>3. CASE cpe
      BY <1>0, <2>4, <3>1, <3>2, <3>3, DisconnectType DEF WorkersType
    <3>4. CASE ~cpe
      BY <1>0, <2>4, <3>1, <3>2, <3>4, LoginType
    <3> QED BY <3>3, <3>4
  <2>7. SameClients(plain, clients')
    <3> HIDE DEF named, plain
    <3> QED BY <2>5, <2>6, SameTrans
  <2>8. Naming
    BY <1>8, <2>2, <2>7 DEF Naming, RecvIdentAccepted
  <2>9. Len(clients') = Len(clients)
    BY <2>4, <2>6 DEF SameClients
  <2> QED BY <1>8, <2>2, <2>6, <2>8, <2>9 DEF RecvIdentAccepted, Kind, WorkersType
<1>9. ASSUME NEW n \in ExtCounts, RecvExtInfo(n)
      PROVE  TypeOK' /\ Kind
  <2> DEFINE r == [clients[i] EXCEPT !.room = n, !.exts = {}]
  <2>1. i \in 1 .. Len(clients) /\ n \in Nat
    BY <1>0a, <1>9, CPEAssumption DEF RecvExtInfo
  <2>2. r \in Client /\ r.conn = clients[i].conn /\ r.name = clients[i].name
    BY <1>0, <2>1, ZenonT(60) DEF Client
  <2>3. clients' = [clients EXCEPT ![i] = r]
    BY <1>9, <2>1 DEF RecvExtInfo
  <2>4. Kept
    <3> HIDE DEF r
    <3> QED BY <2>1, <2>2, <2>3, UpdateType
  <2> QED BY <1>9, <2>1, <2>4, SMTT(30) DEF RecvExtInfo, Kind, SameClients
<1>10. ASSUME NEW e \in ExtNames, RecvExtEntry(e)
       PROVE  TypeOK' /\ Kind
  <2> DEFINE t == AddExtension(clients, i, e)
  <2>1. i \in 1 .. Len(clients) /\ e \in Extensions \cup {NoExtension}
    BY <1>0a, <1>10, CPEAssumption DEF RecvExtEntry
  <2>2. t \in Seq(Client) /\ SameClients(clients, t)
    BY <1>0b, <2>1, AddExtensionType
  <2>3. i \in 1 .. Len(t)
    BY <2>1, <2>2 DEF SameClients
  <2>4. Kept /\ WorkersType'
    <3>1. IF clients[i].room = 1 THEN Login(t) ELSE clients' = t /\ UNCHANGED workers
      BY <1>10 DEF RecvExtEntry
    <3> HIDE DEF t
    <3> QED BY <1>0, <2>2, <2>3, <3>1, LoginType, SameTrans DEF WorkersType
  <2> QED BY <1>10, <2>1, <2>4 DEF RecvExtEntry, Kind, SameClients, WorkersType
<1>11. ASSUME NEW supports \in SupportLevels, RecvSupportLevel(supports)
       PROVE  TypeOK' /\ Kind
  <2> DEFINE r == [clients[i] EXCEPT !.custom = supports]
             t == [clients EXCEPT ![i].custom = supports]
  <2>1. i \in 1 .. Len(clients) /\ supports \in BOOLEAN
    BY <1>0a, <1>11, CPEAssumption DEF RecvSupportLevel
  <2>2. r \in Client /\ r.conn = clients[i].conn /\ r.name = clients[i].name
    BY <1>0, <2>1, ZenonT(60) DEF Client
  <2>3. t = [clients EXCEPT ![i] = r]
    BY <2>1
  <2>4. t \in Seq(Client) /\ SameClients(clients, t)
    <3> HIDE DEF r, t
    <3> QED BY <2>1, <2>2, <2>3, UpdateType
  <2>5. StartLevel(t) /\ i \in 1 .. Len(t)
    BY <1>11, <2>1, <2>4 DEF RecvSupportLevel, SameClients
  <2>6. Kept /\ WorkersType'
    <3> HIDE DEF t
    <3> QED BY <1>0, <2>4, <2>5, StartLevelType, SameTrans
  <2> QED BY <1>11, <2>1, <2>6 DEF RecvSupportLevel, Kind, SameClients, WorkersType
<1>12. CASE NoLevel
  <2>1. Kept
    BY <1>0, <1>12, DisconnectType DEF NoLevel
  <2> QED BY <1>12, <2>1 DEF NoLevel, NextClient, Kind, SameClients
<1>13. CASE SendChunks
  <2> DEFINE n == clients[i].mapgz - ChunksPerTick
             t == [clients EXCEPT ![i].mapgz = n]
  <2>1. i \in 1 .. Len(clients) /\ clients' \in FlushTo(t, i)
    BY <1>0, <1>13 DEF SendChunks
  <2>5. t \in Seq(Client) /\ SameClients(clients, t)
    <3>1. ~LastChunks(clients[i]) /\ clients \in Seq(Client)
      BY <1>0b, <1>13 DEF SendChunks
    <3>2. n = clients[i].mapgz - ChunksPerTick
      OBVIOUS
    <3> HIDE DEF n
    <3> QED BY <2>1, <3>1, <3>2, ChunksType
  <2>6. Kept
    <3> HIDE DEF t
    <3>1. i \in 1 .. Len(t)
      BY <2>1, <2>5 DEF SameClients
    <3> QED BY <2>1, <2>5, <3>1, DisconnectType, SameTrans
  <2> QED BY <1>13, <2>1, <2>6 DEF SendChunks, NextClient, Kind, SameClients
<1>14. CASE FinishLevel
  <2> DEFINE done == [clients EXCEPT ![i].mapsend = "sent", ![i].mapgz = 0]
             rd == [clients[i] EXCEPT !.mapsend = "sent", !.mapgz = 0]
  <2>1. i \in 1 .. Len(clients)
    BY <1>0, <1>14 DEF FinishLevel
  <2>2. rd \in Client /\ rd.conn = clients[i].conn /\ rd.name = clients[i].name
    <3>1. clients[i] \in Client /\ 0 \in 0 .. Chunks
      BY <1>0, <2>1, ChunksAssumption
    <3> HIDE DEF done
    <3> QED BY <3>1 DEF Client
  <2>3. done = [clients EXCEPT ![i] = rd]
    BY <2>1
  <2>4. done \in Seq(Client) /\ SameClients(clients, done)
    <3> HIDE DEF rd, done
    <3> QED BY <2>1, <2>2, <2>3, UpdateType
  <2>5. PICK sent \in FlushAll(done) : \E told \in FlushAll(Announce(sent, i)) :
            clients' \in FlushAll([told EXCEPT ![i].spawned = TRUE])
    BY <1>14 DEF FinishLevel
  <2>6. PICK told \in FlushAll(Announce(sent, i)) :
            clients' \in FlushAll([told EXCEPT ![i].spawned = TRUE])
    BY <2>5
  <2> HIDE DEF done
  <2>7. sent \in Seq(Client) /\ SameClients(clients, sent) /\ i \in 1 .. Len(sent)
    <3>1. i \in 1 .. Len(done)
      BY <2>1, <2>4 DEF SameClients
    <3>2. sent \in Seq(Client) /\ SameClients(done, sent)
      BY <2>4, <2>5, <3>1, DisconnectType
    <3> QED BY <2>1, <2>4, <3>2, SameTrans DEF SameClients
  <2>8. /\ Announce(sent, i) \in Seq(Client)
        /\ SameClients(sent, Announce(sent, i))
        /\ i \in 1 .. Len(Announce(sent, i))
    BY <2>7, AnnounceType DEF SameClients
  <2>9. told \in Seq(Client) /\ SameClients(clients, told) /\ i \in 1 .. Len(told)
    <3>1. told \in Seq(Client) /\ SameClients(Announce(sent, i), told)
      BY <2>6, <2>8, DisconnectType
    <3> QED BY <2>1, <2>7, <2>8, <3>1, SameTrans DEF SameClients
  <2> DEFINE here == [told EXCEPT ![i].spawned = TRUE]
             rh == [told[i] EXCEPT !.spawned = TRUE]
  <2>10. rh \in Client /\ rh.conn = told[i].conn /\ rh.name = told[i].name
    <3>1. told[i] \in Client
      BY <2>9
    <3> QED BY <3>1 DEF Client
  <2>11. here = [told EXCEPT ![i] = rh]
    BY <2>9
  <2>12. clients' \in FlushAll(here)
    BY <2>6
  <2> HIDE DEF here, rh
  <2>13. here \in Seq(Client) /\ SameClients(told, here) /\ i \in 1 .. Len(here)
    BY <2>9, <2>10, <2>11, UpdateType DEF SameClients
  <2>14. clients' \in Seq(Client) /\ SameClients(here, clients')
    BY <2>12, <2>13, DisconnectType
  <2>15. Kept
    BY <2>9, <2>13, <2>14, SameTrans
  <2> QED BY <1>14, <2>1, <2>15 DEF FinishLevel, NextClient, Kind, SameClients
<1>15. CASE TickEnd
  <2>1. \A c \in Conns : SlotDown(c) \in Nat
    BY <1>0 DEF SlotDown
  <2>2. waiting' \in [Conns -> Nat]
    BY <1>15, <2>1 DEF TickEnd
  <2> QED BY <1>0, <1>15, <2>2 DEF TickEnd, Kind
<1>16. CASE ReapKeep
  BY <1>0, <1>16 DEF ReapKeep, Kind
<1>17. CASE ReapRemove
  <2>1. i \in 1 .. Len(clients) /\ clients' = RemoveAt(clients, i)
    BY <1>0, <1>17 DEF ReapRemove, Gone
  <2>2. clients' \in Seq(Client)
    BY <2>1, RemoveAtType
  <2>3. Removal
    BY <2>1 DEF Removal
  <2>4. torn' \in BOOLEAN
    BY <1>17 DEF ReapRemove, NoteTorn, Misdirected
  <2> QED BY <1>17, <2>1, <2>2, <2>3, <2>4 DEF ReapRemove, Kind
<1>18. CASE ReapEnd
  <2>1. WorkersType'
    BY <1>0, <1>18, MoveType DEF ReapEnd, WorkersType
  <2>2. torn' \in BOOLEAN
    BY <1>18 DEF ReapEnd, NoteTorn, Misdirected
  <2>3. Kept /\ pc' = "accept" /\ i' = 1 /\ removed' \in BOOLEAN /\ clash' \in BOOLEAN
    BY <1>0, <1>18 DEF ReapEnd
  <2>4. waiting' \in [Conns -> Nat]
    BY <1>18 DEF ReapEnd
  <2> QED BY <2>1, <2>2, <2>3, <2>4 DEF Kind, WorkersType
<1>19. ASSUME NEW w \in Workers, NEW r \in Client, workers[w].slot \in DOMAIN clients,
              r.conn = clients[workers[w].slot].conn, r.name = clients[workers[w].slot].name
       PROVE  /\ [clients EXCEPT ![workers[w].slot] = r] \in Seq(Client)
              /\ SameClients(clients, [clients EXCEPT ![workers[w].slot] = r])
  BY <1>0, <1>19, UpdateType
<1>20. ASSUME NEW w \in Workers, NEW t, Through(w, t),
              Aimed(w) => t \in Seq(Client) /\ SameClients(clients, t)
       PROVE  Kept
  BY <1>0, <1>20 DEF Through
<1>21. ASSUME NEW w \in Workers, Finish(w)
       PROVE  WorkersType'
  BY <1>0, <1>21 DEF Finish, WorkersType
<1>22. ASSUME NEW w \in Workers, HandOver(w)
       PROVE  TypeOK' /\ Kind
  <2> DEFINE s == workers[w].slot
             r == [clients[s] EXCEPT !.mapgz = Chunks]
             t == [clients EXCEPT ![s].mapgz = Chunks]
  <2>1. ASSUME s \in DOMAIN clients
        PROVE  t \in Seq(Client) /\ SameClients(clients, t)
    <3>1. clients[s] \in Client /\ Chunks \in 0 .. Chunks
      BY <1>0, <2>1, ChunksAssumption
    <3>2. r \in Client /\ r.conn = clients[s].conn /\ r.name = clients[s].name
      <4> HIDE DEF s
      <4> QED BY <3>1 DEF Client
    <3>3. t = [clients EXCEPT ![s] = r]
      BY <2>1
    <3> HIDE DEF r, t
    <3> QED BY <1>19, <2>1, <3>2, <3>3
  <2>2. Kept
    BY <1>20, <1>22, <2>1 DEF HandOver, Aimed
  <2>3. [workers[w] EXCEPT !.stage = "publish"] \in Running
    BY <1>0, <1>22 DEF HandOver, WorkersType, Running, Idle
  <2>4. WorkersType'
    BY <1>0, <1>22, <2>3 DEF HandOver, WorkersType
  <2> QED BY <1>0, <1>22, <2>2, <2>4 DEF HandOver, mainVars, Kind, WorkersType, SameClients
<1>23. ASSUME NEW w \in Workers, NEW state \in {"success", "failure"},
              Through(w, [clients EXCEPT ![workers[w].slot].mapsend = state])
       PROVE  Kept
  <2> DEFINE s == workers[w].slot
             r == [clients[s] EXCEPT !.mapsend = state]
             t == [clients EXCEPT ![s].mapsend = state]
  <2>1. ASSUME s \in DOMAIN clients
        PROVE  t \in Seq(Client) /\ SameClients(clients, t)
    <3>1. clients[s] \in Client
      BY <1>0, <2>1
    <3>2. r \in Client /\ r.conn = clients[s].conn /\ r.name = clients[s].name
      <4> HIDE DEF s
      <4> QED BY <3>1, <1>23 DEF Client
    <3>3. t = [clients EXCEPT ![s] = r]
      BY <2>1
    <3> HIDE DEF r, t
    <3> QED BY <1>19, <2>1, <3>2, <3>3
  <2> QED BY <1>20, <1>23, <2>1 DEF Aimed
<1>24. ASSUME NEW w \in Workers, Publish(w) \/ Fail(w)
       PROVE  TypeOK' /\ Kind
  <2>1. Kept
    BY <1>23, <1>24 DEF Publish, Fail
  <2>2. WorkersType'
    BY <1>21, <1>24 DEF Publish, Fail
  <2>3. UNCHANGED <<mainVars, torn, clash, waiting>>
    BY <1>24 DEF Publish, Fail
  <2> QED BY <1>0, <2>1, <2>2, <2>3 DEF mainVars, Kind, WorkersType, SameClients
<1>25. ASSUME NEW w \in Workers, FastAbort(w)
       PROVE  TypeOK' /\ Kind
  <2>1. WorkersType'
    BY <1>21, <1>25 DEF FastAbort
  <2> QED BY <1>0, <1>25, <2>1 DEF FastAbort, mainVars, Kind, WorkersType
<1>26. ASSUME NEW w \in Workers, FastHangup(w)
       PROVE  TypeOK' /\ Kind
  <2>1. Kept
    BY <1>0, <1>26, DisconnectType DEF FastHangup, Connected
  <2> QED BY <1>0, <1>26, <2>1 DEF FastHangup, mainVars, Kind, SameClients
<1>27. CASE UNCHANGED vars
  BY <1>0, <1>27 DEF vars, Kind
<1>28. CASE Receive
  BY <1>4, <1>5, <1>6, <1>7, <1>8, <1>9, <1>10, <1>11, <1>28 DEF Receive
<1>29. CASE MainStep
  <2> HIDE DEF TypeOK
  <2> QED BY <1>1, <1>2, <1>3, <1>12, <1>13, <1>14, <1>15, <1>16, <1>17, <1>18, <1>28, <1>29
          DEF MainStep
<1>30. ASSUME NEW w \in Workers, WorkerStep(w)
       PROVE  TypeOK' /\ Kind
  <2> HIDE DEF TypeOK
  <2> QED BY <1>22, <1>24, <1>25, <1>26, <1>30 DEF WorkerStep
<1> HIDE DEF TypeOK
<1> QED BY <1>27, <1>29, <1>30 DEF Next

-----------------------------------------------------------------------------
(* Theorems.                                                               *)

\* In every reachable state the table holds well-formed clients, the loop
\* variable of a client that is being ticked is within the table, and every
\* thread is idle or well formed.
THEOREM TypeCorrect == Spec => []TypeOK
<1>1. Init => TypeOK
  <2>1. << >> \in Seq(Client) /\ Len(<< >>) = 0
    BY EmptySeq
  <2>2. [w \in Workers |-> Idle] \in [Workers -> Running \cup {Idle}]
    OBVIOUS
  <2>3. SUFFICES ASSUME Init PROVE TypeOK
    OBVIOUS
  <2>4. clients \in Seq(Client) /\ Len(clients) = 0
    BY <2>1, <2>3 DEF Init
  <2>5. workers \in [Workers -> Running \cup {Idle}]
    BY <2>2, <2>3 DEF Init
  <2>6. /\ pc \in {"accept", "tick", "more", "send", "reap"}
        /\ i \in Nat \ {0}
        /\ pc \in {"more", "send"} => i <= Len(clients)
    <3>1. pc = "accept" /\ i = 1
      BY <2>3 DEF Init
    <3> QED BY <3>1
  <2>7. removed \in BOOLEAN /\ torn \in BOOLEAN /\ clash \in BOOLEAN /\ waiting \in [Conns -> Nat]
    BY <2>3 DEF Init
  <2> QED BY <2>4, <2>5, <2>6, <2>7 DEF TypeOK
<1>2. TypeOK /\ [Next]_vars => TypeOK'
  BY StepType
<1> QED BY <1>1, <1>2, PTL DEF Spec

\* What a step that only touches the rest of a client does to the names.
LEMMA SameNames ==
    ASSUME TypeOK, clients' \in Seq(Client), SameClients(clients, clients')
    PROVE  (NamesUnique => NamesUnique') /\ Named' = Named /\ OnlineNames' = OnlineNames
<1>1. /\ DOMAIN clients = 1 .. Len(clients)
      /\ DOMAIN clients' = 1 .. Len(clients)
      /\ \A k \in 1 .. Len(clients) :
            clients'[k].conn = clients[k].conn /\ clients'[k].name = clients[k].name
  BY DEF TypeOK, SameClients
<1> QED BY <1>1 DEF NamesUnique, Named, OnlineNames

\* Names stay distinct: a name is compared with the whole table before a client
\* gets it, and the removal loop keeps every other client's name.
THEOREM NamesStayUnique == Spec => []NamesUnique
<1>1. Init => NamesUnique
  BY DEF Init, NamesUnique
<1>2. ASSUME TypeOK, NamesUnique, [Next]_vars
      PROVE  NamesUnique'
  <2>1. TypeOK' /\ Kind
    BY <1>2, StepType
  <2>2. DOMAIN clients = 1 .. Len(clients) /\ DOMAIN clients' = 1 .. Len(clients')
    BY <1>2, <2>1 DEF TypeOK
  <2>3. CASE SameClients(clients, clients')
    BY <1>2, <2>1, <2>3, SameNames DEF TypeOK
  <2>4. CASE Arrival
    <3>1. PICK c \in Conns : SameClients(Append(clients, Fresh(c, Len(clients))), clients')
      BY <2>4 DEF Arrival
    <3>2. /\ Len(clients') = Len(clients) + 1
          /\ \A k \in 1 .. Len(clients) : clients'[k].name = clients[k].name
          /\ clients'[Len(clients) + 1].name = NoName
      BY <1>2, <3>1 DEF TypeOK, SameClients, Fresh
    <3> QED BY <1>2, <2>2, <3>2 DEF NamesUnique, TypeOK
  <2>5. CASE Naming
    <3>1. PICK u \in Names \cup {NoName}, k \in 1 .. Len(clients) :
              /\ ~Refused(u, TRUE)
              /\ SameClients([clients EXCEPT ![k].name = u], clients')
      BY <2>5 DEF Naming
    <3>2. /\ Len(clients') = Len(clients)
          /\ \A j \in 1 .. Len(clients) :
                clients'[j].name = IF j = k THEN u ELSE clients[j].name
      BY <1>2, <3>1, NameType DEF TypeOK, SameClients
    <3>3. \A j \in 1 .. Len(clients) : clients[j].name # u
      BY <2>2, <3>1 DEF Refused, NameTaken
    <3> QED BY <1>2, <2>2, <3>2, <3>3 DEF NamesUnique
  <2>6. CASE Removal
    <3>1. PICK n \in 1 .. Len(clients) : clients' = RemoveAt(clients, n)
      BY <2>6 DEF Removal
    <3>2. /\ Len(clients') = Len(clients) - 1
          /\ \A k \in 1 .. Len(clients) - 1 :
                clients'[k] = clients[IF k < n THEN k ELSE k + 1]
      BY <1>2, <3>1, RemoveAtType DEF TypeOK
    <3> DEFINE at(k) == IF k < n THEN k ELSE k + 1
    <3>3. \A k \in 1 .. Len(clients) - 1 : at(k) \in 1 .. Len(clients)
      BY <1>2 DEF TypeOK
    <3>4. \A j, k \in 1 .. Len(clients) - 1 : at(j) = at(k) => j = k
      OBVIOUS
    <3>5. \A k \in 1 .. Len(clients) - 1 : clients'[k] = clients[at(k)]
      BY <3>2
    <3> HIDE DEF at
    <3> QED BY <1>2, <2>2, <3>2, <3>3, <3>4, <3>5 DEF NamesUnique
  <2> QED BY <2>1, <2>3, <2>4, <2>5, <2>6 DEF Kind
<1> QED BY <1>1, <1>2, TypeCorrect, PTL DEF Spec

\* The connections of a table are at most as many as its slots.
LEMMA ConnsInBound ==
    ASSUME NEW t \in Seq(Client)
    PROVE  IsFiniteSet(ConnsIn(t)) /\ Cardinality(ConnsIn(t)) <= Len(t)
<1> DEFINE f == [k \in 1 .. Len(t) |-> t[k].conn]
<1>1. Len(t) \in Nat /\ DOMAIN t = 1 .. Len(t)
  OBVIOUS
<1>2. IsFiniteSet(1 .. Len(t)) /\ Cardinality(1 .. Len(t)) = Len(t)
  <2>1. 1 \in Int /\ Len(t) \in Int
    BY <1>1
  <2>2. /\ IsFiniteSet(1 .. Len(t))
        /\ Cardinality(1 .. Len(t)) = IF 1 > Len(t) THEN 0 ELSE Len(t) - 1 + 1
    BY <2>1, FS_Interval
  <2> QED BY <1>1, <2>2
<1>3. f \in Surjection(1 .. Len(t), ConnsIn(t))
  BY <1>1 DEF Surjection, ConnsIn
<1> HIDE DEF f
<1> QED BY <1>2, <1>3, FS_Surjection

\* The clients that hold a name are within the limit.
THEOREM PlayersStayBounded == Spec => [](IsFiniteSet(Named) /\ PlayersBounded)
<1> DEFINE Bounded == IsFiniteSet(Named) /\ PlayersBounded
<1>1. Init => Bounded
  <2>1. Init => Named = {}
    BY DEF Init, Named
  <2> QED BY <2>1, FS_EmptySet, MaxPlayersAssumption DEF PlayersBounded
<1>2. ASSUME TypeOK, Bounded, [Next]_vars
      PROVE  Bounded'
  <2>1. TypeOK' /\ Kind
    BY <1>2, StepType
  <2>2. ASSUME Named' \subseteq Named
        PROVE  Bounded'
    <3>1. IsFiniteSet(Named') /\ Cardinality(Named') <= Cardinality(Named)
      BY <1>2, <2>2, FS_Subset
    <3>2. Cardinality(Named') \in Nat /\ Cardinality(Named) \in Nat
      BY <1>2, <3>1, FS_CardinalityType
    <3> QED BY <1>2, <3>1, <3>2, MaxPlayersAssumption DEF PlayersBounded
  <2>3. DOMAIN clients = 1 .. Len(clients) /\ DOMAIN clients' = 1 .. Len(clients')
    BY <1>2, <2>1 DEF TypeOK
  <2>4. CASE SameClients(clients, clients')
    BY <1>2, <2>1, <2>2, <2>4, SameNames DEF TypeOK
  <2>5. CASE Arrival
    <3>1. PICK c \in Conns : SameClients(Append(clients, Fresh(c, Len(clients))), clients')
      BY <2>5 DEF Arrival
    <3>2. /\ Len(clients') = Len(clients) + 1
          /\ \A k \in 1 .. Len(clients) :
                clients'[k].conn = clients[k].conn /\ clients'[k].name = clients[k].name
          /\ clients'[Len(clients) + 1].name = NoName
      BY <1>2, <3>1 DEF TypeOK, SameClients, Fresh
    <3>3. Named' \subseteq Named
      BY <1>2, <2>3, <3>2 DEF Named, TypeOK
    <3> QED BY <2>2, <3>3
  <2>6. CASE Naming
    <3>1. PICK u \in Names \cup {NoName}, k \in 1 .. Len(clients) :
              /\ ~Refused(u, TRUE)
              /\ SameClients([clients EXCEPT ![k].name = u], clients')
      BY <2>6 DEF Naming
    <3>2. Len(clients') = Len(clients)
      BY <1>2, <3>1, NameType DEF TypeOK, SameClients
    <3>3. Len(clients) <= MaxPlayers
      BY <1>2, <3>1, MaxPlayersAssumption DEF Refused, Full, TypeOK
    <3>4. IsFiniteSet(ConnsIn(clients')) /\ Cardinality(ConnsIn(clients')) <= MaxPlayers
      <4>1. IsFiniteSet(ConnsIn(clients')) /\ Cardinality(ConnsIn(clients')) <= Len(clients')
        BY <2>1, ConnsInBound DEF TypeOK
      <4>2. Cardinality(ConnsIn(clients')) \in Nat /\ Len(clients') \in Nat
        BY <2>1, <4>1, FS_CardinalityType DEF TypeOK
      <4> QED BY <3>2, <3>3, <4>1, <4>2, MaxPlayersAssumption
    <3>5. Named' \subseteq ConnsIn(clients')
      BY DEF Named, ConnsIn
    <3>6. IsFiniteSet(Named') /\ Cardinality(Named') <= Cardinality(ConnsIn(clients'))
      BY <3>4, <3>5, FS_Subset
    <3>7. Cardinality(Named') \in Nat /\ Cardinality(ConnsIn(clients')) \in Nat
      BY <3>4, <3>6, FS_CardinalityType
    <3> QED BY <3>4, <3>6, <3>7, MaxPlayersAssumption DEF PlayersBounded
  <2>7. CASE Removal
    <3>1. PICK n \in 1 .. Len(clients) : clients' = RemoveAt(clients, n)
      BY <2>7 DEF Removal
    <3>2. /\ Len(clients') = Len(clients) - 1
          /\ \A k \in 1 .. Len(clients) - 1 :
                clients'[k] = clients[IF k < n THEN k ELSE k + 1]
      BY <1>2, <3>1, RemoveAtType DEF TypeOK
    <3>3. \A k \in 1 .. Len(clients) - 1 :
              (IF k < n THEN k ELSE k + 1) \in 1 .. Len(clients)
      BY <1>2 DEF TypeOK
    <3>4. \A k \in 1 .. Len(clients') : \E j \in 1 .. Len(clients) : clients'[k] = clients[j]
      BY <3>2, <3>3
    <3>5. Named' \subseteq Named
      BY <2>3, <3>4 DEF Named
    <3> QED BY <2>2, <3>5
  <2> QED BY <2>1, <2>4, <2>5, <2>6, <2>7 DEF Kind
<1> QED BY <1>1, <1>2, TypeCorrect, PTL DEF Spec

-----------------------------------------------------------------------------
(* Refinement.                                                             *)

\* The names held in the slots other than k are fewer than the slots.
LEMMA OthersBound ==
    ASSUME NEW t \in Seq(Client), NEW k \in 1 .. Len(t)
    PROVE  LET others == {t[j].name : j \in (1 .. Len(t)) \ {k}}
           IN  IsFiniteSet(others) /\ Cardinality(others) <= Len(t) - 1
<1> DEFINE S == (1 .. Len(t)) \ {k}
           others == {t[j].name : j \in S}
           f == [j \in S |-> t[j].name]
<1>1. Len(t) \in Nat /\ 1 \in Int /\ Len(t) \in Int /\ 1 <= Len(t)
  OBVIOUS
<1>2. /\ IsFiniteSet(1 .. Len(t))
      /\ Cardinality(1 .. Len(t)) = IF 1 > Len(t) THEN 0 ELSE Len(t) - 1 + 1
  BY <1>1, FS_Interval
<1>3. IsFiniteSet(S) /\ Cardinality(S) = Len(t) - 1
  <2>1. Cardinality(1 .. Len(t)) = Len(t)
    BY <1>1, <1>2
  <2> QED BY <1>2, <2>1, FS_RemoveElement
<1>4. f \in Surjection(S, others)
  BY DEF Surjection
<1> HIDE DEF f, S
<1>5. IsFiniteSet(others) /\ Cardinality(others) <= Cardinality(S)
  BY <1>3, <1>4, FS_Surjection
<1> QED BY <1>3, <1>5 DEF S

\* The table implements the roster: seen through the names it holds, every step
\* of the server is a player joining, leaving or changing name, or nothing.
THEOREM ImplementsRoster == Spec => R!Spec
<1>1. Init => R!Init
  BY DEF Init, R!Init, OnlineNames
<1>2. ASSUME TypeOK, NamesUnique, [Next]_vars
      PROVE  [R!Next]_OnlineNames
  <2>1. TypeOK' /\ Kind
    BY <1>2, StepType
  <2>2. /\ DOMAIN clients = 1 .. Len(clients)
        /\ DOMAIN clients' = 1 .. Len(clients')
        /\ Len(clients) \in Nat
        /\ \A k \in 1 .. Len(clients) : clients[k].name \in Names \cup {NoName}
    <3>1. /\ DOMAIN clients = 1 .. Len(clients)
          /\ DOMAIN clients' = 1 .. Len(clients')
          /\ Len(clients) \in Nat
          /\ \A k \in 1 .. Len(clients) : clients[k] \in Client
      BY <1>2, <2>1 DEF TypeOK
    <3>2. \A r \in Client : r.name \in Names \cup {NoName}
      BY DEF Client
    <3> QED BY <3>1, <3>2
  <2>3. CASE SameClients(clients, clients')
    BY <1>2, <2>1, <2>3, SameNames DEF TypeOK
  <2>4. CASE Arrival
    <3>1. PICK c \in Conns : SameClients(Append(clients, Fresh(c, Len(clients))), clients')
      BY <2>4 DEF Arrival
    <3>2. /\ Len(clients') = Len(clients) + 1
          /\ \A k \in 1 .. Len(clients) : clients'[k].name = clients[k].name
          /\ clients'[Len(clients) + 1].name = NoName
      BY <1>2, <3>1 DEF TypeOK, SameClients, Fresh
    <3>3. OnlineNames' = OnlineNames
      BY <2>2, <3>2 DEF OnlineNames
    <3> QED BY <3>3
  <2>5. CASE Naming
    <3>1. PICK u \in Names \cup {NoName}, k \in 1 .. Len(clients) :
              /\ ~Refused(u, TRUE)
              /\ SameClients([clients EXCEPT ![k].name = u], clients')
      BY <2>5 DEF Naming
    <3> DEFINE old == clients[k].name
    <3>2. /\ Len(clients') = Len(clients)
          /\ \A j \in 1 .. Len(clients) :
                clients'[j].name = IF j = k THEN u ELSE clients[j].name
      BY <1>2, <3>1, NameType DEF TypeOK, SameClients
    <3>3. /\ \A j \in 1 .. Len(clients) : clients[j].name # u
          /\ u \notin BannedUsers /\ u \in Whitelist /\ Len(clients) <= MaxPlayers
      BY <2>2, <3>1, MaxPlayersAssumption DEF Refused, NameTaken, Full
    <3>4. u \notin OnlineNames /\ old # u
      BY <2>2, <3>3 DEF OnlineNames
    <3>5. \A j \in 1 .. Len(clients) : j # k /\ old # NoName => clients[j].name # old
      BY <1>2, <2>2 DEF NamesUnique
    <3>6. OnlineNames' = ((OnlineNames \ {old}) \cup {u}) \ {NoName}
      BY <2>2, <3>2, <3>5 DEF OnlineNames
    <3>7. CASE u = NoName
      <4>1. old \in OnlineNames /\ old \in Names /\ OnlineNames' = OnlineNames \ {old}
        BY <2>2, <3>4, <3>6, <3>7 DEF OnlineNames
      <4>2. R!Leave(old)
        BY <4>1 DEF R!Leave
      <4> QED BY <4>1, <4>2 DEF R!Next
    <3>8. CASE u # NoName /\ old # NoName
      <4>1. old \in OnlineNames /\ old \in Names /\ u \in Names
        BY <2>2, <3>8 DEF OnlineNames
      <4>2. OnlineNames' = (OnlineNames \ {old}) \cup {u}
        BY <3>6, <3>8 DEF OnlineNames
      <4>3. R!Rename(old, u)
        BY <3>3, <3>4, <4>1, <4>2 DEF R!Rename
      <4> QED BY <4>1, <4>3 DEF R!Next
    <3>9. CASE u # NoName /\ old = NoName
      <4>1. OnlineNames' = OnlineNames \cup {u}
        BY <3>6, <3>9 DEF OnlineNames
      <4> DEFINE others == {clients[j].name : j \in (1 .. Len(clients)) \ {k}}
      <4>2. IsFiniteSet(others) /\ Cardinality(others) <= Len(clients) - 1
        BY <1>2, OthersBound DEF TypeOK
      <4>3. OnlineNames \subseteq others
        BY <2>2, <3>9 DEF OnlineNames
      <4> HIDE DEF others
      <4>4. IsFiniteSet(OnlineNames) /\ Cardinality(OnlineNames) <= Cardinality(others)
        BY <4>2, <4>3, FS_Subset
      <4>5. Cardinality(OnlineNames) \in Nat /\ Cardinality(others) \in Nat
        BY <4>2, <4>4, FS_CardinalityType
      <4>6. Cardinality(OnlineNames) < MaxPlayers
        BY <2>2, <3>3, <4>2, <4>4, <4>5, MaxPlayersAssumption
      <4>7. u \in Names
        BY <3>9
      <4>8. u \in Names \ (OnlineNames \cup (BannedUsers \cup (Names \ Whitelist)))
        BY <3>3, <3>4, <4>7
      <4>9. R!Join(u)
        BY <4>1, <4>6, <4>8 DEF R!Join, R!Cardinality, Cardinality
      <4> QED BY <4>7, <4>9 DEF R!Next
    <3> QED BY <3>7, <3>8, <3>9
  <2>6. CASE Removal
    <3>1. PICK n \in 1 .. Len(clients) : clients' = RemoveAt(clients, n)
      BY <2>6 DEF Removal
    <3>2. /\ Len(clients') = Len(clients) - 1
          /\ \A k \in 1 .. Len(clients) - 1 :
                clients'[k] = clients[IF k < n THEN k ELSE k + 1]
      BY <1>2, <3>1, RemoveAtType DEF TypeOK
    <3> DEFINE old == clients[n].name
    <3>3. \A k \in 1 .. Len(clients') :
              \E j \in (1 .. Len(clients)) \ {n} : clients'[k] = clients[j]
      <4>1. \A k \in 1 .. Len(clients') :
                (IF k < n THEN k ELSE k + 1) \in (1 .. Len(clients)) \ {n}
        BY <2>2, <3>2
      <4> QED BY <3>2, <4>1
    <3>4. \A j \in (1 .. Len(clients)) \ {n} :
              \E k \in 1 .. Len(clients') : clients'[k] = clients[j]
      <4>1. ASSUME NEW j \in (1 .. Len(clients)) \ {n}
            PROVE  \E k \in 1 .. Len(clients') : clients'[k] = clients[j]
        <5>1. CASE j < n
          <6>1. j \in 1 .. Len(clients) - 1 /\ clients'[j] = clients[j]
            BY <2>2, <3>2, <5>1
          <6> QED BY <3>2, <6>1
        <5>2. CASE j > n
          <6>1. j - 1 \in 1 .. Len(clients) - 1 /\ ~(j - 1 < n) /\ (j - 1) + 1 = j
            BY <2>2, <5>2
          <6>2. clients'[j - 1] = clients[j]
            BY <3>2, <6>1
          <6> QED BY <3>2, <6>1, <6>2
        <5> QED BY <2>2, <5>1, <5>2
      <4> QED BY <4>1
    <3>5. OnlineNames' = {clients[j].name : j \in (1 .. Len(clients)) \ {n}} \ {NoName}
      <4>1. OnlineNames' = {clients'[k].name : k \in 1 .. Len(clients')} \ {NoName}
        BY <2>2 DEF OnlineNames
      <4>2. {clients'[k].name : k \in 1 .. Len(clients')}
                \subseteq {clients[j].name : j \in (1 .. Len(clients)) \ {n}}
        BY <3>3
      <4>3. {clients[j].name : j \in (1 .. Len(clients)) \ {n}}
                \subseteq {clients'[k].name : k \in 1 .. Len(clients')}
        BY <3>4
      <4> QED BY <4>1, <4>2, <4>3
    <3>6. CASE old = NoName
      <4>1. OnlineNames' = OnlineNames
        BY <2>2, <3>5, <3>6 DEF OnlineNames
      <4> QED BY <4>1
    <3>7. CASE old # NoName
      <4>1. \A j \in (1 .. Len(clients)) \ {n} : clients[j].name # old
        BY <1>2, <2>2, <3>7 DEF NamesUnique
      <4>2. old \in OnlineNames /\ old \in Names /\ OnlineNames' = OnlineNames \ {old}
        BY <2>2, <3>5, <3>7, <4>1 DEF OnlineNames
      <4>3. R!Leave(old)
        BY <4>2 DEF R!Leave
      <4> QED BY <4>2, <4>3 DEF R!Next
    <3> QED BY <3>6, <3>7
  <2> QED BY <2>1, <2>3, <2>4, <2>5, <2>6 DEF Kind
<1> QED BY <1>1, <1>2, TypeCorrect, NamesStayUnique, PTL DEF Spec, R!Spec

-----------------------------------------------------------------------------
(* Who is spawned, and who is shown to whom.  What precedes follows        *)
(* connections and names only; here a step is described by what it does to *)
(* ids, to the players that each game shows, and to the levels that the    *)
(* threads prepare.                                                        *)

\* Player ids tell the clients of a table apart.
IdxDistinct(t) == \A j, k \in 1 .. Len(t) : t[j].idx = t[k].idx => j = k

\* As long as both are connected and j missed nothing, the game of j shows k.
Shows(t, j, k) ==
    t[j].connected /\ t[k].connected /\ ~t[j].missed => t[k].idx \in t[j].sees

\* From table t to table u no client moves, spawns, or loses count of the level
\* it asked for, and a game stops showing only those that leave.
Keeps(t, u, k) ==
    /\ u[k].conn = t[k].conn
    /\ u[k].idx = t[k].idx
    /\ u[k].mapsend = t[k].mapsend
    /\ t[k].levels > 0 => u[k].levels > 0
    /\ u[k].spawned => t[k].spawned

KeepsShowing(t, u) ==
    IdxDistinct(t) =>
        \A j, k \in 1 .. Len(t) : j # k /\ Shows(t, j, k) => Shows(u, j, k)

Quiet(t, u) ==
    /\ Len(u) = Len(t)
    /\ \A k \in 1 .. Len(t) : Keeps(t, u, k)
    /\ KeepsShowing(t, u)

\* One client, before and after a change that Quiet does not speak of.
QuietRecord(c, r) ==
    /\ r.conn = c.conn /\ r.idx = c.idx /\ r.mapsend = c.mapsend /\ r.levels = c.levels
    /\ r.spawned = c.spawned /\ r.connected = c.connected /\ r.sees = c.sees
    /\ r.missed = c.missed

-----------------------------------------------------------------------------
(* The operators on tables.                                                *)

\* Quiet changes add up.
LEMMA QuietTrans ==
    ASSUME NEW t, NEW u, NEW v, Quiet(t, u), Quiet(u, v)
    PROVE  Quiet(t, v)
<1>1. Len(u) = Len(t) /\ Len(v) = Len(t)
  BY DEF Quiet
<1>2. \A k \in 1 .. Len(t) : Keeps(t, v, k)
  <2>1. \A k \in 1 .. Len(t) : Keeps(t, u, k) /\ Keeps(u, v, k)
    BY <1>1 DEF Quiet
  <2> QED BY <2>1 DEF Keeps
<1>3. IdxDistinct(t) => IdxDistinct(u)
  BY <1>1 DEF Quiet, Keeps, IdxDistinct
<1>4. KeepsShowing(t, v)
  BY <1>1, <1>3 DEF Quiet, KeepsShowing
<1> QED BY <1>1, <1>2, <1>4 DEF Quiet

\* A table is a quiet change of itself, and so is a change of one client that
\* leaves alone what Quiet speaks of.
LEMMA QuietUpdate ==
    ASSUME NEW t \in Seq(Client), NEW k \in 1 .. Len(t), NEW r,
           r.conn = t[k].conn, r.idx = t[k].idx, r.mapsend = t[k].mapsend,
           t[k].levels > 0 => r.levels > 0, r.spawned = t[k].spawned,
           r.connected = t[k].connected, r.sees = t[k].sees, r.missed = t[k].missed
    PROVE  Quiet(t, [t EXCEPT ![k] = r])
<1> DEFINE u == [t EXCEPT ![k] = r]
<1>1. DOMAIN t = 1 .. Len(t) /\ DOMAIN u = 1 .. Len(t) /\ Len(u) = Len(t)
  OBVIOUS
<1>2. \A j \in 1 .. Len(t) : u[j] = IF j = k THEN r ELSE t[j]
  OBVIOUS
<1> HIDE DEF u
<1>3. \A j \in 1 .. Len(t) : Keeps(t, u, j)
  BY <1>2 DEF Keeps
<1>4. \A j \in 1 .. Len(t) :
          /\ u[j].connected = t[j].connected
          /\ u[j].idx = t[j].idx
          /\ u[j].sees = t[j].sees
          /\ u[j].missed = t[j].missed
  BY <1>2
<1>5. KeepsShowing(t, u)
  BY <1>4 DEF KeepsShowing, Shows
<1> QED BY <1>1, <1>3, <1>5 DEF Quiet, u

LEMMA QuietRefl ==
    ASSUME NEW t
    PROVE  Quiet(t, t)
BY DEF Quiet, Keeps, KeepsShowing

\* Taking clients down hides from the others only the clients that go: no other
\* client has the id of one of them.
LEMMA QuietDown ==
    ASSUME NEW t \in Seq(Client), NEW D \in SUBSET (1 .. Len(t))
    PROVE  Quiet(t, Down(t, D))
<1> DEFINE u == Down(t, D)
<1>1. DOMAIN t = 1 .. Len(t) /\ \A k \in 1 .. Len(t) : t[k] \in Client
  OBVIOUS
<1>2. Len(u) = Len(t)
  BY DownType DEF SameClients
<1>3. ASSUME NEW k \in 1 .. Len(t)
      PROVE  /\ k \in D =>
                   u[k] = [t[k] EXCEPT !.connected = FALSE, !.spawned = FALSE,
                                       !.sees = {}, !.missed = FALSE]
             /\ k \notin D => u[k] = [t[k] EXCEPT !.sees = @ \ Despawned(t, D)]
  BY <1>1 DEF Down
<1> HIDE DEF u
<1>4. ASSUME NEW k \in 1 .. Len(t)
      PROVE  /\ k \in D => u[k].connected = FALSE /\ u[k].spawned = FALSE
             /\ k \notin D => /\ u[k].connected = t[k].connected
                              /\ u[k].spawned = t[k].spawned
                              /\ u[k].sees = t[k].sees \ Despawned(t, D)
                              /\ u[k].missed = t[k].missed
             /\ u[k].conn = t[k].conn /\ u[k].idx = t[k].idx
             /\ u[k].mapsend = t[k].mapsend /\ u[k].levels = t[k].levels
  <2>1. t[k] \in Client
    BY <1>1
  <2>2. CASE k \in D
    BY <1>3, <2>1, <2>2 DEF Client
  <2>3. CASE k \notin D
    BY <1>3, <2>1, <2>3 DEF Client
  <2> QED BY <2>2, <2>3
<1>5. \A k \in 1 .. Len(t) : Keeps(t, u, k)
  BY <1>4 DEF Keeps
<1>6. ASSUME IdxDistinct(t), NEW j \in 1 .. Len(t), NEW k \in 1 .. Len(t),
             j # k, Shows(t, j, k)
      PROVE  Shows(u, j, k)
  <2>1. SUFFICES ASSUME u[j].connected, u[k].connected, ~u[j].missed
                 PROVE  u[k].idx \in u[j].sees
    BY DEF Shows
  <2>2. j \notin D /\ k \notin D
    BY <1>4, <2>1
  <2>3. t[k].idx \in t[j].sees
    BY <1>4, <1>6, <2>1, <2>2 DEF Shows
  <2>4. t[k].idx \notin Despawned(t, D)
    <3>1. SUFFICES ASSUME NEW d \in D, t[k].idx = t[d].idx
                   PROVE  FALSE
      BY DEF Despawned
    <3> QED BY <1>1, <1>6, <2>2, <3>1 DEF IdxDistinct
  <2> QED BY <1>4, <2>2, <2>3, <2>4
<1>7. KeepsShowing(t, u)
  BY <1>6 DEF KeepsShowing
<1> QED BY <1>2, <1>5, <1>7 DEF Quiet, u

\* Losing packets for clients is quiet.
LEMMA QuietMissing ==
    ASSUME NEW t \in Seq(Client), NEW L
    PROVE  Quiet(t, Missing(t, L))
<1> DEFINE u == Missing(t, L)
<1>1. DOMAIN t = 1 .. Len(t) /\ \A k \in 1 .. Len(t) : t[k] \in Client
  OBVIOUS
<1>2. Len(u) = Len(t)
  BY MissingType DEF SameClients
<1>3. ASSUME NEW k \in 1 .. Len(t)
      PROVE  u[k] = IF k \in L THEN [t[k] EXCEPT !.missed = TRUE, !.sees = {}] ELSE t[k]
  BY <1>1 DEF Missing
<1> HIDE DEF u
<1>4. ASSUME NEW k \in 1 .. Len(t)
      PROVE  /\ k \in L => u[k].missed
             /\ k \notin L => u[k] = t[k]
             /\ u[k].conn = t[k].conn /\ u[k].idx = t[k].idx
             /\ u[k].mapsend = t[k].mapsend /\ u[k].levels = t[k].levels
             /\ u[k].spawned = t[k].spawned /\ u[k].connected = t[k].connected
  <2>1. t[k] \in Client
    BY <1>1
  <2>2. CASE k \in L
    <3>1. LET r == [t[k] EXCEPT !.missed = TRUE, !.sees = {}]
          IN  /\ r.missed /\ r.conn = t[k].conn /\ r.idx = t[k].idx
              /\ r.mapsend = t[k].mapsend /\ r.levels = t[k].levels
              /\ r.spawned = t[k].spawned /\ r.connected = t[k].connected
      BY <2>1 DEF Client
    <3> QED BY <1>3, <2>2, <3>1
  <2>3. CASE k \notin L
    BY <1>3, <2>3
  <2> QED BY <2>2, <2>3
<1>5. \A k \in 1 .. Len(t) : Keeps(t, u, k)
  BY <1>4 DEF Keeps
<1>6. KeepsShowing(t, u)
  BY <1>4 DEF KeepsShowing, Shows
<1> QED BY <1>2, <1>5, <1>6 DEF Quiet, u

\* So a flush or a disconnection is quiet.
LEMMA QuietDisconnect ==
    ASSUME NEW t \in Seq(Client), NEW k \in 1 .. Len(t)
    PROVE  /\ \A u \in Disconnect(t, k) : Quiet(t, u)
           /\ \A u \in FlushTo(t, k) : Quiet(t, u)
           /\ \A u \in FlushAll(t) : Quiet(t, u)
<1>0. Connected(t) \subseteq 1 .. Len(t)
  BY DEF Connected
<1>1. ASSUME NEW D \in SUBSET (1 .. Len(t)), NEW F \in SUBSET Connected(t),
             NEW u \in Flushed(t, D, F)
      PROVE  Quiet(t, u)
  <2> DEFINE v == Down(t, D \cup F)
  <2>1. PICK L : u = Missing(v, L)
    BY DEF Flushed
  <2>2. D \cup F \in SUBSET (1 .. Len(t))
    BY <1>0
  <2>3. Quiet(t, v) /\ v \in Seq(Client)
    BY <2>2, QuietDown, DownType
  <2> HIDE DEF v
  <2> QED BY <2>1, <2>3, QuietMissing, QuietTrans
<1>2. \A u \in Disconnect(t, k) : Quiet(t, u)
  <2>1. {k} \in SUBSET (1 .. Len(t))
    OBVIOUS
  <2> QED BY <1>1, <2>1, QuietDown DEF Disconnect
<1>3. \A u \in FlushTo(t, k) : Quiet(t, u)
  BY <1>2, QuietRefl, QuietMissing DEF FlushTo
<1>4. \A u \in FlushAll(t) : Quiet(t, u)
  BY <1>1 DEF FlushAll
<1> QED BY <1>2, <1>3, <1>4

\* The exchange of spawn packets moves and spawns nobody and hides nobody, and
\* afterwards the client and every other show each other.
LEMMA AnnounceShows ==
    ASSUME NEW t \in Seq(Client), NEW i0 \in 1 .. Len(t)
    PROVE  /\ Quiet(t, Announce(t, i0))
           /\ \A k \in 1 .. Len(t) \ {i0} :
                 Shows(Announce(t, i0), i0, k) /\ Shows(Announce(t, i0), k, i0)
<1> DEFINE u == Announce(t, i0)
           told(k) == {t[j].idx : j \in IF k = i0 THEN DOMAIN t \ {i0} ELSE {i0}}
<1>1. DOMAIN t = 1 .. Len(t) /\ \A k \in 1 .. Len(t) : t[k] \in Client
  OBVIOUS
<1>2. Len(u) = Len(t)
  BY AnnounceType DEF SameClients
<1>3. \A k \in 1 .. Len(t) :
          u[k] = IF ~t[k].connected \/ t[k].missed THEN t[k]
                 ELSE [t[k] EXCEPT !.sees = @ \cup told(k)]
  BY <1>1 DEF Announce
<1>4. \A k \in 1 .. Len(t) \ {i0} : t[k].idx \in told(i0) /\ t[i0].idx \in told(k)
  BY <1>1
<1> HIDE DEF u, told
<1>5. ASSUME NEW k \in 1 .. Len(t)
      PROVE  /\ u[k].connected = t[k].connected /\ u[k].spawned = t[k].spawned
             /\ t[k].sees \subseteq u[k].sees
             /\ t[k].connected /\ ~t[k].missed => told(k) \subseteq u[k].sees
             /\ u[k].missed = t[k].missed
             /\ u[k].conn = t[k].conn /\ u[k].idx = t[k].idx
             /\ u[k].mapsend = t[k].mapsend /\ u[k].levels = t[k].levels
  <2>1. t[k] \in Client
    BY <1>1
  <2>2. CASE ~t[k].connected \/ t[k].missed
    BY <1>3, <2>2
  <2>3. CASE ~(~t[k].connected \/ t[k].missed)
    <3>1. u[k] = [t[k] EXCEPT !.sees = t[k].sees \cup told(k)]
      BY <1>3, <2>3
    <3>2. \A S : LET r == [t[k] EXCEPT !.sees = S]
                 IN  /\ r.connected = t[k].connected /\ r.spawned = t[k].spawned
                     /\ r.sees = S /\ r.conn = t[k].conn /\ r.idx = t[k].idx
                     /\ r.mapsend = t[k].mapsend /\ r.levels = t[k].levels
                     /\ r.missed = t[k].missed
      BY <2>1 DEF Client
    <3> QED BY <2>3, <3>1, <3>2
  <2> QED BY <2>2, <2>3
<1>6. \A k \in 1 .. Len(t) : Keeps(t, u, k)
  BY <1>5 DEF Keeps
<1>7. KeepsShowing(t, u)
  BY <1>5 DEF KeepsShowing, Shows
<1>8. \A k \in 1 .. Len(t) \ {i0} : Shows(u, i0, k) /\ Shows(u, k, i0)
  BY <1>4, <1>5 DEF Shows
<1> QED BY <1>2, <1>6, <1>7, <1>8 DEF Quiet, u

-----------------------------------------------------------------------------
(* The effects of steps.                                                   *)

\* The thread points at the slot of the client it was started for, and that
\* client asked for a level.
Served(w) ==
    /\ workers[w].slot \in 1 .. Len(clients)
    /\ clients[workers[w].slot].conn = workers[w].owner
    /\ clients[workers[w].slot].levels > 0

\* A running thread is one that was running, or one that serves its client.
Threads ==
    \A w \in Workers :
        workers'[w].stage # "idle" =>
            \/ /\ IsRunning(w)
               /\ workers'[w].slot = workers[w].slot
               /\ workers'[w].owner = workers[w].owner
            \/ Served(w)'

Steady == Quiet(clients, clients') /\ Threads /\ UNCHANGED <<torn, clash>>

Joining ==
    \E c \in Conns :
        /\ c \notin ConnsIn(clients)
        /\ Quiet(Append(clients, Fresh(c, Len(clients))), clients')
        /\ clash' = (clash \/ \E k \in DOMAIN clients : clients[k].idx = Len(clients))
        /\ MayMove
        /\ NoteTorn

Publishing ==
    \E w \in Workers, state \in {"success", "failure"} :
        /\ IsRunning(w)
        /\ Through(w, [clients EXCEPT ![workers[w].slot].mapsend = state])
        /\ Finish(w)
        /\ UNCHANGED <<torn, clash>>

\* Client n spawns: it and every other client show each other from now on.
SpawnsAt(t, u, n) ==
    /\ Len(u) = Len(t)
    /\ \A k \in 1 .. Len(t) :
          /\ u[k].conn = t[k].conn
          /\ u[k].idx = t[k].idx
          /\ u[k].mapsend = "success" => t[k].mapsend = "success"
          /\ t[k].levels > 0 => u[k].levels > 0
          /\ k # n /\ u[k].spawned => t[k].spawned
    /\ KeepsShowing(t, u)
    /\ IdxDistinct(t) =>
          \A k \in (1 .. Len(t)) \ {n} : Shows(u, n, k) /\ Shows(u, k, n)

Spawning ==
    \E n \in 1 .. Len(clients) :
        /\ clients[n].mapsend = "success"
        /\ SpawnsAt(clients, clients', n)
        /\ UNCHANGED <<workers, torn, clash>>

Removing ==
    \E n \in 1 .. Len(clients) :
        /\ clients' = RemoveAt(clients, n)
        /\ UNCHANGED <<workers, clash>>
        /\ NoteTorn

Moving == workers' \in {workers, AllDangling} /\ UNCHANGED <<clients, clash>> /\ NoteTorn

Effect == Steady \/ Joining \/ Publishing \/ Spawning \/ Removing \/ Moving

\* Asking for a level is quiet, and the thread it starts serves the client.
LEMMA QuietStart ==
    ASSUME NEW t \in Seq(Client), i \in 1 .. Len(t), WorkersType, StartLevel(t)
    PROVE  Quiet(t, clients') /\ Threads
<1> DEFINE u == CountLevel(t, i)
           n == IF t[i].levels = 2 THEN 2 ELSE t[i].levels + 1
           r == [t[i] EXCEPT !.levels = n]
<1>1. t[i] \in Client
  OBVIOUS
<1>2. n \in 1 .. 2 /\ n > 0
  <2>1. t[i].levels \in 0 .. 2
    BY <1>1 DEF Client
  <2> QED BY <2>1
<1>3. u = [t EXCEPT ![i] = r]
  BY DEF CountLevel
<1>4. /\ r \in Client /\ r.conn = t[i].conn /\ r.idx = t[i].idx /\ r.mapsend = t[i].mapsend
      /\ r.levels = n /\ r.spawned = t[i].spawned /\ r.connected = t[i].connected
      /\ r.sees = t[i].sees /\ r.missed = t[i].missed /\ r.name = t[i].name
  <2> HIDE DEF n
  <2>1. n \in 0 .. 2
    BY <1>2
  <2>2. r \in Client
    BY <1>1, <2>1 DEF Client
  <2>3. r.conn = t[i].conn /\ r.idx = t[i].idx /\ r.mapsend = t[i].mapsend /\ r.name = t[i].name
    BY <1>1 DEF Client
  <2>4. /\ r.levels = n /\ r.spawned = t[i].spawned /\ r.connected = t[i].connected
        /\ r.sees = t[i].sees /\ r.missed = t[i].missed
    BY <1>1 DEF Client
  <2> QED BY <2>2, <2>3, <2>4
<1>5. PICK w \in Workers :
          workers' = [workers EXCEPT ![w] =
                [stage |-> "compress", slot |-> i,
                 owner |-> t[i].conn, fast |-> FastLevel(t, i)]]
  BY DEF StartLevel
<1>6. clients' \in FlushTo(u, i)
  BY DEF StartLevel
<1> HIDE DEF u, n, r
<1>7. u \in Seq(Client) /\ Len(u) = Len(t) /\ u[i] = r
  BY <1>3, <1>4
<1>8. Quiet(t, u)
  BY <1>2, <1>3, <1>4, QuietUpdate
<1>9. Quiet(u, clients')
  BY <1>6, <1>7, QuietDisconnect
<1>10. Quiet(t, clients')
  BY <1>8, <1>9, QuietTrans
<1>11. /\ Len(clients') = Len(t)
       /\ clients'[i].conn = t[i].conn
       /\ clients'[i].levels > 0
  BY <1>2, <1>4, <1>7, <1>9 DEF Quiet, Keeps
<1>12. Threads
  <2>1. ASSUME NEW v \in Workers, v # w
        PROVE  workers'[v] = workers[v]
    BY <1>5, <2>1 DEF WorkersType
  <2>2. workers'[w].slot = i /\ workers'[w].owner = t[i].conn
    BY <1>5 DEF WorkersType
  <2>3. Served(w)'
    BY <1>11, <2>2 DEF Served
  <2> QED BY <2>1, <2>3 DEF Threads, IsRunning
<1> QED BY <1>10, <1>12

\* So is logging in.
LEMMA QuietLogin ==
    ASSUME NEW t \in Seq(Client), i \in 1 .. Len(t), WorkersType, Login(t)
    PROVE  Quiet(t, clients') /\ Threads
<1>1. CASE LoginSendsLevel(t, i)
  BY <1>1, QuietStart DEF Login
<1>2. CASE ~LoginSendsLevel(t, i)
  BY <1>2, QuietDisconnect DEF Login, Threads, IsRunning
<1> QED BY <1>1, <1>2

\* A record of a client whose other fields an action replaces.
LEMMA ClientFields ==
    ASSUME NEW c \in Client
    PROVE  /\ \A n, E : QuietRecord(c, [c EXCEPT !.room = n, !.exts = E])
           /\ \A b : QuietRecord(c, [c EXCEPT !.custom = b])
           /\ \A n : QuietRecord(c, [c EXCEPT !.mapgz = n])
           /\ \A u : QuietRecord(c, [c EXCEPT !.name = u])
BY DEF Client, QuietRecord

\* What one action does to the client in one slot.
LEMMA QuietField ==
    ASSUME NEW t \in Seq(Client), NEW k \in 1 .. Len(t)
    PROVE  /\ \A n, E : Quiet(t, [t EXCEPT ![k].room = n, ![k].exts = E])
           /\ \A b : Quiet(t, [t EXCEPT ![k].custom = b])
           /\ \A n : Quiet(t, [t EXCEPT ![k].mapgz = n])
           /\ \A u : Quiet(t, [t EXCEPT ![k].name = u])
<1>1. ASSUME NEW r, QuietRecord(t[k], r)
      PROVE  Quiet(t, [t EXCEPT ![k] = r])
  BY <1>1, QuietUpdate DEF QuietRecord
<1>2. t[k] \in Client
  OBVIOUS
<1>3. ASSUME NEW n, NEW E
      PROVE  Quiet(t, [t EXCEPT ![k].room = n, ![k].exts = E])
  <2>1. [t EXCEPT ![k].room = n, ![k].exts = E]
            = [t EXCEPT ![k] = [t[k] EXCEPT !.room = n, !.exts = E]]
    OBVIOUS
  <2> QED BY <1>1, <1>2, <2>1, ClientFields
<1>4. ASSUME NEW n
      PROVE  /\ Quiet(t, [t EXCEPT ![k].custom = n])
             /\ Quiet(t, [t EXCEPT ![k].mapgz = n])
             /\ Quiet(t, [t EXCEPT ![k].name = n])
  <2>1. /\ [t EXCEPT ![k].custom = n] = [t EXCEPT ![k] = [t[k] EXCEPT !.custom = n]]
        /\ [t EXCEPT ![k].mapgz = n] = [t EXCEPT ![k] = [t[k] EXCEPT !.mapgz = n]]
        /\ [t EXCEPT ![k].name = n] = [t EXCEPT ![k] = [t[k] EXCEPT !.name = n]]
    OBVIOUS
  <2> QED BY <1>1, <1>2, <2>1, ClientFields
<1> QED BY <1>3, <1>4

\* When the level has been sent, the client spawns, and everybody shows
\* everybody else as far as the client is concerned.
LEMMA FinishEffect ==
    ASSUME TypeOK, FinishLevel
    PROVE  Spawning
<1> DEFINE done == [clients EXCEPT ![i].mapsend = "sent", ![i].mapgz = 0]
           rd == [clients[i] EXCEPT !.mapsend = "sent", !.mapgz = 0]
<1>1. /\ clients \in Seq(Client) /\ i \in 1 .. Len(clients)
      /\ clients[i] \in Client /\ clients[i].mapsend = "success"
      /\ UNCHANGED <<workers, torn, clash>>
  BY DEF TypeOK, FinishLevel, LevelReady
<1>2. PICK sent \in FlushAll(done) : \E told \in FlushAll(Announce(sent, i)) :
          clients' \in FlushAll([told EXCEPT ![i].spawned = TRUE])
  BY DEF FinishLevel
<1>3. PICK told \in FlushAll(Announce(sent, i)) :
          clients' \in FlushAll([told EXCEPT ![i].spawned = TRUE])
  BY <1>2
<1>4. /\ rd \in Client /\ rd.conn = clients[i].conn /\ rd.idx = clients[i].idx
      /\ rd.mapsend = "sent" /\ rd.levels = clients[i].levels
      /\ rd.spawned = clients[i].spawned /\ rd.connected = clients[i].connected
      /\ rd.sees = clients[i].sees /\ rd.missed = clients[i].missed
  <2>1. 0 \in 0 .. Chunks
    BY ChunksAssumption
  <2>2. rd \in Client
    BY <1>1, <2>1 DEF Client
  <2> QED BY <1>1, <2>2 DEF Client
<1>5. done = [clients EXCEPT ![i] = rd]
  BY <1>1
<1> HIDE DEF done, rd
<1>6. /\ done \in Seq(Client) /\ Len(done) = Len(clients)
      /\ \A k \in 1 .. Len(clients) :
            k # i => done[k] = clients[k]
      /\ done[i] = rd
  BY <1>1, <1>4, <1>5
<1>7. /\ sent \in Seq(Client) /\ Len(sent) = Len(clients) /\ Quiet(done, sent)
  BY <1>1, <1>2, <1>6, DisconnectType, QuietDisconnect DEF SameClients
<1> DEFINE ann == Announce(sent, i)
<1>8. /\ ann \in Seq(Client) /\ Len(ann) = Len(clients) /\ Quiet(sent, ann)
      /\ \A k \in (1 .. Len(clients)) \ {i} : Shows(ann, i, k) /\ Shows(ann, k, i)
  BY <1>1, <1>7, AnnounceType, AnnounceShows DEF SameClients
<1>9. told \in FlushAll(ann)
  BY <1>3
<1> HIDE DEF ann
<1>10. told \in Seq(Client) /\ Len(told) = Len(clients) /\ Quiet(ann, told)
  BY <1>1, <1>8, <1>9, DisconnectType, QuietDisconnect DEF SameClients
<1>11. Quiet(done, told)
  BY <1>7, <1>8, <1>10, QuietTrans
<1> DEFINE here == [told EXCEPT ![i].spawned = TRUE]
           rh == [told[i] EXCEPT !.spawned = TRUE]
<1>12. /\ rh \in Client /\ rh.conn = told[i].conn /\ rh.idx = told[i].idx
       /\ rh.mapsend = told[i].mapsend /\ rh.levels = told[i].levels
       /\ rh.connected = told[i].connected /\ rh.sees = told[i].sees
       /\ rh.missed = told[i].missed
  <2>1. told[i] \in Client
    BY <1>1, <1>10
  <2>2. rh \in Client
    BY <2>1 DEF Client
  <2> QED BY <2>1, <2>2 DEF Client
<1>13. here = [told EXCEPT ![i] = rh]
  BY <1>1, <1>10
<1>14. clients' \in FlushAll(here)
  BY <1>3
<1> HIDE DEF here, rh
<1>15. /\ here \in Seq(Client) /\ Len(here) = Len(clients)
       /\ \A k \in 1 .. Len(clients) : k # i => here[k] = told[k]
       /\ here[i] = rh
  BY <1>1, <1>10, <1>12, <1>13
<1>16. Len(clients') = Len(clients) /\ Quiet(here, clients')
  BY <1>1, <1>14, <1>15, DisconnectType, QuietDisconnect DEF SameClients
<1> DEFINE v == clients'
<1> HIDE DEF v
<1>17. \A k \in 1 .. Len(clients) :
          /\ Keeps(done, told, k)
          /\ Keeps(here, v, k)
  BY <1>6, <1>11, <1>15, <1>16 DEF Quiet, v
<1>18. ASSUME NEW k \in 1 .. Len(clients), k # i
       PROVE  Keeps(clients, v, k)
  BY <1>6, <1>15, <1>17, <1>18 DEF Keeps
<1>19. /\ v[i].conn = clients[i].conn /\ v[i].idx = clients[i].idx
       /\ v[i].mapsend = "sent"
       /\ clients[i].levels > 0 => v[i].levels > 0
  BY <1>1, <1>4, <1>6, <1>12, <1>15, <1>17 DEF Keeps
<1>20. \A j, k \in 1 .. Len(clients) :
          /\ Shows(clients, j, k) <=> Shows(done, j, k)
          /\ Shows(told, j, k) <=> Shows(here, j, k)
  <2>1. \A j \in 1 .. Len(clients) :
           /\ done[j].connected = clients[j].connected /\ done[j].idx = clients[j].idx
           /\ done[j].sees = clients[j].sees /\ done[j].missed = clients[j].missed
           /\ here[j].connected = told[j].connected /\ here[j].idx = told[j].idx
           /\ here[j].sees = told[j].sees /\ here[j].missed = told[j].missed
    BY <1>4, <1>6, <1>12, <1>15
  <2> QED BY <2>1 DEF Shows
<1>21. ASSUME IdxDistinct(clients)
       PROVE  IdxDistinct(done) /\ IdxDistinct(ann) /\ IdxDistinct(told) /\ IdxDistinct(here)
  <2>1. IdxDistinct(done)
    BY <1>4, <1>6, <1>21 DEF IdxDistinct
  <2>2. ASSUME NEW t, NEW u, Quiet(t, u), IdxDistinct(t)
        PROVE  IdxDistinct(u)
    BY <2>2 DEF Quiet, Keeps, IdxDistinct
  <2>3. IdxDistinct(told) /\ IdxDistinct(ann)
    BY <1>7, <1>8, <1>11, <2>1, <2>2
  <2>4. IdxDistinct(here)
    BY <1>10, <1>12, <1>15, <2>3 DEF IdxDistinct
  <2> QED BY <2>1, <2>3, <2>4
<1>22. KeepsShowing(clients, v)
  <2>1. SUFFICES ASSUME IdxDistinct(clients), NEW j \in 1 .. Len(clients),
                        NEW k \in 1 .. Len(clients), j # k, Shows(clients, j, k)
                 PROVE  Shows(v, j, k)
    BY DEF KeepsShowing
  <2>2. Shows(done, j, k)
    BY <1>20, <2>1
  <2>3. Shows(told, j, k)
    BY <1>6, <1>11, <1>21, <2>1, <2>2 DEF Quiet, KeepsShowing
  <2>4. Shows(here, j, k)
    BY <1>20, <2>3
  <2> QED BY <1>15, <1>16, <1>21, <2>1, <2>4 DEF Quiet, KeepsShowing, v
<1>23. ASSUME IdxDistinct(clients), NEW k \in (1 .. Len(clients)) \ {i}
       PROVE  Shows(v, i, k) /\ Shows(v, k, i)
  <2>1. Shows(ann, i, k) /\ Shows(ann, k, i)
    BY <1>8, <1>23
  <2>2. Shows(told, i, k) /\ Shows(told, k, i)
    BY <1>1, <1>8, <1>10, <1>21, <1>23, <2>1 DEF Quiet, KeepsShowing
  <2>3. Shows(here, i, k) /\ Shows(here, k, i)
    BY <1>1, <1>20, <1>23, <2>2
  <2> QED BY <1>1, <1>15, <1>16, <1>21, <1>23, <2>3 DEF Quiet, KeepsShowing, v
<1>24. SpawnsAt(clients, v, i)
  <2>1. \A k \in 1 .. Len(clients) :
          /\ v[k].conn = clients[k].conn
          /\ v[k].idx = clients[k].idx
          /\ v[k].mapsend = "success" => clients[k].mapsend = "success"
          /\ clients[k].levels > 0 => v[k].levels > 0
          /\ k # i /\ v[k].spawned => clients[k].spawned
    BY <1>1, <1>18, <1>19 DEF Keeps
  <2> QED BY <1>16, <1>22, <1>23, <2>1 DEF SpawnsAt, v
<1> QED BY <1>1, <1>24 DEF Spawning, v

\* Every step has one of the six effects.
LEMMA StepEffect ==
    ASSUME TypeOK, [Next]_vars
    PROVE  Effect
<1>0. /\ Len(clients) \in Nat
      /\ clients \in Seq(Client)
      /\ DOMAIN clients = 1 .. Len(clients)
      /\ \A k \in 1 .. Len(clients) : clients[k] \in Client
      /\ WorkersType
      /\ Receiving => i \in 1 .. Len(clients)
  BY DEF TypeOK, WorkersType, Receiving, Connected
<1>0a. Quiet(clients, clients)
  BY QuietRefl
<1>0b. UNCHANGED workers => Threads
  BY DEF Threads, IsRunning
<1>0c. ASSUME NEW w \in Workers, Finish(w)
       PROVE  Threads
  BY <1>0, <1>0c DEF Finish, Threads, IsRunning, WorkersType, Idle
<1>1. CASE NoConnection \/ SkipClient \/ EndOfInput \/ TickEnd \/ ReapKeep \/ UNCHANGED vars
  <2>1. UNCHANGED <<clients, workers, torn, clash>>
    BY <1>1 DEF NoConnection, SkipClient, EndOfInput, TickEnd, ReapKeep, vars
  <2> QED BY <1>0a, <1>0b, <2>1 DEF Effect, Steady
<1>2. ASSUME NEW c \in Conns, Accept(c)
      PROVE  Effect
  <2> DEFINE joined == Append(clients, Fresh(c, Len(clients)))
  <2>1. Fresh(c, Len(clients)) \in Client
    BY <1>0, ChunksAssumption DEF Fresh, Client
  <2>2. joined \in Seq(Client) /\ Len(joined) \in 1 .. Len(joined)
    BY <1>0, <2>1, AppendProperties
  <2>3. clients' = joined \/ clients' = Down(joined, {Len(joined)})
    BY <1>2 DEF Accept
  <2>4. Quiet(joined, clients')
    <3> HIDE DEF joined
    <3>1. {Len(joined)} \in SUBSET (1 .. Len(joined))
      BY <2>2
    <3> QED BY <2>2, <2>3, <3>1, QuietRefl, QuietDown
  <2>5. Joining
    BY <1>2, <2>4 DEF Accept, Joining
  <2> QED BY <2>5 DEF Effect
<1>3. CASE Hangup \/ RecvOther
  <2>1. Quiet(clients, clients') /\ UNCHANGED <<workers, torn, clash>>
    BY <1>0, <1>3, QuietDisconnect DEF Hangup, RecvOther
  <2> QED BY <1>0b, <2>1 DEF Effect, Steady
<1>4. ASSUME NEW old \in BOOLEAN, NEW t \in AfterVersion(old), i \in 1 .. Len(clients)
      PROVE  t \in Seq(Client) /\ Len(t) = Len(clients) /\ Quiet(clients, t)
  BY <1>0, <1>0a, <1>4, DisconnectType, QuietDisconnect DEF AfterVersion, SameClients
<1>5. ASSUME NEW u \in Names \cup {NoName}, NEW old \in BOOLEAN, NEW verified \in BOOLEAN,
             RecvIdentRefused(u, old, verified)
      PROVE  Effect
  <2>1. PICK t \in AfterVersion(old) : clients' \in Disconnect(t, i)
    BY <1>5 DEF RecvIdentRefused
  <2>2. i \in 1 .. Len(clients)
    BY <1>0, <1>5 DEF RecvIdentRefused
  <2>3. t \in Seq(Client) /\ i \in 1 .. Len(t) /\ Quiet(clients, t)
    BY <1>4, <2>1, <2>2
  <2>4. Quiet(clients, clients')
    BY <2>1, <2>3, QuietDisconnect, QuietTrans
  <2>5. UNCHANGED <<workers, torn, clash>>
    BY <1>5 DEF RecvIdentRefused
  <2> QED BY <1>0b, <2>4, <2>5 DEF Effect, Steady
<1>6. ASSUME NEW u \in Names \cup {NoName}, NEW old \in BOOLEAN, NEW cpe \in BOOLEAN,
             RecvIdentAccepted(u, old, cpe)
      PROVE  Effect
  <2>1. PICK t \in AfterVersion(old) :
            LET named == [t EXCEPT ![i].name = u]
            IN  IF cpe
                THEN clients' \in FlushTo(named, i) /\ UNCHANGED workers
                ELSE Login(named)
    BY <1>6 DEF RecvIdentAccepted
  <2>2. i \in 1 .. Len(clients)
    BY <1>0, <1>6 DEF RecvIdentAccepted
  <2> DEFINE named == [t EXCEPT ![i].name = u]
  <2>3. t \in Seq(Client) /\ i \in 1 .. Len(t) /\ Quiet(clients, t)
    BY <1>4, <2>2
  <2>4. named \in Seq(Client) /\ i \in 1 .. Len(named)
    BY <2>3, NameType, ZenonT(60)
  <2>5. Quiet(clients, named)
    <3>1. Quiet(t, named)
      BY <2>3, QuietField
    <3> HIDE DEF named
    <3> QED BY <2>3, <3>1, QuietTrans
  <2>6. IF cpe THEN clients' \in FlushTo(named, i) /\ UNCHANGED workers ELSE Login(named)
    BY <2>1
  <2> HIDE DEF named
  <2>7. Quiet(named, clients') /\ Threads
    <3>1. CASE cpe
      BY <1>0b, <2>4, <2>6, <3>1, QuietDisconnect
    <3>2. CASE ~cpe
      BY <1>0, <2>4, <2>6, <3>2, QuietLogin
    <3> QED BY <3>1, <3>2
  <2>8. Quiet(clients, clients')
    BY <2>5, <2>7, QuietTrans
  <2>9. UNCHANGED <<torn, clash>>
    BY <1>6 DEF RecvIdentAccepted
  <2> QED BY <2>7, <2>8, <2>9 DEF Effect, Steady
<1>7. ASSUME NEW n \in ExtCounts, RecvExtInfo(n)
      PROVE  Effect
  <2>1. i \in 1 .. Len(clients) /\ UNCHANGED <<workers, torn, clash>>
    BY <1>0, <1>7 DEF RecvExtInfo
  <2>2. clients' = [clients EXCEPT ![i].room = n, ![i].exts = {}]
    BY <1>7 DEF RecvExtInfo
  <2>3. Quiet(clients, clients')
    BY <1>0, <2>1, <2>2, QuietField
  <2> QED BY <1>0b, <2>1, <2>3 DEF Effect, Steady
<1>8. ASSUME NEW e \in ExtNames, RecvExtEntry(e)
      PROVE  Effect
  <2> DEFINE t == AddExtension(clients, i, e)
  <2>1. i \in 1 .. Len(clients) /\ e \in Extensions \cup {NoExtension}
    BY <1>0, <1>8, CPEAssumption DEF RecvExtEntry
  <2>2. t \in Seq(Client) /\ SameClients(clients, t)
    BY <1>0, <2>1, AddExtensionType
  <2>3. Quiet(clients, t)
    <3>1. CASE clients[i].room = 0 \/ e = NoExtension
      BY <1>0a, <3>1 DEF AddExtension
    <3>2. CASE ~(clients[i].room = 0 \/ e = NoExtension)
      <4> DEFINE nr == clients[i].room - 1
                 ne == clients[i].exts \cup {e}
      <4>1. t = [clients EXCEPT ![i].room = nr, ![i].exts = ne]
        BY <3>2 DEF AddExtension
      <4> HIDE DEF nr, ne, t
      <4> QED BY <1>0, <2>1, <4>1, QuietField
    <3> QED BY <3>1, <3>2
  <2>4. IF clients[i].room = 1 THEN Login(t) ELSE clients' = t /\ UNCHANGED workers
    BY <1>8 DEF RecvExtEntry
  <2> HIDE DEF t
  <2>5. i \in 1 .. Len(t)
    BY <2>1, <2>2 DEF SameClients
  <2>6. Quiet(t, clients') /\ Threads
    BY <1>0, <1>0b, <2>2, <2>4, <2>5, QuietLogin, QuietRefl
  <2>7. Quiet(clients, clients')
    BY <2>3, <2>6, QuietTrans
  <2>8. UNCHANGED <<torn, clash>>
    BY <1>8 DEF RecvExtEntry
  <2> QED BY <2>6, <2>7, <2>8 DEF Effect, Steady
<1>9. ASSUME NEW supports \in SupportLevels, RecvSupportLevel(supports)
      PROVE  Effect
  <2> DEFINE t == [clients EXCEPT ![i].custom = supports]
  <2>1. i \in 1 .. Len(clients) /\ supports \in BOOLEAN
    BY <1>0, <1>9, CPEAssumption DEF RecvSupportLevel
  <2>2. t \in Seq(Client) /\ i \in 1 .. Len(t)
    <3>1. [clients[i] EXCEPT !.custom = supports] \in Client
      BY <1>0, <2>1 DEF Client
    <3> QED BY <1>0, <2>1, <3>1, ExceptSeq
  <2>3. Quiet(clients, t)
    BY <1>0, <2>1, QuietField
  <2>4. StartLevel(t) /\ UNCHANGED <<torn, clash>>
    BY <1>9 DEF RecvSupportLevel
  <2> HIDE DEF t
  <2>5. Quiet(t, clients') /\ Threads
    BY <1>0, <2>2, <2>4, QuietStart
  <2>6. Quiet(clients, clients')
    BY <2>3, <2>5, QuietTrans
  <2> QED BY <2>4, <2>5, <2>6 DEF Effect, Steady
<1>10. CASE Receive
  BY <1>1, <1>3, <1>5, <1>6, <1>7, <1>8, <1>9, <1>10 DEF Receive
<1>11. CASE NoLevel
  <2>1. Quiet(clients, clients') /\ UNCHANGED <<workers, torn, clash>>
    BY <1>0, <1>11, QuietDisconnect DEF NoLevel, TypeOK
  <2> QED BY <1>0b, <2>1 DEF Effect, Steady
<1>12. CASE SendChunks
  <2> DEFINE n == clients[i].mapgz - ChunksPerTick
             t == [clients EXCEPT ![i].mapgz = n]
  <2>1. i \in 1 .. Len(clients) /\ clients' \in FlushTo(t, i)
    BY <1>0, <1>12 DEF SendChunks, TypeOK
  <2>2. t \in Seq(Client) /\ i \in 1 .. Len(t)
    <3>1. ~LastChunks(clients[i])
      BY <1>12 DEF SendChunks
    <3>2. n = clients[i].mapgz - ChunksPerTick
      OBVIOUS
    <3> HIDE DEF n
    <3>3. t \in Seq(Client) /\ SameClients(clients, t)
      BY <1>0, <2>1, <3>1, <3>2, ChunksType
    <3> QED BY <2>1, <3>3 DEF SameClients
  <2>3. Quiet(clients, t)
    <3> HIDE DEF n
    <3> QED BY <1>0, <2>1, QuietField
  <2> HIDE DEF t
  <2>4. Quiet(clients, clients')
    BY <2>1, <2>2, <2>3, QuietDisconnect, QuietTrans
  <2>5. UNCHANGED <<workers, torn, clash>>
    BY <1>12 DEF SendChunks
  <2> QED BY <1>0b, <2>4, <2>5 DEF Effect, Steady
<1>13. CASE FinishLevel
  BY <1>13, FinishEffect DEF Effect
<1>14. CASE ReapRemove
  <2>1. Removing
    BY <1>0, <1>14 DEF ReapRemove, Removing, Gone
  <2> QED BY <2>1 DEF Effect
<1>15. CASE ReapEnd
  <2>1. Moving
    BY <1>15 DEF ReapEnd, Moving, MayMove
  <2> QED BY <2>1 DEF Effect
<1>16. CASE MainStep
  BY <1>1, <1>2, <1>10, <1>11, <1>12, <1>13, <1>14, <1>15, <1>16 DEF MainStep
<1>17. ASSUME NEW w \in Workers, HandOver(w)
       PROVE  Effect
  <2>1. Quiet(clients, clients')
    <3>1. CASE Aimed(w)
      <4> DEFINE s == workers[w].slot
      <4>1. s \in 1 .. Len(clients) /\ clients' = [clients EXCEPT ![s].mapgz = Chunks]
        BY <1>0, <1>17, <3>1 DEF HandOver, Through, Aimed
      <4> HIDE DEF s
      <4> QED BY <1>0, <4>1, QuietField
    <3>2. CASE ~Aimed(w)
      BY <1>0a, <1>17, <3>2 DEF HandOver, Through
    <3> QED BY <3>1, <3>2
  <2>2. Threads
    <3>1. workers' = [workers EXCEPT ![w].stage = "publish"] /\ IsRunning(w)
      BY <1>17 DEF HandOver, IsRunning
    <3>2. workers'[w].slot = workers[w].slot /\ workers'[w].owner = workers[w].owner
      BY <1>0, <3>1 DEF WorkersType, Running, Idle
    <3>3. \A v \in Workers : v # w => workers'[v] = workers[v]
      BY <1>0, <3>1 DEF WorkersType
    <3> QED BY <3>1, <3>2, <3>3 DEF Threads, IsRunning
  <2> QED BY <1>17, <2>1, <2>2 DEF HandOver, Effect, Steady
<1>18. ASSUME NEW w \in Workers, Publish(w) \/ Fail(w)
       PROVE  Effect
  <2>1. /\ IsRunning(w) /\ Finish(w) /\ UNCHANGED <<torn, clash>>
        /\ \E state \in {"success", "failure"} :
              Through(w, [clients EXCEPT ![workers[w].slot].mapsend = state])
    BY <1>18 DEF Publish, Fail, IsRunning
  <2> QED BY <2>1 DEF Publishing, Effect
<1>19. ASSUME NEW w \in Workers, FastAbort(w)
       PROVE  Effect
  BY <1>0a, <1>0c, <1>19 DEF FastAbort, Effect, Steady
<1>20. ASSUME NEW w \in Workers, FastHangup(w)
       PROVE  Effect
  <2>1. workers[w].slot \in 1 .. Len(clients) /\ UNCHANGED <<workers, torn, clash>>
    BY <1>0, <1>20 DEF FastHangup, Connected
  <2>2. Quiet(clients, clients')
    BY <1>0, <1>20, <2>1, QuietDisconnect DEF FastHangup
  <2> QED BY <1>0b, <2>1, <2>2 DEF Effect, Steady
<1>21. ASSUME NEW w \in Workers, WorkerStep(w)
       PROVE  Effect
  BY <1>17, <1>18, <1>19, <1>20, <1>21 DEF WorkerStep
<1> QED BY <1>1, <1>16, <1>21 DEF Next

-----------------------------------------------------------------------------
(* Theorems.                                                               *)

\* What a removal leaves of the table, slot by slot.
LEMMA RemovalSlots ==
    ASSUME clients \in Seq(Client), NEW n \in 1 .. Len(clients),
           clients' = RemoveAt(clients, n)
    PROVE  \E at \in [1 .. Len(clients') -> 1 .. Len(clients)] :
               /\ \A j, k \in 1 .. Len(clients') : at[j] = at[k] => j = k
               /\ \A k \in 1 .. Len(clients') : clients'[k] = clients[at[k]]
<1> DEFINE at == [k \in 1 .. Len(clients') |-> IF k < n THEN k ELSE k + 1]
<1>1. /\ Len(clients') = Len(clients) - 1 /\ Len(clients) \in Nat
      /\ \A k \in 1 .. Len(clients) - 1 : clients'[k] = clients[IF k < n THEN k ELSE k + 1]
  BY RemoveAtType
<1>2. at \in [1 .. Len(clients') -> 1 .. Len(clients)]
  BY <1>1
<1>3. \A j, k \in 1 .. Len(clients') : at[j] = at[k] => j = k
  BY <1>1
<1>4. \A k \in 1 .. Len(clients') : clients'[k] = clients[at[k]]
  BY <1>1
<1> HIDE DEF at
<1> QED BY <1>2, <1>3, <1>4

\* The table a connection joins, slot by slot.
LEMMA JoinedSlots ==
    ASSUME clients \in Seq(Client), NEW c \in Conns
    PROVE  LET t == Append(clients, Fresh(c, Len(clients)))
           IN  /\ Len(t) = Len(clients) + 1
               /\ \A k \in 1 .. Len(clients) : t[k] = clients[k]
               /\ t[Len(clients) + 1] = Fresh(c, Len(clients))
OBVIOUS

\* No two clients of the table are one connection, for accept() returns only
\* sockets that are not open.
ConnsDistinct ==
    \A j, k \in 1 .. Len(clients) : clients[j].conn = clients[k].conn => j = k

\* Behind SpawnOnRequest: as long as no thread was left pointing at another
\* client's slot, every running thread serves the client it was started for, and
\* whoever is spawned, or has a compressed level waiting, asked for it.
LevelInv ==
    /\ ConnsDistinct
    /\ torn \/ /\ \A k \in 1 .. Len(clients) :
                     clients[k].spawned \/ clients[k].mapsend = "success"
                         => clients[k].levels > 0
               /\ \A w \in Workers : IsRunning(w) => Served(w)

\* Threads that are all aimed at their own client stay so when the table moves
\* only if none is running.
LEMMA MovedThreads ==
    ASSUME WorkersType, clients' \in Seq(Client), workers' \in {workers, AllDangling},
           ~Misdirected(clients', workers'), NEW w \in Workers, IsRunning(w)'
    PROVE  IsRunning(w) /\ workers'[w] = workers[w]
<1>1. CASE workers' = workers
  BY <1>1 DEF IsRunning
<1>2. CASE workers' = AllDangling
  <2>1. workers'[w].slot = Dangling
    BY <1>2 DEF AllDangling, WorkersType, Running, Idle
  <2>2. Dangling \notin DOMAIN clients'
    BY DEF Dangling
  <2> QED BY <2>1, <2>2 DEF Misdirected, IsRunning
<1> QED BY <1>1, <1>2

\* Levels are asked for by those they are prepared for.
LEMMA LevelInvariant == Spec => []LevelInv
<1>1. Init => LevelInv
  BY DEF Init, LevelInv, ConnsDistinct, IsRunning, Idle
<1>2. ASSUME TypeOK, LevelInv, [Next]_vars
      PROVE  LevelInv'
  <2>1. TypeOK' /\ Effect
    BY <1>2, StepType, StepEffect
  <2>2. /\ clients \in Seq(Client) /\ Len(clients) \in Nat /\ DOMAIN clients = 1 .. Len(clients)
        /\ clients' \in Seq(Client) /\ DOMAIN clients' = 1 .. Len(clients')
        /\ WorkersType /\ torn \in BOOLEAN
    BY <1>2, <2>1 DEF TypeOK, WorkersType
  <2>3. CASE Steady
    <3>1. Len(clients') = Len(clients) /\ \A k \in 1 .. Len(clients) : Keeps(clients, clients', k)
      BY <2>3 DEF Steady, Quiet
    <3>2. ConnsDistinct'
      BY <1>2, <3>1 DEF LevelInv, ConnsDistinct, Keeps
    <3>3. CASE torn
      BY <2>3, <3>2, <3>3 DEF LevelInv, Steady
    <3>4. CASE ~torn
      <4>1. \A k \in 1 .. Len(clients') :
                clients'[k].spawned \/ clients'[k].mapsend = "success"
                    => clients'[k].levels > 0
        BY <1>2, <3>1, <3>4 DEF LevelInv, Keeps
      <4>2. ASSUME NEW w \in Workers, IsRunning(w)', ~Served(w)'
            PROVE  FALSE
        <5>1. /\ IsRunning(w)
              /\ workers'[w].slot = workers[w].slot
              /\ workers'[w].owner = workers[w].owner
          BY <2>3, <4>2 DEF Steady, Threads, IsRunning
        <5>2. Served(w)
          BY <1>2, <3>4, <5>1 DEF LevelInv
        <5>3. Served(w)'
          BY <3>1, <5>1, <5>2 DEF Served, Keeps
        <5> QED BY <4>2, <5>3
      <4> QED BY <3>2, <4>1, <4>2 DEF LevelInv
    <3> QED BY <3>3, <3>4
  <2>4. CASE Joining
    <3>1. PICK c \in Conns :
              /\ c \notin ConnsIn(clients)
              /\ Quiet(Append(clients, Fresh(c, Len(clients))), clients')
              /\ MayMove
              /\ NoteTorn
      BY <2>4 DEF Joining
    <3> DEFINE t == Append(clients, Fresh(c, Len(clients)))
               n == Len(clients) + 1
    <3>2. Len(t) = n /\ (\A k \in 1 .. Len(clients) : t[k] = clients[k]) /\ t[n] = Fresh(c, Len(clients))
      BY <2>2, JoinedSlots
    <3>3. Quiet(t, clients')
      BY <3>1
    <3> HIDE DEF t
    <3>4. Len(clients') = n /\ \A k \in 1 .. n : Keeps(t, clients', k)
      BY <3>2, <3>3 DEF Quiet
    <3>5. \A k \in 1 .. Len(clients) : k \in 1 .. n /\ Keeps(clients, clients', k)
      BY <2>2, <3>2, <3>4 DEF Keeps
    <3>6. /\ clients'[n].conn = c /\ clients'[n].spawned = FALSE /\ clients'[n].mapsend = "none"
          /\ \A k \in 1 .. n : k = n \/ k \in 1 .. Len(clients)
      <4>1. Keeps(t, clients', n)
        BY <2>2, <3>4
      <4>2. n \in 1 .. Len(clients') /\ clients'[n] \in Client
        BY <2>2, <3>4
      <4>3. clients'[n].conn = c /\ clients'[n].mapsend = "none" /\ ~clients'[n].spawned
        BY <3>2, <4>1 DEF Keeps, Fresh
      <4>4. clients'[n].spawned \in BOOLEAN
        BY <4>2 DEF Client
      <4> QED BY <2>2, <4>3, <4>4
    <3> HIDE DEF n
    <3>7. ConnsDistinct'
      <4>1. \A k \in 1 .. Len(clients) : clients'[k].conn = clients[k].conn /\ clients'[k].conn # c
        BY <2>2, <3>1, <3>5 DEF ConnsIn, Keeps
      <4> QED BY <1>2, <3>4, <3>6, <4>1 DEF LevelInv, ConnsDistinct
    <3>8. CASE torn'
      BY <3>7, <3>8 DEF LevelInv
    <3>9. CASE ~torn'
      <4>1. ~torn /\ ~Misdirected(clients', workers')
        BY <3>1, <3>9 DEF NoteTorn
      <4>2. \A k \in 1 .. n :
                clients'[k].spawned \/ clients'[k].mapsend = "success"
                    => clients'[k].levels > 0
        BY <1>2, <3>5, <3>6, <4>1 DEF LevelInv, Keeps
      <4>3. ASSUME NEW w \in Workers, IsRunning(w)'
            PROVE  Served(w)'
        <5>1. IsRunning(w) /\ workers'[w] = workers[w]
          BY <2>2, <3>1, <4>1, <4>3, MovedThreads DEF MayMove
        <5>2. Served(w)
          BY <1>2, <4>1, <5>1 DEF LevelInv
        <5> QED BY <3>4, <3>5, <5>1, <5>2 DEF Served, Keeps
      <4> QED BY <3>4, <3>7, <4>2, <4>3 DEF LevelInv
    <3> QED BY <3>8, <3>9
  <2>5. CASE Publishing
    <3>1. PICK w \in Workers, state \in {"success", "failure"} :
              /\ IsRunning(w)
              /\ Through(w, [clients EXCEPT ![workers[w].slot].mapsend = state])
              /\ Finish(w)
              /\ UNCHANGED <<torn, clash>>
      BY <2>5 DEF Publishing
    <3> DEFINE s == workers[w].slot
    <3>2. /\ Len(clients') = Len(clients)
          /\ \A k \in 1 .. Len(clients) :
                /\ clients'[k].conn = clients[k].conn /\ clients'[k].levels = clients[k].levels
                /\ clients'[k].spawned = clients[k].spawned
                /\ k # s => clients'[k].mapsend = clients[k].mapsend
      <4>1. CASE ~Aimed(w)
        BY <3>1, <4>1 DEF Through
      <4>2. CASE Aimed(w)
        <5>1. s \in 1 .. Len(clients) /\ clients' = [clients EXCEPT ![s].mapsend = state]
          BY <2>2, <3>1, <4>2 DEF Through, Aimed
        <5>2. \A k \in 1 .. Len(clients) : clients[k] \in Client
          BY <2>2
        <5> HIDE DEF s
        <5>3. ASSUME NEW k \in 1 .. Len(clients)
              PROVE  clients'[k] = IF k = s THEN [clients[k] EXCEPT !.mapsend = state]
                                   ELSE clients[k]
          BY <2>2, <5>1
        <5>4. \A k \in 1 .. Len(clients) :
                LET r == [clients[k] EXCEPT !.mapsend = state]
                IN  /\ r.conn = clients[k].conn /\ r.levels = clients[k].levels
                    /\ r.spawned = clients[k].spawned
          BY <5>2 DEF Client
        <5>5. Len(clients') = Len(clients)
          BY <2>2, <5>1
        <5> QED BY <5>3, <5>4, <5>5
      <4> QED BY <4>1, <4>2
    <3>3. ConnsDistinct'
      BY <1>2, <3>2 DEF LevelInv, ConnsDistinct
    <3>4. CASE torn
      BY <3>1, <3>3, <3>4 DEF LevelInv
    <3>5. CASE ~torn
      <4>1. Served(w)
        BY <1>2, <3>1, <3>5 DEF LevelInv
      <4>2. \A k \in 1 .. Len(clients') :
                clients'[k].spawned \/ clients'[k].mapsend = "success"
                    => clients'[k].levels > 0
        BY <1>2, <3>2, <3>5, <4>1 DEF LevelInv, Served
      <4>3. ASSUME NEW v \in Workers, IsRunning(v)'
            PROVE  Served(v)'
        <5>1. workers'[v] = workers[v] /\ IsRunning(v)
          BY <2>2, <3>1, <4>3 DEF Finish, WorkersType, IsRunning, Idle
        <5>2. Served(v)
          BY <1>2, <3>5, <5>1 DEF LevelInv
        <5> QED BY <3>2, <5>1, <5>2 DEF Served
      <4> QED BY <3>3, <4>2, <4>3 DEF LevelInv
    <3> QED BY <3>4, <3>5
  <2>6. CASE Spawning
    <3>1. PICK n \in 1 .. Len(clients) :
              /\ clients[n].mapsend = "success"
              /\ SpawnsAt(clients, clients', n)
              /\ UNCHANGED <<workers, torn, clash>>
      BY <2>6 DEF Spawning
    <3>2. /\ Len(clients') = Len(clients)
          /\ \A k \in 1 .. Len(clients) :
                /\ clients'[k].conn = clients[k].conn
                /\ clients'[k].mapsend = "success" => clients[k].mapsend = "success"
                /\ clients[k].levels > 0 => clients'[k].levels > 0
                /\ k # n /\ clients'[k].spawned => clients[k].spawned
      BY <3>1 DEF SpawnsAt
    <3>3. ConnsDistinct'
      BY <1>2, <3>2 DEF LevelInv, ConnsDistinct
    <3>4. CASE torn
      BY <3>1, <3>3, <3>4 DEF LevelInv
    <3>5. CASE ~torn
      <4>1. \A k \in 1 .. Len(clients') :
                clients'[k].spawned \/ clients'[k].mapsend = "success"
                    => clients'[k].levels > 0
        BY <1>2, <3>1, <3>2, <3>5 DEF LevelInv
      <4>2. \A w \in Workers : IsRunning(w)' => Served(w)'
        BY <1>2, <3>1, <3>2, <3>5 DEF LevelInv, IsRunning, Served
      <4> QED BY <3>3, <4>1, <4>2 DEF LevelInv
    <3> QED BY <3>4, <3>5
  <2>7. CASE Removing
    <3>1. PICK n \in 1 .. Len(clients) :
              clients' = RemoveAt(clients, n) /\ workers' = workers /\ NoteTorn
      BY <2>7 DEF Removing
    <3>2. PICK at \in [1 .. Len(clients') -> 1 .. Len(clients)] :
              /\ \A j, k \in 1 .. Len(clients') : at[j] = at[k] => j = k
              /\ \A k \in 1 .. Len(clients') : clients'[k] = clients[at[k]]
      BY <2>2, <3>1, RemovalSlots
    <3>3. ConnsDistinct'
      BY <1>2, <3>2 DEF LevelInv, ConnsDistinct
    <3>4. CASE torn'
      BY <3>3, <3>4 DEF LevelInv
    <3>5. CASE ~torn'
      <4>1. ~torn /\ ~Misdirected(clients', workers')
        BY <3>1, <3>5 DEF NoteTorn
      <4>2. \A k \in 1 .. Len(clients') :
                clients'[k].spawned \/ clients'[k].mapsend = "success"
                    => clients'[k].levels > 0
        BY <1>2, <3>2, <4>1 DEF LevelInv
      <4>3. ASSUME NEW w \in Workers, IsRunning(w)'
            PROVE  Served(w)'
        <5> DEFINE s == workers[w].slot
        <5>1. IsRunning(w) /\ workers'[w] = workers[w]
          BY <3>1, <4>3 DEF IsRunning
        <5>2. s \in 1 .. Len(clients) /\ clients[s].conn = workers[w].owner /\ clients[s].levels > 0
          BY <1>2, <4>1, <5>1 DEF LevelInv, Served
        <5>3. s \in 1 .. Len(clients') /\ clients'[s].conn = workers[w].owner
          BY <2>2, <3>1, <4>1, <5>1 DEF Misdirected, IsRunning
        <5> HIDE DEF s
        <5>4. at[s] = s
          BY <1>2, <3>2, <5>2, <5>3 DEF LevelInv, ConnsDistinct
        <5>5. clients'[s].levels > 0
          BY <3>2, <5>2, <5>3, <5>4
        <5> QED BY <5>1, <5>3, <5>5 DEF Served, s
      <4> QED BY <3>3, <4>2, <4>3 DEF LevelInv
    <3> QED BY <3>4, <3>5
  <2>8. CASE Moving
    <3>1. clients' = clients /\ workers' \in {workers, AllDangling} /\ NoteTorn
      BY <2>8 DEF Moving
    <3>2. ConnsDistinct'
      BY <1>2, <3>1 DEF LevelInv, ConnsDistinct
    <3>3. CASE torn'
      BY <3>2, <3>3 DEF LevelInv
    <3>4. CASE ~torn'
      <4>1. ~torn /\ ~Misdirected(clients', workers')
        BY <3>1, <3>4 DEF NoteTorn
      <4>2. ASSUME NEW w \in Workers, IsRunning(w)'
            PROVE  Served(w)'
        <5>1. IsRunning(w) /\ workers'[w] = workers[w]
          BY <2>2, <3>1, <4>1, <4>2, MovedThreads
        <5> QED BY <1>2, <3>1, <4>1, <5>1 DEF LevelInv, Served
      <4> QED BY <1>2, <3>1, <3>2, <4>1, <4>2 DEF LevelInv
    <3> QED BY <3>3, <3>4
  <2> QED BY <2>1, <2>3, <2>4, <2>5, <2>6, <2>7, <2>8 DEF Effect
<1> QED BY <1>1, <1>2, TypeCorrect, PTL DEF Spec

\* A client is spawned only by a level it asked for, unless a thread was left
\* pointing at another client's slot.
THEOREM SpawnsOnRequest == Spec => []SpawnOnRequest
<1>1. TypeOK /\ LevelInv => SpawnOnRequest
  BY DEF TypeOK, LevelInv, SpawnOnRequest
<1> QED BY <1>1, TypeCorrect, LevelInvariant, PTL

\* Behind SeeEachOtherUnlessClash: as long as ids were never shared they tell the
\* clients apart, and spawned players show each other.
SeeInv ==
    clash \/ /\ IdxDistinct(clients)
             /\ \A j, k \in 1 .. Len(clients) :
                   j # k /\ clients[j].spawned /\ clients[k].spawned => Shows(clients, j, k)

\* The game of a spawned player that missed no packet shows every other spawned
\* player, as long as ids were never shared: the later one's exchange of spawn
\* packets shows both to both, and a despawn packet hides only the client that
\* leaves.
THEOREM PlayersSeeEachOther == Spec => []SeeEachOtherUnlessClash
<1>1. Init => SeeInv
  BY DEF Init, SeeInv, IdxDistinct
<1>2. ASSUME TypeOK, SeeInv, [Next]_vars
      PROVE  SeeInv'
  <2>1. TypeOK' /\ Effect
    BY <1>2, StepType, StepEffect
  <2>2. /\ clients \in Seq(Client) /\ Len(clients) \in Nat /\ DOMAIN clients = 1 .. Len(clients)
        /\ clients' \in Seq(Client)
    BY <1>2, <2>1 DEF TypeOK
  <2>3. ASSUME clients' = clients, clash' = clash
        PROVE  SeeInv'
    BY <1>2, <2>3 DEF SeeInv
  <2>4. CASE Steady
    <3>1. /\ Len(clients') = Len(clients)
          /\ \A k \in 1 .. Len(clients) : Keeps(clients, clients', k)
          /\ KeepsShowing(clients, clients')
          /\ clash' = clash
      BY <2>4 DEF Steady, Quiet
    <3>2. CASE clash
      BY <3>1, <3>2 DEF SeeInv
    <3>3. CASE ~clash
      <4>1. IdxDistinct(clients')
        BY <1>2, <3>1, <3>3 DEF SeeInv, IdxDistinct, Keeps
      <4>2. \A j, k \in 1 .. Len(clients') :
                j # k /\ clients'[j].spawned /\ clients'[k].spawned => Shows(clients', j, k)
        BY <1>2, <3>1, <3>3 DEF SeeInv, KeepsShowing, Keeps
      <4> QED BY <4>1, <4>2 DEF SeeInv
    <3> QED BY <3>2, <3>3
  <2>5. CASE Joining
    <3>1. PICK c \in Conns :
              /\ Quiet(Append(clients, Fresh(c, Len(clients))), clients')
              /\ clash' = (clash \/ \E k \in DOMAIN clients : clients[k].idx = Len(clients))
      BY <2>5 DEF Joining
    <3> DEFINE t == Append(clients, Fresh(c, Len(clients)))
               n == Len(clients) + 1
    <3>2. Len(t) = n /\ (\A k \in 1 .. Len(clients) : t[k] = clients[k]) /\ t[n] = Fresh(c, Len(clients))
      BY <2>2, JoinedSlots
    <3>3. Quiet(t, clients')
      BY <3>1
    <3> HIDE DEF t
    <3>4. /\ Len(clients') = n
          /\ \A k \in 1 .. n : Keeps(t, clients', k)
          /\ KeepsShowing(t, clients')
      BY <3>2, <3>3 DEF Quiet
    <3>5. CASE clash'
      BY <3>5 DEF SeeInv
    <3>6. CASE ~clash'
      <4>1. IdxDistinct(clients) /\ \A k \in 1 .. Len(clients) : clients[k].idx # Len(clients)
        BY <1>2, <2>2, <3>1, <3>6 DEF SeeInv
      <4>2. IdxDistinct(t)
        BY <2>2, <3>2, <4>1 DEF IdxDistinct, Fresh
      <4>3. IdxDistinct(clients')
        BY <3>2, <3>4, <4>2 DEF IdxDistinct, Keeps
      <4>4. ASSUME NEW j \in 1 .. n, NEW k \in 1 .. n, j # k,
                   clients'[j].spawned, clients'[k].spawned
            PROVE  Shows(clients', j, k)
        <5>1. t[j].spawned /\ t[k].spawned
          BY <3>4, <4>4 DEF Keeps
        <5>2. j \in 1 .. Len(clients) /\ k \in 1 .. Len(clients)
          BY <2>2, <3>2, <5>1 DEF Fresh
        <5>3. Shows(clients, j, k)
          BY <1>2, <3>1, <3>2, <3>6, <4>4, <5>1, <5>2 DEF SeeInv
        <5>4. Shows(t, j, k)
          BY <3>2, <5>2, <5>3 DEF Shows
        <5> QED BY <3>2, <3>4, <4>2, <4>4, <5>4 DEF KeepsShowing
      <4> HIDE DEF n
      <4> QED BY <3>4, <4>3, <4>4 DEF SeeInv
    <3> QED BY <3>5, <3>6
  <2>6. CASE Publishing
    <3>1. PICK w \in Workers, state \in {"success", "failure"} :
              /\ Through(w, [clients EXCEPT ![workers[w].slot].mapsend = state])
              /\ clash' = clash
      BY <2>6 DEF Publishing
    <3>2. CASE ~Aimed(w)
      BY <2>3, <3>1, <3>2 DEF Through
    <3>3. CASE Aimed(w)
      <4> DEFINE s == workers[w].slot
      <4>1. s \in 1 .. Len(clients) /\ clients' = [clients EXCEPT ![s].mapsend = state]
        BY <2>2, <3>1, <3>3 DEF Through, Aimed
      <4> HIDE DEF s
      <4>2. /\ Len(clients') = Len(clients)
            /\ \A k \in 1 .. Len(clients) :
                 clients'[k] = IF k = s THEN [clients[k] EXCEPT !.mapsend = state]
                               ELSE clients[k]
        BY <2>2, <4>1
      <4>3. \A k \in 1 .. Len(clients) :
                LET r == [clients[k] EXCEPT !.mapsend = state]
                IN  /\ r.idx = clients[k].idx /\ r.spawned = clients[k].spawned
                    /\ r.connected = clients[k].connected /\ r.sees = clients[k].sees
                    /\ r.missed = clients[k].missed
        <5>1. \A k \in 1 .. Len(clients) : clients[k] \in Client
          BY <2>2
        <5> QED BY <5>1 DEF Client
      <4>4. \A k \in 1 .. Len(clients) :
                /\ clients'[k].idx = clients[k].idx
                /\ clients'[k].spawned = clients[k].spawned
                /\ clients'[k].connected = clients[k].connected
                /\ clients'[k].sees = clients[k].sees
                /\ clients'[k].missed = clients[k].missed
        BY <4>2, <4>3
      <4>5. CASE clash
        BY <3>1, <4>5 DEF SeeInv
      <4>6. CASE ~clash
        <5>1. IdxDistinct(clients')
          BY <1>2, <4>2, <4>4, <4>6 DEF SeeInv, IdxDistinct
        <5>2. \A j, k \in 1 .. Len(clients') :
                j # k /\ clients'[j].spawned /\ clients'[k].spawned => Shows(clients', j, k)
          BY <1>2, <4>2, <4>4, <4>6 DEF SeeInv, Shows
        <5> QED BY <5>1, <5>2 DEF SeeInv
      <4> QED BY <4>5, <4>6
    <3> QED BY <3>2, <3>3
  <2>7. CASE Spawning
    <3>1. PICK n \in 1 .. Len(clients) : SpawnsAt(clients, clients', n) /\ clash' = clash
      BY <2>7 DEF Spawning
    <3>2. CASE clash
      BY <3>1, <3>2 DEF SeeInv
    <3>3. CASE ~clash
      <4>1. /\ IdxDistinct(clients)
            /\ Len(clients') = Len(clients)
            /\ \A k \in 1 .. Len(clients) :
                  /\ clients'[k].idx = clients[k].idx
                  /\ k # n /\ clients'[k].spawned => clients[k].spawned
            /\ KeepsShowing(clients, clients')
            /\ \A k \in (1 .. Len(clients)) \ {n} :
                  Shows(clients', n, k) /\ Shows(clients', k, n)
        BY <1>2, <3>1, <3>3 DEF SeeInv, SpawnsAt
      <4>2. IdxDistinct(clients')
        BY <4>1 DEF IdxDistinct
      <4>3. ASSUME NEW j \in 1 .. Len(clients'), NEW k \in 1 .. Len(clients'), j # k,
                   clients'[j].spawned, clients'[k].spawned
            PROVE  Shows(clients', j, k)
        <5>1. CASE j = n \/ k = n
          BY <4>1, <4>3, <5>1
        <5>2. CASE j # n /\ k # n
          <6>1. Shows(clients, j, k)
            BY <1>2, <3>3, <4>1, <4>3, <5>2 DEF SeeInv
          <6> QED BY <4>1, <4>3, <6>1 DEF KeepsShowing
        <5> QED BY <5>1, <5>2
      <4> QED BY <4>2, <4>3 DEF SeeInv
    <3> QED BY <3>2, <3>3
  <2>8. CASE Removing
    <3>1. PICK n \in 1 .. Len(clients) : clients' = RemoveAt(clients, n) /\ clash' = clash
      BY <2>8 DEF Removing
    <3>2. PICK at \in [1 .. Len(clients') -> 1 .. Len(clients)] :
              /\ \A j, k \in 1 .. Len(clients') : at[j] = at[k] => j = k
              /\ \A k \in 1 .. Len(clients') : clients'[k] = clients[at[k]]
      BY <2>2, <3>1, RemovalSlots
    <3>3. CASE clash
      BY <3>1, <3>3 DEF SeeInv
    <3>4. CASE ~clash
      <4>1. IdxDistinct(clients')
        <5>1. IdxDistinct(clients)
          BY <1>2, <3>4 DEF SeeInv
        <5>2. ASSUME NEW j \in 1 .. Len(clients'), NEW k \in 1 .. Len(clients'),
                     clients'[j].idx = clients'[k].idx
              PROVE  j = k
          <6>1. at[j] \in 1 .. Len(clients) /\ at[k] \in 1 .. Len(clients)
            BY <3>2
          <6>2. clients[at[j]].idx = clients[at[k]].idx
            BY <3>2, <5>2
          <6>3. at[j] = at[k]
            BY <5>1, <6>1, <6>2 DEF IdxDistinct
          <6> QED BY <3>2, <6>3
        <5> QED BY <5>2 DEF IdxDistinct
      <4>2. ASSUME NEW j \in 1 .. Len(clients'), NEW k \in 1 .. Len(clients'), j # k,
                   clients'[j].spawned, clients'[k].spawned
            PROVE  Shows(clients', j, k)
        <5>1. Shows(clients, at[j], at[k])
          BY <1>2, <3>2, <3>4, <4>2 DEF SeeInv
        <5> QED BY <3>2, <4>2, <5>1 DEF Shows
      <4> QED BY <4>1, <4>2 DEF SeeInv
    <3> QED BY <3>3, <3>4
  <2>9. CASE Moving
    BY <2>3, <2>9 DEF Moving
  <2> QED BY <2>1, <2>4, <2>5, <2>6, <2>7, <2>8, <2>9 DEF Effect
<1>3. TypeOK /\ SeeInv => SeeEachOtherUnlessClash
  BY DEF TypeOK, SeeInv, SeeEachOtherUnlessClash, SpawnedSeeEachOther, Shows
<1> QED BY <1>1, <1>2, <1>3, TypeCorrect, PTL DEF Spec

-----------------------------------------------------------------------------
(* The removal loop.                                                       *)

\* From table t to table u nobody moves, and nobody is connected again.
StaysDown(t, u) ==
    /\ Len(u) = Len(t)
    /\ \A k \in 1 .. Len(t) :
          u[k].conn = t[k].conn /\ (u[k].connected => t[k].connected)

\* What a disconnection leaves of a table brings nobody back.
LEMMA DisconnectStays ==
    ASSUME NEW t \in Seq(Client), NEW k \in 1 .. Len(t), NEW u \in Disconnect(t, k)
    PROVE  StaysDown(t, u)
<1>1. \A D : StaysDown(t, Down(t, D))
  <2>1. ASSUME NEW D, NEW j \in 1 .. Len(t)
        PROVE  Down(t, D)[j].connected => t[j].connected
    <3>1. t[j] \in Client /\ j \in DOMAIN t
      OBVIOUS
    <3> QED BY <3>1 DEF Down, Client
  <2> QED BY <2>1, DownType DEF StaysDown, SameClients
<1>2. \A v \in Seq(Client) : \A L : StaysDown(v, Missing(v, L))
  <2>1. ASSUME NEW v \in Seq(Client), NEW L, NEW j \in 1 .. Len(v)
        PROVE  Missing(v, L)[j].connected => v[j].connected
    <3>1. v[j] \in Client /\ j \in DOMAIN v
      OBVIOUS
    <3> QED BY <3>1 DEF Missing, Client
  <2> QED BY <2>1, MissingType DEF StaysDown, SameClients
<1>3. ASSUME NEW D, NEW F, u \in Flushed(t, D, F)
      PROVE  StaysDown(t, u)
  <2> DEFINE v == Down(t, D \cup F)
  <2>1. PICK L : u = Missing(v, L)
    BY <1>3 DEF Flushed
  <2>2. v \in Seq(Client) /\ StaysDown(t, v)
    BY <1>1, DownType
  <2> HIDE DEF v
  <2>3. StaysDown(v, u)
    BY <1>2, <2>1, <2>2
  <2> QED BY <2>2, <2>3 DEF StaysDown
<1> QED BY <1>1, <1>3 DEF Disconnect

\* A write of a map-send thread to the level of a client neither.
LEMMA WrittenStays ==
    ASSUME NEW t \in Seq(Client), NEW k \in DOMAIN t, NEW x
    PROVE  /\ StaysDown(t, [t EXCEPT ![k].mapgz = x])
           /\ StaysDown(t, [t EXCEPT ![k].mapsend = x])
<1>1. ASSUME NEW r, r.conn = t[k].conn, r.connected = t[k].connected
      PROVE  StaysDown(t, [t EXCEPT ![k] = r])
  BY <1>1 DEF StaysDown
<1>2. t[k] \in Client
  OBVIOUS
<1>3. /\ [t[k] EXCEPT !.mapgz = x].conn = t[k].conn
      /\ [t[k] EXCEPT !.mapgz = x].connected = t[k].connected
      /\ [t[k] EXCEPT !.mapsend = x].conn = t[k].conn
      /\ [t[k] EXCEPT !.mapsend = x].connected = t[k].connected
  BY <1>2 DEF Client
<1>4. /\ [t EXCEPT ![k].mapgz = x] = [t EXCEPT ![k] = [t[k] EXCEPT !.mapgz = x]]
      /\ [t EXCEPT ![k].mapsend = x] = [t EXCEPT ![k] = [t[k] EXCEPT !.mapsend = x]]
  OBVIOUS
<1> QED BY <1>1, <1>3, <1>4

\* So whatever a thread does in the middle of a pass leaves the clients where
\* they are, and those that are down are down for good.
LEMMA ThreadStays ==
    ASSUME TypeOK, NEW w \in Workers, WorkerStep(w)
    PROVE  StaysDown(clients, clients') /\ UNCHANGED <<pc, i, waiting>>
<1>0. clients \in Seq(Client) /\ DOMAIN clients = 1 .. Len(clients)
  BY DEF TypeOK
<1>1. StaysDown(clients, clients)
  BY DEF StaysDown
<1>2. ASSUME NEW t, Through(w, t), Aimed(w) => StaysDown(clients, t)
      PROVE  StaysDown(clients, clients')
  BY <1>1, <1>2 DEF Through
<1>3. CASE HandOver(w)
  BY <1>0, <1>2, <1>3, WrittenStays DEF HandOver, Aimed, mainVars
<1>4. CASE Publish(w) \/ Fail(w)
  BY <1>0, <1>2, <1>4, WrittenStays DEF Publish, Fail, Aimed, mainVars
<1>5. CASE FastAbort(w)
  BY <1>1, <1>5 DEF FastAbort, mainVars
<1>6. CASE FastHangup(w)
  BY <1>0, <1>6, DisconnectStays DEF FastHangup, Connected, mainVars
<1> QED BY <1>3, <1>4, <1>5, <1>6 DEF WorkerStep

\* Behind PassMovesUp: in a pass, a client that was down when it began is still
\* down, is not behind the slot it was in, and is before it once the loop has
\* passed by.
MoveInv ==
    pc = "reap" =>
        \A k \in 1 .. Len(clients) :
            LET w == waiting[clients[k].conn]
            IN  w # 0 => ~clients[k].connected /\ k <= w /\ (k < i => k < w)

\* A pass of the removal loop leaves nobody who was disconnected when it began in
\* the slot he was in, although it skips the client behind each one it removes.
THEOREM PassesMoveUp == Spec => []PassMovesUp
<1>1. Init => MoveInv
  BY DEF Init, MoveInv
<1>2. ASSUME TypeOK, LevelInv, MoveInv, [Next]_vars
      PROVE  MoveInv'
  <2>0. /\ clients \in Seq(Client) /\ Len(clients) \in Nat /\ DOMAIN clients = 1 .. Len(clients)
        /\ i \in Nat \ {0} /\ waiting \in [Conns -> Nat]
        /\ \A k \in 1 .. Len(clients) : clients[k].conn \in Conns
    <3>1. /\ clients \in Seq(Client) /\ i \in Nat \ {0} /\ waiting \in [Conns -> Nat]
      BY <1>2 DEF TypeOK
    <3>2. \A r \in Client : r.conn \in Conns
      BY DEF Client
    <3> QED BY <3>1, <3>2
  <2>1. SUFFICES ASSUME pc' = "reap", NEW k \in 1 .. Len(clients'),
                        waiting'[clients'[k].conn] # 0
                 PROVE  LET w == waiting'[clients'[k].conn]
                        IN  ~clients'[k].connected /\ k <= w /\ (k < i' => k < w)
    BY DEF MoveInv
  <2>2. CASE TickEnd
    <3> DEFINE c == clients[k].conn
    <3>1. clients' = clients /\ i' = 1 /\ k \in 1 .. Len(clients) /\ c \in Conns
      BY <2>0, <2>2 DEF TickEnd
    <3>2. waiting'[c] = SlotDown(c) /\ SlotDown(c) # 0
      BY <2>1, <2>2, <3>1 DEF TickEnd
    <3>3. SlotDown(c) \in DOMAIN clients /\ clients[SlotDown(c)].conn = c
          /\ ~clients[SlotDown(c)].connected
      BY <3>2 DEF SlotDown
    <3>4. SlotDown(c) = k
      BY <1>2, <2>0, <3>1, <3>3 DEF LevelInv, ConnsDistinct
    <3> QED BY <2>0, <3>1, <3>2, <3>3, <3>4
  <2>3. CASE ReapKeep
    <3>1. /\ pc = "reap" /\ clients' = clients /\ waiting' = waiting /\ i' = i + 1
          /\ clients[i].connected
      BY <2>3 DEF ReapKeep, Gone
    <3> QED BY <1>2, <2>0, <2>1, <3>1 DEF MoveInv
  <2>4. CASE ReapRemove
    <3>1. /\ pc = "reap" /\ clients' = RemoveAt(clients, i) /\ waiting' = waiting /\ i' = i + 1
          /\ i \in 1 .. Len(clients)
      BY <2>0, <2>4 DEF ReapRemove, Gone
    <3> DEFINE j == IF k < i THEN k ELSE k + 1
    <3>2. /\ Len(clients') = Len(clients) - 1 /\ clients'[k] = clients[j]
          /\ j \in 1 .. Len(clients)
      <4>1. /\ Len(clients') = Len(clients) - 1
            /\ \A n \in 1 .. Len(clients) - 1 :
                  clients'[n] = clients[IF n < i THEN n ELSE n + 1]
        BY <2>0, <3>1, RemoveAtType
      <4> QED BY <2>0, <3>1, <4>1
    <3>3. LET w == waiting[clients[j].conn]
          IN  ~clients[j].connected /\ j <= w /\ (j < i => j < w) /\ w \in Nat
      BY <1>2, <2>0, <2>1, <3>1, <3>2 DEF MoveInv
    <3> QED BY <2>0, <3>1, <3>2, <3>3
  <2>5. CASE StaysDown(clients, clients') /\ UNCHANGED <<pc, i, waiting>>
    BY <1>2, <2>1, <2>5 DEF StaysDown, MoveInv
  <2>6. CASE UNCHANGED vars
    BY <2>5, <2>6 DEF vars, StaysDown
  <2>7. ~(NoConnection \/ SkipClient \/ Receive \/ NoLevel \/ SendChunks \/ FinishLevel \/ ReapEnd)
    BY <2>1 DEF NoConnection, SkipClient, Receive, NoLevel, SendChunks, FinishLevel, ReapEnd,
        EndOfInput, Hangup, RecvOther, RecvIdentRefused, RecvIdentAccepted, RecvExtInfo,
        RecvExtEntry, RecvSupportLevel, HandlerReturns, NextClient, Receiving
  <2>8. ~(\E c \in Conns : Accept(c))
    BY <2>1 DEF Accept
  <2> QED BY <1>2, <2>2, <2>3, <2>4, <2>5, <2>6, <2>7, <2>8, ThreadStays DEF Next, MainStep
<1>3. TypeOK /\ MoveInv => PassMovesUp
  BY DEF TypeOK, MoveInv, PassMovesUp
<1> QED BY <1>1, <1>2, <1>3, TypeCorrect, LevelInvariant, PTL DEF Spec
=============================================================================
