----------------------------- MODULE GamesProofs ------------------------------
(***************************************************************************)
(* What the games of Outgoing show, for any number of clients, of every    *)
(* kind, and maps of any size.                                             *)
(***************************************************************************)
EXTENDS OutgoingTypeProofs

\* What is shown to the game of one client, from these parts of the state: the packets
\* s[j], j \in A, of its out buffer and l[j], j \in B, of its level, which it has not
\* been sent yet, and D, which are to be written to the out buffer.
Among(s, A, kind) == \E j \in A : s[j][1] = kind

Has(D, kind) == \E x \in D : x[1] = kind

AmongAbout(s, A, kind, p) == \E j \in A : s[j][1] = kind /\ s[j][2] = p

HasAbout(D, kind, p) == \E x \in D : x[1] = kind /\ x[2] = p

\* A packet of a level is in the out buffer only while the main thread flushes it (F),
\* with nothing but talk behind it.
Orderly(s, A, F) ==
    \A j \in A : s[j][1] \in Big => F /\ \A k \in A : k > j => s[k] = Talking

Coming(s, A, D) == Among(s, A, "init") \/ Has(D, "init")

Finishing(s, A, D) == Among(s, A, "finish") \/ Has(D, "finish")

\* How the state m of the level goes with what is under way: S says that the level is
\* to be started, R that a thread reads it, ld that the game has a level.
Phase(m, ld, s, A, B, D, S, R) ==
    /\ m \in {"none", "sent"} =>
        /\ B = {} /\ ~Among(s, A, "piece") /\ ~Has(D, "piece")
        /\ ~S /\ ~R /\ ~Coming(s, A, D)
    /\ m \in {"busy", "success"} => ~Finishing(s, A, D) /\ (ld => Coming(s, A, D))
    /\ m = "success" => ~S /\ ~R /\ ~Coming(s, A, D)
    /\ m = "busy" => ~Has(D, "piece")
    /\ Coming(s, A, D) => S
    /\ S => B = {} /\ ~Among(s, A, "piece") /\ ~R
    /\ Finishing(s, A, D) => ~ld
    /\ Among(s, A, "finish") => ~Has(D, "finish")

\* A level is asked for once, and not while one is under way.
Asked(m, q) ==
    /\ <<"ask">> \in Range(q) => m \in {"none", "sent"}
    /\ \A j, k \in DOMAIN q : q[j] = <<"ask">> /\ q[k] = <<"ask">> => j = k

\* The last that q says of p is b.
LastEdit(q, p, b) ==
    \E k \in DOMAIN q :
        /\ q[k] = <<"edit", p, b>>
        /\ \A j \in DOMAIN q : j > k => ~(q[j][1] = "edit" /\ q[j][2] = p)

\* What the block of the world at p, b, has to do with the game g and what is under way
\* to it: U are the positions that a thread has yet to read.
View(p, b, g, s, A, l, B, q, D, S, U) ==
    /\ \A x \in D : x[1] = "set" /\ x[2] = p => x[3] = b
    /\ ~HasAbout(D, "set", p) =>
        \A j \in A : s[j][1] = "set" /\ s[j][2] = p =>
            s[j][3] = b \/ \E k \in A : k > j /\ s[k][1] = "set" /\ s[k][2] = p
    /\ g.loaded /\ p \notin g.missed /\ ~AmongAbout(s, A, "set", p) /\ ~HasAbout(D, "set", p) =>
        g.view[p] = b \/ LastEdit(q, p, g.view[p])
    /\ ~g.loaded /\ p \notin g.missed =>
        /\ \/ S \/ p \in U \/ g.view[p] = b
           \/ AmongAbout(s, A, "piece", p) \/ HasAbout(D, "piece", p) \/ AmongAbout(l, B, "piece", p)
        /\ \A j \in A : s[j][1] = "piece" /\ s[j][2] = p => s[j][3] = b
        /\ \A j \in B : l[j][2] = p => l[j][3] = b
        /\ \A x \in D : x[1] = "piece" /\ x[2] = p => x[3] = b

\* What a thread has before it.
Ahead == UNION {Range(todo[t]) : t \in Threads}

Due(c) == {x \in Packet : x # Talking /\ <<"write", c, x>> \in Ahead}

Starting(c) == <<"start", c>> \in Ahead

Unread(c) == {p \in Pos : <<"read", c, p>> \in Ahead}

Reading(c) == Unread(c) # {} \/ <<"done", c>> \in Ahead

Flushing(c) ==
    todo[Main] # << >> /\ todo[Main][1] \in {<<"flush", c>>, <<"send", c>>, <<"lock", c, "send">>}

\* Clients that are sent everything.
Live(c) == client[c].connected /\ c \notin seen.lost /\ <<"down", c>> \notin Ahead

Sight(c) ==
    /\ Orderly(out[c], DOMAIN out[c], Flushing(c))
    /\ Phase(client[c].mapsend, game[c].loaded, out[c], DOMAIN out[c], DOMAIN level[c], Due(c),
             Starting(c), Reading(c))
    /\ Asked(client[c].mapsend, inq[c])
    /\ \A p \in Pos :
        View(p, world[p], game[c], out[c], DOMAIN out[c], level[c], DOMAIN level[c], inq[c],
             Due(c), Starting(c), Unread(c))

SightInv == \A c \in Clients : Live(c) => Sight(c)

States == {"none", "busy", "success", "sent"}

\* The first packet of those that are left is shown.
Foremost(a, A) == a \in A /\ \A k \in A : k # a => k > a

LEMMA OrderlyShown ==
    ASSUME NEW s \in Seq(Packet), NEW A \in SUBSET DOMAIN s, NEW F, Orderly(s, A, F),
           NEW a, Foremost(a, A)
    PROVE  /\ Orderly(s, A \ {a}, F)
           /\ s[a][1] \in Big => \A k \in A \ {a} : s[k] = Talking
BY DEF Orderly, Foremost

LEMMA PhaseShown ==
    ASSUME NEW s \in Seq(Packet), NEW A \in SUBSET DOMAIN s, NEW F, Orderly(s, A, F),
           NEW a, Foremost(a, A), NEW g \in Game, NEW m \in States, NEW B, NEW D, NEW S, NEW R,
           Phase(m, g.loaded, s, A, B, D, S, R)
    PROVE  Phase(m, Shows(g, s[a]).loaded, s, A \ {a}, B, D, S, R)
<1> DEFINE ld == Shows(g, s[a]).loaded
           C == A \ {a}
<1>1. s[a] \in Packet /\ s[a][1] \in {"init", "finish", "talk", "set", "piece"} /\ a \in A
  <2>1. a \in DOMAIN s
    BY DEF Foremost
  <2>2. s[a] \in Packet
    BY <2>1
  <2> QED BY <2>2, PacketFields DEF Foremost
<1>2. /\ s[a][1] = "init" => ~ld
      /\ s[a][1] = "finish" => ld
      /\ s[a][1] \notin {"init", "finish"} => (ld <=> g.loaded)
  BY <1>1, ShowsOne
<1> HIDE DEF ld
<1> SUFFICES Phase(m, ld, s, C, B, D, S, R)
  BY DEF ld
<1>3. \A kind : Among(s, C, kind) => Among(s, A, kind)
  BY DEF Among
<1>4. CASE s[a][1] \in Big
  <2>1. \A k \in C : s[k] = Talking
    BY <1>4, OrderlyShown
  <2>2. ~Among(s, C, "init") /\ ~Among(s, C, "piece") /\ ~Among(s, C, "finish")
    BY <2>1 DEF Among, Talking
  <2>3. Among(s, A, s[a][1])
    BY <1>1 DEF Among
  <2> HIDE DEF C
  <2>4. CASE s[a][1] = "init"
    BY <1>2, <2>2, <2>3, <2>4 DEF Phase, Coming, Finishing, States
  <2>5. CASE s[a][1] = "piece"
    BY <1>2, <2>2, <2>3, <2>5 DEF Phase, Coming, Finishing, States
  <2>6. CASE s[a][1] = "finish"
    BY <1>2, <2>2, <2>3, <2>6 DEF Phase, Coming, Finishing, States
  <2> QED BY <1>4, <2>4, <2>5, <2>6 DEF Big
<1>5. CASE s[a][1] \notin Big
  <2>1. ld <=> g.loaded
    BY <1>2, <1>5 DEF Big
  <2>2. \A kind \in Big : Among(s, C, kind) <=> Among(s, A, kind)
    BY <1>5 DEF Among
  <2> HIDE DEF C
  <2> QED BY <2>1, <2>2 DEF Phase, Coming, Finishing, Big
<1> QED BY <1>4, <1>5

LEMMA ViewShown ==
    ASSUME NEW s \in Seq(Packet), NEW A \in SUBSET DOMAIN s, NEW F, Orderly(s, A, F),
           NEW a, Foremost(a, A), NEW g \in Game, NEW m \in States, NEW B, NEW D, NEW S, NEW R,
           Phase(m, g.loaded, s, A, B, D, S, R), R \in BOOLEAN, S \in BOOLEAN,
           NEW l \in Seq(Piece), B \subseteq DOMAIN l,
           NEW q, NEW U, U # {} => R, NEW p \in Pos, NEW b,
           View(p, b, g, s, A, l, B, q, D, S, U)
    PROVE  View(p, b, Shows(g, s[a]), s, A \ {a}, l, B, q, D, S, U)
<1> DEFINE h == Shows(g, s[a])
           C == A \ {a}
           x == s[a]
<1>1. x \in Packet /\ x[1] \in {"init", "finish", "talk", "set", "piece"} /\ a \in A
  <2>1. a \in DOMAIN s
    BY DEF Foremost
  <2>2. s[a] \in Packet
    BY <2>1
  <2> QED BY <2>2, PacketFields DEF Foremost
<1>2. /\ \A x1 \in D : x1[1] = "set" /\ x1[2] = p => x1[3] = b
      /\ ~HasAbout(D, "set", p) =>
            \A j \in C : s[j][1] = "set" /\ s[j][2] = p =>
                s[j][3] = b \/ \E k \in C : k > j /\ s[k][1] = "set" /\ s[k][2] = p
  <2>1. \A j, k \in A : j # a /\ k > j => k # a
    <3>1. A \subseteq Nat
      BY DEF Foremost
    <3> QED BY <3>1 DEF Foremost
  <2> QED BY <2>1 DEF View
<1>3. /\ \A kind : Among(s, C, kind) => Among(s, A, kind)
      /\ \A kind : AmongAbout(s, C, kind, p) => AmongAbout(s, A, kind, p)
      /\ \A kind : AmongAbout(s, A, kind, p) =>
            AmongAbout(s, C, kind, p) \/ (x[1] = kind /\ x[2] = p)
      /\ Among(s, A, x[1])
      /\ \A kind : AmongAbout(s, A, kind, p) => Among(s, A, kind)
      /\ \A kind : HasAbout(D, kind, p) => Has(D, kind)
  BY <1>1 DEF Among, AmongAbout, Has, HasAbout
<1>7. \A kind \in {"set", "piece"} : x[1] # kind \/ x[2] # p =>
        (AmongAbout(s, A, kind, p) => AmongAbout(s, C, kind, p))
  BY <1>1 DEF AmongAbout
<1>4. ASSUME h.loaded, p \notin h.missed, ~AmongAbout(s, C, "set", p), ~HasAbout(D, "set", p)
      PROVE  h.view[p] = b \/ LastEdit(q, p, h.view[p])
  <2>1. CASE x[1] = "talk"
    <3>1. h = g /\ ~AmongAbout(s, A, "set", p)
      BY <1>1, <1>4, <1>7, <2>1, ShowsOne
    <3> HIDE DEF h
    <3> QED BY <1>4, <3>1 DEF View
  <2>2. CASE x[1] = "init"
    BY <1>1, <1>4, <2>2, ShowsOne
  <2>3. CASE x[1] = "finish"
    <3>1. /\ Finishing(s, A, D) /\ ~g.loaded /\ h.view = g.view /\ g.missed = h.missed
      BY <1>1, <1>3, <2>3, ShowsOne DEF Finishing, Phase
    <3>2. m \in {"none", "sent"}
      BY <3>1 DEF Phase, States
    <3>3. ~S /\ ~R /\ ~Among(s, A, "piece") /\ ~Has(D, "piece") /\ B = {}
      BY <3>2 DEF Phase
    <3>4. ~AmongAbout(s, A, "piece", p) /\ ~HasAbout(D, "piece", p) /\ ~AmongAbout(l, B, "piece", p)
          /\ p \notin U
      BY <1>3, <3>3 DEF AmongAbout
    <3> QED BY <1>4, <3>1, <3>3, <3>4 DEF View
  <2>4. CASE x[1] = "piece"
    <3>1. ~g.loaded
      <4>1. m = "busy" \/ m = "success"
        BY <1>3, <2>4 DEF Phase, States
      <4>2. g.loaded => Coming(s, A, D)
        BY <4>1 DEF Phase
      <4>3. Coming(s, A, D) => S
        BY DEF Phase
      <4>4. ~S
        BY <1>3, <2>4 DEF Phase
      <4> QED BY <4>2, <4>3, <4>4
    <3> QED BY <1>1, <1>4, <2>4, <3>1, ShowsOne
  <2>5. CASE x[1] = "set" /\ ~g.loaded
    BY <1>1, <1>4, <2>5, ShowsOne
  <2>6. CASE x[1] = "set" /\ g.loaded /\ x[2] = p
    <3>1. x[3] = b
      <4>1. \A k \in A : k > a /\ s[k][1] = "set" /\ s[k][2] = p => k \in C
        <5>1. A \subseteq Nat
          OBVIOUS
        <5> QED BY <5>1
      <4>2. x[3] = b \/ \E k \in A : k > a /\ s[k][1] = "set" /\ s[k][2] = p
        BY <1>1, <1>4, <2>6 DEF View
      <4> QED BY <1>4, <4>1, <4>2 DEF AmongAbout
    <3>2. h.view[p] = x[3]
      BY <1>1, <2>6, ShowsOne DEF Game
    <3> QED BY <3>1, <3>2
  <2>7. CASE x[1] = "set" /\ g.loaded /\ x[2] # p
    <3>1. h.view[p] = g.view[p] /\ p \notin g.missed
      BY <1>1, <1>4, <2>7, ShowsOne DEF Game
    <3>2. ~AmongAbout(s, A, "set", p)
      BY <1>3, <1>4, <2>7
    <3> QED BY <1>4, <2>7, <3>1, <3>2 DEF View
  <2> QED BY <1>1, <2>1, <2>2, <2>3, <2>4, <2>5, <2>6, <2>7
<1>5. ASSUME ~h.loaded, p \notin h.missed
      PROVE  /\ \/ S \/ p \in U \/ h.view[p] = b
                \/ AmongAbout(s, C, "piece", p) \/ HasAbout(D, "piece", p)
                \/ AmongAbout(l, B, "piece", p)
             /\ \A j \in C : s[j][1] = "piece" /\ s[j][2] = p => s[j][3] = b
             /\ \A j \in B : l[j][2] = p => l[j][3] = b
             /\ \A x1 \in D : x1[1] = "piece" /\ x1[2] = p => x1[3] = b
  <2>1. CASE x[1] = "init"
    <3>1. S /\ m = "busy"
      <4>1. Coming(s, A, D)
        BY <1>3, <2>1 DEF Coming
      <4> QED BY <4>1 DEF Phase, States
    <3>2. B = {} /\ ~Among(s, A, "piece") /\ ~Has(D, "piece")
      BY <3>1 DEF Phase
    <3>3. /\ \A j \in C : s[j][1] # "piece"
          /\ \A x1 \in D : x1[1] # "piece"
      BY <3>2 DEF Among, Has
    <3> QED BY <3>1, <3>2, <3>3
  <2>2. CASE x[1] = "finish"
    BY <1>1, <1>5, <2>2, ShowsOne
  <2>3. CASE x[1] = "piece"
    <3>1. ~g.loaded /\ p \notin g.missed
      BY <1>1, <1>5, <2>3, ShowsOne
    <3>2. x[2] = p => h.view[p] = b
      <4>1. x[2] = p => x[3] = b
        BY <1>1, <2>3, <3>1 DEF View
      <4>2. x[2] = p => h.view[p] = x[3]
        BY <1>1, <2>3, ShowsOne DEF Game
      <4> QED BY <4>1, <4>2
    <3>3. x[2] # p => h.view[p] = g.view[p]
      BY <1>1, <2>3, ShowsOne DEF Game
    <3>4. CASE x[2] = p
      BY <3>1, <3>2, <3>4 DEF View
    <3>5. CASE x[2] # p
      <4>1. AmongAbout(s, A, "piece", p) => AmongAbout(s, C, "piece", p)
        BY <1>3, <3>5
      <4> HIDE DEF h
      <4> QED BY <3>1, <3>3, <3>5, <4>1 DEF View
    <3> QED BY <3>4, <3>5
  <2>4. CASE x[1] = "talk" \/ (x[1] = "set" /\ ~g.loaded)
    <3>1. h = g
      BY <1>1, <2>4, ShowsOne
    <3>2. AmongAbout(s, A, "piece", p) => AmongAbout(s, C, "piece", p)
      BY <1>7, <2>4
    <3> HIDE DEF h
    <3> QED BY <1>5, <3>1, <3>2 DEF View
  <2>5. CASE x[1] = "set" /\ g.loaded
    BY <1>1, <1>5, <2>5, ShowsOne
  <2> QED BY <1>1, <2>1, <2>2, <2>3, <2>4, <2>5
<1> HIDE DEF h, C
<1>6. View(p, b, h, s, C, l, B, q, D, S, U)
  BY <1>2, <1>4, <1>5 DEF View
<1> QED BY <1>6 DEF h, C

-----------------------------------------------------------------------------
(* What a game shows when it is sent all packets of a buffer.              *)

\* What is left of a buffer after k packets.
After(s, k) == {j \in DOMAIN s : j > k}

LEMMA AfterNext ==
    ASSUME NEW S, NEW s \in Seq(S), NEW k \in 1 .. Len(s)
    PROVE  Foremost(k, After(s, k - 1)) /\ After(s, k - 1) \ {k} = After(s, k)
<1>1. DOMAIN s = 1 .. Len(s) /\ Len(s) \in Nat
  OBVIOUS
<1> QED BY <1>1 DEF After, Foremost

LEMMA AfterAll ==
    ASSUME NEW S, NEW s \in Seq(S)
    PROVE  After(s, 0) = DOMAIN s /\ After(s, Len(s)) = {}
<1>1. DOMAIN s = 1 .. Len(s) /\ Len(s) \in Nat
  OBVIOUS
<1> QED BY <1>1 DEF After

\* All that is known of a client's view, with the packets A of the out buffer s and B
\* of the level l still to be sent.
Known(w, m, g, s, A, F, l, B, q, D, S, R, U) ==
    /\ Orderly(s, A, F)
    /\ Phase(m, g.loaded, s, A, B, D, S, R)
    /\ \A p \in Pos : View(p, w[p], g, s, A, l, B, q, D, S, U)

LEMMA OutShown ==
    ASSUME NEW s \in Seq(Packet), NEW g \in Game, NEW F, NEW m \in States,
           NEW B, NEW D, NEW S \in BOOLEAN, NEW R \in BOOLEAN,
           NEW l \in Seq(Piece), B \subseteq DOMAIN l,
           NEW q, NEW U, U # {} => R, NEW w,
           Known(w, m, g, s, DOMAIN s, F, l, B, q, D, S, R, U)
    PROVE  Known(w, m, FoldLeft(Shows, g, s), s, {}, F, l, B, q, D, S, R, U)
<1>1. PICK h \in [0 .. Len(s) -> Game] :
        /\ h[0] = g /\ FoldLeft(Shows, g, s) = h[Len(s)]
        /\ \A k \in 1 .. Len(s) : h[k] = Shows(h[k - 1], s[k])
  BY ShowsAll
<1> DEFINE n == Len(s)
           Good(k) == Known(w, m, h[k], s, After(s, k), F, l, B, q, D, S, R, U)
           T == {k \in Nat : k <= n => Good(k)}
<1>2. Good(0)
  BY <1>1, AfterAll
<1>3. ASSUME NEW k \in Nat, k + 1 <= n, Good(k) PROVE Good(k + 1)
  <2>1. /\ k + 1 \in 1 .. Len(s) /\ (k + 1) - 1 = k /\ k \in 0 .. Len(s)
        /\ After(s, k) \subseteq DOMAIN s
    BY <1>3 DEF After
  <2>2. Foremost(k + 1, After(s, k)) /\ After(s, k) \ {k + 1} = After(s, k + 1)
    BY <2>1, AfterNext
  <2>3. h[k + 1] = Shows(h[k], s[k + 1]) /\ h[k] \in Game
    BY <1>1, <2>1
  <2> DEFINE A == After(s, k)
             x == h[k]
  <2>4. /\ Orderly(s, A, F) /\ Phase(m, x.loaded, s, A, B, D, S, R)
        /\ \A p \in Pos : View(p, w[p], x, s, A, l, B, q, D, S, U)
    BY <1>3 DEF Known
  <2> HIDE DEF A, x
  <2>5. A \in SUBSET DOMAIN s /\ x \in Game /\ Foremost(k + 1, A)
    BY <2>1, <2>2, <2>3 DEF A, x
  <2>6. Orderly(s, A \ {k + 1}, F)
    BY <2>4, <2>5, OrderlyShown
  <2>7. Phase(m, Shows(x, s[k + 1]).loaded, s, A \ {k + 1}, B, D, S, R)
    BY <2>4, <2>5, PhaseShown
  <2>8. \A p \in Pos : View(p, w[p], Shows(x, s[k + 1]), s, A \ {k + 1}, l, B, q, D, S, U)
    BY <2>4, <2>5, ViewShown
  <2>9. h[k + 1] = Shows(x, s[k + 1]) /\ A \ {k + 1} = After(s, k + 1)
    BY <2>2, <2>3 DEF A, x
  <2> QED BY <2>6, <2>7, <2>8, <2>9 DEF Known
<1> HIDE DEF Good
<1>4. 0 \in T
  BY <1>2
<1>5. ASSUME NEW k \in Nat, k \in T PROVE k + 1 \in T
  BY <1>3, <1>5
<1> HIDE DEF T
<1>6. n \in T
  BY <1>4, <1>5, SetInduction
<1>7. Good(n)
  BY <1>6 DEF T
<1> QED BY <1>1, <1>7, AfterAll DEF Good

\* A piece of the level is sent as it is, past the out buffer.
LEMMA PieceShown ==
    ASSUME NEW s, NEW g \in Game, NEW F, NEW m \in States, NEW A,
           NEW D, NEW S \in BOOLEAN, NEW R \in BOOLEAN,
           NEW l \in Seq(Piece), NEW B \in SUBSET DOMAIN l, NEW a \in B,
           NEW q, NEW U, NEW w, Known(w, m, g, s, A, F, l, B, q, D, S, R, U)
    PROVE  Known(w, m, Shows(g, l[a]), s, A, F, l, B \ {a}, q, D, S, R, U)
<1> DEFINE h == Shows(g, l[a])
           C == B \ {a}
           x == l[a]
<1>1. x \in Piece /\ x \in Packet /\ x[1] = "piece" /\ x[2] \in Pos
  <2>1. l[a] \in Piece
    OBVIOUS
  <2> QED BY <2>1, PieceFields, PacketFields
<1>2. /\ h.loaded = g.loaded /\ h.missed = g.missed /\ h.view[x[2]] = x[3]
      /\ \A p \in Pos : p # x[2] => h.view[p] = g.view[p]
  BY <1>1, ShowsOne
<1>3. ~g.loaded
  <2>1. m \notin {"none", "sent"} /\ ~S
    BY DEF Known, Phase
  <2> QED BY <2>1 DEF Known, Phase, States
<1> HIDE DEF h
<1>4. Phase(m, h.loaded, s, A, C, D, S, R)
  BY <1>2 DEF Known, Phase
<1>5. ASSUME NEW p \in Pos PROVE View(p, w[p], h, s, A, l, C, q, D, S, U)
  <2>1. View(p, w[p], g, s, A, l, B, q, D, S, U)
    BY DEF Known
  <2>2. x[2] = p /\ p \notin g.missed => h.view[p] = w[p]
    BY <1>1, <1>2, <1>3, <2>1 DEF View
  <2>3. x[2] # p => h.view[p] = g.view[p]
    BY <1>2
  <2>4. x[2] # p => (AmongAbout(l, B, "piece", p) => AmongAbout(l, C, "piece", p))
    BY DEF AmongAbout
  <2>5. \A j \in C : j \in B
    OBVIOUS
  <2> HIDE DEF C, x
  <2> QED BY <1>2, <1>3, <2>1, <2>2, <2>3, <2>4, <2>5 DEF View
<1>6. Orderly(s, A, F)
  BY DEF Known
<1>7. Known(w, m, h, s, A, F, l, C, q, D, S, R, U)
  BY <1>4, <1>5, <1>6 DEF Known
<1> QED BY <1>7 DEF h

LEMMA LevelShown ==
    ASSUME NEW s, NEW g \in Game, NEW F, NEW m \in States, NEW A,
           NEW D, NEW S \in BOOLEAN, NEW R \in BOOLEAN,
           NEW l \in Seq(Piece), NEW q, NEW U, NEW w,
           Known(w, m, g, s, A, F, l, DOMAIN l, q, D, S, R, U)
    PROVE  Known(w, m, FoldLeft(Shows, g, l), s, A, F, l, {}, q, D, S, R, U)
<1>0. l \in Seq(Packet)
  <2>1. Piece \subseteq Packet
    BY PacketFields
  <2>2. Seq(Piece) \subseteq Seq(Packet)
    BY <2>1, SeqFacts
  <2> QED BY <2>2
<1>1. PICK h \in [0 .. Len(l) -> Game] :
        /\ h[0] = g /\ FoldLeft(Shows, g, l) = h[Len(l)]
        /\ \A k \in 1 .. Len(l) : h[k] = Shows(h[k - 1], l[k])
  BY <1>0, ShowsAll
<1> DEFINE n == Len(l)
           Good(k) == Known(w, m, h[k], s, A, F, l, After(l, k), q, D, S, R, U)
           T == {k \in Nat : k <= n => Good(k)}
<1>2. Good(0)
  BY <1>1, AfterAll
<1>3. ASSUME NEW k \in Nat, k + 1 <= n, Good(k) PROVE Good(k + 1)
  <2>1. /\ k + 1 \in 1 .. Len(l) /\ (k + 1) - 1 = k /\ k \in 0 .. Len(l)
        /\ After(l, k) \subseteq DOMAIN l
    BY <1>3 DEF After
  <2>2. k + 1 \in After(l, k) /\ After(l, k) \ {k + 1} = After(l, k + 1)
    BY <2>1, AfterNext DEF Foremost
  <2>3. h[k + 1] = Shows(h[k], l[k + 1]) /\ h[k] \in Game
    BY <1>1, <2>1
  <2> DEFINE B == After(l, k)
             x == h[k]
  <2>4. Known(w, m, x, s, A, F, l, B, q, D, S, R, U)
    BY <1>3
  <2> HIDE DEF B, x
  <2>5. B \in SUBSET DOMAIN l /\ x \in Game /\ k + 1 \in B
    BY <2>1, <2>2, <2>3 DEF B, x
  <2>6. Known(w, m, Shows(x, l[k + 1]), s, A, F, l, B \ {k + 1}, q, D, S, R, U)
    BY <2>4, <2>5, PieceShown
  <2>7. h[k + 1] = Shows(x, l[k + 1]) /\ B \ {k + 1} = After(l, k + 1)
    BY <2>2, <2>3 DEF B, x
  <2> QED BY <2>6, <2>7
<1> HIDE DEF Good
<1>4. 0 \in T
  BY <1>2
<1>5. ASSUME NEW k \in Nat, k \in T PROVE k + 1 \in T
  BY <1>3, <1>5
<1> HIDE DEF T
<1>6. n \in T
  BY <1>4, <1>5, SetInduction
<1>7. Good(n)
  BY <1>6 DEF T
<1> QED BY <1>1, <1>7, AfterAll DEF Good

\* Nothing is left of a buffer that is rewound.
LEMMA OutEmpty ==
    ASSUME NEW w, NEW m, NEW g, NEW s, NEW F, NEW l, NEW B, NEW q, NEW D, NEW S, NEW R, NEW U,
           Known(w, m, g, s, {}, F, l, B, q, D, S, R, U), NEW G
    PROVE  Known(w, m, g, << >>, DOMAIN << >>, G, l, B, q, D, S, R, U)
<1>1. DOMAIN << >> = {}
  OBVIOUS
<1>2. Orderly(<< >>, {}, G)
  BY DEF Orderly
<1>3. Phase(m, g.loaded, << >>, {}, B, D, S, R)
  BY DEF Known, Phase, Coming, Finishing, Among
<1>4. ASSUME NEW p \in Pos PROVE View(p, w[p], g, << >>, {}, l, B, q, D, S, U)
  <2>1. View(p, w[p], g, s, {}, l, B, q, D, S, U)
    BY DEF Known
  <2> QED BY <2>1 DEF View, AmongAbout
<1> QED BY <1>1, <1>2, <1>3, <1>4 DEF Known

LEMMA LevelEmpty ==
    ASSUME NEW w, NEW m, NEW g, NEW s, NEW A, NEW F, NEW l, NEW q, NEW D, NEW S, NEW R, NEW U,
           Known(w, m, g, s, A, F, l, {}, q, D, S, R, U)
    PROVE  Known(w, m, g, s, A, F, << >>, DOMAIN << >>, q, D, S, R, U)
<1>1. DOMAIN << >> = {}
  OBVIOUS
<1>2. ASSUME NEW p \in Pos PROVE View(p, w[p], g, s, A, << >>, {}, q, D, S, U)
  <2>1. View(p, w[p], g, s, A, l, {}, q, D, S, U)
    BY DEF Known
  <2> QED BY <2>1 DEF View, AmongAbout
<1> QED BY <1>1, <1>2 DEF Known

-----------------------------------------------------------------------------
(* What writing to the out buffer does.                                    *)

LEMMA FlushBegins ==
    ASSUME NEW w, NEW m, NEW g, NEW s, NEW A, NEW F, NEW l, NEW B, NEW q, NEW D, NEW S,
           NEW R, NEW U, Known(w, m, g, s, A, F, l, B, q, D, S, R, U), NEW G, F => G
    PROVE  Known(w, m, g, s, A, G, l, B, q, D, S, R, U)
<1>1. Orderly(s, A, G)
  BY DEF Known, Orderly
<1> QED BY <1>1 DEF Known

\* The indexes of a longer buffer.
LEMMA Appended ==
    ASSUME NEW P, NEW s \in Seq(P), NEW x \in P
    PROVE  LET u == Append(s, x)
               n == Len(s) + 1
           IN  /\ u \in Seq(P) /\ n \in DOMAIN u /\ u[n] = x
               /\ DOMAIN u = DOMAIN s \cup {n} /\ n \notin DOMAIN s /\ ~(n > n)
               /\ \A j \in DOMAIN s : u[j] = s[j] /\ n > j /\ ~(j > n)
OBVIOUS

\* v is what u was, and a packet more, x.
Longer(v, u, x) ==
    \E n \in DOMAIN v :
        /\ v[n] = x /\ DOMAIN v = DOMAIN u \cup {n} /\ n \notin DOMAIN u /\ ~(n > n)
        /\ \A j \in DOMAIN u : v[j] = u[j] /\ n > j /\ ~(j > n)

LEMMA AppendLonger ==
    ASSUME NEW P, NEW s \in Seq(P), NEW x \in P
    PROVE  Longer(Append(s, x), s, x) /\ Append(s, x) \in Seq(P)
BY Appended DEF Longer

LEMMA LongerAmong ==
    ASSUME NEW s, NEW v, NEW x, Longer(v, s, x)
    PROVE  /\ \A kind : Among(v, DOMAIN v, kind) <=> Among(s, DOMAIN s, kind) \/ x[1] = kind
           /\ \A kind, p : AmongAbout(v, DOMAIN v, kind, p) <=>
                AmongAbout(s, DOMAIN s, kind, p) \/ (x[1] = kind /\ x[2] = p)
           /\ \A j \in DOMAIN s : j \in DOMAIN v
<1>1. PICK n \in DOMAIN v :
        /\ v[n] = x /\ DOMAIN v = DOMAIN s \cup {n} /\ n \notin DOMAIN s /\ ~(n > n)
        /\ \A j \in DOMAIN s : v[j] = s[j] /\ n > j /\ ~(j > n)
  BY DEF Longer
<1>2. ASSUME NEW kind
      PROVE  Among(v, DOMAIN v, kind) <=> Among(s, DOMAIN s, kind) \/ x[1] = kind
  BY <1>1 DEF Among
<1>3. ASSUME NEW kind, NEW p
      PROVE  AmongAbout(v, DOMAIN v, kind, p) <=>
                AmongAbout(s, DOMAIN s, kind, p) \/ (x[1] = kind /\ x[2] = p)
  BY <1>1 DEF AmongAbout
<1> QED BY <1>1, <1>2, <1>3

LEMMA TalkWritten ==
    ASSUME NEW w, NEW m, NEW g, NEW s, NEW v, NEW F, NEW l, NEW B, NEW q, NEW D, NEW S,
           NEW R, NEW U, Known(w, m, g, s, DOMAIN s, F, l, B, q, D, S, R, U),
           Longer(v, s, Talking)
    PROVE  Known(w, m, g, v, DOMAIN v, F, l, B, q, D, S, R, U)
<1>1. PICK n \in DOMAIN v :
        /\ v[n] = Talking /\ DOMAIN v = DOMAIN s \cup {n} /\ n \notin DOMAIN s /\ ~(n > n)
        /\ \A j \in DOMAIN s : v[j] = s[j] /\ n > j /\ ~(j > n)
  BY DEF Longer
<1>2. \A kind \in Big : Among(v, DOMAIN v, kind) <=> Among(s, DOMAIN s, kind)
  BY LongerAmong DEF Big, Talking
<1>3. \A p : \A kind \in {"set", "piece"} :
        AmongAbout(v, DOMAIN v, kind, p) <=> AmongAbout(s, DOMAIN s, kind, p)
  BY LongerAmong DEF Talking
<1>4. Talking[1] = "talk"
  BY DEF Talking
<1>5. Orderly(v, DOMAIN v, F)
  <2>1. ASSUME NEW j \in DOMAIN v, v[j][1] \in Big
        PROVE  F /\ \A k \in DOMAIN v : k > j => v[k] = Talking
    <3>1. j \in DOMAIN s /\ s[j][1] \in Big
      BY <1>1, <1>4, <2>1 DEF Big
    <3>2. F /\ \A k \in DOMAIN s : k > j => s[k] = Talking
      BY <3>1 DEF Known, Orderly
    <3> QED BY <1>1, <3>2
  <2> QED BY <2>1 DEF Orderly
<1>6. Phase(m, g.loaded, v, DOMAIN v, B, D, S, R)
  BY <1>2 DEF Known, Phase, Coming, Finishing, Big
<1>7. ASSUME NEW p \in Pos PROVE View(p, w[p], g, v, DOMAIN v, l, B, q, D, S, U)
  <2>1. View(p, w[p], g, s, DOMAIN s, l, B, q, D, S, U)
    BY DEF Known
  <2>2. ~HasAbout(D, "set", p) =>
            \A j \in DOMAIN v : v[j][1] = "set" /\ v[j][2] = p =>
                v[j][3] = w[p] \/ \E k \in DOMAIN v : k > j /\ v[k][1] = "set" /\ v[k][2] = p
    BY <1>1, <1>4, <2>1 DEF View
  <2>3. (\A j \in DOMAIN s : s[j][1] = "piece" /\ s[j][2] = p => s[j][3] = w[p]) =>
            \A j \in DOMAIN v : v[j][1] = "piece" /\ v[j][2] = p => v[j][3] = w[p]
    BY <1>1, <1>4
  <2> QED BY <1>3, <2>1, <2>2, <2>3 DEF View
<1> QED BY <1>5, <1>6, <1>7 DEF Known

LEMMA PacketWritten ==
    ASSUME NEW w, NEW m \in States, NEW g, NEW s, NEW v, NEW l, NEW B, NEW q, NEW D \in SUBSET Packet,
           NEW S, NEW R, NEW U, Known(w, m, g, s, DOMAIN s, FALSE, l, B, q, D, S, R, U),
           NEW x \in D, x # Talking, Longer(v, s, x),
           NEW E, D \ {x} \subseteq E, E \subseteq D, x[1] = "finish" => E = D \ {x},
           NEW G, x[1] \in Big => G
    PROVE  Known(w, m, g, v, DOMAIN v, G, l, B, q, E, S, R, U)
<1>1. PICK n \in DOMAIN v :
        /\ v[n] = x /\ DOMAIN v = DOMAIN s \cup {n} /\ n \notin DOMAIN s /\ ~(n > n)
        /\ \A j \in DOMAIN s : v[j] = s[j] /\ n > j /\ ~(j > n)
  BY DEF Longer
<1>2. /\ x[1] \in {"init", "finish", "set", "piece"}
      /\ x[1] \in {"set", "piece"} => x[2] \in Pos
      /\ Has(D, x[1])
      /\ x[1] = "finish" => ~Has(E, "finish")
  <2>1. x \in Packet
    OBVIOUS
  <2>2. \A y \in Packet : y[1] = "finish" => y = <<"finish">>
    BY PacketFields
  <2>3. x[1] # "talk"
    BY <2>1, PacketFields DEF Talking
  <2> QED BY <2>1, <2>2, <2>3, PacketFields DEF Has
<1>3. \A j \in DOMAIN s : s[j][1] \notin Big
  BY DEF Known, Orderly
<1>4. /\ \A kind : Among(v, DOMAIN v, kind) <=> Among(s, DOMAIN s, kind) \/ x[1] = kind
      /\ \A kind \in Big : ~Among(s, DOMAIN s, kind)
      /\ \A kind : Has(E, kind) => Has(D, kind)
      /\ \A kind : Has(D, kind) => Has(E, kind) \/ x[1] = kind
  <2>1. \A kind \in Big : ~Among(s, DOMAIN s, kind)
    BY <1>3 DEF Among
  <2>2. /\ \A kind : Has(E, kind) => Has(D, kind)
        /\ \A kind : Has(D, kind) => Has(E, kind) \/ x[1] = kind
    BY DEF Has
  <2> QED BY <2>1, <2>2, LongerAmong
<1>5. Orderly(v, DOMAIN v, G)
  BY <1>1, <1>3 DEF Orderly
<1>6. Phase(m, g.loaded, v, DOMAIN v, B, E, S, R)
  <2>1. Phase(m, g.loaded, s, DOMAIN s, B, D, S, R)
    BY DEF Known
  <2>2. CASE x[1] = "init"
    BY <1>2, <1>4, <2>1, <2>2 DEF Phase, Coming, Finishing, Big, States
  <2>3. CASE x[1] = "finish"
    BY <1>2, <1>4, <2>1, <2>3 DEF Phase, Coming, Finishing, Big, States
  <2>4. CASE x[1] = "piece"
    BY <1>2, <1>4, <2>1, <2>4 DEF Phase, Coming, Finishing, Big, States
  <2>5. CASE x[1] = "set"
    BY <1>2, <1>4, <2>1, <2>5 DEF Phase, Coming, Finishing, Big, States
  <2> QED BY <1>2, <2>2, <2>3, <2>4, <2>5
<1>7. ASSUME NEW p \in Pos PROVE View(p, w[p], g, v, DOMAIN v, l, B, q, E, S, U)
  <2> DEFINE b == w[p]
  <2>1. View(p, b, g, s, DOMAIN s, l, B, q, D, S, U)
    BY DEF Known
  <2> HIDE DEF b
  <2>2. /\ \A kind : AmongAbout(v, DOMAIN v, kind, p) <=>
                AmongAbout(s, DOMAIN s, kind, p) \/ (x[1] = kind /\ x[2] = p)
        /\ \A kind : HasAbout(E, kind, p) => HasAbout(D, kind, p)
        /\ \A kind : HasAbout(D, kind, p) => HasAbout(E, kind, p) \/ (x[1] = kind /\ x[2] = p)
    <3>1. /\ \A kind : HasAbout(E, kind, p) => HasAbout(D, kind, p)
          /\ \A kind : HasAbout(D, kind, p) => HasAbout(E, kind, p) \/ (x[1] = kind /\ x[2] = p)
      BY DEF HasAbout
    <3> QED BY <3>1, LongerAmong
  <2>3. x[1] = "set" /\ x[2] = p => x[3] = b
    BY <2>1 DEF View
  <2>4. ~HasAbout(E, "set", p) =>
            \A j \in DOMAIN v : v[j][1] = "set" /\ v[j][2] = p =>
                v[j][3] = b \/ \E k \in DOMAIN v : k > j /\ v[k][1] = "set" /\ v[k][2] = p
    <3>1. CASE x[1] = "set" /\ x[2] = p
      BY <1>1, <2>3, <3>1
    <3>2. CASE ~(x[1] = "set" /\ x[2] = p)
      BY <1>1, <2>1, <2>2, <3>2 DEF View
    <3> QED BY <3>1, <3>2
  <2>5. ~g.loaded /\ p \notin g.missed =>
          /\ \A j \in DOMAIN v : v[j][1] = "piece" /\ v[j][2] = p => v[j][3] = b
          /\ \A y \in E : y[1] = "piece" /\ y[2] = p => y[3] = b
    BY <1>1, <2>1 DEF View
  <2>6. View(p, b, g, v, DOMAIN v, l, B, q, E, S, U)
    <3>1. \A y \in E : y[1] = "set" /\ y[2] = p => y[3] = b
      BY <2>1 DEF View
    <3>2. g.loaded /\ p \notin g.missed /\ ~AmongAbout(v, DOMAIN v, "set", p) /\ ~HasAbout(E, "set", p) =>
            g.view[p] = b \/ LastEdit(q, p, g.view[p])
      BY <2>1, <2>2 DEF View
    <3>3. ~g.loaded /\ p \notin g.missed =>
            /\ \/ S \/ p \in U \/ g.view[p] = b
               \/ AmongAbout(v, DOMAIN v, "piece", p) \/ HasAbout(E, "piece", p)
               \/ AmongAbout(l, B, "piece", p)
            /\ \A j \in B : l[j][2] = p => l[j][3] = b
      BY <2>1, <2>2 DEF View
    <3> QED BY <2>4, <2>5, <3>1, <3>2, <3>3 DEF View
  <2> QED BY <2>6 DEF b
<1> QED BY <1>5, <1>6, <1>7 DEF Known

-----------------------------------------------------------------------------
(* What the handlers of the main loop do, with nothing before it and so    *)
(* nothing of a level in the out buffer.                                   *)

\* What q says of blocks, r does, but perhaps that p is to be b.
Hears(q, r, p, b) ==
    \A o \in Pos, v \in Block : LastEdit(q, o, v) => LastEdit(r, o, v) \/ (o = p /\ v = b)

LEMMA NothingDue ==
    /\ \A kind : ~Has({}, kind)
    /\ \A kind, p : ~HasAbout({}, kind, p)
    /\ \A x, kind : Has({x}, kind) <=> x[1] = kind
    /\ \A x, kind, p : HasAbout({x}, kind, p) <=> x[1] = kind /\ x[2] = p
BY DEF Has, HasAbout

LEMMA NothingBig ==
    ASSUME NEW s, NEW A, Orderly(s, A, FALSE)
    PROVE  /\ ~Among(s, A, "init") /\ ~Among(s, A, "finish") /\ ~Among(s, A, "piece")
           /\ \A p : ~AmongAbout(s, A, "piece", p)
BY DEF Orderly, Among, AmongAbout, Big

LEMMA WorldChanges ==
    ASSUME NEW w \in [Pos -> Block], NEW m \in States, NEW g \in Game, NEW s, NEW A, NEW l, NEW B,
           NEW q, NEW r, NEW S, NEW R, NEW U,
           NEW p \in Pos, NEW b \in Block, Hears(q, r, p, b),
           Known(w, m, g, s, A, FALSE, l, B, q, {}, S, R, U),
           NEW h, h = IF g.loaded THEN g ELSE [g EXCEPT !.missed = @ \cup {p}]
    PROVE  Known([w EXCEPT ![p] = b], m, h, s, A, FALSE, l, B, r, {<<"set", p, b>>}, S, R, U)
<1> DEFINE D == {<<"set", p, b>>}
           y == [w EXCEPT ![p] = b]
<1>1. /\ \A kind : Has(D, kind) <=> kind = "set"
      /\ \A kind, o : HasAbout(D, kind, o) <=> kind = "set" /\ o = p
      /\ \A kind : ~Has({}, kind)
      /\ \A kind, o : ~HasAbout({}, kind, o)
  <2>1. <<"set", p, b>>[1] = "set" /\ <<"set", p, b>>[2] = p
    OBVIOUS
  <2> QED BY <2>1, NothingDue
<1>2. h.loaded = g.loaded /\ h.view = g.view /\ g.view \in [Pos -> Block]
      /\ g.missed \subseteq h.missed /\ (g.loaded => h.missed = g.missed)
      /\ (~g.loaded => p \in h.missed)
      /\ \A o \in Pos : o # p => (o \in h.missed <=> o \in g.missed)
  BY DEF Game
<1>3. \A x \in D : x[1] = "set" /\ x[2] = p /\ x[3] = b
  OBVIOUS
<1>4. y[p] = b /\ \A o \in Pos : o # p => y[o] = w[o]
  OBVIOUS
<1> HIDE DEF D, y
<1>5. Orderly(s, A, FALSE)
  BY DEF Known
<1>6. Phase(m, h.loaded, s, A, B, D, S, R)
  BY <1>1, <1>2 DEF Known, Phase, Coming, Finishing
<1>7. ASSUME NEW o \in Pos PROVE View(o, y[o], h, s, A, l, B, r, D, S, U)
  <2>1. View(o, w[o], g, s, A, l, B, q, {}, S, U)
    BY DEF Known
  <2>2. CASE o = p
    <3>1. HasAbout(D, "set", o)
      BY <1>1, <2>2
    <3> QED BY <1>2, <1>3, <1>4, <2>2, <3>1 DEF View
  <2>3. CASE o # p
    <3>1. ~HasAbout(D, "set", o) /\ ~HasAbout(D, "piece", o)
      BY <1>1, <2>3
    <3>2. g.view[o] \in Block /\ (LastEdit(q, o, g.view[o]) => LastEdit(r, o, g.view[o]))
      BY <1>2, <2>3 DEF Hears
    <3>3. y[o] = w[o]
      BY <1>4, <2>3
    <3>4. \A x \in D : x[2] # o
      BY <1>3, <2>3
    <3> QED BY <1>1, <1>2, <2>1, <2>3, <3>1, <3>2, <3>3, <3>4 DEF View
  <2> QED BY <2>2, <2>3
<1> QED BY <1>5, <1>6, <1>7 DEF Known, D, y

\* A client is sent the block that is there.
LEMMA BlockIsTold ==
    ASSUME NEW w \in [Pos -> Block], NEW m \in States, NEW g \in Game, NEW s, NEW A, NEW l, NEW B,
           NEW q, NEW r, NEW S, NEW R, NEW U,
           NEW p \in Pos, NEW b \in Block, Hears(q, r, p, b),
           Known(w, m, g, s, A, FALSE, l, B, q, {}, S, R, U)
    PROVE  Known(w, m, g, s, A, FALSE, l, B, r, {<<"set", p, w[p]>>}, S, R, U)
<1> DEFINE D == {<<"set", p, w[p]>>}
<1>1. /\ \A kind : Has(D, kind) <=> kind = "set"
      /\ \A kind, o : HasAbout(D, kind, o) <=> kind = "set" /\ o = p
      /\ \A kind : ~Has({}, kind)
      /\ \A kind, o : ~HasAbout({}, kind, o)
  <2>1. <<"set", p, w[p]>>[1] = "set" /\ <<"set", p, w[p]>>[2] = p
    OBVIOUS
  <2> QED BY <2>1, NothingDue
<1>2. g.view \in [Pos -> Block]
  BY DEF Game
<1>3. \A x \in D : x[1] = "set" /\ x[2] = p /\ x[3] = w[p]
  OBVIOUS
<1> HIDE DEF D
<1>5. Orderly(s, A, FALSE)
  BY DEF Known
<1>6. Phase(m, g.loaded, s, A, B, D, S, R)
  BY <1>1, <1>2 DEF Known, Phase, Coming, Finishing
<1>7. ASSUME NEW o \in Pos PROVE View(o, w[o], g, s, A, l, B, r, D, S, U)
  <2>1. View(o, w[o], g, s, A, l, B, q, {}, S, U)
    BY DEF Known
  <2>2. CASE o = p
    <3>1. HasAbout(D, "set", o) /\ ~HasAbout(D, "piece", o) /\ ~HasAbout({}, "piece", o)
      BY <1>1, <2>2
    <3>2. \A x \in D : x[1] = "set" /\ x[2] = o => x[3] = w[o]
      BY <1>3, <2>2
    <3>3. \A x \in D : x[1] # "piece"
      BY <1>3
    <3> QED BY <2>1, <3>1, <3>2, <3>3 DEF View
  <2>3. CASE o # p
    <3>1. ~HasAbout(D, "set", o) /\ ~HasAbout(D, "piece", o)
      BY <1>1, <2>3
    <3>2. LastEdit(q, o, g.view[o]) => LastEdit(r, o, g.view[o])
      BY <1>2, <2>3 DEF Hears
    <3>4. \A x \in D : x[2] # o
      BY <1>3, <2>3
    <3> QED BY <1>1, <2>1, <2>3, <3>1, <3>2, <3>4 DEF View
  <2> QED BY <2>2, <2>3
<1> QED BY <1>5, <1>6, <1>7 DEF Known, D

\* A block is set to what it is.
LEMMA EditIsHeard ==
    ASSUME NEW w \in [Pos -> Block], NEW m, NEW g \in Game, NEW s, NEW A, NEW F, NEW l, NEW B,
           NEW q, NEW r, NEW D, NEW S, NEW R, NEW U,
           NEW p \in Pos, NEW b, w[p] = b, Hears(q, r, p, b),
           Known(w, m, g, s, A, F, l, B, q, D, S, R, U)
    PROVE  Known(w, m, g, s, A, F, l, B, r, D, S, R, U)
<1>1. g.view \in [Pos -> Block]
  BY DEF Game
<1>2. ASSUME NEW o \in Pos PROVE View(o, w[o], g, s, A, l, B, r, D, S, U)
  <2>1. View(o, w[o], g, s, A, l, B, q, D, S, U)
    BY DEF Known
  <2>2. LastEdit(q, o, g.view[o]) => LastEdit(r, o, g.view[o]) \/ g.view[o] = w[o]
    BY <1>1 DEF Hears
  <2> QED BY <2>1, <2>2 DEF View
<1> QED BY <1>2 DEF Known

LEMMA LevelIsAskedFor ==
    ASSUME NEW w, NEW m \in {"none", "sent"}, NEW g, NEW s, NEW A, NEW l, NEW B,
           NEW q, NEW R, NEW S, NEW U,
           Known(w, m, g, s, A, FALSE, l, B, q, {}, S, R, U)
    PROVE  Known(w, "busy", g, s, A, FALSE, l, B, q, {<<"init">>}, TRUE, R, U)
<1> DEFINE D == {<<"init">>}
<1>1. \A kind : Has(D, kind) <=> kind = "init"
  <2>1. <<"init">>[1] = "init"
    OBVIOUS
  <2> QED BY <2>1, NothingDue
<1>2. \A x \in D : x[1] = "init"
  OBVIOUS
<1> HIDE DEF D
<1>3. Orderly(s, A, FALSE)
  BY DEF Known
<1>4. Phase("busy", g.loaded, s, A, B, D, TRUE, R)
  <2>1. Phase(m, g.loaded, s, A, B, {}, S, R)
    BY DEF Known
  <2>2. B = {} /\ ~R
    BY <2>1 DEF Phase
  <2>3. /\ ~Among(s, A, "init") /\ ~Among(s, A, "finish") /\ ~Among(s, A, "piece")
    BY <1>3, NothingBig
  <2> QED BY <1>1, <2>2, <2>3 DEF Phase, Coming, Finishing
<1>5. ASSUME NEW p \in Pos PROVE View(p, w[p], g, s, A, l, B, q, D, TRUE, U)
  <2>1. View(p, w[p], g, s, A, l, B, q, {}, S, U)
    BY DEF Known
  <2>2. \A kind \in {"set", "piece"} : ~HasAbout(D, kind, p) /\ ~HasAbout({}, kind, p)
    BY <1>2 DEF HasAbout
  <2> QED BY <1>2, <2>1, <2>2 DEF View
<1> QED BY <1>3, <1>4, <1>5 DEF Known, D

\* The chunks of a level are written.
LEMMA ChunksAreTold ==
    ASSUME NEW w, NEW g, NEW s, NEW A, NEW l \in Seq(Piece), l # << >>,
           NEW q, NEW R, NEW S, NEW U,
           Known(w, "success", g, s, A, FALSE, l, DOMAIN l, q, {}, S, R, U)
    PROVE  Known(w, "success", g, s, A, FALSE, << >>, DOMAIN << >>, q, Range(l), S, R, U)
<1> DEFINE D == Range(l)
<1>1. \A x \in D : x[1] = "piece"
  <2>1. \A k \in DOMAIN l : l[k] \in Piece
    OBVIOUS
  <2> QED BY <2>1, PieceFields DEF Range
<1>2. /\ \A kind : Has(D, kind) => kind = "piece"
      /\ \A kind : ~Has({}, kind)
      /\ \A kind, p : ~HasAbout({}, kind, p)
      /\ \A p : ~HasAbout(D, "set", p)
  BY <1>1 DEF Has, HasAbout
<1>3. DOMAIN << >> = {}
  OBVIOUS
<1>4. \A p : AmongAbout(l, DOMAIN l, "piece", p) => HasAbout(D, "piece", p)
  BY DEF AmongAbout, HasAbout, Range
<1>5. \A x \in D : \E j \in DOMAIN l : x = l[j]
  BY DEF Range
<1> HIDE DEF D
<1>6. Orderly(s, A, FALSE)
  BY DEF Known
<1>7. Phase("success", g.loaded, s, A, {}, D, S, R)
  BY <1>2 DEF Known, Phase, Coming, Finishing
<1>8. ASSUME NEW p \in Pos PROVE View(p, w[p], g, s, A, << >>, {}, q, D, S, U)
  <2>1. View(p, w[p], g, s, A, l, DOMAIN l, q, {}, S, U)
    BY DEF Known
  <2>2. /\ \A x \in D : x[1] # "set"
        /\ ~g.loaded /\ p \notin g.missed => \A x \in D : x[1] = "piece" /\ x[2] = p => x[3] = w[p]
    BY <1>1, <1>5, <2>1 DEF View
  <2> QED BY <1>2, <1>4, <2>1, <2>2 DEF View
<1> QED BY <1>3, <1>6, <1>7, <1>8 DEF Known, D

LEMMA FinishIsTold ==
    ASSUME NEW w, NEW g, NEW s, NEW A, NEW l, NEW q, NEW R, NEW S, NEW U,
           Known(w, "success", g, s, A, FALSE, l, {}, q, {}, S, R, U)
    PROVE  Known(w, "sent", g, s, A, FALSE, l, {}, q, {<<"finish">>}, S, R, U)
<1> DEFINE D == {<<"finish">>}
<1>1. /\ \A kind : Has(D, kind) <=> kind = "finish"
      /\ \A kind : ~Has({}, kind)
  <2>1. <<"finish">>[1] = "finish"
    OBVIOUS
  <2> QED BY <2>1, NothingDue
<1>2. \A x \in D : x[1] = "finish"
  OBVIOUS
<1> HIDE DEF D
<1>3. Orderly(s, A, FALSE)
  BY DEF Known
<1>4. Phase("sent", g.loaded, s, A, {}, D, S, R)
  <2>1. Phase("success", g.loaded, s, A, {}, {}, S, R)
    BY DEF Known
  <2>3. /\ ~Among(s, A, "init") /\ ~Among(s, A, "finish") /\ ~Among(s, A, "piece")
    BY <1>3, NothingBig
  <2> QED BY <1>1, <2>1, <2>3 DEF Phase, Coming, Finishing
<1>5. ASSUME NEW p \in Pos PROVE View(p, w[p], g, s, A, l, {}, q, D, S, U)
  <2>1. View(p, w[p], g, s, A, l, {}, q, {}, S, U)
    BY DEF Known
  <2>2. \A kind \in {"set", "piece"} : ~HasAbout(D, kind, p) /\ ~HasAbout({}, kind, p)
    BY <1>2 DEF HasAbout
  <2> QED BY <1>2, <2>1, <2>2 DEF View
<1> QED BY <1>3, <1>4, <1>5 DEF Known, D

-----------------------------------------------------------------------------
(* What is on its way to the server.                                       *)

LEMMA TailHears ==
    ASSUME NEW q \in Seq(Request), q # << >>, NEW p, NEW b,
           q[1] = <<"ask">> \/ q[1] = <<"edit", p, b>>
    PROVE  Hears(q, Tail(q), p, b)
<1>1. IsSeq(q)
  BY DEF IsSeq
<1>2. /\ DOMAIN q \subseteq Nat \ {0} /\ DOMAIN Tail(q) \subseteq Nat \ {0}
      /\ \A k \in DOMAIN Tail(q) : k + 1 \in DOMAIN q /\ Tail(q)[k] = q[k + 1]
      /\ \A k \in DOMAIN q : k # 1 => k - 1 \in DOMAIN Tail(q) /\ Tail(q)[k - 1] = q[k]
  BY <1>1, TailElements
<1> SUFFICES ASSUME NEW o \in Pos, NEW v \in Block, LastEdit(q, o, v)
             PROVE  LastEdit(Tail(q), o, v) \/ (o = p /\ v = b)
  BY DEF Hears
<1>3. PICK k \in DOMAIN q :
        /\ q[k] = <<"edit", o, v>>
        /\ \A j \in DOMAIN q : j > k => ~(q[j][1] = "edit" /\ q[j][2] = o)
  BY DEF LastEdit
<1>4. CASE k = 1
  <2>1. q[1] = <<"edit", p, b>>
    BY <1>3, <1>4
  <2> QED BY <1>3, <1>4, <2>1
<1>5. CASE k # 1
  <2>1. k - 1 \in DOMAIN Tail(q) /\ Tail(q)[k - 1] = <<"edit", o, v>>
    BY <1>2, <1>3, <1>5
  <2>2. ASSUME NEW j \in DOMAIN Tail(q), j > k - 1
        PROVE  ~(Tail(q)[j][1] = "edit" /\ Tail(q)[j][2] = o)
    <3>1. j + 1 \in DOMAIN q /\ Tail(q)[j] = q[j + 1] /\ j + 1 > k
      BY <1>2, <2>2
    <3> QED BY <1>3, <3>1
  <2> QED BY <2>1, <2>2 DEF LastEdit
<1> QED BY <1>4, <1>5

LEMMA TailAsked ==
    ASSUME NEW q \in Seq(Request), q # << >>, NEW m, Asked(m, q)
    PROVE  /\ Asked(m, Tail(q))
           /\ q[1] = <<"ask">> => m \in {"none", "sent"} /\ \A n : Asked(n, Tail(q))
<1>1. IsSeq(q)
  BY DEF IsSeq
<1>2. /\ DOMAIN q \subseteq Nat \ {0} /\ 1 \in DOMAIN q /\ DOMAIN Tail(q) \subseteq Nat \ {0}
      /\ \A k \in DOMAIN Tail(q) : k + 1 \in DOMAIN q /\ Tail(q)[k] = q[k + 1]
  BY <1>1, TailElements
<1>3. <<"ask">> \in Range(Tail(q)) => <<"ask">> \in Range(q)
  BY <1>2 DEF Range
<1>4. ASSUME NEW j \in DOMAIN Tail(q), NEW k \in DOMAIN Tail(q),
             Tail(q)[j] = <<"ask">>, Tail(q)[k] = <<"ask">>
      PROVE  j = k
  <2>1. j + 1 = k + 1
    BY <1>2, <1>4 DEF Asked
  <2> QED BY <1>2, <2>1
<1>5. ASSUME q[1] = <<"ask">>
      PROVE  m \in {"none", "sent"} /\ <<"ask">> \notin Range(Tail(q))
  <2>1. <<"ask">> \in Range(q)
    BY <1>2, <1>5 DEF Range
  <2>2. ASSUME NEW k \in DOMAIN Tail(q), Tail(q)[k] = <<"ask">> PROVE FALSE
    <3>1. k + 1 = 1
      BY <1>2, <1>5, <2>2 DEF Asked
    <3> QED BY <1>2, <3>1
  <2> QED BY <2>1, <2>2 DEF Asked, Range
<1> QED BY <1>3, <1>4, <1>5 DEF Asked

LEMMA AskSent ==
    ASSUME NEW q \in Seq(Request), NEW v, Longer(v, q, <<"ask">>), NEW m \in {"none", "sent"},
           Asked(m, q), <<"ask">> \notin Range(q)
    PROVE  /\ Asked(m, v)
           /\ \A p, b : Hears(q, v, p, b)
<1>1. PICK n \in DOMAIN v :
        /\ v[n] = <<"ask">> /\ DOMAIN v = DOMAIN q \cup {n} /\ n \notin DOMAIN q /\ ~(n > n)
        /\ \A j \in DOMAIN q : v[j] = q[j] /\ n > j /\ ~(j > n)
  BY DEF Longer
<1>2. \A j \in DOMAIN q : q[j] # <<"ask">>
  BY DEF Range
<1>3. Asked(m, v)
  BY <1>1, <1>2 DEF Asked
<1>4. ASSUME NEW o, NEW b, LastEdit(q, o, b) PROVE LastEdit(v, o, b)
  BY <1>1, <1>4 DEF LastEdit
<1> QED BY <1>3, <1>4 DEF Hears

LEMMA EditSent ==
    ASSUME NEW q \in Seq(Request), NEW p, NEW b, NEW v, Longer(v, q, <<"edit", p, b>>), NEW m,
           Asked(m, q)
    PROVE  /\ Asked(m, v) /\ LastEdit(v, p, b)
           /\ \A o, c : o # p => (LastEdit(q, o, c) => LastEdit(v, o, c))
<1>1. PICK n \in DOMAIN v :
        /\ v[n] = <<"edit", p, b>> /\ DOMAIN v = DOMAIN q \cup {n} /\ n \notin DOMAIN q /\ ~(n > n)
        /\ \A j \in DOMAIN q : v[j] = q[j] /\ n > j /\ ~(j > n)
  BY DEF Longer
<1>2. <<"edit", p, b>> # <<"ask">>
  OBVIOUS
<1>3. Asked(m, v)
  <2>1. <<"ask">> \in Range(v) => <<"ask">> \in Range(q)
    BY <1>1, <1>2 DEF Range
  <2>2. \A j \in DOMAIN v : v[j] = <<"ask">> => j \in DOMAIN q /\ q[j] = <<"ask">>
    BY <1>1, <1>2
  <2> QED BY <2>1, <2>2 DEF Asked
<1>4. LastEdit(v, p, b)
  BY <1>1 DEF LastEdit
<1>5. ASSUME NEW o, NEW c, o # p, LastEdit(q, o, c) PROVE LastEdit(v, o, c)
  <2>1. PICK k \in DOMAIN q :
          /\ q[k] = <<"edit", o, c>>
          /\ \A j \in DOMAIN q : j > k => ~(q[j][1] = "edit" /\ q[j][2] = o)
    BY <1>5 DEF LastEdit
  <2>2. k \in DOMAIN v /\ v[k] = <<"edit", o, c>>
    BY <1>1, <2>1
  <2>3. \A j \in DOMAIN v : j > k => ~(v[j][1] = "edit" /\ v[j][2] = o)
    BY <1>1, <1>5, <2>1
  <2> QED BY <2>2, <2>3 DEF LastEdit
<1> QED BY <1>3, <1>4, <1>5

-----------------------------------------------------------------------------
(* What players and threads do.                                            *)

LEMMA PlayerSets ==
    ASSUME NEW w, NEW m, NEW g \in Game, NEW s, NEW A, NEW F, NEW l, NEW B,
           NEW q \in Seq(Request), NEW S, NEW R, NEW U, NEW D,
           NEW p \in Pos, NEW b \in Block, NEW v, Longer(v, q, <<"edit", p, b>>), Asked(m, q),
           g.loaded, Known(w, m, g, s, A, F, l, B, q, D, S, R, U),
           NEW h, h = [g EXCEPT !.view[p] = b]
    PROVE  Known(w, m, h, s, A, F, l, B, v, D, S, R, U)
<1>1. /\ LastEdit(v, p, b)
      /\ \A o, c : o # p => (LastEdit(q, o, c) => LastEdit(v, o, c))
  BY EditSent
<1>2. /\ h.loaded = g.loaded /\ h.missed = g.missed /\ h.view[p] = b
      /\ \A o \in Pos : o # p => h.view[o] = g.view[o]
  BY DEF Game
<1>3. ASSUME NEW o \in Pos PROVE View(o, w[o], h, s, A, l, B, v, D, S, U)
  <2>1. View(o, w[o], g, s, A, l, B, q, D, S, U)
    BY DEF Known
  <2>2. CASE o = p
    BY <1>1, <1>2, <2>1, <2>2 DEF View
  <2>3. CASE o # p
    BY <1>1, <1>2, <2>1, <2>3 DEF View
  <2> QED BY <2>2, <2>3
<1> QED BY <1>2, <1>3 DEF Known

\* The world is copied.
LEMMA LevelCopied ==
    ASSUME NEW w, NEW m \in States, NEW g, NEW s, NEW A, NEW l, NEW q, NEW R \in BOOLEAN,
           NEW U, U # {} => R,
           Known(w, m, g, s, A, FALSE, l, DOMAIN l, q, {}, TRUE, R, U),
           NEW k \in Seq(Piece), \A j \in DOMAIN k : k[j][3] = w[k[j][2]],
           \A p \in Pos : \E j \in DOMAIN k : k[j][2] = p
    PROVE  Known(w, m, g, s, A, FALSE, k, DOMAIN k, q, {}, FALSE, R, U)
<1>1. \A j \in DOMAIN k : k[j][1] = "piece"
  <2>1. \A j \in DOMAIN k : k[j] \in Piece
    OBVIOUS
  <2> QED BY <2>1, PieceFields
<1>2. Orderly(s, A, FALSE)
  BY DEF Known
<1>3. ~Among(s, A, "init") /\ ~Among(s, A, "finish") /\ ~Among(s, A, "piece")
  BY <1>2, NothingBig
<1>4. m = "busy"
  BY DEF Known, Phase, States
<1>5. Phase(m, g.loaded, s, A, DOMAIN k, {}, FALSE, R)
  BY <1>3, <1>4, NothingDue DEF Known, Phase, Coming, Finishing
<1>6. ASSUME NEW p \in Pos PROVE View(p, w[p], g, s, A, k, DOMAIN k, q, {}, FALSE, U)
  <2>1. View(p, w[p], g, s, A, l, DOMAIN l, q, {}, TRUE, U)
    BY DEF Known
  <2>2. AmongAbout(k, DOMAIN k, "piece", p)
    BY <1>1 DEF AmongAbout
  <2> QED BY <2>1, <2>2 DEF View
<1> QED BY <1>2, <1>5, <1>6 DEF Known

\* A thread begins to read the world.
LEMMA ReadingBegins ==
    ASSUME NEW w, NEW m \in States, NEW g, NEW s, NEW A, NEW l, NEW q, NEW R, NEW U, NEW B,
           Known(w, m, g, s, A, FALSE, l, B, q, {}, TRUE, R, U)
    PROVE  Known(w, m, g, s, A, FALSE, l, B, q, {}, FALSE, TRUE, Pos)
<1>1. Orderly(s, A, FALSE)
  BY DEF Known
<1>2. ~Among(s, A, "init") /\ ~Among(s, A, "finish") /\ ~Among(s, A, "piece")
  BY <1>1, NothingBig
<1>3. m = "busy"
  BY DEF Known, Phase, States
<1>4. Phase(m, g.loaded, s, A, B, {}, FALSE, TRUE)
  BY <1>2, <1>3, NothingDue DEF Known, Phase, Coming, Finishing
<1>5. \A p \in Pos : View(p, w[p], g, s, A, l, B, q, {}, FALSE, Pos)
  BY DEF Known, View
<1> QED BY <1>1, <1>4, <1>5 DEF Known

LEMMA PieceIsRead ==
    ASSUME NEW w, NEW m \in States, NEW g, NEW s, NEW A, NEW F, NEW l, NEW q, NEW S, NEW D,
           NEW R, NEW U, NEW p \in Pos, R,
           Known(w, m, g, s, A, F, l, DOMAIN l, q, D, S, R, U),
           NEW k, Longer(k, l, <<"piece", p, w[p]>>),
           NEW V, U \ {p} \subseteq V, V \subseteq U, NEW Q
    PROVE  Known(w, m, g, s, A, F, k, DOMAIN k, q, D, S, Q, V)
<1> DEFINE x == <<"piece", p, w[p]>>
<1>1. x[1] = "piece" /\ x[2] = p /\ x[3] = w[p]
  OBVIOUS
<1> HIDE DEF x
<1>2. PICK n \in DOMAIN k :
        /\ k[n] = x /\ DOMAIN k = DOMAIN l \cup {n} /\ n \notin DOMAIN l /\ ~(n > n)
        /\ \A j \in DOMAIN l : k[j] = l[j] /\ n > j /\ ~(j > n)
  BY DEF Longer, x
<1>3. m = "busy" /\ ~S
  BY DEF Known, Phase, States
<1>4. Phase(m, g.loaded, s, A, DOMAIN k, D, S, Q)
  BY <1>3 DEF Known, Phase, Coming, Finishing
<1>5. ASSUME NEW o \in Pos PROVE View(o, w[o], g, s, A, k, DOMAIN k, q, D, S, V)
  <2>1. View(o, w[o], g, s, A, l, DOMAIN l, q, D, S, U)
    BY DEF Known
  <2>2. \A j \in DOMAIN l : j \in DOMAIN k /\ k[j] = l[j]
    BY <1>2
  <2>3. AmongAbout(l, DOMAIN l, "piece", o) => AmongAbout(k, DOMAIN k, "piece", o)
    BY <2>2 DEF AmongAbout
  <2>4. o = p => AmongAbout(k, DOMAIN k, "piece", o)
    BY <1>1, <1>2 DEF AmongAbout
  <2>5. ~g.loaded /\ o \notin g.missed => \A j \in DOMAIN k : k[j][2] = o => k[j][3] = w[o]
    BY <1>1, <1>2, <2>1 DEF View
  <2>6. o \in U => o \in V \/ o = p
    OBVIOUS
  <2> QED BY <2>1, <2>3, <2>4, <2>5, <2>6 DEF View
<1> QED BY <1>4, <1>5 DEF Known

\* The level is ready: the last of it has been read, or compressed.
LEMMA LevelIsReady ==
    ASSUME NEW w, NEW m \in States, NEW g, NEW s, NEW A, NEW F, NEW l, NEW B, NEW q, NEW D, NEW S,
           NEW R, Known(w, m, g, s, A, F, l, B, q, D, S, R, {}), ~S, m = "busy"
    PROVE  Known(w, "success", g, s, A, F, l, B, q, D, S, FALSE, {})
BY DEF Known, Phase

-----------------------------------------------------------------------------
(* What the steps before the threads say of a client.                      *)

LEMMA AheadOf ==
    ASSUME TodoInv, NEW c \in Clients
    PROVE  /\ Due(c) = DueOf(c, Range(todo[Main]))
           /\ Starting(c) => <<"start", c>> \in Range(todo[Main])
           /\ \A t \in Threads, p \in Pos : <<"read", c, p>> \in Range(todo[t]) => t = c /\ c \in Fast
           /\ \A t \in Threads : <<"done", c>> \in Range(todo[t]) => t = c /\ c \in Fast
           /\ \A x \in Packet : x # Talking =>
                \A t \in Fast : <<"write", c, x>> \notin Range(todo[t])
<1>1. Main \in Threads /\ \A t \in Threads : t = Main \/ t \in Fast
  BY MainIsNoClient
<1>2. ASSUME NEW t \in Fast, NEW x \in Range(todo[t])
      PROVE  /\ x[1] \notin {"start", "spawned"}
             /\ x[1] = "write" => x[3] = Talking
             /\ x[1] \in {"read", "done"} => x[2] = t
  BY DEF TodoInv, FastShape, Range
<1>3. ASSUME NEW x \in Range(todo[Main])
      PROVE  x[1] \notin {"read", "done"}
  BY DEF TodoInv, MainShape, Range
<1>8. \A x \in Packet : x # Talking =>
            \A t \in Fast : <<"write", c, x>> \notin Range(todo[t])
  BY <1>2
<1>4. Due(c) = DueOf(c, Range(todo[Main]))
  <2>2. \A x \in Packet : x # Talking =>
            (<<"write", c, x>> \in Ahead <=> <<"write", c, x>> \in Range(todo[Main]))
    BY <1>1, <1>8 DEF Ahead
  <2> QED BY <2>2 DEF Due, DueOf
<1>5. Starting(c) => <<"start", c>> \in Range(todo[Main])
  <2>1. \A t \in Fast : <<"start", c>> \notin Range(todo[t])
    BY <1>2
  <2> QED BY <1>1, <2>1 DEF Ahead, Starting
<1>6. \A t \in Threads, p \in Pos : <<"read", c, p>> \in Range(todo[t]) => t = c /\ c \in Fast
  <2>1. \A t \in Fast, p \in Pos : <<"read", c, p>> \in Range(todo[t]) => t = c
    BY <1>2
  <2>2. \A p \in Pos : <<"read", c, p>> \notin Range(todo[Main])
    BY <1>3
  <2> QED BY <1>1, <2>1, <2>2
<1>7. \A t \in Threads : <<"done", c>> \in Range(todo[t]) => t = c /\ c \in Fast
  <2>1. \A t \in Fast : <<"done", c>> \in Range(todo[t]) => t = c
    BY <1>2
  <2>2. <<"done", c>> \notin Range(todo[Main])
    BY <1>3
  <2> QED BY <1>1, <2>1, <2>2
<1> QED BY <1>4, <1>5, <1>6, <1>7, <1>8

\* A step takes x, and puts r in front.
LEMMA AheadGoes ==
    ASSUME TodoInv, NEW t, NEW r, Goes(t, r), NEW x, x = todo[t][1]
    PROVE  /\ TodoInv' /\ x \in Ahead
           /\ Ahead \subseteq Ahead' \cup {x}
           /\ Ahead' \subseteq Ahead \cup Range(r)
           /\ Range(r) \subseteq Ahead'
           /\ \A y \in Range(r) : y \in Errands(t)
<1>1. /\ TodoInv' /\ todo'[t] = r \o Tail(todo[t])
      /\ \A u \in Threads : u # t => todo'[u] = todo[u]
  BY GoesShape
<1>2. /\ t \in Threads /\ todo[t] \in Seq(Task) /\ todo[t] # << >>
      /\ r \in Seq(Errands(t)) /\ Errands(t) \subseteq Task
  BY ErrandFields DEF Goes, TodoInv
<1>3. r \in Seq(Task) /\ Tail(todo[t]) \in Seq(Task)
  BY <1>2, SeqFacts
<1>4. Range(todo[t]) = {x} \cup Range(Tail(todo[t]))
  BY <1>2, RangeFacts
<1>5. Range(r \o Tail(todo[t])) = Range(r) \cup Range(Tail(todo[t]))
  <2>1. \A a, b \in Seq(Task) : Range(a \o b) = Range(a) \cup Range(b)
    BY RangeFacts
  <2> QED BY <1>3, <2>1
<1>6. \A y : y \in Ahead <=> \E u \in Threads : y \in Range(todo[u])
  BY DEF Ahead
<1>7. \A y : y \in Ahead' <=> \E u \in Threads : y \in Range(todo'[u])
  BY DEF Ahead
<1>8. Ahead \subseteq Ahead' \cup {x}
  BY <1>1, <1>2, <1>4, <1>5, <1>6, <1>7
<1>9. Ahead' \subseteq Ahead \cup Range(r)
  BY <1>1, <1>2, <1>4, <1>5, <1>6, <1>7
<1>10. Range(r) \subseteq Ahead' /\ x \in Ahead
  BY <1>1, <1>2, <1>4, <1>5, <1>6, <1>7
<1>11. \A y \in Range(r) : y \in Errands(t)
  BY <1>2 DEF Range
<1> QED BY <1>1, <1>8, <1>9, <1>10, <1>11

\* A step that says nothing of a level or of a block to c.
Beside(x, c) ==
    /\ x[1] = "write" /\ x[2] = c => x[3] = Talking
    /\ x[1] \in {"start", "read", "done"} => x[2] # c

LEMMA BesideGoes ==
    ASSUME TodoInv, NEW t, NEW r, Goes(t, r), NEW c \in Clients
    PROVE  /\ Beside(todo[t][1], c) =>
                /\ Due(c)' = Due(c) /\ (Starting(c)' <=> Starting(c))
                /\ Unread(c)' = Unread(c) /\ (Reading(c)' <=> Reading(c))
           /\ \A z : todo[t][1] = <<"write", c, z>> =>
                /\ Due(c) \ {z} \subseteq Due(c)' /\ Due(c)' \subseteq Due(c)
                /\ (Starting(c)' <=> Starting(c))
                /\ Unread(c)' = Unread(c) /\ (Reading(c)' <=> Reading(c))
<1> DEFINE x == todo[t][1]
<1>1. /\ x \in Ahead /\ Ahead \subseteq Ahead' \cup {x}
      /\ Ahead' \subseteq Ahead \cup Range(r) /\ \A y \in Range(r) : y \in Errands(t)
  BY AheadGoes
<1>2. t \in Threads
  BY DEF Goes
<1>3. \A y \in Errands(t) : /\ y[1] \notin {"start", "read", "done"}
                            /\ y[1] = "write" => y[3] = Talking
  BY <1>2, ErrandFields
<1> HIDE DEF x
<1>4. ASSUME NEW y, y[1] \in {"start", "read", "done"} \/ (y[1] = "write" /\ y[3] # Talking)
      PROVE  (y \in Ahead' => y \in Ahead) /\ (y \in Ahead /\ y # x => y \in Ahead')
  BY <1>1, <1>3, <1>4
<1>5. ASSUME NEW what \in {"start", "done"}, x[1] \in {"start", "done"} => x[2] # c
      PROVE  <<what, c>> \in Ahead' <=> <<what, c>> \in Ahead
  <2>1. <<what, c>>[1] = what /\ <<what, c>>[2] = c
    OBVIOUS
  <2> QED BY <1>4, <1>5, <2>1
<1>6. ASSUME x[1] = "read" => x[2] # c, NEW p \in Pos
      PROVE  <<"read", c, p>> \in Ahead' <=> <<"read", c, p>> \in Ahead
  <2>1. <<"read", c, p>>[1] = "read" /\ <<"read", c, p>>[2] = c
    OBVIOUS
  <2> QED BY <1>4, <1>6, <2>1
<1>7. ASSUME NEW z, z # Talking
      PROVE  /\ <<"write", c, z>> \in Ahead' => <<"write", c, z>> \in Ahead
             /\ <<"write", c, z>> \in Ahead /\ <<"write", c, z>> # x => <<"write", c, z>> \in Ahead'
  <2>1. <<"write", c, z>>[1] = "write" /\ <<"write", c, z>>[3] = z
    OBVIOUS
  <2> QED BY <1>4, <1>7, <2>1
<1>8. ASSUME x[1] \in {"start", "read", "done"} => x[2] # c
      PROVE  /\ Starting(c)' <=> Starting(c)
             /\ Unread(c)' = Unread(c) /\ (Reading(c)' <=> Reading(c))
  <2>1. Unread(c)' = Unread(c)
    BY <1>6, <1>8 DEF Unread
  <2>2. Starting(c)' <=> Starting(c)
    BY <1>5, <1>8 DEF Starting
  <2>3. <<"done", c>> \in Ahead' <=> <<"done", c>> \in Ahead
    BY <1>5, <1>8
  <2> QED BY <2>1, <2>2, <2>3 DEF Reading
<1>9. ASSUME Beside(x, c) PROVE Due(c)' = Due(c)
  <2>1. \A z : z # Talking => <<"write", c, z>> # x
    BY <1>9 DEF Beside
  <2> QED BY <1>7, <2>1 DEF Due
<1>10. ASSUME NEW z, x = <<"write", c, z>>
       PROVE  Due(c) \ {z} \subseteq Due(c)' /\ Due(c)' \subseteq Due(c)
  <2>1. \A y : y # z => <<"write", c, y>> # x
    BY <1>10
  <2> QED BY <1>7, <2>1 DEF Due
<1>11. \A z : x = <<"write", c, z>> => x[1] = "write"
  OBVIOUS
<1>12. Beside(x, c) => (x[1] \in {"start", "read", "done"} => x[2] # c)
  BY DEF Beside
<1>13. \A z : x = <<"write", c, z>> => (x[1] \in {"start", "read", "done"} => x[2] # c)
  BY <1>11
<1> QED BY <1>8, <1>9, <1>10, <1>12, <1>13 DEF x

\* When it writes the finish of a level, no other is due.
LEMMA FinishGoes ==
    ASSUME TodoInv, NEW r, Goes(Main, r), NEW c \in Clients, NEW z,
           todo[Main][1] = <<"write", c, z>>, z \in Packet, z[1] = "finish"
    PROVE  Due(c)' = Due(c) \ {z}
<1> DEFINE s == todo[Main]
<1>1. /\ s \in Seq(Task) /\ s # << >> /\ IsSeq(s) /\ r \in Seq(Errands(Main))
      /\ Errands(Main) \subseteq Task /\ Main \in Threads
  BY ErrandFields DEF Goes, TodoInv, IsSeq
<1>2. TodoInv' /\ todo'[Main] = r \o Tail(s)
  BY GoesShape
<1>3. z = <<"finish">>
  BY PacketFields
<1>4. <<"write", c, z>> \notin Range(Tail(s))
  <2>1. SUFFICES ASSUME NEW k \in DOMAIN Tail(s), Tail(s)[k] = <<"write", c, z>> PROVE FALSE
    BY DEF Range
  <2>2. k \in Nat \ {0} /\ k + 1 \in DOMAIN s /\ s[k + 1] = <<"write", c, z>> /\ 1 \in DOMAIN s
    BY <1>1, <2>1, TailElements
  <2>3. s[1] = s[k + 1] /\ s[k + 1][1] = "write" /\ s[k + 1][3][1] = "finish"
    BY <2>2
  <2>4. 1 = k + 1
    BY <2>2, <2>3 DEF TodoInv, MainShape
  <2> QED BY <2>2, <2>4
<1>5. <<"write", c, z>> \notin Range(r)
  <2>1. \A y \in Errands(Main) : y[1] = "write" => y[3] = Talking
    BY <1>1, ErrandFields
  <2>2. z # Talking
    BY <1>3 DEF Talking
  <2>3. \A k \in DOMAIN r : r[k] \in Errands(Main)
    BY <1>1
  <2> QED BY <2>1, <2>2, <2>3 DEF Range
<1>6. <<"write", c, z>> \notin Range(todo'[Main])
  <2>1. r \in Seq(Task) /\ Tail(s) \in Seq(Task)
    BY <1>1, SeqFacts
  <2>2. \A a, b \in Seq(Task) : Range(a \o b) = Range(a) \cup Range(b)
    BY RangeFacts
  <2> HIDE DEF s
  <2> QED BY <1>2, <1>4, <1>5, <2>1, <2>2
<1>7. \A u \in Fast : u # Main /\ u \in Threads /\ todo'[u] = todo[u]
  BY GoesShape, MainIsNoClient DEF Threads
<1>8. z \notin Due(c)'
  <2>1. \A u \in Fast : <<"write", c, z>> \notin Range(todo[u])
    <3>1. z # Talking
      BY <1>3 DEF Talking
    <3> QED BY <3>1, AheadOf
  <2>2. \A u \in Threads : <<"write", c, z>> \notin Range(todo'[u])
    <3>1. \A u \in Threads : u = Main \/ u \in Fast
      BY MainIsNoClient
    <3> QED BY <1>6, <1>7, <2>1, <3>1
  <2> QED BY <2>2 DEF Due, Ahead
<1>9. Due(c) \ {z} \subseteq Due(c)' /\ Due(c)' \subseteq Due(c)
  BY BesideGoes
<1> QED BY <1>8, <1>9

-----------------------------------------------------------------------------
(* What a step leaves as it is.                                            *)

LEMMA LostGrows ==
    ASSUME TypeInv, [Next]_vars
    PROVE  seen.lost \subseteq seen'.lost
<1>1. CASE UNCHANGED seen
  BY <1>1
<1>2. ASSUME NEW C, Lost(C) PROVE seen.lost \subseteq seen'.lost
  BY <1>2 DEF Lost, TypeInv, Seen
<1>3. ASSUME NEW t \in Threads, ThreadStep(t) PROVE seen.lost \subseteq seen'.lost
  <2>1. PICK c \in Clients :
          \/ Write(t, c) \/ Flush(t, c) \/ Lock(t, c) \/ Unlock(t, c)
          \/ SendsAll(t, c) \/ SendsPart(t, c) \/ SendFindsReset(t, c) \/ SendFails(t, c)
          \/ Down(t, c) \/ Spawned(t, c) \/ Start(t, c) \/ Read(t, c) \/ Done(t, c)
    BY <1>3 DEF ThreadStep
  <2>2. CASE Write(t, c) \/ SendsAll(t, c) \/ SendsPart(t, c)
    BY <1>2, <2>2 DEF Write, SendsAll, SendsPart
  <2>3. CASE SendFails(t, c)
    BY <2>3 DEF SendFails, TypeInv, Seen
  <2>4. CASE Down(t, c)
    BY <2>4 DEF Down, TypeInv, Seen
  <2>5. CASE \/ Flush(t, c) \/ Lock(t, c) \/ Unlock(t, c) \/ SendFindsReset(t, c)
             \/ Spawned(t, c) \/ Start(t, c) \/ Read(t, c) \/ Done(t, c)
    BY <1>1, <2>5 DEF Flush, Lock, Unlock, SendFindsReset, Spawned, Start, Read, Done
  <2> QED BY <2>1, <2>2, <2>3, <2>4, <2>5
<1>4. ASSUME \/ StartTick \/ Enter
             \/ RecvEditRefused \/ RecvEdit \/ RecvAsk \/ Kick \/ RecvFindsReset \/ EndReceive
             \/ NoLevel \/ SendChunks \/ FinishLevel
      PROVE  UNCHANGED seen
  BY <1>4 DEF StartTick, Enter, RecvEditRefused, RecvEdit, RecvAsk, Kick, RecvFindsReset,
              EndReceive, NoLevel, SendChunks, FinishLevel
<1>5. ASSUME NEW c \in Clients,
             Compressed(c) \/ GameAsks(c) \/ \E p \in Pos, b \in Block : GameEdits(c, p, b)
      PROVE  UNCHANGED seen
  BY <1>5 DEF Compressed, GameAsks, GameEdits
<1>6. Main \in Threads /\ Fast \subseteq Threads
  BY MainIsNoClient DEF Threads
<1>7. CASE UNCHANGED vars
  BY <1>1, <1>7 DEF vars
<1>8. CASE \E t \in Threads : ThreadStep(t)
  BY <1>3, <1>8
<1> QED BY <1>1, <1>4, <1>5, <1>6, <1>7, <1>8 DEF Next, MainStep

\* No client comes back.
LEMMA LiveBefore ==
    ASSUME Later, seen.lost \subseteq seen'.lost, NEW c \in Clients, Live(c)',
           NEW x, Ahead \subseteq Ahead' \cup {x}, x # <<"down", c>>
    PROVE  Live(c)
BY DEF Live, Later

\* The parts of the state that are about c.
SameFor(c) ==
    /\ world' = world
    /\ game'[c] = game[c] /\ inq'[c] = inq[c] /\ out'[c] = out[c] /\ level'[c] = level[c]
    /\ client'[c].mapsend = client[c].mapsend

SightFrom(c, w, m, g, s, F, l, q, D, S, R, U) ==
    Known(w, m, g, s, DOMAIN s, F, l, DOMAIN l, q, D, S, R, U) /\ Asked(m, q)

LEMMA SightIs ==
    ASSUME NEW c \in Clients
    PROVE  /\ Sight(c) <=>
                SightFrom(c, world, client[c].mapsend, game[c], out[c], Flushing(c), level[c],
                          inq[c], Due(c), Starting(c), Reading(c), Unread(c))
           /\ Sight(c)' <=>
                SightFrom(c, world', client'[c].mapsend, game'[c], out'[c], Flushing(c)', level'[c],
                          inq'[c], Due(c)', Starting(c)', Reading(c)', Unread(c)')
           /\ Starting(c) \in BOOLEAN /\ Reading(c) \in BOOLEAN /\ Flushing(c) \in BOOLEAN
           /\ Starting(c)' \in BOOLEAN /\ Reading(c)' \in BOOLEAN /\ Flushing(c)' \in BOOLEAN
           /\ Unread(c) # {} => Reading(c)
           /\ Due(c) \in SUBSET Packet
<1>1. Sight(c) <=>
          SightFrom(c, world, client[c].mapsend, game[c], out[c], Flushing(c), level[c],
                    inq[c], Due(c), Starting(c), Reading(c), Unread(c))
  BY DEF Sight, SightFrom, Known
<1>2. Sight(c)' <=>
          SightFrom(c, world', client'[c].mapsend, game'[c], out'[c], Flushing(c)', level'[c],
                    inq'[c], Due(c)', Starting(c)', Reading(c)', Unread(c)')
  BY DEF Sight, SightFrom, Known
<1>3. /\ Starting(c) \in BOOLEAN /\ Reading(c) \in BOOLEAN /\ Flushing(c) \in BOOLEAN
      /\ Starting(c)' \in BOOLEAN /\ Reading(c)' \in BOOLEAN /\ Flushing(c)' \in BOOLEAN
  BY DEF Starting, Reading, Flushing
<1>4. Unread(c) # {} => Reading(c)
  BY DEF Reading
<1>5. Due(c) \in SUBSET Packet
  BY DEF Due
<1> QED BY <1>1, <1>2, <1>3, <1>4, <1>5

LEMMA SightStays ==
    ASSUME NEW c \in Clients, SameFor(c), Sight(c),
           Due(c)' = Due(c), Starting(c)' <=> Starting(c), Reading(c)' <=> Reading(c),
           Unread(c)' = Unread(c), Flushing(c) => Flushing(c)'
    PROVE  Sight(c)'
<1> DEFINE w == world
           m == client[c].mapsend
           g == game[c]
           s == out[c]
           A == DOMAIN s
           F == Flushing(c)
           l == level[c]
           B == DOMAIN l
           q == inq[c]
           D == Due(c)
           S == Starting(c)
           R == Reading(c)
           U == Unread(c)
           G == Flushing(c)'
<1>1. Known(w, m, g, s, A, F, l, B, q, D, S, R, U) /\ Asked(m, q)
  BY SightIs DEF SightFrom
<1>2. F => G
  OBVIOUS
<1>3. S = Starting(c)' /\ R = Reading(c)'
  BY SightIs
<1> HIDE DEF w, m, g, s, A, F, l, B, q, D, S, R, U, G
<1>4. Known(w, m, g, s, A, G, l, B, q, D, S, R, U)
  BY <1>1, <1>2, FlushBegins
<1>5. SightFrom(c, w, m, g, s, G, l, q, D, S, R, U)
  BY <1>1, <1>4 DEF SightFrom, A, B
<1>6. /\ w = world' /\ m = client'[c].mapsend /\ g = game'[c] /\ s = out'[c] /\ l = level'[c]
      /\ q = inq'[c] /\ D = Due(c)' /\ U = Unread(c)' /\ G = Flushing(c)'
  BY DEF SameFor, w, m, g, s, l, q, D, U, G
<1> QED BY <1>3, <1>5, <1>6, SightIs

\* The first of the main thread's steps when one has gone.
LEMMA FlushingGoes ==
    ASSUME TodoInv, NEW t, NEW r, Goes(t, r), NEW c \in Clients
    PROVE  /\ t # Main => (Flushing(c)' <=> Flushing(c))
           /\ t = Main /\ todo[t][1] \notin {<<"flush", c>>, <<"send", c>>, <<"lock", c, "send">>} =>
                ~Flushing(c)
           /\ t = Main /\ (r = << <<"send", c>> >> \/ r = << <<"lock", c, "send">> >>) => Flushing(c)'
           /\ t # Main => t \in Fast
<1>1. /\ t \in Threads /\ todo[t] # << >> /\ todo[t] \in Seq(Task) /\ r \in Seq(Errands(t))
      /\ todo'[t] = r \o Tail(todo[t]) /\ \A u \in Threads : u # t => todo'[u] = todo[u]
      /\ Errands(t) \subseteq Task
  BY GoesShape, ErrandFields DEF Goes, TodoInv
<1>2. t # Main => (Flushing(c)' <=> Flushing(c))
  <2>1. Main \in Threads
    BY MainIsNoClient
  <2> QED BY <1>1, <2>1 DEF Flushing
<1>3. ASSUME NEW x, r = <<x>> PROVE todo'[t] # << >> /\ todo'[t][1] = x
  <2>1. r \in Seq(Task) /\ Tail(todo[t]) \in Seq(Task)
    BY <1>1, SeqFacts
  <2>2. x \in Task
    <3>1. r[1] = x /\ r # << >>
      BY <1>3
    <3> QED BY <2>1, <3>1, SeqFacts
  <2>3. \A v \in Seq(Task) : <<x>> \o v # << >> /\ (<<x>> \o v)[1] = x
    BY <2>2
  <2> QED BY <1>1, <1>3, <2>1, <2>3
<1>4. t = Main /\ (r = << <<"send", c>> >> \/ r = << <<"lock", c, "send">> >>) => Flushing(c)'
  BY <1>3 DEF Flushing
<1>5. t # Main => t \in Fast
  BY <1>1, MainIsNoClient
<1> QED BY <1>2, <1>4, <1>5 DEF Flushing

\* A step of another client's, or one that does not concern what its game shows.
LEMMA SightBeside ==
    ASSUME TodoInv, NEW t, NEW r, Goes(t, r), NEW c \in Clients, SameFor(c), Sight(c),
           Beside(todo[t][1], c), Flushing(c) => Flushing(c)'
    PROVE  Sight(c)'
BY BesideGoes, SightStays

LEMMA SightElsewhere ==
    ASSUME TodoInv, NEW t, NEW r, Goes(t, r), NEW c \in Clients, SameFor(c), Sight(c),
           todo[t][1][2] # c
    PROVE  Sight(c)'
<1>1. Beside(todo[t][1], c)
  BY DEF Beside
<1>2. todo[t][1] \notin {<<"flush", c>>, <<"send", c>>, <<"lock", c, "send">>}
  OBVIOUS
<1>3. Flushing(c) => Flushing(c)'
  BY <1>2, FlushingGoes
<1> QED BY <1>1, <1>3, SightBeside

-----------------------------------------------------------------------------
(* The steps of a thread, one by one.                                      *)

\* What is known of a state and of the step from it.
Sighted == TodoInv /\ DataType /\ TypeInv /\ SightInv /\ Later /\ seen.lost \subseteq seen'.lost

LEMMA GoesLive ==
    ASSUME Sighted, NEW t, NEW r, Goes(t, r), NEW d \in Clients, Live(d)',
           todo[t][1] # <<"down", d>>
    PROVE  Live(d) /\ Sight(d)
<1>1. Ahead \subseteq Ahead' \cup {todo[t][1]}
  BY AheadGoes DEF Sighted
<1>2. Live(d)
  BY <1>1, LiveBefore DEF Sighted
<1> QED BY <1>2 DEF Sighted, SightInv

\* Those that a step does not concern.
LEMMA GoesElsewhere ==
    ASSUME Sighted, NEW t, NEW r, Goes(t, r), NEW d \in Clients, Live(d)', SameFor(d),
           todo[t][1][2] # d
    PROVE  Sight(d)'
<1>1. todo[t][1] # <<"down", d>>
  OBVIOUS
<1>2. Sight(d)
  BY <1>1, GoesLive
<1> QED BY <1>2, SightElsewhere DEF Sighted

LEMMA DataParts ==
    ASSUME DataType, TypeInv, NEW c \in Clients
    PROVE  /\ world \in [Pos -> Block] /\ game[c] \in Game /\ inq[c] \in Seq(Request)
           /\ out[c] \in Seq(Packet) /\ level[c] \in Seq(Piece)
           /\ client[c].mapsend \in States /\ client[c].connected \in BOOLEAN
BY DEF DataType, WorldType, GameType, InqType, OutType, LevelType, TypeInv, Record, States

\* A packet of a level that the main thread writes is flushed next.
LEMMA BigGoes ==
    ASSUME TodoInv, NEW t, Goes(t, << >>), NEW c \in Clients, NEW x \in Packet, x # Talking,
           todo[t][1] = <<"write", c, x>>
    PROVE  /\ t = Main /\ x \in Due(c) /\ ~Flushing(c)
           /\ x[1] \in Big => Flushing(c)'
<1>1. /\ t \in Threads /\ todo[t] # << >> /\ todo[t] \in Seq(Task)
      /\ todo'[t] = << >> \o Tail(todo[t]) /\ Tail(todo[t]) \in Seq(Task)
  BY GoesShape, SeqFacts DEF Goes, TodoInv
<1>2. todo'[t] = Tail(todo[t])
  <2>1. \A v \in Seq(Task) : << >> \o v = v
    OBVIOUS
  <2> QED BY <1>1, <2>1
<1>3. <<"write", c, x>> \in Range(todo[t])
  <2>1. 1 \in DOMAIN todo[t]
    BY <1>1
  <2> QED BY <2>1 DEF Range
<1>4. t = Main
  BY <1>1, <1>3, AheadOf, MainIsNoClient
<1>5. x \in Due(c)
  BY <1>1, <1>3 DEF Due, Ahead
<1>6. todo[t][1] \notin {<<"flush", c>>, <<"send", c>>, <<"lock", c, "send">>}
  BY <1>1
<1>7. ~Flushing(c)
  BY <1>4, <1>6, FlushingGoes
<1>8. ASSUME x[1] \in Big PROVE Flushing(c)'
  <2> DEFINE s == todo[Main]
  <2>1. s \in Seq(Task) /\ s # << >> /\ MainShape(s) /\ s[1][1] = "write" /\ s[1][2] = c
        /\ s[1][3] = x
    BY <1>1, <1>4 DEF TodoInv
  <2>2. 1 + 1 \in DOMAIN s /\ s[1 + 1] = <<"flush", c>>
    <3>1. 1 \in DOMAIN s
      BY <2>1
    <3> HIDE DEF s
    <3> QED BY <1>8, <2>1, <3>1 DEF MainShape
  <2>3. IsSeq(s)
    BY <2>1 DEF IsSeq
  <2>4. 1 \in DOMAIN Tail(s) /\ Tail(s)[1] = <<"flush", c>>
    <3>1. \A k \in DOMAIN s : k # 1 => k - 1 \in DOMAIN Tail(s) /\ Tail(s)[k - 1] = s[k]
      BY <2>1, <2>3, TailElements
    <3>2. 1 + 1 # 1 /\ (1 + 1) - 1 = 1
      OBVIOUS
    <3> HIDE DEF s
    <3> QED BY <2>2, <3>1, <3>2
  <2>5. Tail(s) # << >>
    <3>1. \A v : 1 \in DOMAIN v => v # << >>
      OBVIOUS
    <3> HIDE DEF s
    <3> QED BY <2>4, <3>1
  <2> QED BY <1>2, <1>4, <2>4, <2>5 DEF Flushing
<1> QED BY <1>4, <1>5, <1>7, <1>8

LEMMA WriteSight ==
    ASSUME Sighted, NEW t \in Threads, NEW c \in Clients, Write(t, c), NEW d \in Clients, Live(d)'
    PROVE  Sight(d)'
<1>1. PICK x \in Packet : Goes(t, << >>) /\ todo[t][1] = <<"write", c, x>> /\ todo[t][1][3] = x
  BY PlainlyGoes DEF Sighted
<1>2. UNCHANGED <<world, game, inq, client, level>>
  BY DEF Write
<1>3. CASE d # c
  <2>1. out'[d] = out[d]
    BY <1>3 DEF Write, Sighted, DataType, OutType
  <2>2. SameFor(d)
    BY <1>2, <2>1 DEF SameFor
  <2>3. todo[t][1][2] # d
    BY <1>1, <1>3
  <2> QED BY <1>1, <2>2, <2>3, GoesElsewhere
<1>4. CASE d = c
  <2>0. TodoInv /\ DataType /\ TypeInv
    BY DEF Sighted
  <2>1. todo[t][1] # <<"down", c>>
    BY <1>1
  <2>2. Live(c) /\ Sight(c)
    BY <1>1, <1>4, <2>1, GoesLive
  <2>3. out' = [out EXCEPT ![c] = Append(@, x)]
    <3>1. client[c].connected /\ c \notin seen'.lost
      BY <1>2, <1>4 DEF Live
    <3>2. Fits(c)
      <4>1. SUFFICES ASSUME ~Fits(c) PROVE FALSE
        OBVIOUS
      <4>2. Lost({c})
        BY <4>1 DEF Write
      <4>3. c \in seen'.lost
        BY <4>2 DEF Lost, Sighted, TypeInv, Seen
      <4> QED BY <3>1, <4>3
    <3> QED BY <1>1, <3>1, <3>2 DEF Write
  <2>4. out[c] \in Seq(Packet) /\ client[c].mapsend \in States
    BY <2>0, DataParts
  <2>5. out'[c] = Append(out[c], x)
    BY <2>0, <2>3 DEF DataType, OutType
  <2>6. Longer(out'[c], out[c], x)
    BY <2>4, <2>5, AppendLonger
  <2> DEFINE w == world
             m == client[c].mapsend
             g == game[c]
             s == out[c]
             v == out'[c]
             F == Flushing(c)
             G == Flushing(c)'
             l == level[c]
             B == DOMAIN l
             q == inq[c]
             D == Due(c)
             E == Due(c)'
             S == Starting(c)
             R == Reading(c)
             U == Unread(c)
  <2>7. /\ w = world' /\ m = client'[c].mapsend /\ g = game'[c] /\ l = level'[c] /\ q = inq'[c]
    BY <1>2
  <2>8. Known(w, m, g, s, DOMAIN s, F, l, B, q, D, S, R, U) /\ Asked(m, q)
    BY <2>2, SightIs DEF SightFrom
  <2>9. Longer(v, s, x) /\ s \in Seq(Packet) /\ m \in States
    BY <2>4, <2>6
  <2>10. /\ D \ {x} \subseteq E /\ E \subseteq D /\ S = Starting(c)' /\ R = Reading(c)'
         /\ U = Unread(c)'
    BY <1>1, <2>0, BesideGoes, SightIs
  <2>11. Known(w, m, g, v, DOMAIN v, G, l, B, q, E, S, R, U)
    <3>1. CASE x = Talking
      <4>1. Beside(todo[t][1], c)
        BY <1>1, <3>1 DEF Beside
      <4>2. E = D
        BY <1>1, <2>0, <4>1, BesideGoes
      <4>3. F => G
        <5>1. todo[t][1] \notin {<<"flush", c>>, <<"send", c>>, <<"lock", c, "send">>}
          BY <1>1
        <5> QED BY <1>1, <2>0, <5>1, FlushingGoes
      <4> HIDE DEF w, m, g, s, v, F, G, l, B, q, D, E, S, R, U
      <4>4. Known(w, m, g, v, DOMAIN v, F, l, B, q, D, S, R, U)
        BY <2>8, <2>9, <3>1, TalkWritten
      <4> QED BY <4>2, <4>3, <4>4, FlushBegins
    <3>2. CASE x # Talking
      <4>1. t = Main /\ x \in D /\ F = FALSE /\ (x[1] \in Big => G)
        BY <1>1, <2>0, <3>2, BigGoes, SightIs
      <4>2. x[1] = "finish" => E = D \ {x}
        BY <1>1, <2>0, <4>1, FinishGoes
      <4>3. D \in SUBSET Packet
        BY SightIs
      <4> HIDE DEF w, m, g, s, v, F, G, l, B, q, D, E, S, R, U
      <4>4. Known(w, m, g, s, DOMAIN s, FALSE, l, B, q, D, S, R, U)
        BY <2>8, <4>1
      <4> QED BY <2>9, <2>10, <3>2, <4>1, <4>2, <4>3, <4>4, PacketWritten
    <3> QED BY <3>1, <3>2
  <2> HIDE DEF w, m, g, s, v, F, G, l, B, q, D, E, S, R, U
  <2>12. SightFrom(c, w, m, g, v, G, l, q, E, S, R, U)
    BY <2>8, <2>11 DEF SightFrom, B
  <2>13. v = out'[c] /\ G = Flushing(c)' /\ E = Due(c)'
    BY DEF v, G, E
  <2>14. Sight(c)'
    BY <2>7, <2>10, <2>12, <2>13, SightIs
  <2> QED BY <1>4, <2>14
<1> QED BY <1>3, <1>4

\* What is flushed is sent next, or waits for the mutex.
LEMMA FlushSight ==
    ASSUME Sighted, NEW t \in Threads, NEW c \in Clients, Flush(t, c) \/ Lock(t, c),
           NEW d \in Clients, Live(d)'
    PROVE  Sight(d)'
<1>0. TodoInv
  BY DEF Sighted
<1>1. UNCHANGED <<world, game, inq, client, out, level>>
  BY DEF Flush, Lock
<1>2. SameFor(d)
  BY <1>1 DEF SameFor
<1>3. PICK r : /\ Goes(t, r)
               /\ todo[t][1] \in {<<"flush", c>>, <<"post", c>>,
                                  <<"lock", c, "send">>, <<"lock", c, "sendlevel">>}
               /\ client[c].connected /\ t = Main =>
                    r = << <<"send", c>> >> \/ r = << <<"lock", c, "send">> >>
  <2>1. CASE Flush(t, c)
    <3>1. todo[t][1] = <<"flush", c>> \/ todo[t][1] = <<"post", c>>
      BY <1>0, <2>1, FlushGoes
    <3>2. CASE ~client[c].connected
      BY <1>0, <2>1, <3>1, <3>2, FlushGoes
    <3>3. CASE client[c].connected /\ t = Main
      <4>1. todo[t][1] = <<"flush", c>>
        <5>1. todo[t] \in Seq(Task) /\ todo[t] # << >>
          BY <1>0, <2>1 DEF TodoInv, Flush, IsNext
        <5>2. 1 \in DOMAIN todo[t]
          BY <5>1
        <5>3. todo[t][1][1] # "post"
          BY <1>0, <3>3, <5>2 DEF TodoInv, MainShape
        <5> QED BY <3>1, <5>3
      <4> QED BY <1>0, <2>1, <3>3, <4>1, FlushGoes
    <3>4. CASE client[c].connected /\ t # Main
      BY <1>0, <2>1, <3>1, <3>4, FlushGoes
    <3> QED BY <3>2, <3>3, <3>4
  <2>2. CASE Lock(t, c)
    <3>1. PICK what \in {"send", "sendlevel"} :
              todo[t][1] = <<"lock", c, what>> /\ Goes(t, << <<what, c>> >>)
      BY <1>0, <2>2, LockGoes
    <3>2. t = Main => what = "send"
      <4>1. todo[t] \in Seq(Task) /\ todo[t] # << >>
        BY <1>0, <3>1 DEF TodoInv, Goes
      <4>2. 1 \in DOMAIN todo[t]
        BY <4>1
      <4>3. t = Main => todo[t][1][3] = "send"
        BY <1>0, <3>1, <4>2 DEF TodoInv, MainShape
      <4> QED BY <3>1, <4>3
    <3> QED BY <3>1, <3>2
  <2> QED BY <2>1, <2>2
<1>4. CASE d # c
  <2>1. todo[t][1][2] # d
    BY <1>3, <1>4
  <2> QED BY <1>2, <1>3, <2>1, GoesElsewhere
<1>5. CASE d = c
  <2>1. todo[t][1] # <<"down", c>> /\ Beside(todo[t][1], c)
    BY <1>3 DEF Beside
  <2>2. Sight(c)
    BY <1>3, <1>5, <2>1, GoesLive
  <2>3. client[c].connected
    BY <1>1, <1>5 DEF Live
  <2>4. Flushing(c) => Flushing(c)'
    BY <1>0, <1>3, <2>3, FlushingGoes
  <2> QED BY <1>0, <1>2, <1>3, <1>5, <2>1, <2>2, <2>4, SightBeside
<1> QED BY <1>4, <1>5

LEMMA AsideSight ==
    ASSUME Sighted, NEW t \in Threads, NEW c \in Clients, Unlock(t, c) \/ Spawned(t, c),
           NEW d \in Clients, Live(d)'
    PROVE  Sight(d)'
<1>0. TodoInv
  BY DEF Sighted
<1>1. SameFor(d)
  <2>1. UNCHANGED <<world, game, inq, out, level>>
    BY DEF Unlock, Spawned
  <2>2. client'[d].mapsend = client[d].mapsend
    BY DEF Unlock, Spawned, Sighted, TypeInv, Record
  <2> QED BY <2>1, <2>2 DEF SameFor
<1>2. Goes(t, << >>) /\ todo[t][1] \in {<<"unlock", c>>, <<"spawned", c>>}
  BY <1>0, PlainlyGoes
<1>3. /\ todo[t][1] # <<"down", d>> /\ Beside(todo[t][1], d)
      /\ todo[t][1] \notin {<<"flush", d>>, <<"send", d>>, <<"lock", d, "send">>}
  BY <1>2 DEF Beside
<1>4. Sight(d)
  BY <1>2, <1>3, GoesLive
<1>5. Flushing(d) => Flushing(d)'
  BY <1>0, <1>2, <1>3, FlushingGoes
<1> QED BY <1>0, <1>1, <1>2, <1>3, <1>4, <1>5, SightBeside

\* A client that has gone is not shown anything any more.
LEMMA GoneSight ==
    ASSUME Sighted, NEW t \in Threads, NEW c \in Clients,
           SendsPart(t, c) \/ SendFindsReset(t, c) \/ SendFails(t, c) \/ Down(t, c),
           NEW d \in Clients, Live(d)'
    PROVE  Sight(d)'
<1>0. TodoInv /\ DataType /\ TypeInv
  BY DEF Sighted
<1>1. \E r : Goes(t, r) /\ todo[t][1][2] = c
  <2>1. CASE SendsPart(t, c)
    <3>1. Goes(t, << >>)
      BY <1>0, <2>1, PlainlyGoes
    <3> QED BY <2>1, <3>1 DEF SendsPart, Sends, IsNext
  <2>2. CASE SendFindsReset(t, c) \/ SendFails(t, c)
    <3>1. \E r : Goes(t, r)
      BY <1>0, <2>2, SendFailsGoes
    <3> QED BY <2>2, <3>1 DEF SendFindsReset, SendFails, Sends, IsNext
  <2>3. CASE Down(t, c)
    <3>1. todo[t][1] = <<"down", c>> /\ \E r : Goes(t, r)
      BY <1>0, <2>3, DownGoes
    <3> QED BY <3>1
  <2> QED BY <2>1, <2>2, <2>3
<1>2. d # c
  <2>1. SUFFICES ~Live(c)'
    OBVIOUS
  <2>2. CASE SendsPart(t, c)
    <3>1. c \in seen'.lost
      BY <1>0, <2>2 DEF SendsPart, Lost, TypeInv, Seen
    <3> QED BY <3>1 DEF Live
  <2>3. CASE SendFindsReset(t, c) \/ SendFails(t, c)
    <3>1. PICK r : Goes(t, r) /\ <<"down", c>> \in Range(r)
      BY <1>0, <2>3, SendFailsGoes
    <3>2. <<"down", c>> \in Ahead'
      BY <1>0, <3>1, AheadGoes
    <3> QED BY <3>2 DEF Live
  <2>4. CASE Down(t, c)
    <3>1. ~client'[c].connected
      BY <1>0, <2>4 DEF Down, TypeInv, Record
    <3> QED BY <3>1 DEF Live
  <2> QED BY <2>2, <2>3, <2>4
<1>3. SameFor(d)
  <2>1. /\ UNCHANGED <<world, inq>>
        /\ game'[d] = game[d] /\ out'[d] = out[d] /\ level'[d] = level[d]
    <3>1. CASE Down(t, c)
      BY <3>1 DEF Down
    <3>2. CASE SendsPart(t, c) \/ SendFindsReset(t, c) \/ SendFails(t, c)
      <4>1. game'[d] = game[d] /\ out'[d] = out[d] /\ level'[d] = level[d]
        BY <1>0, <1>2, <3>2, SendData
      <4> QED BY <3>2, <4>1 DEF SendsPart, SendFindsReset, SendFails
    <3> QED BY <3>1, <3>2
  <2>2. client'[d].mapsend = client[d].mapsend
    BY <1>0, <1>2 DEF SendsPart, SendFindsReset, SendFails, Down, TypeInv
  <2> QED BY <2>1, <2>2 DEF SameFor
<1> QED BY <1>1, <1>2, <1>3, GoesElsewhere

LEMMA TalkShown ==
    ASSUME NEW g \in Game
    PROVE  FoldLeft(Shows, g, <<Talking>>) = g
<1> DEFINE s == <<Talking>>
<1>1. Talking \in Packet /\ Talking[1] = "talk"
  BY PacketFields DEF Talking
<1>2. s \in Seq(Packet) /\ Len(s) = 1 /\ s[1] = Talking
  BY <1>1
<1> HIDE DEF s
<1>3. PICK h \in [0 .. Len(s) -> Game] :
          /\ h[0] = g /\ FoldLeft(Shows, g, s) = h[Len(s)]
          /\ \A k \in 1 .. Len(s) : h[k] = Shows(h[k - 1], s[k])
  BY <1>2, ShowsAll
<1>4. h[1] = Shows(g, Talking)
  <2>1. 1 \in 1 .. Len(s) /\ 1 - 1 = 0
    BY <1>2
  <2> QED BY <1>2, <1>3, <2>1
<1>5. Shows(g, Talking) = g
  BY <1>1, ShowsOne
<1> QED BY <1>2, <1>3, <1>4, <1>5 DEF s

LEMMA SendSight ==
    ASSUME Sighted, NEW t \in Threads, NEW c \in Clients, SendsAll(t, c), NEW d \in Clients, Live(d)'
    PROVE  Sight(d)'
<1>0. TodoInv /\ DataType /\ TypeInv /\ OutType /\ LevelType /\ GameType
  BY DEF Sighted, DataType
<1>1. /\ Goes(t, << >>)
      /\ todo[t][1] \in {<<"send", c>>, <<"sendlevel", c>>, <<"close", c>>}
      /\ IsNext(t, "send", c) <=> todo[t][1] = <<"send", c>>
      /\ IsNext(t, "sendlevel", c) <=> todo[t][1] = <<"sendlevel", c>>
  <2>1. Sends(t, c)
    BY DEF SendsAll
  <2> QED BY <1>0, <2>1, PlainlyGoes, SendsWhat
<1>2. UNCHANGED <<world, inq, client>>
  BY DEF SendsAll
<1>3. CASE d # c
  <2>1. game'[d] = game[d] /\ out'[d] = out[d] /\ level'[d] = level[d]
    BY <1>0, <1>3, SendData
  <2>2. SameFor(d)
    BY <1>2, <2>1 DEF SameFor
  <2>3. todo[t][1][2] # d
    BY <1>1, <1>3
  <2> QED BY <1>1, <2>2, <2>3, GoesElsewhere
<1>4. CASE d = c
  <2>1. todo[t][1] # <<"down", c>> /\ Beside(todo[t][1], c)
    BY <1>1 DEF Beside
  <2>2. Sight(c)
    BY <1>1, <1>4, <2>1, GoesLive
  <2>3. /\ out'[c] = IF IsNext(t, "send", c) THEN << >> ELSE out[c]
        /\ level'[c] = IF IsNext(t, "sendlevel", c) THEN << >> ELSE level[c]
    BY <1>0, RewoundTyped DEF SendsAll
  <2>4. game'[c] = FoldLeft(Shows, game[c], Data(t, c))
    <3>1. Data(t, c) \in Seq(Packet)
      BY <1>0, DataTyped
    <3> QED BY <1>0, <3>1, ShownTyped DEF SendsAll
  <2>5. t # Main => (Flushing(c)' <=> Flushing(c))
    BY <1>0, <1>1, FlushingGoes
  <2> DEFINE w == world
             m == client[c].mapsend
             g == game[c]
             s == out[c]
             F == Flushing(c)
             G == Flushing(c)'
             l == level[c]
             q == inq[c]
             D == Due(c)
             S == Starting(c)
             R == Reading(c)
             U == Unread(c)
  <2>6. /\ w = world' /\ m = client'[c].mapsend /\ q = inq'[c]
        /\ D = Due(c)' /\ S = Starting(c)' /\ R = Reading(c)' /\ U = Unread(c)'
    BY <1>0, <1>1, <1>2, <2>1, BesideGoes, SightIs
  <2>7. Known(w, m, g, s, DOMAIN s, F, l, DOMAIN l, q, D, S, R, U) /\ Asked(m, q)
    BY <2>2, SightIs DEF SightFrom
  <2>8. /\ s \in Seq(Packet) /\ g \in Game /\ m \in States /\ S \in BOOLEAN /\ R \in BOOLEAN
        /\ l \in Seq(Piece) /\ (U # {} => R)
    BY <1>0, DataParts, SightIs
  <2>9. \E h, v, k : /\ h = game'[c] /\ v = out'[c] /\ k = level'[c]
                     /\ Known(w, m, h, v, DOMAIN v, G, k, DOMAIN k, q, D, S, R, U)
    <3>1. CASE todo[t][1] = <<"send", c>>
      <4>1. IsNext(t, "send", c) /\ ~IsNext(t, "sendlevel", c)
        BY <1>1, <3>1
      <4>2. game'[c] = FoldLeft(Shows, g, s) /\ out'[c] = << >> /\ level'[c] = l
        BY <1>0, <2>3, <2>4, <4>1, DataTyped
      <4> HIDE DEF w, m, g, s, F, G, l, q, D, S, R, U
      <4>3. DOMAIN l \subseteq DOMAIN l
        OBVIOUS
      <4>4. Known(w, m, FoldLeft(Shows, g, s), s, {}, F, l, DOMAIN l, q, D, S, R, U)
        BY <2>7, <2>8, <4>3, OutShown
      <4>5. Known(w, m, FoldLeft(Shows, g, s), << >>, DOMAIN << >>, G, l, DOMAIN l, q, D, S, R, U)
        BY <4>4, OutEmpty
      <4> QED BY <4>2, <4>5
    <3>2. CASE todo[t][1] = <<"sendlevel", c>>
      <4>1. IsNext(t, "sendlevel", c) /\ ~IsNext(t, "send", c)
        BY <1>1, <3>2
      <4>2. game'[c] = FoldLeft(Shows, g, l) /\ out'[c] = s /\ level'[c] = << >>
        BY <1>0, <2>3, <2>4, <4>1, DataTyped
      <4>3. F => G
        <5>1. t # Main \/ ~F
          BY <1>0, <1>1, <3>2, FlushingGoes
        <5> QED BY <2>5, <5>1
      <4> HIDE DEF w, m, g, s, F, G, l, q, D, S, R, U
      <4>4. Known(w, m, FoldLeft(Shows, g, l), s, DOMAIN s, F, l, {}, q, D, S, R, U)
        BY <2>7, <2>8, LevelShown
      <4>5. Known(w, m, FoldLeft(Shows, g, l), s, DOMAIN s, F, << >>, DOMAIN << >>, q, D, S, R, U)
        BY <4>4, LevelEmpty
      <4>6. Known(w, m, FoldLeft(Shows, g, l), s, DOMAIN s, G, << >>, DOMAIN << >>, q, D, S, R, U)
        BY <4>3, <4>5, FlushBegins
      <4> QED BY <4>2, <4>6
    <3>3. CASE todo[t][1] = <<"close", c>>
      <4>1. ~IsNext(t, "sendlevel", c) /\ ~IsNext(t, "send", c)
        BY <1>1, <3>3
      <4>2. game'[c] = g /\ out'[c] = s /\ level'[c] = l
        BY <1>0, <2>3, <2>4, <2>8, <4>1, DataTyped, TalkShown
      <4>3. F => G
        <5>1. t # Main \/ ~F
          BY <1>0, <1>1, <3>3, FlushingGoes
        <5> QED BY <2>5, <5>1
      <4> HIDE DEF w, m, g, s, F, G, l, q, D, S, R, U
      <4>4. Known(w, m, g, s, DOMAIN s, G, l, DOMAIN l, q, D, S, R, U)
        BY <2>7, <4>3, FlushBegins
      <4> QED BY <4>2, <4>4
    <3> QED BY <1>1, <3>1, <3>2, <3>3
  <2>10. G = Flushing(c)'
    OBVIOUS
  <2> HIDE DEF w, m, g, s, F, G, l, q, D, S, R, U
  <2>11. SightFrom(c, w, m, game'[c], out'[c], G, level'[c], q, D, S, R, U)
    BY <2>7, <2>9 DEF SightFrom
  <2>12. Sight(c)'
    BY <2>6, <2>10, <2>11, SightIs
  <2> QED BY <1>4, <2>12
<1> QED BY <1>3, <1>4

\* The start of a level is the last step of the main thread's function.
LEMMA StartAlone ==
    ASSUME TodoInv, NEW t \in Threads, NEW c \in Clients, Start(t, c)
    PROVE  /\ t = Main /\ todo[Main] = << <<"start", c>> >>
           /\ \A d \in Clients : Due(d) = {} /\ ~Flushing(d) /\ (Starting(d) => d = c)
           /\ Starting(c)
<1>1. todo[t] # << >> /\ todo[t][1] = <<"start", c>> /\ todo[t] \in Seq(Task) /\ 1 \in DOMAIN todo[t]
  <2>1. IsNext(t, "start", c)
    BY DEF Start
  <2> QED BY <2>1, NextTask
<1>2. t = Main
  <2>1. <<"start", c>>[1] = "start"
    OBVIOUS
  <2>2. t \notin Fast
    BY <1>1, <2>1 DEF TodoInv, FastShape
  <2> QED BY <2>2, MainIsNoClient
<1>3. Len(todo[Main]) = 1
  <2>1. todo[t][1][1] = "start"
    BY <1>1
  <2> QED BY <1>1, <1>2, <2>1 DEF TodoInv, MainShape
<1>4. todo[Main] = << <<"start", c>> >>
  <2>1. \A s \in Seq(Task) : Len(s) = 1 => s = <<s[1]>>
    OBVIOUS
  <2> QED BY <1>1, <1>2, <1>3, <2>1
<1>5. Range(todo[Main]) = {<<"start", c>>}
  BY <1>4, RangeFacts
<1>6. \A d \in Clients : Due(d) = {}
  <2>1. \A d, x : <<"write", d, x>> # <<"start", c>>
    OBVIOUS
  <2>2. \A d \in Clients : DueOf(d, {<<"start", c>>}) = {}
    BY <2>1 DEF DueOf
  <2> QED BY <1>5, <2>2, AheadOf
<1>7. \A d \in Clients : ~Flushing(d)
  BY <1>1, <1>2 DEF Flushing
<1>8. \A d \in Clients : Starting(d) => d = c
  BY <1>5, AheadOf
<1>9. Starting(c)
  BY <1>2, <1>5 DEF Starting, Ahead
<1> QED BY <1>2, <1>4, <1>6, <1>7, <1>8, <1>9

LEMMA StartSight ==
    ASSUME Sighted, NEW t \in Threads, NEW c \in Clients, Start(t, c), c \notin Fast,
           NEW d \in Clients, Live(d)'
    PROVE  Sight(d)'
<1>0. TodoInv /\ DataType /\ TypeInv /\ WorldType /\ LevelType
  BY DEF Sighted, DataType
<1>1. Goes(t, << >>) /\ todo[t][1] = <<"start", c>>
  BY <1>0, PlainlyGoes
<1>2. UNCHANGED <<world, game, inq, client, out>>
  BY DEF Start
<1>3. level' = [level EXCEPT ![c] = LevelOf(world)]
  BY DEF Start, LevelOf
<1>4. CASE d # c
  <2>1. SameFor(d)
    BY <1>0, <1>2, <1>3, <1>4 DEF SameFor, LevelType
  <2>2. todo[t][1][2] # d
    BY <1>1, <1>4
  <2> QED BY <1>1, <2>1, <2>2, GoesElsewhere
<1>5. CASE d = c
  <2>1. todo[t][1] # <<"down", c>>
    BY <1>1
  <2>2. Sight(c)
    BY <1>1, <1>5, <2>1, GoesLive
  <2>3. t = Main /\ Due(c) = {} /\ Flushing(c) = FALSE /\ Starting(c) = TRUE
    BY <1>0, StartAlone, SightIs
  <2>4. Due(c)' = {} /\ Starting(c)' = FALSE /\ Unread(c)' = Unread(c) /\ Reading(c)' = Reading(c)
    <3>1. TodoInv' /\ Ahead' \subseteq Ahead
      <4>1. Range(<< >>) = {}
        BY RangeFacts
      <4> QED BY <1>0, <1>1, <4>1, AheadGoes
    <3>2. /\ todo[Main] = << <<"start", c>> >> /\ todo'[Main] = << >> \o Tail(todo[Main])
          /\ \A u \in Threads : u # Main => todo'[u] = todo[u]
      BY <1>0, <1>1, <2>3, StartAlone, GoesShape
    <3>3. todo'[Main] = << >>
      <4>1. \A x : << >> \o Tail(<<x>>) = << >>
        OBVIOUS
      <4> QED BY <3>2, <4>1
    <3>4. \A y : y \in Ahead' => \E u \in Fast : y \in Range(todo[u])
      <4>1. Range(<< >>) = {} /\ \A u \in Threads : u = Main \/ u \in Fast
        BY RangeFacts, MainIsNoClient
      <4> QED BY <3>2, <3>3, <4>1 DEF Ahead
    <3>5. <<"start", c>> \notin Ahead'
      <4>1. \A u \in Fast : \A x \in Range(todo[u]) : x[1] # "start"
        BY <1>0 DEF TodoInv, FastShape, Range
      <4> QED BY <3>4, <4>1
    <3>6. Due(c)' = {}
      BY <2>3, <3>1 DEF Due
    <3>7. \A y : y # <<"start", c>> => (y \in Ahead' <=> y \in Ahead)
      <4>1. Ahead \subseteq Ahead' \cup {<<"start", c>>}
        BY <1>0, <1>1, AheadGoes
      <4> QED BY <3>1, <4>1
    <3>8. Unread(c)' = Unread(c) /\ (<<"done", c>> \in Ahead' <=> <<"done", c>> \in Ahead)
      <4>1. \A p : <<"read", c, p>> # <<"start", c>> /\ <<"done", c>> # <<"start", c>>
        OBVIOUS
      <4> QED BY <3>7, <4>1 DEF Unread
    <3>9. Reading(c)' = Reading(c)
      BY <3>8, SightIs DEF Reading
    <3> QED BY <3>5, <3>6, <3>8, <3>9 DEF Starting
  <2> DEFINE w == world
             m == client[c].mapsend
             g == game[c]
             s == out[c]
             G == Flushing(c)'
             l == level[c]
             q == inq[c]
             R == Reading(c)
             U == Unread(c)
             k == level'[c]
  <2>5. Known(w, m, g, s, DOMAIN s, FALSE, l, DOMAIN l, q, {}, TRUE, R, U) /\ Asked(m, q)
    BY <2>2, <2>3, SightIs DEF SightFrom
  <2>6. m \in States /\ R \in BOOLEAN /\ (U # {} => R)
    BY <1>0, DataParts, SightIs
  <2>7. /\ k \in Seq(Piece) /\ (\A j \in DOMAIN k : k[j][3] = w[k[j][2]])
        /\ \A p \in Pos : \E j \in DOMAIN k : k[j][2] = p
    <3>1. k = LevelOf(world)
      BY <1>0, <1>3 DEF LevelType
    <3> QED BY <1>0, <3>1, LevelOfWorld
  <2>8. /\ w = world' /\ m = client'[c].mapsend /\ g = game'[c] /\ s = out'[c] /\ k = level'[c]
        /\ q = inq'[c] /\ R = Reading(c)' /\ U = Unread(c)' /\ G = Flushing(c)'
    BY <1>2, <2>4
  <2> HIDE DEF w, m, g, s, G, l, q, R, U, k
  <2>9. Known(w, m, g, s, DOMAIN s, FALSE, k, DOMAIN k, q, {}, FALSE, R, U)
    BY <2>5, <2>6, <2>7, LevelCopied
  <2>10. Known(w, m, g, s, DOMAIN s, G, k, DOMAIN k, q, {}, FALSE, R, U)
    BY <2>9, FlushBegins
  <2>11. SightFrom(c, w, m, g, s, G, k, q, {}, FALSE, R, U)
    BY <2>5, <2>10 DEF SightFrom
  <2>12. Sight(c)'
    BY <2>4, <2>8, <2>11, SightIs
  <2> QED BY <1>5, <2>12
<1> QED BY <1>4, <1>5

LEMMA FastThreadEnds ==
    ASSUME NEW c \in Clients
    PROVE  <<"done", c>> \in Range(FastThread(c))
<1> DEFINE n    == 2 * Cardinality(Pos) + 1
           e(k) == IF k = n THEN <<"done", c>>
                   ELSE IF k % 2 = 1 THEN <<"read", c, SetToSeq(Pos)[(k + 1) \div 2]>>
                   ELSE <<"post", c>>
<1>1. FastThread(c) = [k \in 1 .. n |-> e(k)]
  BY DEF FastThread
<1>2. n \in 1 .. n
  BY Positions
<1>3. e(n) = <<"done", c>>
  OBVIOUS
<1> HIDE DEF e, n
<1>4. n \in DOMAIN FastThread(c) /\ FastThread(c)[n] = <<"done", c>>
  BY <1>1, <1>2, <1>3
<1> QED BY <1>4 DEF Range

LEMMA ForkSight ==
    ASSUME Sighted, NEW t \in Threads, NEW c \in Fast, Start(t, c), NEW d \in Clients, Live(d)'
    PROVE  Sight(d)'
<1>0. TodoInv /\ DataType /\ TypeInv /\ c \in Clients
  BY MainIsNoClient DEF Sighted
<1>1. /\ TodoInv' /\ t = Main /\ todo[c] = << >>
      /\ todo[Main] = << <<"start", c>> >> /\ todo'[Main] = << >> /\ todo'[c] = FastThread(c)
      /\ \A u \in Fast \ {c} : todo'[u] = todo[u]
  BY <1>0, StartShape, StartAlone
<1>2. /\ \A e \in Clients : Due(e) = {} /\ ~Flushing(e) /\ (Starting(e) => e = c)
      /\ Starting(c)
  BY <1>0, StartAlone
<1>3. UNCHANGED <<world, game, inq, client, out, level>>
  BY DEF Start
<1>4. SameFor(d)
  BY <1>3 DEF SameFor
<1>5. ReadsOf(c, FastThread(c))
  BY <1>0, FastThreadTyped
<1> DEFINE X == Range(FastThread(c))
<1>6. \A y : y \in Ahead' <=> (y \in Ahead /\ y # <<"start", c>>) \/ y \in X
  <2>1. Range(<< >>) = {} /\ Range(<< <<"start", c>> >>) = {<<"start", c>>}
    BY RangeFacts
  <2>2. \A u \in Threads : u = Main \/ u = c \/ u \in Fast \ {c}
    BY MainIsNoClient
  <2>3. Main \in Threads /\ c \in Threads /\ Main # c /\ Fast \subseteq Threads
    BY <1>0, MainIsNoClient DEF Threads
  <2>4. \A y : y \in Ahead' <=> y \in X \/ \E u \in Fast \ {c} : y \in Range(todo[u])
    BY <1>1, <2>1, <2>2, <2>3 DEF Ahead
  <2>5. \A y : y \in Ahead <=> y = <<"start", c>> \/ \E u \in Fast \ {c} : y \in Range(todo[u])
    BY <1>1, <2>1, <2>2, <2>3 DEF Ahead
  <2>6. \A u \in Fast : <<"start", c>> \notin Range(todo[u])
    <3>1. \A u \in Fast : \A x \in Range(todo[u]) : x[1] # "start"
      BY <1>0 DEF TodoInv, FastShape, Range
    <3> QED BY <3>1
  <2> HIDE DEF X
  <2> QED BY <2>4, <2>5, <2>6
<1>7. \A y \in X : y[1] \in {"read", "post", "done"} /\ y[2] = c
  BY <1>5 DEF ReadsOf, Range
<1>8. (\A p \in Pos : <<"read", c, p>> \in X) /\ <<"done", c>> \in X
  BY <1>0, <1>5, FastThreadEnds DEF ReadsOf
<1> HIDE DEF X
<1>9. Sight(d)
  <2>1. Ahead \subseteq Ahead' \cup {<<"start", c>>}
    BY <1>6
  <2>2. <<"start", c>> # <<"down", d>>
    OBVIOUS
  <2>3. Live(d)
    BY <2>1, <2>2, LiveBefore DEF Sighted
  <2> QED BY <2>3 DEF Sighted, SightInv
<1>10. Due(d)' = {} /\ Starting(d)' = FALSE
  <2>1. \A z : <<"write", d, z>> \notin X /\ <<"write", d, z>> # <<"start", c>>
               /\ <<"start", d>> \notin X
    <3>1. \A z : <<"write", d, z>>[1] = "write" /\ <<"start", d>>[1] = "start"
      OBVIOUS
    <3>2. \A z : <<"write", d, z>> \notin X /\ <<"start", d>> \notin X
      BY <1>7, <3>1
    <3>3. \A z : <<"write", d, z>> # <<"start", c>>
      OBVIOUS
    <3> QED BY <3>2, <3>3
  <2>2. Due(d)' = Due(d)
    BY <1>6, <2>1 DEF Due
  <2>3. <<"start", d>> \notin Ahead'
    BY <1>2, <1>6, <2>1 DEF Starting
  <2> QED BY <1>2, <2>2, <2>3 DEF Starting
<1>11. CASE d # c
  <2>1. \A p : <<"read", d, p>> \notin X /\ <<"done", d>> \notin X
               /\ <<"read", d, p>> # <<"start", c>> /\ <<"done", d>> # <<"start", c>>
    <3>1. \A p : <<"read", d, p>>[2] = d /\ <<"done", d>>[2] = d
      OBVIOUS
    <3>2. \A p : <<"read", d, p>> \notin X /\ <<"done", d>> \notin X
      BY <1>7, <1>11, <3>1
    <3>3. \A p : <<"read", d, p>> # <<"start", c>> /\ <<"done", d>> # <<"start", c>>
      OBVIOUS
    <3> QED BY <3>2, <3>3
  <2>2. Unread(d)' = Unread(d) /\ (<<"done", d>> \in Ahead' <=> <<"done", d>> \in Ahead)
    BY <1>6, <2>1 DEF Unread
  <2>3. Reading(d)' <=> Reading(d)
    BY <2>2 DEF Reading
  <2>4. Due(d)' = Due(d) /\ (Starting(d)' <=> Starting(d)) /\ (Flushing(d) => Flushing(d)')
    BY <1>2, <1>10, <1>11
  <2> QED BY <1>4, <1>9, <2>2, <2>3, <2>4, SightStays
<1>12. CASE d = c
  <2> DEFINE w == world
             m == client[c].mapsend
             g == game[c]
             s == out[c]
             G == Flushing(c)'
             l == level[c]
             q == inq[c]
             R == Reading(c)
             U == Unread(c)
  <2>1. Known(w, m, g, s, DOMAIN s, FALSE, l, DOMAIN l, q, {}, TRUE, R, U) /\ Asked(m, q)
    <3>1. Due(c) = {} /\ Flushing(c) = FALSE /\ Starting(c) = TRUE
      BY <1>0, <1>2, SightIs
    <3> QED BY <1>0, <1>9, <1>12, <3>1, SightIs DEF SightFrom
  <2>2. m \in States
    BY <1>0, DataParts
  <2>3. Unread(c)' = Pos /\ Reading(c)' = TRUE
    <3>1. \A p \in Pos : <<"read", c, p>> \in Ahead'
      BY <1>6, <1>8
    <3>2. <<"done", c>> \in Ahead'
      BY <1>6, <1>8
    <3>3. Reading(c)'
      BY <3>2 DEF Reading
    <3>4. Unread(c)' = Pos
      BY <3>1 DEF Unread
    <3> QED BY <1>0, <3>3, <3>4, SightIs
  <2>4. /\ w = world' /\ m = client'[c].mapsend /\ g = game'[c] /\ s = out'[c] /\ l = level'[c]
        /\ q = inq'[c] /\ G = Flushing(c)'
    BY <1>3
  <2> HIDE DEF w, m, g, s, G, l, q, R, U
  <2>5. Known(w, m, g, s, DOMAIN s, FALSE, l, DOMAIN l, q, {}, FALSE, TRUE, Pos)
    BY <2>1, <2>2, ReadingBegins
  <2>6. Known(w, m, g, s, DOMAIN s, G, l, DOMAIN l, q, {}, FALSE, TRUE, Pos)
    BY <2>5, FlushBegins
  <2>7. SightFrom(c, w, m, g, s, G, l, q, {}, FALSE, TRUE, Pos)
    BY <2>1, <2>6 DEF SightFrom
  <2>8. Due(c)' = {} /\ Starting(c)' = FALSE
    BY <1>10, <1>12
  <2>9. Sight(c)'
    BY <1>0, <2>3, <2>4, <2>7, <2>8, SightIs
  <2> QED BY <1>12, <2>9
<1> QED BY <1>11, <1>12

LEMMA ReadSight ==
    ASSUME Sighted, NEW t \in Threads, NEW c \in Clients, Read(t, c), NEW d \in Clients, Live(d)'
    PROVE  Sight(d)'
<1>0. TodoInv /\ DataType /\ TypeInv /\ LevelType
  BY DEF Sighted, DataType
<1>1. UNCHANGED <<world, game, inq, client, out>>
  BY DEF Read
<1>2. d # c => SameFor(d)
  <2>1. d # c => level'[d] = level[d]
    BY <1>0, StartData
  <2> QED BY <1>1, <2>1 DEF SameFor
<1>3. CASE ~client[c].connected
  <2>1. todo[t] # << >> /\ todo[t][1][1] = "read" /\ todo' = [todo EXCEPT ![t] = << >>]
    BY <1>3 DEF Read, IsNext
  <2>2. t = c /\ t \in Fast
    BY <1>0, NextTask DEF Read
  <2>3. /\ TodoInv' /\ todo'[t] = << >> /\ \A u \in Threads : u # t => todo'[u] = todo[u]
        /\ \A k \in DOMAIN todo[t] : todo[t][k][1] \in {"read", "post", "done"}
    BY <1>0, <2>1, StopShape
  <2>4. \A y \in Range(todo[t]) : y[1] \in {"read", "post", "done"} /\ y[2] = c
    BY <1>0, <2>2, <2>3 DEF TodoInv, FastShape, Range
  <2>5. \A y : y \in Ahead <=> y \in Ahead' \/ y \in Range(todo[t])
    <3>1. \A y : y \notin Range(<< >>)
      BY RangeFacts
    <3> QED BY <2>3, <3>1 DEF Ahead
  <2>6. d # c
    BY <1>1, <1>3 DEF Live
  <2>7. \A y : y[1] \notin {"read", "post", "done"} \/ y[2] = d => (y \in Ahead' <=> y \in Ahead)
    BY <2>4, <2>5, <2>6
  <2>8. Sight(d)
    <3>1. <<"down", d>>[1] = "down"
      OBVIOUS
    <3>2. <<"down", d>> \in Ahead => <<"down", d>> \in Ahead'
      BY <2>7, <3>1
    <3>3. Live(d)
      BY <1>1, <3>2 DEF Live, Sighted
    <3> QED BY <3>3 DEF Sighted, SightInv
  <2>9. Due(d)' = Due(d) /\ (Starting(d)' <=> Starting(d))
    <3>1. \A z : <<"write", d, z>>[2] = d /\ <<"start", d>>[2] = d
      OBVIOUS
    <3>2. \A z : (<<"write", d, z>> \in Ahead' <=> <<"write", d, z>> \in Ahead)
      BY <2>7, <3>1
    <3>3. <<"start", d>> \in Ahead' <=> <<"start", d>> \in Ahead
      BY <2>7, <3>1
    <3> QED BY <3>2, <3>3 DEF Due, Starting
  <2>10. Unread(d)' = Unread(d) /\ (Reading(d)' <=> Reading(d))
    <3>1. \A p : <<"read", d, p>>[2] = d /\ <<"done", d>>[2] = d
      OBVIOUS
    <3>2. \A p : (<<"read", d, p>> \in Ahead' <=> <<"read", d, p>> \in Ahead)
      BY <2>7, <3>1
    <3>3. <<"done", d>> \in Ahead' <=> <<"done", d>> \in Ahead
      BY <2>7, <3>1
    <3>4. Unread(d)' = Unread(d)
      BY <3>2 DEF Unread
    <3> QED BY <3>3, <3>4 DEF Reading
  <2>11. Flushing(d) => Flushing(d)'
    <3>1. todo'[Main] = todo[Main]
      BY <2>2, <2>3, MainIsNoClient
    <3> QED BY <3>1 DEF Flushing
  <2> QED BY <1>2, <2>6, <2>8, <2>9, <2>10, <2>11, SightStays
<1>4. CASE client[c].connected
  <2> DEFINE p == todo[t][1][3]
  <2>1. Goes(t, << >>) /\ t = c /\ p \in Pos /\ todo[t][1] = <<"read", c, p>>
    BY <1>0, <1>4, PlainlyGoes
  <2>2. level' = [level EXCEPT ![c] = Append(@, <<"piece", p, world[p]>>)]
    BY <1>4 DEF Read
  <2> HIDE DEF p
  <2>3. todo[t][1] # <<"down", d>> /\ todo[t][1][2] = c
    BY <2>1
  <2>4. Sight(d)
    BY <2>1, <2>3, GoesLive
  <2>5. CASE d # c
    BY <1>2, <2>1, <2>3, <2>5, GoesElsewhere
  <2>6. CASE d = c
    <3> DEFINE w == world
               m == client[c].mapsend
               g == game[c]
               s == out[c]
               F == Flushing(c)
               G == Flushing(c)'
               l == level[c]
               k == level'[c]
               q == inq[c]
               D == Due(c)
               S == Starting(c)
               R == Reading(c)
               Q == Reading(c)'
               U == Unread(c)
               V == Unread(c)'
    <3>1. Known(w, m, g, s, DOMAIN s, F, l, DOMAIN l, q, D, S, R, U) /\ Asked(m, q)
      BY <2>4, <2>6, SightIs DEF SightFrom
    <3>2. m \in States /\ w \in [Pos -> Block] /\ l \in Seq(Piece)
      BY <1>0, DataParts
    <3>3. Longer(k, l, <<"piece", p, w[p]>>)
      <4> DEFINE x == <<"piece", p, w[p]>>
      <4>1. x \in Piece
        BY <2>1, <3>2 DEF Piece
      <4>2. k = Append(l, x)
        BY <1>0, <2>2 DEF LevelType
      <4> HIDE DEF x, k, l
      <4>3. Longer(k, l, x)
        BY <3>2, <4>1, <4>2, AppendLonger
      <4> QED BY <4>3 DEF x
    <3>4. /\ Ahead' \subseteq Ahead /\ Ahead \subseteq Ahead' \cup {<<"read", c, p>>}
          /\ <<"read", c, p>> \in Ahead
      <4>1. Range(<< >>) = {}
        BY RangeFacts
      <4> QED BY <1>0, <2>1, <4>1, AheadGoes
    <3>5. R /\ U \ {p} \subseteq V /\ V \subseteq U
      <4>1. p \in U
        BY <2>1, <3>4 DEF Unread
      <4>2. \A o : o # p => <<"read", c, o>> # <<"read", c, p>>
        OBVIOUS
      <4>3. U \ {p} \subseteq V /\ V \subseteq U
        BY <3>4, <4>2 DEF Unread
      <4> QED BY <4>1, <4>3, SightIs
    <3>6. D = Due(c)' /\ S = Starting(c)'
      <4>1. \A z : <<"write", c, z>> # <<"read", c, p>> /\ <<"start", c>> # <<"read", c, p>>
        OBVIOUS
      <4>2. \A z : <<"write", c, z>> \in Ahead' <=> <<"write", c, z>> \in Ahead
        BY <3>4, <4>1
      <4>3. <<"start", c>> \in Ahead' <=> <<"start", c>> \in Ahead
        BY <3>4, <4>1
      <4>4. Due(c)' = Due(c) /\ (Starting(c)' <=> Starting(c))
        BY <4>2, <4>3 DEF Due, Starting
      <4> QED BY <4>4, SightIs
    <3>7. F => G
      <4>1. t # Main
        BY <2>1, MainIsNoClient
      <4> QED BY <1>0, <2>1, <4>1, FlushingGoes
    <3>8. /\ w = world' /\ m = client'[c].mapsend /\ g = game'[c] /\ s = out'[c] /\ k = level'[c]
          /\ q = inq'[c] /\ G = Flushing(c)' /\ Q = Reading(c)' /\ V = Unread(c)'
      BY <1>1
    <3> HIDE DEF w, m, g, s, F, G, l, k, q, D, S, R, Q, U, V
    <3>9. Known(w, m, g, s, DOMAIN s, F, k, DOMAIN k, q, D, S, Q, V)
      BY <2>1, <3>1, <3>2, <3>3, <3>5, PieceIsRead
    <3>10. Known(w, m, g, s, DOMAIN s, G, k, DOMAIN k, q, D, S, Q, V)
      BY <3>7, <3>9, FlushBegins
    <3>11. SightFrom(c, w, m, g, s, G, k, q, D, S, Q, V)
      BY <3>1, <3>10 DEF SightFrom
    <3>12. Sight(c)'
      BY <3>6, <3>8, <3>11, SightIs
    <3> QED BY <2>6, <3>12
  <2> QED BY <2>5, <2>6
<1> QED BY <1>3, <1>4

\* What is known when a level is ready.
LEMMA ReadyAsked ==
    ASSUME NEW q, Asked("busy", q)
    PROVE  Asked("success", q)
BY DEF Asked

LEMMA ReadySight ==
    ASSUME DataType, TypeInv, NEW c \in Clients, Sight(c), client[c].mapsend = "busy",
           Unread(c) = {}, ~Starting(c),
           client' = [client EXCEPT ![c].mapsend = "success"],
           UNCHANGED <<world, game, inq, out, level>>,
           Due(c)' = Due(c), Starting(c)' <=> Starting(c), Unread(c)' = {}, ~Reading(c)',
           Flushing(c) => Flushing(c)'
    PROVE  Sight(c)'
<1> DEFINE w == world
           g == game[c]
           s == out[c]
           F == Flushing(c)
           G == Flushing(c)'
           l == level[c]
           q == inq[c]
           D == Due(c)
           S == Starting(c)
           R == Reading(c)
<1>1. Known(w, "busy", g, s, DOMAIN s, F, l, DOMAIN l, q, D, S, R, {}) /\ Asked("busy", q)
  BY SightIs DEF SightFrom
<1>2. client'[c].mapsend = "success"
  BY DEF TypeInv, Record
<1>3. /\ w = world' /\ g = game'[c] /\ s = out'[c] /\ l = level'[c] /\ q = inq'[c]
      /\ G = Flushing(c)' /\ D = Due(c)' /\ S = Starting(c)' /\ Reading(c)' = FALSE /\ (F => G)
  BY SightIs
<1>4. ~S
  OBVIOUS
<1> HIDE DEF w, g, s, F, G, l, q, D, S, R
<1>5. Known(w, "success", g, s, DOMAIN s, F, l, DOMAIN l, q, D, S, FALSE, {})
  <2>1. "busy" \in States
    BY DEF States
  <2> QED BY <1>1, <1>4, <2>1, LevelIsReady
<1>6. Known(w, "success", g, s, DOMAIN s, G, l, DOMAIN l, q, D, S, FALSE, {})
  <2> DEFINE M == "success"
             O == FALSE
             V == {}
  <2>1. Known(w, M, g, s, DOMAIN s, F, l, DOMAIN l, q, D, S, O, V)
    BY <1>5
  <2>2. F => G
    BY <1>3
  <2> HIDE DEF M, O, V
  <2>3. Known(w, M, g, s, DOMAIN s, G, l, DOMAIN l, q, D, S, O, V)
    BY <2>1, <2>2, FlushBegins
  <2> QED BY <2>3 DEF M, O, V
<1>7. SightFrom(c, w, "success", g, s, G, l, q, D, S, FALSE, {})
  BY <1>1, <1>6, ReadyAsked DEF SightFrom
<1> QED BY <1>2, <1>3, <1>7, SightIs

\* While a thread reads, the level is not ready, and none is to be started.
LEMMA ReadingBusy ==
    ASSUME DataType, TypeInv, NEW c \in Clients, Sight(c), Reading(c)
    PROVE  client[c].mapsend = "busy" /\ ~Starting(c)
<1>1. Phase(client[c].mapsend, game[c].loaded, out[c], DOMAIN out[c], DOMAIN level[c], Due(c),
            Starting(c), Reading(c))
  BY DEF Sight
<1>2. client[c].mapsend \in States
  BY DataParts
<1> QED BY <1>1, <1>2 DEF Phase, States

LEMMA DoneSight ==
    ASSUME Sighted, NEW t \in Threads, NEW c \in Clients, Done(t, c), NEW d \in Clients, Live(d)'
    PROVE  Sight(d)'
<1>0. TodoInv /\ DataType /\ TypeInv
  BY DEF Sighted
<1>1. Goes(t, << >>) /\ todo[t][1] = <<"done", c>> /\ t = c
  BY <1>0, PlainlyGoes
<1>2. UNCHANGED <<world, game, inq, out, level>> /\ client' = [client EXCEPT ![c].mapsend = "success"]
  BY DEF Done
<1>3. todo[t][1] # <<"down", d>> /\ todo[t][1][2] = c
  BY <1>1
<1>4. Sight(d)
  BY <1>1, <1>3, GoesLive
<1>5. CASE d # c
  <2>1. SameFor(d)
    BY <1>0, <1>2, <1>5 DEF SameFor, TypeInv
  <2> QED BY <1>1, <1>3, <1>5, <2>1, GoesElsewhere
<1>6. CASE d = c
  <2>1. /\ todo[c] \in Seq(Task) /\ todo[c] # << >> /\ 1 \in DOMAIN todo[c] /\ c \in Fast
        /\ c \in Threads /\ c # Main
    <3>1. c \in Threads /\ c # Main /\ c \in Fast
      BY <1>1, MainIsNoClient
    <3>2. todo[c] \in Seq(Task) /\ todo[c] # << >>
      BY <1>0, <1>1, <3>1 DEF Goes, TodoInv
    <3> QED BY <3>1, <3>2
  <2>2. todo[c] = << <<"done", c>> >>
    <3>1. todo[c][1][1] = "done"
      BY <1>1
    <3>2. Len(todo[c]) = 1
      BY <1>0, <2>1, <3>1 DEF TodoInv, FastShape
    <3>3. \A s \in Seq(Task) : Len(s) = 1 => s = <<s[1]>>
      OBVIOUS
    <3> QED BY <1>1, <2>1, <3>2, <3>3
  <2>3. todo'[c] = << >> /\ \A u \in Threads : u # c => todo'[u] = todo[u]
    <3>1. /\ todo'[c] = << >> \o Tail(todo[c])
          /\ \A u \in Threads : u # c => todo'[u] = todo[u]
      BY <1>0, <1>1, GoesShape
    <3>2. \A x : << >> \o Tail(<<x>>) = << >>
      OBVIOUS
    <3> QED BY <2>2, <3>1, <3>2
  <2>4. \A y : y \in Ahead <=> y \in Ahead' \/ y = <<"done", c>>
    <3>1. Range(<< <<"done", c>> >>) = {<<"done", c>>} /\ \A y : y \notin Range(<< >>)
      BY RangeFacts
    <3> QED BY <2>1, <2>2, <2>3, <3>1 DEF Ahead
  <2>5. Unread(c) = {} /\ Unread(c)' = {} /\ <<"done", c>> \notin Ahead'
    <3>1. \A u \in Threads : \A p \in Pos : <<"read", c, p>> \in Range(todo[u]) => u = c
      BY <1>0, AheadOf
    <3>2. \A u \in Threads : <<"done", c>> \in Range(todo[u]) => u = c
      BY <1>0, AheadOf
    <3>3. Range(todo[c]) = {<<"done", c>>} /\ \A y : y \notin Range(todo'[c])
      BY <2>2, <2>3, RangeFacts
    <3>4. \A p : <<"read", c, p>> # <<"done", c>>
      OBVIOUS
    <3>5. Unread(c) = {}
      BY <3>1, <3>3, <3>4 DEF Unread, Ahead
    <3>6. Unread(c)' = {}
      BY <2>4, <3>5 DEF Unread
    <3>7. <<"done", c>> \notin Ahead'
      BY <2>3, <3>2, <3>3 DEF Ahead
    <3> QED BY <3>5, <3>6, <3>7
  <2>6. Reading(c) /\ ~Reading(c)'
    BY <2>4, <2>5 DEF Reading
  <2>7. client[c].mapsend = "busy" /\ ~Starting(c)
    BY <1>0, <1>4, <1>6, <2>6, ReadingBusy
  <2>8. Due(c)' = Due(c) /\ (Starting(c)' <=> Starting(c))
    <3>1. \A z : <<"write", c, z>> # <<"done", c>> /\ <<"start", c>> # <<"done", c>>
      OBVIOUS
    <3>2. \A z : <<"write", c, z>> \in Ahead' <=> <<"write", c, z>> \in Ahead
      BY <2>4, <3>1
    <3>3. <<"start", c>> \in Ahead' <=> <<"start", c>> \in Ahead
      BY <2>4, <3>1
    <3> QED BY <3>2, <3>3 DEF Due, Starting
  <2>9. Flushing(c) => Flushing(c)'
    BY <1>0, <1>1, <2>1, FlushingGoes
  <2> QED BY <1>0, <1>2, <1>4, <1>6, <2>5, <2>6, <2>7, <2>8, <2>9, ReadySight
<1> QED BY <1>5, <1>6

LEMMA ThreadSight ==
    ASSUME Sighted, NEW t \in Threads, ThreadStep(t), NEW d \in Clients, Live(d)'
    PROVE  Sight(d)'
<1>1. PICK c \in Clients :
          \/ Write(t, c) \/ Flush(t, c) \/ Lock(t, c) \/ Unlock(t, c)
          \/ SendsAll(t, c) \/ SendsPart(t, c) \/ SendFindsReset(t, c) \/ SendFails(t, c)
          \/ Down(t, c) \/ Spawned(t, c) \/ Start(t, c) \/ Read(t, c) \/ Done(t, c)
  BY DEF ThreadStep
<1>2. CASE Start(t, c)
  BY <1>2, StartSight, ForkSight
<1> QED BY <1>1, <1>2, WriteSight, FlushSight, AsideSight, SendSight, GoneSight, ReadSight, DoneSight

-----------------------------------------------------------------------------
(* The steps in which no thread goes on.                                   *)

LEMMA AheadStays ==
    ASSUME UNCHANGED todo, NEW c \in Clients
    PROVE  /\ Due(c)' = Due(c) /\ (Starting(c)' <=> Starting(c)) /\ Unread(c)' = Unread(c)
           /\ (Reading(c)' <=> Reading(c)) /\ (Flushing(c)' <=> Flushing(c))
           /\ Ahead' = Ahead
<1>1. Ahead' = Ahead
  BY DEF Ahead
<1> QED BY <1>1 DEF Due, Starting, Unread, Reading, Flushing

LEMMA LiveStays ==
    ASSUME Sighted, UNCHANGED todo, NEW c \in Clients, Live(c)'
    PROVE  Live(c) /\ Sight(c)
<1>1. Ahead' = Ahead
  BY AheadStays
<1>2. Live(c)
  BY <1>1 DEF Live, Sighted, Later
<1> QED BY <1>2 DEF Sighted, SightInv

LEMMA IdleSight ==
    ASSUME Sighted, NEW d \in Clients, Live(d)', UNCHANGED todo, SameFor(d)
    PROVE  Sight(d)'
<1>1. Sight(d)
  BY LiveStays
<1> QED BY <1>1, AheadStays, SightStays

LEMMA CompressedSight ==
    ASSUME Sighted, NEW c \in Clients, Compressed(c), NEW d \in Clients, Live(d)'
    PROVE  Sight(d)'
<1>0. TodoInv /\ DataType /\ TypeInv
  BY DEF Sighted
<1>1. /\ c \notin Fast /\ client[c].mapsend = "busy" /\ level[c] # << >>
      /\ client' = [client EXCEPT ![c].mapsend = "success"]
      /\ UNCHANGED <<world, game, inq, out, level>> /\ UNCHANGED todo
  BY DEF Compressed
<1>2. CASE d # c
  <2>1. SameFor(d)
    BY <1>0, <1>1, <1>2 DEF SameFor, TypeInv
  <2> QED BY <1>1, <2>1, IdleSight
<1>3. CASE d = c
  <2>1. Sight(c)
    BY <1>1, <1>3, LiveStays
  <2>2. Unread(c) = {} /\ ~Reading(c)
    <3>1. \A u \in Threads : (\A p \in Pos : <<"read", c, p>> \notin Range(todo[u]))
                             /\ <<"done", c>> \notin Range(todo[u])
      BY <1>0, <1>1, AheadOf
    <3>2. Unread(c) = {}
      BY <3>1 DEF Unread, Ahead
    <3> QED BY <3>1, <3>2 DEF Reading, Ahead
  <2>3. ~Starting(c)
    <3>1. Starting(c) => DOMAIN level[c] = {}
      BY <2>1 DEF Sight, Phase
    <3>2. \A s \in Seq(Piece) : DOMAIN s = {} => s = << >>
      OBVIOUS
    <3>3. level[c] \in Seq(Piece)
      BY <1>0, DataParts
    <3> QED BY <1>1, <3>1, <3>2, <3>3
  <2>4. /\ Due(c)' = Due(c) /\ (Starting(c)' <=> Starting(c)) /\ Unread(c)' = {} /\ ~Reading(c)'
        /\ (Flushing(c) => Flushing(c)')
    BY <1>1, <2>2, AheadStays
  <2> QED BY <1>0, <1>1, <1>3, <2>1, <2>2, <2>3, <2>4, ReadySight
<1> QED BY <1>2, <1>3

LEMMA TurnSight ==
    ASSUME Sighted, StartTick \/ Enter \/ EndReceive, NEW d \in Clients, Live(d)'
    PROVE  Sight(d)'
<1>1. UNCHANGED todo /\ SameFor(d)
  BY DEF StartTick, Enter, EndReceive, SameFor
<1> QED BY <1>1, IdleSight

\* The requests of a client are all that changes for it.
LEMMA SightHears ==
    ASSUME Sighted, NEW c \in Clients, Live(c)', UNCHANGED todo,
           UNCHANGED <<world, client, out, level>>,
           Known(world, client[c].mapsend, game'[c], out[c], DOMAIN out[c], Flushing(c), level[c],
                 DOMAIN level[c], inq'[c], Due(c), Starting(c), Reading(c), Unread(c)),
           Asked(client[c].mapsend, inq'[c])
    PROVE  Sight(c)'
<1> DEFINE w == world
           m == client[c].mapsend
           g == game'[c]
           s == out[c]
           l == level[c]
           q == inq'[c]
<1>1. /\ w = world' /\ m = client'[c].mapsend /\ s = out'[c] /\ l = level'[c]
      /\ g = game'[c] /\ q = inq'[c]
  OBVIOUS
<1>2. /\ Due(c)' = Due(c) /\ Starting(c)' = Starting(c) /\ Reading(c)' = Reading(c)
      /\ Unread(c)' = Unread(c) /\ Flushing(c)' = Flushing(c)
  BY AheadStays, SightIs
<1>3. SightFrom(c, w, m, g, s, Flushing(c), l, q, Due(c), Starting(c), Reading(c), Unread(c))
  BY DEF SightFrom
<1> HIDE DEF w, m, g, s, l, q
<1> QED BY <1>1, <1>2, <1>3, SightIs

LEMMA AskSight ==
    ASSUME Sighted, NEW c \in Clients, GameAsks(c), NEW d \in Clients, Live(d)'
    PROVE  Sight(d)'
<1>0. TodoInv /\ DataType /\ TypeInv
  BY DEF Sighted
<1>1. /\ client[c].mapsend \in {"none", "sent"} /\ <<"ask">> \notin Range(inq[c])
      /\ inq' = [inq EXCEPT ![c] = Append(@, <<"ask">>)]
      /\ UNCHANGED <<world, game, client, out, level, todo>>
  BY DEF GameAsks
<1>2. CASE d # c
  <2>1. SameFor(d)
    BY <1>0, <1>1, <1>2 DEF SameFor, DataType, InqType
  <2> QED BY <1>1, <2>1, IdleSight
<1>3. CASE d = c
  <2>1. Sight(c)
    BY <1>1, <1>3, LiveStays
  <2> DEFINE w == world
             m == client[c].mapsend
             g == game[c]
             s == out[c]
             F == Flushing(c)
             l == level[c]
             q == inq[c]
             v == inq'[c]
             D == Due(c)
             S == Starting(c)
             R == Reading(c)
             U == Unread(c)
  <2>2. Known(w, m, g, s, DOMAIN s, F, l, DOMAIN l, q, D, S, R, U) /\ Asked(m, q)
    BY <2>1, SightIs DEF SightFrom
  <2>3. /\ w \in [Pos -> Block] /\ g \in Game /\ q \in Seq(Request) /\ m \in {"none", "sent"}
        /\ <<"ask">> \notin Range(q)
    BY <1>0, <1>1, DataParts
  <2>4. Longer(v, q, <<"ask">>)
    <3>1. v = Append(q, <<"ask">>)
      BY <1>0, <1>1 DEF DataType, InqType
    <3> HIDE DEF v, q
    <3> QED BY <2>3, <3>1, RequestKinds, AppendLonger
  <2> HIDE DEF w, m, g, s, F, l, q, v, D, S, R, U
  <2>5. Asked(m, v) /\ \A p, b : Hears(q, v, p, b)
    BY <2>2, <2>3, <2>4, AskSent
  <2>6. Known(w, m, g, s, DOMAIN s, F, l, DOMAIN l, v, D, S, R, U)
    <3>1. CASE Pos = {}
      BY <2>2, <3>1 DEF Known
    <3>2. CASE Pos # {}
      <4>1. PICK p \in Pos : TRUE
        BY <3>2
      <4>2. Hears(q, v, p, w[p])
        BY <2>5
      <4> QED BY <2>2, <2>3, <4>2, EditIsHeard
    <3> QED BY <3>1, <3>2
  <2>7. game'[c] = g /\ world = w
    BY <1>1 DEF g, w
  <2>8. Sight(c)'
    BY <1>1, <1>3, <2>5, <2>6, <2>7, SightHears DEF m, s, F, l, v, D, S, R, U
  <2> QED BY <1>3, <2>8
<1> QED BY <1>2, <1>3

LEMMA EditSight ==
    ASSUME Sighted, NEW c \in Clients, NEW p \in Pos, NEW b \in Block, GameEdits(c, p, b),
           NEW d \in Clients, Live(d)'
    PROVE  Sight(d)'
<1>0. TodoInv /\ DataType /\ TypeInv
  BY DEF Sighted
<1>1. /\ game[c].loaded
      /\ game' = [game EXCEPT ![c].view[p] = b]
      /\ inq' = [inq EXCEPT ![c] = Append(@, <<"edit", p, b>>)]
      /\ UNCHANGED <<world, client, out, level, todo>>
  BY DEF GameEdits
<1>2. CASE d # c
  <2>1. SameFor(d)
    BY <1>0, <1>1, <1>2 DEF SameFor, DataType, InqType, GameType
  <2> QED BY <1>1, <2>1, IdleSight
<1>3. CASE d = c
  <2>1. Sight(c)
    BY <1>1, <1>3, LiveStays
  <2> DEFINE w == world
             m == client[c].mapsend
             g == game[c]
             h == game'[c]
             s == out[c]
             F == Flushing(c)
             l == level[c]
             q == inq[c]
             v == inq'[c]
             D == Due(c)
             S == Starting(c)
             R == Reading(c)
             U == Unread(c)
  <2>2. Known(w, m, g, s, DOMAIN s, F, l, DOMAIN l, q, D, S, R, U) /\ Asked(m, q)
    BY <2>1, SightIs DEF SightFrom
  <2>3. g \in Game /\ q \in Seq(Request) /\ g.loaded
    BY <1>0, <1>1, DataParts
  <2>4. Longer(v, q, <<"edit", p, b>>)
    <3>1. v = Append(q, <<"edit", p, b>>)
      BY <1>0, <1>1 DEF DataType, InqType
    <3> HIDE DEF v, q
    <3> QED BY <2>3, <3>1, RequestKinds, AppendLonger
  <2>5. h = [g EXCEPT !.view[p] = b]
    BY <1>0, <1>1 DEF DataType, GameType
  <2> HIDE DEF w, m, g, h, s, F, l, q, v, D, S, R, U
  <2>6. Asked(m, v)
    BY <2>2, <2>3, <2>4, EditSent
  <2>7. Known(w, m, h, s, DOMAIN s, F, l, DOMAIN l, v, D, S, R, U)
    BY <2>2, <2>3, <2>4, <2>5, PlayerSets
  <2>8. Sight(c)'
    BY <1>1, <1>3, <2>6, <2>7, SightHears DEF w, m, h, s, F, l, v, D, S, R, U
  <2> QED BY <1>3, <2>8
<1> QED BY <1>2, <1>3

-----------------------------------------------------------------------------
(* The handlers of the main loop.                                          *)

LEMMA MainRests ==
    ASSUME TodoInv, todo[Main] = << >>, NEW c \in Clients
    PROVE  Due(c) = {} /\ Flushing(c) = FALSE /\ Starting(c) = FALSE
<1>1. Range(todo[Main]) = {}
  BY RangeFacts
<1>2. Due(c) = {}
  BY <1>1, AheadOf DEF DueOf
<1>3. Starting(c) = FALSE
  BY <1>1, AheadOf, SightIs
<1> QED BY <1>2, <1>3 DEF Flushing

LEMMA HandlesAhead ==
    ASSUME TodoInv, NEW s, Handles(s), NEW c \in Clients
    PROVE  /\ Ahead' = Ahead \cup Range(s)
           /\ Due(c)' = DueOf(c, Range(s))
           /\ Starting(c)' <=> <<"start", c>> \in Range(s)
           /\ Unread(c)' = Unread(c) /\ Reading(c)' = Reading(c)
<1>1. todo[Main] = << >> /\ todo'[Main] = s /\ \A u \in Fast : todo'[u] = todo[u]
  BY HandlesShape DEF Handles
<1>2. Ahead' = Ahead \cup Range(s)
  <2>1. \A u \in Threads : u = Main \/ u \in Fast
    BY MainIsNoClient
  <2>2. Main \in Threads /\ Fast \subseteq Threads /\ Range(<< >>) = {}
    BY MainIsNoClient, RangeFacts DEF Threads
  <2> QED BY <1>1, <2>1, <2>2 DEF Ahead
<1>3. \A y \in Range(s) : y[1] \notin {"read", "done"}
  BY DEF Handles, MainShape, Range
<1>4. Due(c) = {} /\ Starting(c) = FALSE
  BY <1>1, MainRests
<1>5. Due(c)' = DueOf(c, Range(s))
  BY <1>2, <1>4 DEF Due, DueOf
<1>6. Starting(c)' <=> <<"start", c>> \in Range(s)
  BY <1>2, <1>4 DEF Starting
<1>7. Unread(c)' = Unread(c)
  <2>1. \A p : <<"read", c, p>> \notin Range(s)
    BY <1>3
  <2> QED BY <1>2, <2>1 DEF Unread
<1>8. Reading(c)' = Reading(c)
  <2>1. <<"done", c>> \notin Range(s)
    BY <1>3
  <2> QED BY <1>2, <1>7, <2>1, SightIs DEF Reading
<1> QED BY <1>2, <1>5, <1>6, <1>7, <1>8

LEMMA HandlesLive ==
    ASSUME Sighted, NEW s, Handles(s), NEW c \in Clients, Live(c)'
    PROVE  Live(c) /\ Sight(c)
<1>1. Ahead \subseteq Ahead'
  BY HandlesAhead DEF Sighted
<1>2. Live(c)
  BY <1>1 DEF Live, Sighted, Later
<1> QED BY <1>2 DEF Sighted, SightInv

\* What is known of a client between two handlers.
LEMMA RestKnown ==
    ASSUME TodoInv, todo[Main] = << >>, NEW c \in Clients, Sight(c)
    PROVE  /\ Known(world, client[c].mapsend, game[c], out[c], DOMAIN out[c], FALSE, level[c],
                    DOMAIN level[c], inq[c], {}, FALSE, Reading(c), Unread(c))
           /\ Asked(client[c].mapsend, inq[c])
<1>1. Due(c) = {} /\ Flushing(c) = FALSE /\ Starting(c) = FALSE
  BY MainRests
<1> QED BY <1>1, SightIs DEF SightFrom

\* And of one to which a handler sends something.
LEMMA HandlesSight ==
    ASSUME TodoInv, NEW s, Handles(s), NEW c \in Clients,
           NEW D, D = DueOf(c, Range(s)), NEW S \in BOOLEAN, S <=> <<"start", c>> \in Range(s),
           Known(world', client'[c].mapsend, game'[c], out'[c], DOMAIN out'[c], FALSE, level'[c],
                 DOMAIN level'[c], inq'[c], D, S, Reading(c), Unread(c)),
           Asked(client'[c].mapsend, inq'[c])
    PROVE  Sight(c)'
<1> DEFINE w == world'
           m == client'[c].mapsend
           g == game'[c]
           o == out'[c]
           l == level'[c]
           q == inq'[c]
           G == Flushing(c)'
           R == Reading(c)
           U == Unread(c)
<1>1. D = Due(c)' /\ S = Starting(c)' /\ R = Reading(c)' /\ U = Unread(c)'
  BY HandlesAhead, SightIs
<1>2. Known(w, m, g, o, DOMAIN o, FALSE, l, DOMAIN l, q, D, S, R, U) /\ Asked(m, q)
  OBVIOUS
<1>3. SightFrom(c, w, m, g, o, G, l, q, D, S, R, U) => Sight(c)'
  BY <1>1, SightIs
<1> HIDE DEF w, m, g, o, l, q, G, R, U
<1>4. Known(w, m, g, o, DOMAIN o, G, l, DOMAIN l, q, D, S, R, U)
  BY <1>2, FlushBegins
<1>5. SightFrom(c, w, m, g, o, G, l, q, D, S, R, U)
  BY <1>2, <1>4 DEF SightFrom
<1> QED BY <1>3, <1>5

\* A client that a handler tells nothing of blocks.
LEMMA HandlesElsewhere ==
    ASSUME Sighted, NEW s, Handles(s), NEW c \in Clients, Live(c)', SameFor(c),
           DueOf(c, Range(s)) = {}, <<"start", c>> \notin Range(s)
    PROVE  Sight(c)'
<1>1. Sight(c)
  BY HandlesLive
<1>2. todo[Main] = << >> /\ TodoInv
  BY DEF Handles, Sighted
<1>3. /\ Known(world, client[c].mapsend, game[c], out[c], DOMAIN out[c], FALSE, level[c],
               DOMAIN level[c], inq[c], {}, FALSE, Reading(c), Unread(c))
      /\ Asked(client[c].mapsend, inq[c])
  BY <1>1, <1>2, RestKnown
<1>4. /\ Known(world', client'[c].mapsend, game'[c], out'[c], DOMAIN out'[c], FALSE, level'[c],
               DOMAIN level'[c], inq'[c], {}, FALSE, Reading(c), Unread(c))
      /\ Asked(client'[c].mapsend, inq'[c])
  BY <1>3 DEF SameFor
<1>5. FALSE <=> <<"start", c>> \in Range(s)
  OBVIOUS
<1> QED BY <1>2, <1>4, <1>5, HandlesSight

LEMMA TalkSight ==
    ASSUME Sighted, Between(step), Kick \/ RecvFindsReset \/ NoLevel, NEW d \in Clients, Live(d)'
    PROVE  Sight(d)'
<1>0. TodoInv /\ DataType /\ TypeInv /\ at \in Clients
  BY DEF Sighted, Between
<1>1. PICK s \in Seq(Chatter) : Do(s) /\ (NoLevel \/ <<"down", at>> \in Range(s))
  BY <1>0, DisconnectTyped, DownOne, FlushOne DEF Kick, RecvFindsReset, NoLevel
<1>2. Handles(s) /\ Tells(s, [c \in Clients |-> {}])
  BY <1>0, <1>1, HandlesSteps
<1>3. DueOf(d, Range(s)) = {} /\ <<"start", d>> \notin Range(s)
  BY <1>2 DEF Tells
<1>4. SameFor(d)
  <2>1. UNCHANGED <<world, game, inq, out, level>>
    BY DEF Kick, RecvFindsReset, NoLevel
  <2>2. client'[d].mapsend = client[d].mapsend
    BY <1>0 DEF Kick, RecvFindsReset, NoLevel, TypeInv, Record
  <2> QED BY <2>1, <2>2 DEF SameFor
<1> QED BY <1>2, <1>3, <1>4, HandlesElsewhere

LEMMA RefuseSight ==
    ASSUME Sighted, Between(step), RecvEditRefused, NEW d \in Clients, Live(d)'
    PROVE  Sight(d)'
<1>0. TodoInv /\ DataType /\ TypeInv /\ at \in Clients /\ todo[Main] = << >>
  BY DEF Sighted, Between
<1> DEFINE p == inq[at][1][2]
           b == inq[at][1][3]
           x == <<"set", p, world[p]>>
           s == Tell(<<at>>, <<x>>)
<1>1. /\ inq[at] \in Seq(Request) /\ inq[at] # << >> /\ inq[at][1] \in Request
      /\ inq[at][1][1] = "edit" /\ inq'[at] = Tail(inq[at])
      /\ \A e \in Clients : e # at => inq'[e] = inq[e]
  BY <1>0, PacketTaken DEF RecvEditRefused
<1>2. p \in Pos /\ b \in Block /\ inq[at][1] = <<"edit", p, b>>
  BY <1>1, RequestFields
<1>3. world \in [Pos -> Block] /\ world[p] \in Block
  BY <1>0, <1>2 DEF DataType, WorldType
<1>4. Do(s)
  BY DEF RecvEditRefused, Refused
<1>5. Handles(s) /\ s = Sets(p, world[p])
  <2>1. s = Sets(p, world[p])
    BY DEF Sets
  <2> HIDE DEF s, p
  <2> QED BY <1>0, <1>2, <1>3, <1>4, <2>1, HandlesSteps
<1>6. Tells(s, [c \in Clients |-> IF c = at THEN {x} ELSE {}])
  <2>1. x \in Packet /\ x[1] = "set"
    BY <1>2, <1>3, PacketFields
  <2> HIDE DEF x
  <2> QED BY <1>0, <2>1, OneTells
<1>7. UNCHANGED <<world, game, client, out, level>>
  BY DEF RecvEditRefused
<1> HIDE DEF s, x
<1>8. DueOf(d, Range(s)) = (IF d = at THEN {x} ELSE {}) /\ <<"start", d>> \notin Range(s)
  BY <1>6 DEF Tells
<1>9. CASE d # at
  <2>1. SameFor(d)
    BY <1>1, <1>7, <1>9 DEF SameFor
  <2>2. DueOf(d, Range(s)) = {}
    BY <1>8, <1>9
  <2> QED BY <1>5, <1>8, <2>1, <2>2, HandlesElsewhere
<1>10. CASE d = at
  <2>1. Sight(d)
    BY <1>5, <1>10, HandlesLive
  <2> DEFINE w == world
             m == client[d].mapsend
             g == game[d]
             o == out[d]
             l == level[d]
             q == inq[d]
             r == inq'[d]
             R == Reading(d)
             U == Unread(d)
  <2>2. Known(w, m, g, o, DOMAIN o, FALSE, l, DOMAIN l, q, {}, FALSE, R, U) /\ Asked(m, q)
    BY <1>0, <2>1, RestKnown
  <2>3. m \in States /\ g \in Game /\ w \in [Pos -> Block]
    BY <1>0, DataParts
  <2>4. Hears(q, r, p, b) /\ Asked(m, r)
    <3>1. q \in Seq(Request) /\ q # << >> /\ q[1] = <<"edit", p, b>> /\ r = Tail(q)
      BY <1>1, <1>2, <1>10
    <3> HIDE DEF p, b, q, r, m
    <3> QED BY <2>2, <3>1, TailHears, TailAsked
  <2>5. /\ w = world' /\ m = client'[d].mapsend /\ g = game'[d] /\ o = out'[d]
        /\ l = level'[d] /\ r = inq'[d]
    BY <1>7
  <2>6. x = <<"set", p, w[p]>>
    BY DEF x
  <2> HIDE DEF p, b, w, m, g, o, l, q, r, R, U
  <2>7. Known(w, m, g, o, DOMAIN o, FALSE, l, DOMAIN l, r, {<<"set", p, w[p]>>}, FALSE, R, U)
    BY <1>2, <2>2, <2>3, <2>4, BlockIsTold
  <2>8. {x} = DueOf(d, Range(s)) /\ (FALSE <=> <<"start", d>> \in Range(s))
    BY <1>8, <1>10
  <2>9. Sight(d)'
    <3> DEFINE D == {x}
    <3>1. Known(w, m, g, o, DOMAIN o, FALSE, l, DOMAIN l, r, D, FALSE, R, U)
      BY <2>6, <2>7
    <3>2. D = DueOf(d, Range(s))
      BY <2>8
    <3> HIDE DEF D
    <3> QED BY <1>0, <1>5, <2>4, <2>5, <2>8, <3>1, <3>2, HandlesSight DEF R, U
  <2> QED BY <2>9
<1> QED BY <1>9, <1>10

LEMMA SetSight ==
    ASSUME Sighted, Between(step), RecvEdit, NEW d \in Clients, Live(d)'
    PROVE  Sight(d)'
<1>0. TodoInv /\ DataType /\ TypeInv /\ at \in Clients /\ todo[Main] = << >>
  BY DEF Sighted, Between
<1> DEFINE p == inq[at][1][2]
           b == inq[at][1][3]
           x == <<"set", p, b>>
           s == SetPackets(p, b)
           w == world
           m == client[d].mapsend
           g == game[d]
           h == game'[d]
           o == out[d]
           l == level[d]
           q == inq[d]
           r == inq'[d]
           R == Reading(d)
           U == Unread(d)
<1>1. /\ inq[at] \in Seq(Request) /\ inq[at] # << >> /\ inq[at][1] \in Request
      /\ inq[at][1][1] = "edit" /\ inq'[at] = Tail(inq[at])
      /\ \A e \in Clients : e # at => inq'[e] = inq[e]
  BY <1>0, PacketTaken DEF RecvEdit
<1>2. p \in Pos /\ b \in Block /\ inq[at][1] = <<"edit", p, b>>
  BY <1>1, RequestFields
<1>3. w \in [Pos -> Block] /\ m \in States /\ g \in Game
  BY <1>0, DataParts
<1>4. UNCHANGED <<client, out, level>>
  BY DEF RecvEdit
<1>5. ASSUME Asked(m, q) PROVE Hears(q, r, p, b) /\ Asked(m, r)
  <2>1. CASE d = at
    <3>1. q \in Seq(Request) /\ q # << >> /\ q[1] = <<"edit", p, b>> /\ r = Tail(q)
      BY <1>1, <1>2, <2>1
    <3> HIDE DEF p, b, q, r, m
    <3> QED BY <1>5, <3>1, TailHears, TailAsked
  <2>2. CASE d # at
    <3>1. r = q
      BY <1>1, <2>2
    <3> HIDE DEF p, b, q, r, m
    <3> QED BY <1>5, <3>1 DEF Hears
  <2> QED BY <2>1, <2>2
<1>6. CASE world[p] = b
  <2>1. UNCHANGED <<world, todo, game>>
    BY <1>6 DEF RecvEdit
  <2>2. Sight(d)
    BY <2>1, LiveStays
  <2>3. Known(w, m, g, o, DOMAIN o, Flushing(d), l, DOMAIN l, q, Due(d), Starting(d), R, U)
        /\ Asked(m, q)
    BY <2>2, SightIs DEF SightFrom
  <2>4. w[p] = b
    BY <1>6
  <2>5. g = game'[d]
    BY <2>1
  <2> DEFINE F == Flushing(d)
             D == Due(d)
             S == Starting(d)
  <2> HIDE DEF p, b, w, m, g, o, l, q, r, R, U, F, D, S
  <2>6. Known(w, m, g, o, DOMAIN o, F, l, DOMAIN l, r, D, S, R, U)
    BY <1>2, <1>3, <1>5, <2>3, <2>4, EditIsHeard DEF F, D, S
  <2> QED BY <1>4, <1>5, <2>1, <2>3, <2>5, <2>6, SightHears DEF w, m, o, l, r, R, U, F, D, S
<1>7. CASE world[p] # b
  <2>1. /\ world' = [world EXCEPT ![p] = b]
        /\ Do(s)
        /\ game' = [c \in Clients |-> IF game[c].loaded THEN game[c]
                                      ELSE [game[c] EXCEPT !.missed = @ \cup {p}]]
    BY <1>7 DEF RecvEdit
  <2>2. Handles(s) /\ Tells(s, [c \in Clients |-> {x}])
    <3> HIDE DEF p, b
    <3> QED BY <1>0, <1>2, <2>1, HandlesSteps, SetTells
  <2>3. h = IF g.loaded THEN g ELSE [g EXCEPT !.missed = @ \cup {p}]
    BY <2>1
  <2> HIDE DEF s, x
  <2>4. {x} = DueOf(d, Range(s)) /\ (FALSE <=> <<"start", d>> \in Range(s))
    BY <2>2 DEF Tells
  <2>5. Sight(d)
    BY <2>2, HandlesLive
  <2>6. Known(w, m, g, o, DOMAIN o, FALSE, l, DOMAIN l, q, {}, FALSE, R, U) /\ Asked(m, q)
    BY <1>0, <2>5, RestKnown
  <2>7. /\ world' = [w EXCEPT ![p] = b] /\ m = client'[d].mapsend /\ o = out'[d]
        /\ l = level'[d] /\ r = inq'[d] /\ h = game'[d]
    BY <1>4, <2>1
  <2>8. x = <<"set", p, b>>
    BY DEF x
  <2> HIDE DEF p, b, w, m, g, h, o, l, q, r, R, U
  <2>9. Known([w EXCEPT ![p] = b], m, h, o, DOMAIN o, FALSE, l, DOMAIN l, r,
              {<<"set", p, b>>}, FALSE, R, U)
    BY <1>2, <1>3, <1>5, <2>3, <2>6, WorldChanges
  <2> DEFINE D == {x}
             v == [w EXCEPT ![p] = b]
  <2>10. Known(v, m, h, o, DOMAIN o, FALSE, l, DOMAIN l, r, D, FALSE, R, U)
    BY <2>8, <2>9
  <2>11. D = DueOf(d, Range(s)) /\ v = world'
    BY <2>4, <2>7
  <2> HIDE DEF D, v
  <2> QED BY <1>0, <1>5, <2>2, <2>4, <2>6, <2>7, <2>10, <2>11, HandlesSight DEF R, U
<1> QED BY <1>6, <1>7

LEMMA LevelAskedSight ==
    ASSUME Sighted, Between(step), RecvAsk, NEW d \in Clients, Live(d)'
    PROVE  Sight(d)'
<1>0. TodoInv /\ DataType /\ TypeInv /\ at \in Clients /\ todo[Main] = << >>
  BY DEF Sighted, Between
<1> DEFINE s == AskSteps(at)
<1>1. /\ inq[at] \in Seq(Request) /\ inq[at] # << >> /\ inq[at][1] \in Request
      /\ inq[at][1][1] = "ask" /\ inq'[at] = Tail(inq[at])
      /\ \A e \in Clients : e # at => inq'[e] = inq[e]
  BY <1>0, PacketTaken DEF RecvAsk
<1>2. inq[at][1] = <<"ask">>
  BY <1>1, RequestFields
<1>3. Handles(s)
  <2>1. Do(AskSteps(at))
    BY DEF RecvAsk, AskSteps
  <2> QED BY <1>0, <2>1, HandlesSteps
<1>4. /\ <<"start", at>> \in Range(s)
      /\ DueOf(d, Range(s)) = (IF d = at THEN {<<"init">>} ELSE {})
      /\ d # at => <<"start", d>> \notin Range(s)
  BY <1>0, AskTells
<1>5. /\ UNCHANGED <<world, game, out, level>>
      /\ client' = [client EXCEPT ![at].mapsend = "busy"]
  BY DEF RecvAsk
<1> HIDE DEF s
<1>6. CASE d # at
  <2>1. SameFor(d)
    BY <1>0, <1>1, <1>5, <1>6 DEF SameFor, TypeInv
  <2> QED BY <1>3, <1>4, <1>6, <2>1, HandlesElsewhere
<1>7. CASE d = at
  <2>1. Sight(d)
    BY <1>3, HandlesLive
  <2> DEFINE w == world
             m == client[d].mapsend
             g == game[d]
             o == out[d]
             l == level[d]
             q == inq[d]
             r == inq'[d]
             R == Reading(d)
             U == Unread(d)
             D == {<<"init">>}
             M == "busy"
  <2>2. Known(w, m, g, o, DOMAIN o, FALSE, l, DOMAIN l, q, {}, FALSE, R, U) /\ Asked(m, q)
    BY <1>0, <2>1, RestKnown
  <2>3. w \in [Pos -> Block] /\ g \in Game
    BY <1>0, DataParts
  <2>4. q \in Seq(Request) /\ q # << >> /\ q[1] = <<"ask">> /\ r = Tail(q)
    BY <1>1, <1>2, <1>7
  <2>5. client'[d].mapsend = M
    BY <1>0, <1>5, <1>7 DEF TypeInv, Record
  <2>6. w = world' /\ g = game'[d] /\ o = out'[d] /\ l = level'[d] /\ r = inq'[d]
    BY <1>5
  <2>7. D = DueOf(d, Range(s)) /\ (TRUE <=> <<"start", d>> \in Range(s))
    BY <1>4, <1>7
  <2> HIDE DEF w, m, g, o, l, q, r, R, U
  <2>8. Known(w, M, g, o, DOMAIN o, FALSE, l, DOMAIN l, q, D, TRUE, R, U)
        /\ Asked(M, r)
    <3>1. m \in {"none", "sent"} /\ Asked(M, r)
      BY <2>2, <2>4, TailAsked
    <3> QED BY <2>2, <3>1, LevelIsAskedFor
  <2> HIDE DEF D, M
  <2>9. Known(w, M, g, o, DOMAIN o, FALSE, l, DOMAIN l, r, D, TRUE, R, U)
    <3>1. CASE Pos = {}
      BY <2>8, <3>1 DEF Known
    <3>2. CASE Pos # {}
      <4>1. PICK p \in Pos : TRUE
        BY <3>2
      <4>2. Hears(q, r, p, w[p])
        BY <2>4, TailHears
      <4> QED BY <2>3, <2>8, <4>2, EditIsHeard
    <3> QED BY <3>1, <3>2
  <2>10. Known(world', client'[d].mapsend, game'[d], out'[d], DOMAIN out'[d], FALSE, level'[d],
               DOMAIN level'[d], inq'[d], D, TRUE, Reading(d), Unread(d))
    BY <2>5, <2>6, <2>9 DEF R, U
  <2>11. Asked(client'[d].mapsend, inq'[d])
    BY <2>5, <2>6, <2>8
  <2> QED BY <1>0, <1>3, <2>7, <2>10, <2>11, HandlesSight
<1> QED BY <1>6, <1>7

LEMMA ChunksSight ==
    ASSUME Sighted, Between(step), SendChunks, NEW d \in Clients, Live(d)'
    PROVE  Sight(d)'
<1>0. TodoInv /\ DataType /\ TypeInv /\ at \in Clients /\ todo[Main] = << >>
  BY DEF Sighted, Between
<1> DEFINE s == Chunks
           k == level[at]
<1>1. /\ client[at].mapsend = "success" /\ level[at] # << >> /\ Do(s)
      /\ level' = [level EXCEPT ![at] = << >>]
      /\ UNCHANGED <<world, game, inq, client, out>>
  BY DEF SendChunks, Chunks
<1>2. level[at] \in Seq(Piece)
  BY <1>0 DEF DataType, LevelType
<1>3. Handles(s)
  BY <1>0, <1>1, HandlesSteps
<1>4. Tells(s, [c \in Clients |-> IF c = at THEN Range(k) ELSE {}])
  BY <1>0, <1>2, ChunksTell DEF Chunks
<1> HIDE DEF s
<1>5. DueOf(d, Range(s)) = (IF d = at THEN Range(k) ELSE {}) /\ <<"start", d>> \notin Range(s)
  BY <1>4 DEF Tells
<1>6. CASE d # at
  <2>1. SameFor(d)
    BY <1>0, <1>1, <1>6 DEF SameFor, DataType, LevelType
  <2> QED BY <1>3, <1>5, <1>6, <2>1, HandlesElsewhere
<1>7. CASE d = at
  <2>1. Sight(d)
    BY <1>3, HandlesLive
  <2> DEFINE w == world
             m == client[d].mapsend
             g == game[d]
             o == out[d]
             l == level[d]
             q == inq[d]
             R == Reading(d)
             U == Unread(d)
             D == Range(l)
  <2>2. Known(w, m, g, o, DOMAIN o, FALSE, l, DOMAIN l, q, {}, FALSE, R, U) /\ Asked(m, q)
    BY <1>0, <2>1, RestKnown
  <2>3. m = "success" /\ l # << >> /\ l \in Seq(Piece)
    BY <1>1, <1>2, <1>7
  <2>4. level'[d] = << >>
    BY <1>0, <1>1, <1>7 DEF DataType, LevelType
  <2>5. w = world' /\ m = client'[d].mapsend /\ g = game'[d] /\ o = out'[d] /\ q = inq'[d]
    BY <1>1
  <2>6. D = DueOf(d, Range(s)) /\ (FALSE <=> <<"start", d>> \in Range(s))
    BY <1>5, <1>7
  <2> HIDE DEF w, m, g, o, l, q, R, U
  <2>7. Known(w, m, g, o, DOMAIN o, FALSE, << >>, DOMAIN << >>, q, D, FALSE, R, U)
    BY <2>2, <2>3, ChunksAreTold
  <2> HIDE DEF D
  <2>8. Known(world', client'[d].mapsend, game'[d], out'[d], DOMAIN out'[d], FALSE, level'[d],
              DOMAIN level'[d], inq'[d], D, FALSE, Reading(d), Unread(d))
    BY <2>4, <2>5, <2>7 DEF R, U
  <2>9. Asked(client'[d].mapsend, inq'[d])
    BY <2>2, <2>5
  <2> QED BY <1>0, <1>3, <2>6, <2>8, <2>9, HandlesSight
<1> QED BY <1>6, <1>7

LEMMA FinishSight ==
    ASSUME Sighted, Between(step), FinishLevel, NEW d \in Clients, Live(d)'
    PROVE  Sight(d)'
<1>0. TodoInv /\ DataType /\ TypeInv /\ at \in Clients /\ todo[Main] = << >>
  BY DEF Sighted, Between
<1> DEFINE s == Finished(at)
<1>1. /\ client[at].mapsend = "success" /\ level[at] = << >> /\ Do(s)
      /\ client' = [client EXCEPT ![at].mapsend = "sent"]
      /\ UNCHANGED <<world, game, inq, out, level>>
  BY DEF FinishLevel
<1>2. Handles(s)
  BY <1>0, <1>1, HandlesSteps
<1>3. Tells(s, [c \in Clients |-> IF c = at THEN {<<"finish">>} ELSE {}])
  BY <1>0, FinishTells
<1> HIDE DEF s
<1>4. DueOf(d, Range(s)) = (IF d = at THEN {<<"finish">>} ELSE {}) /\ <<"start", d>> \notin Range(s)
  BY <1>3 DEF Tells
<1>5. CASE d # at
  <2>1. SameFor(d)
    BY <1>0, <1>1, <1>5 DEF SameFor, TypeInv
  <2> QED BY <1>2, <1>4, <1>5, <2>1, HandlesElsewhere
<1>6. CASE d = at
  <2>1. Sight(d)
    BY <1>2, HandlesLive
  <2> DEFINE w == world
             g == game[d]
             o == out[d]
             l == level[d]
             q == inq[d]
             R == Reading(d)
             U == Unread(d)
             D == {<<"finish">>}
             M == "sent"
  <2>2. Known(w, "success", g, o, DOMAIN o, FALSE, l, {}, q, {}, FALSE, R, U)
        /\ Asked("success", q) /\ DOMAIN l = {}
    <3>1. client[d].mapsend = "success" /\ DOMAIN l = {}
      BY <1>1, <1>6
    <3> QED BY <1>0, <2>1, <3>1, RestKnown
  <2>3. client'[d].mapsend = M
    BY <1>0, <1>1, <1>6 DEF TypeInv, Record
  <2>4. w = world' /\ g = game'[d] /\ o = out'[d] /\ q = inq'[d] /\ l = level'[d]
    BY <1>1
  <2>5. D = DueOf(d, Range(s)) /\ (FALSE <=> <<"start", d>> \in Range(s))
    BY <1>4, <1>6
  <2> HIDE DEF w, g, o, l, q, R, U
  <2>6. Known(w, M, g, o, DOMAIN o, FALSE, l, {}, q, D, FALSE, R, U)
    BY <2>2, FinishIsTold
  <2>7. Asked(M, q)
    BY <2>2 DEF Asked
  <2> HIDE DEF D, M
  <2>8. Known(world', client'[d].mapsend, game'[d], out'[d], DOMAIN out'[d], FALSE, level'[d],
              DOMAIN level'[d], inq'[d], D, FALSE, Reading(d), Unread(d))
    BY <2>2, <2>3, <2>4, <2>6 DEF R, U
  <2>9. Asked(client'[d].mapsend, inq'[d])
    BY <2>3, <2>4, <2>7
  <2> QED BY <1>0, <1>2, <2>5, <2>8, <2>9, HandlesSight
<1> QED BY <1>5, <1>6

-----------------------------------------------------------------------------
(* What the games show.                                                    *)

LEMMA SightInit == Init => SightInv
<1> SUFFICES ASSUME Init, NEW c \in Clients PROVE Sight(c)
  BY DEF SightInv
<1>1. Ahead = {}
  <2>1. \A t \in Threads : Range(todo[t]) = {}
    BY DEF Init, Range
  <2> QED BY <2>1 DEF Ahead
<1>2. Due(c) = {} /\ ~Starting(c) /\ Unread(c) = {} /\ ~Reading(c)
  BY <1>1 DEF Due, Starting, Unread, Reading
<1>3. out[c] = << >> /\ level[c] = << >> /\ inq[c] = << >>
  BY DEF Init
<1>4. DOMAIN out[c] = {} /\ DOMAIN level[c] = {} /\ Range(inq[c]) = {} /\ DOMAIN inq[c] = {}
  BY <1>3 DEF Range
<1>5. /\ client[c].mapsend = IF c \in Loaded THEN "sent" ELSE "none"
      /\ game[c].view = world
  <2>1. /\ game[c] = [loaded |-> c \in Loaded, view |-> world, missed |-> {}]
        /\ client[c] = [connected |-> TRUE, spawned |-> c \in Loaded,
                        mapsend |-> IF c \in Loaded THEN "sent" ELSE "none"]
    BY DEF Init
  <2>2. (c \in Loaded) \in BOOLEAN
    OBVIOUS
  <2> QED BY <2>1, <2>2
<1>6. Orderly(out[c], DOMAIN out[c], Flushing(c))
  BY <1>4 DEF Orderly
<1>7. Phase(client[c].mapsend, game[c].loaded, out[c], DOMAIN out[c], DOMAIN level[c], Due(c),
            Starting(c), Reading(c))
  BY <1>2, <1>4, <1>5 DEF Phase, Among, Has, Coming, Finishing
<1>8. Asked(client[c].mapsend, inq[c])
  BY <1>4 DEF Asked
<1>9. ASSUME NEW p \in Pos
      PROVE  View(p, world[p], game[c], out[c], DOMAIN out[c], level[c], DOMAIN level[c], inq[c],
                  Due(c), Starting(c), Unread(c))
  BY <1>2, <1>4, <1>5 DEF View, AmongAbout, HasAbout
<1> QED BY <1>6, <1>7, <1>8, <1>9 DEF Sight

LEMMA NextLater ==
    ASSUME OutgoingInv, [Next]_vars
    PROVE  Later
<1>0. TypeInv /\ MutexInv /\ Main \in Threads /\ Fast \subseteq Threads
  BY DEF OutgoingInv, Threads
<1>1. CASE MainStep
  BY <1>0, <1>1, MainKinds
<1>2. CASE \E t \in Fast : ThreadStep(t)
  BY <1>0, <1>2, ThreadTyped
<1>3. ASSUME NEW c \in Clients, Compressed(c) PROVE Later
  <2>1. LevelStep /\ ClientStep /\ SeenStep
    BY <1>0, <1>3, StateSet, SeenStays DEF Compressed, LevelStep
  <2> QED BY <1>0, <2>1, TypeKeeps
<1>4. ASSUME UNCHANGED <<client, seen>> PROVE Later
  BY <1>4 DEF Later
<1>5. ASSUME NEW c \in Clients, GameAsks(c) \/ \E p \in Pos, b \in Block : GameEdits(c, p, b)
      PROVE  Later
  BY <1>4, <1>5 DEF GameAsks, GameEdits
<1>6. CASE UNCHANGED vars
  BY <1>4, <1>6 DEF vars
<1> QED BY <1>1, <1>2, <1>3, <1>5, <1>6 DEF Next

LEMMA SightNext == OutgoingInv /\ PartsInv /\ SightInv /\ [Next]_vars => SightInv'
<1> SUFFICES ASSUME OutgoingInv, PartsInv, SightInv, [Next]_vars,
                    NEW d \in Clients, Live(d)'
             PROVE  Sight(d)'
  BY DEF SightInv
<1>0. TypeInv
  BY DEF OutgoingInv
<1>1. Sighted
  BY <1>0, NextLater, LostGrows DEF Sighted, PartsInv
<1>2. Main \in Threads /\ Fast \subseteq Threads
  BY MainIsNoClient DEF Threads
<1>3. CASE \E t \in Threads : ThreadStep(t)
  BY <1>1, <1>3, ThreadSight
<1>4. CASE StartTick \/ Enter \/ EndReceive
  BY <1>1, <1>4, TurnSight
<1>5. CASE \/ Kick \/ RecvFindsReset \/ NoLevel
           \/ RecvEditRefused \/ RecvEdit \/ RecvAsk \/ SendChunks \/ FinishLevel
  <2>1. Between(step)
    BY <1>5 DEF Kick, RecvFindsReset, NoLevel, RecvEditRefused, RecvEdit, RecvAsk, SendChunks,
                FinishLevel, Packets, Between
  <2> QED BY <1>1, <1>5, <2>1, TalkSight, RefuseSight, SetSight, LevelAskedSight, ChunksSight,
             FinishSight
<1>6. ASSUME NEW c \in Clients, Compressed(c) PROVE Sight(d)'
  BY <1>1, <1>6, CompressedSight
<1>7. ASSUME NEW c \in Clients, GameAsks(c) PROVE Sight(d)'
  BY <1>1, <1>7, AskSight
<1>8. ASSUME NEW c \in Clients, NEW p \in Pos, NEW b \in Block, GameEdits(c, p, b)
      PROVE  Sight(d)'
  BY <1>1, <1>8, EditSight
<1>9. CASE UNCHANGED vars
  <2>1. UNCHANGED todo /\ SameFor(d)
    BY <1>9 DEF vars, SameFor
  <2> QED BY <1>1, <2>1, IdleSight
<1> QED BY <1>2, <1>3, <1>4, <1>5, <1>6, <1>7, <1>8, <1>9 DEF Next, MainStep

LEMMA QuietAgrees == OutgoingInv /\ PartsInv /\ SightInv => GamesAgree
<1> SUFFICES ASSUME SightInv, Quiet, NEW c \in Clients \ seen.lost,
                    client[c].connected, game[c].loaded, NEW p \in Pos \ game[c].missed
             PROVE  game[c].view[p] = world[p]
  BY DEF GamesAgree
<1>1. Ahead = {}
  <2>1. \A t \in Threads : Range(todo[t]) = {}
    BY DEF Quiet, Range
  <2> QED BY <2>1 DEF Ahead
<1>2. Sight(c) /\ Due(c) = {}
  BY <1>1 DEF SightInv, Live, Due
<1>3. DOMAIN out[c] = {} /\ DOMAIN inq[c] = {}
  BY DEF Quiet
<1>4. View(p, world[p], game[c], out[c], DOMAIN out[c], level[c], DOMAIN level[c], inq[c],
           Due(c), Starting(c), Unread(c))
  BY <1>2 DEF Sight
<1> QED BY <1>2, <1>3, <1>4 DEF View, AmongAbout, HasAbout, LastEdit

\* What a player sees is what the server has: map_set, client_send_level and the
\* threads that send the levels leave out no block, send none in an order that a game
\* would end up with an old one, and answer a player whose block is refused; for any
\* number of clients, blocks and threads under way.
THEOREM GamesShowTheWorld == Spec => []GamesAgree
<1>1. Init => OutgoingInv /\ PartsInv /\ SightInv
  BY OutgoingInit, PartsInit, SightInit
<1>2. OutgoingInv /\ PartsInv /\ SightInv /\ [Next]_vars => OutgoingInv' /\ PartsInv' /\ SightInv'
  BY OutgoingNext, PartsNext, SightNext
<1>3. OutgoingInv /\ PartsInv /\ SightInv => GamesAgree
  BY QuietAgrees
<1> QED BY <1>1, <1>2, <1>3, PTL DEF Spec

===============================================================================
