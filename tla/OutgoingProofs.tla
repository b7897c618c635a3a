---------------------------- MODULE OutgoingProofs ----------------------------
(***************************************************************************)
(* Proofs about Outgoing, for any number of clients, of every kind.  A     *)
(* thread that has a mutex owes it: somewhere before it is a step that     *)
(* gives the mutex back, and only one.  While that step is not its next    *)
(* one, the client of the mutex is disconnected, so that nobody begins to  *)
(* wait for it any more.                                                   *)
(***************************************************************************)
EXTENDS Outgoing, FiniteSetTheorems, TLAPS

Sending == {"send", "sendlevel"}

Owing == Sending \cup {"unlock"}

Notable == Owing \cup {"lock", "read"}

\* The step x gives the mutex of c back.
Gives(x, c) == x[1] \in Owing /\ x[2] = c

\* The thread t, with the steps s before it, has each mutex it owes, and owes it once.
Owes(t, s, m) ==
    \A c \in Clients :
        /\ \A k \in DOMAIN s : Gives(s[k], c) => m[c] = t
        /\ \A j, k \in DOMAIN s : Gives(s[j], c) /\ Gives(s[k], c) => j = k

\* Steps of which a function is made: they owe nothing, and end nothing.
Calm(s) == \A k \in DOMAIN s : s[k][1] \notin Notable

IsSeq(s) == \E S : s \in Seq(S)

\* A send or a wait comes to an end before anything else is begun, and a thread that
\* reads, which may stop there, owes nothing.
Behind(s) == \A k \in DOMAIN s : s[k][1] \notin Sending \cup {"lock"}

Ordered(s) ==
    /\ \A k \in DOMAIN s : s[k][1] \in Sending \cup {"lock"} => k = 1
    /\ \A k \in DOMAIN s : s[k][1] = "lock" => s[k][3] \in Sending
    /\ \A j, k \in DOMAIN s : j < k /\ s[j][1] = "read" => s[k][1] \notin Owing

Unlocks(t, c) == \E k \in DOMAIN todo[t] : todo[t][k][1] = "unlock" /\ todo[t][k][2] = c

TypeInv ==
    /\ level = [c \in Clients |-> level[c]] /\ \A c \in Clients : IsSeq(level[c])
    /\ client \in [Clients -> Record]
    /\ seen \in Seen

MutexInv ==
    /\ todo = [t \in Threads |-> todo[t]]
    /\ mutex \in [Clients -> Threads \cup {Nobody}]
    /\ \A t \in Threads : IsSeq(todo[t]) /\ Owes(t, todo[t], mutex) /\ Ordered(todo[t])

\* A mutex that is taken is given back.
Held ==
    \A c \in Clients, t \in Threads :
        mutex[c] = t => \E k \in DOMAIN todo[t] : Gives(todo[t][k], c)

\* A mutex that is kept for longer than a send is that of a client that has gone.
Gone ==
    ~seen.broken => \A c \in Clients, t \in Threads : Unlocks(t, c) => ~client[c].connected

Apart ==
    ~seen.broken =>
        \A t, u \in Threads, c, d \in Clients :
            ~(Waits(t, c) /\ Unlocks(u, c) /\ Waits(u, d) /\ Unlocks(t, d))

OutgoingInv == TypeInv /\ MutexInv /\ Held /\ Gone /\ Apart

-----------------------------------------------------------------------------
(* What functions put before a thread.                                     *)

LEMMA CalmTell ==
    ASSUME NEW cs, NEW ps, Len(cs) \in Nat
    PROVE  IsSeq(Tell(cs, ps)) /\ Calm(Tell(cs, ps))
<1> DEFINE e(k) == IF k % 2 = 1
                   THEN <<"write", cs[(k + 1) \div 2], ps[(k + 1) \div 2]>>
                   ELSE <<"flush", cs[k \div 2]>>
           n == 2 * Len(cs)
<1>1. n \in Nat
  OBVIOUS
<1>2. Tell(cs, ps) = [k \in 1 .. n |-> e(k)]
  BY DEF Tell
<1>3. \A k \in 1 .. n : e(k)[1] \in {"write", "flush"}
  <2> TAKE k \in 1 .. n
  <2>1. CASE k % 2 = 1
    BY <2>1
  <2>2. CASE k % 2 # 1
    BY <2>2
  <2> QED BY <2>1, <2>2
<1> HIDE DEF e, n
<1>4. [k \in 1 .. n |-> e(k)] \in Seq({e(k) : k \in 1 .. n})
  BY <1>1
<1> QED BY <1>2, <1>3, <1>4 DEF IsSeq, Calm, Notable, Owing, Sending

LEMMA CalmConcat ==
    ASSUME NEW r, NEW s, IsSeq(r), IsSeq(s), Calm(r), Calm(s)
    PROVE  IsSeq(r \o s) /\ Calm(r \o s)
<1>1. PICK R : r \in Seq(R)
  BY DEF IsSeq
<1>2. PICK S : s \in Seq(S)
  BY DEF IsSeq
<1>3. r \in Seq(R \cup S) /\ s \in Seq(R \cup S)
  BY <1>1, <1>2
<1>4. r \o s \in Seq(R \cup S)
  BY <1>3
<1>5. ASSUME NEW k \in DOMAIN (r \o s) PROVE (r \o s)[k][1] \notin Notable
  <2>1. k \in 1 .. Len(r) + Len(s) /\ Len(r) \in Nat /\ Len(s) \in Nat
    BY <1>3, <1>5
  <2>2. CASE k <= Len(r)
    BY <1>3, <2>1, <2>2 DEF Calm
  <2>3. CASE k > Len(r)
    <3>1. (r \o s)[k] = s[k - Len(r)] /\ k - Len(r) \in DOMAIN s
      BY <1>3, <2>1, <2>3
    <3> QED BY <3>1 DEF Calm
  <2> QED BY <2>1, <2>2, <2>3
<1> QED BY <1>4, <1>5 DEF IsSeq, Calm

LEMMA CalmOne ==
    ASSUME NEW x, x[1] \notin Notable
    PROVE  IsSeq(<<x>>) /\ Calm(<<x>>)
<1>1. <<x>> \in Seq({x})
  OBVIOUS
<1>2. \A k \in DOMAIN <<x>> : <<x>>[k] = x
  OBVIOUS
<1>3. Calm(<<x>>)
  BY <1>2 DEF Calm
<1> QED BY <1>1, <1>3 DEF IsSeq

LEMMA CalmSeq == \A x : IsSeq(<<x>>)
<1> TAKE x
<1>1. <<x>> \in Seq({x})
  OBVIOUS
<1> QED BY <1>1 DEF IsSeq

LEMMA CalmNone == IsSeq(<< >>) /\ Calm(<< >>)
<1>1. << >> \in Seq({})
  OBVIOUS
<1> QED BY <1>1 DEF IsSeq, Calm

LEMMA CalmTalk ==
    ASSUME NEW cs, Len(cs) \in Nat
    PROVE  IsSeq(Talk(cs)) /\ Calm(Talk(cs))
BY CalmTell DEF Talk

\* The loops over all clients and over all but one.
LEMMA CalmAll ==
    ASSUME NEW c \in Clients
    PROVE  /\ IsSeq(Broadcast) /\ Calm(Broadcast)
           /\ IsSeq(Talk(Others(c))) /\ Calm(Talk(Others(c)))
<1>1. N \in Nat /\ N - 1 \in Nat
  BY ClientsAssumption
<1>2. Len(All) = N
  BY <1>1 DEF All, Clients
<1>3. Len(Others(c)) = N - 1
  BY <1>1 DEF Others
<1> QED BY <1>1, <1>2, <1>3, CalmTalk DEF Broadcast

LEMMA CalmDisconnect ==
    ASSUME NEW c \in Clients
    PROVE  IsSeq(Disconnect(c)) /\ Calm(Disconnect(c))
<1> DEFINE a == Talk(<<c>>)
           b == IF c \in WebSocket THEN << <<"close", c>> >> ELSE << >>
           d == << <<"down", c>> >>
<1>1. IsSeq(a) /\ Calm(a)
  <2>1. Len(<<c>>) \in Nat
    OBVIOUS
  <2> QED BY <2>1, CalmTalk
<1>2. IsSeq(b) /\ Calm(b)
  <2>1. <<"close", c>>[1] \notin Notable
    BY DEF Notable, Owing, Sending
  <2> QED BY <2>1, CalmOne, CalmNone
<1>3. IsSeq(d) /\ Calm(d)
  <2>1. <<"down", c>>[1] \notin Notable
    BY DEF Notable, Owing, Sending
  <2> QED BY <2>1, CalmOne
<1>4. Disconnect(c) = a \o b \o d
  BY DEF Disconnect
<1> HIDE DEF a, b, d
<1>5. IsSeq(a \o b) /\ Calm(a \o b)
  BY <1>1, <1>2, CalmConcat
<1> QED BY <1>3, <1>4, <1>5, CalmConcat

LEMMA FastSteps ==
    ASSUME NEW c \in Clients
    PROVE  /\ IsSeq(FastThread(c))
           /\ \A k \in DOMAIN FastThread(c) : FastThread(c)[k][1] \in {"done", "read", "post"}
<1> DEFINE n    == 2 * Cardinality(Pos) + 1
           e(k) == IF k = n THEN <<"done", c>>
                   ELSE IF k % 2 = 1 THEN <<"read", c, SetToSeq(Pos)[(k + 1) \div 2]>>
                   ELSE <<"post", c>>
<1>1. n \in Nat
  BY WorldAssumption, FS_CardinalityType
<1>2. FastThread(c) = [k \in 1 .. n |-> e(k)]
  BY DEF FastThread
<1>3. \A k \in 1 .. n : e(k)[1] \in {"done", "read", "post"}
  <2> TAKE k \in 1 .. n
  <2> HIDE DEF n
  <2>1. CASE k = n
    BY <2>1
  <2>2. CASE k # n /\ k % 2 = 1
    BY <2>2
  <2>3. CASE k # n /\ k % 2 # 1
    BY <2>3
  <2> QED BY <2>1, <2>2, <2>3
<1> HIDE DEF e, n
<1>4. [k \in 1 .. n |-> e(k)] \in Seq({e(k) : k \in 1 .. n})
  BY <1>1
<1> QED BY <1>2, <1>3, <1>4 DEF IsSeq

LEMMA CalmFinished ==
    ASSUME NEW c \in Clients
    PROVE  IsSeq(Finished(c)) /\ Calm(Finished(c))
<1> DEFINE a == Tell(<<c, c>>, << <<"finish">>, <<"talk">> >>)
           x == [k \in 1 .. 2 * (N - 1) |-> IF k % 2 = 1 THEN c ELSE Others(c)[k \div 2]]
           d == << <<"spawned", c>> >>
           f == << <<"flush", c>> >>
<1>1. IsSeq(a) /\ Calm(a)
  <2>1. Len(<<c, c>>) \in Nat
    OBVIOUS
  <2> QED BY <2>1, CalmTell
<1>2. IsSeq(Talk(x)) /\ Calm(Talk(x))
  <2>1. 2 * (N - 1) \in Nat
    BY ClientsAssumption
  <2>2. Len(x) = 2 * (N - 1)
    BY <2>1
  <2> QED BY <2>1, <2>2, CalmTalk
<1>3. IsSeq(d) /\ Calm(d) /\ IsSeq(f) /\ Calm(f)
  <2>1. <<"spawned", c>>[1] \notin Notable /\ <<"flush", c>>[1] \notin Notable
    BY DEF Notable, Owing, Sending
  <2> QED BY <2>1, CalmOne
<1>4. IsSeq(Broadcast) /\ Calm(Broadcast)
  BY CalmAll
<1>5. Finished(c) = a \o Talk(x) \o d \o Broadcast \o f
  BY DEF Finished
<1> HIDE DEF a, x, d, f
<1>6. IsSeq(a \o Talk(x)) /\ Calm(a \o Talk(x))
  BY <1>1, <1>2, CalmConcat
<1>7. IsSeq(a \o Talk(x) \o d) /\ Calm(a \o Talk(x) \o d)
  BY <1>3, <1>6, CalmConcat
<1>8. IsSeq(a \o Talk(x) \o d \o Broadcast) /\ Calm(a \o Talk(x) \o d \o Broadcast)
  BY <1>4, <1>7, CalmConcat
<1> QED BY <1>3, <1>5, <1>8, CalmConcat

-----------------------------------------------------------------------------
(* The steps before a thread when it has made one.                         *)

\* u is r with s behind it, element by element.
Joined(u, r, s) ==
    /\ IsSeq(u) /\ DOMAIN u \subseteq Nat
    /\ Len(r) \in Nat /\ DOMAIN s \subseteq Nat \ {0} /\ DOMAIN r = 1 .. Len(r)
    /\ \A k \in DOMAIN r : k \in DOMAIN u /\ u[k] = r[k]
    /\ \A k \in DOMAIN s : Len(r) + k \in DOMAIN u /\ u[Len(r) + k] = s[k]
    /\ \A k \in DOMAIN u :
        \/ k \in DOMAIN r
        \/ k > Len(r) /\ k - Len(r) \in DOMAIN s /\ u[k] = s[k - Len(r)]

LEMMA ConcatElements ==
    ASSUME NEW r, NEW s, IsSeq(r), IsSeq(s)
    PROVE  Joined(r \o s, r, s)
<1>1. PICK S : s \in Seq(S) /\ r \in Seq(S)
  <2>1. PICK S : s \in Seq(S)
    BY DEF IsSeq
  <2>2. PICK R : r \in Seq(R)
    BY DEF IsSeq
  <2>3. s \in Seq(R \cup S) /\ r \in Seq(R \cup S)
    BY <2>1, <2>2
  <2> QED BY <2>3
<1>2. r \o s \in Seq(S) /\ Len(r \o s) = Len(r) + Len(s) /\ Len(r) \in Nat /\ Len(s) \in Nat
  BY <1>1
<1>3. /\ DOMAIN (r \o s) = 1 .. Len(r) + Len(s)
      /\ DOMAIN r = 1 .. Len(r) /\ DOMAIN s = 1 .. Len(s)
  BY <1>1, <1>2
<1>4. \A k \in DOMAIN r : k \in DOMAIN (r \o s) /\ (r \o s)[k] = r[k]
  BY <1>1, <1>2, <1>3
<1>5. \A k \in DOMAIN s : Len(r) + k \in DOMAIN (r \o s) /\ (r \o s)[Len(r) + k] = s[k]
  BY <1>1, <1>2, <1>3
<1>6. ASSUME NEW k \in DOMAIN (r \o s), k \notin DOMAIN r
      PROVE  k > Len(r) /\ k - Len(r) \in DOMAIN s /\ (r \o s)[k] = s[k - Len(r)]
  BY <1>1, <1>2, <1>3, <1>6
<1> QED BY <1>2, <1>3, <1>4, <1>5, <1>6 DEF IsSeq, Joined

LEMMA TailElements ==
    ASSUME NEW s, IsSeq(s), s # << >>
    PROVE  /\ IsSeq(Tail(s)) /\ DOMAIN s \subseteq Nat \ {0} /\ 1 \in DOMAIN s
           /\ DOMAIN Tail(s) \subseteq Nat \ {0}
           /\ \A k \in DOMAIN Tail(s) : k + 1 \in DOMAIN s /\ Tail(s)[k] = s[k + 1]
           /\ \A k \in DOMAIN s : k # 1 => k - 1 \in DOMAIN Tail(s) /\ Tail(s)[k - 1] = s[k]
<1>1. PICK S : s \in Seq(S)
  BY DEF IsSeq
<1>2. Tail(s) \in Seq(S) /\ Len(Tail(s)) = Len(s) - 1 /\ Len(s) \in Nat \ {0}
  BY <1>1
<1>3. DOMAIN s = 1 .. Len(s) /\ DOMAIN Tail(s) = 1 .. Len(s) - 1
  BY <1>1, <1>2
<1>4. \A k \in DOMAIN Tail(s) : k + 1 \in DOMAIN s /\ Tail(s)[k] = s[k + 1]
  BY <1>1, <1>2, <1>3
<1>5. \A k \in DOMAIN s : k # 1 => k - 1 \in DOMAIN Tail(s) /\ Tail(s)[k - 1] = s[k]
  BY <1>1, <1>2, <1>3, <1>4
<1> QED BY <1>2, <1>3, <1>4, <1>5 DEF IsSeq

\* Steps of a function come before the others.
LEMMA OwesBefore ==
    ASSUME NEW t, NEW m, NEW s, NEW r, IsSeq(s), IsSeq(r), Calm(r),
           Owes(t, s, m), Ordered(s), Behind(s)
    PROVE  IsSeq(r \o s) /\ Owes(t, r \o s, m) /\ Ordered(r \o s) /\ Behind(r \o s)
<1> DEFINE u == r \o s
           n == Len(r)
<1>0. Joined(u, r, s)
  BY ConcatElements
<1> HIDE DEF u
<1>1. /\ IsSeq(u) /\ DOMAIN u \subseteq Nat
      /\ n \in Nat
      /\ \A k \in DOMAIN r : k \in DOMAIN u /\ u[k] = r[k]
      /\ \A k \in DOMAIN u : k \in DOMAIN r \/ (k - n \in DOMAIN s /\ u[k] = s[k - n])
  BY <1>0 DEF Joined
<1> HIDE DEF n
<1>2. ASSUME NEW k \in DOMAIN u, u[k][1] \in Notable
      PROVE  k - n \in DOMAIN s /\ u[k] = s[k - n]
  BY <1>1, <1>2 DEF Calm
<1>3. Owes(t, u, m)
  <2>1. ASSUME NEW c \in Clients, NEW k \in DOMAIN u, Gives(u[k], c)
        PROVE  k - n \in DOMAIN s /\ Gives(s[k - n], c)
    <3>1. u[k][1] \in Notable
      BY <2>1 DEF Gives, Notable
    <3> QED BY <1>2, <2>1, <3>1
  <2>2. ASSUME NEW c \in Clients, NEW k \in DOMAIN u, Gives(u[k], c)
        PROVE  m[c] = t
    BY <2>1, <2>2 DEF Owes
  <2>3. ASSUME NEW c \in Clients, NEW j \in DOMAIN u, NEW k \in DOMAIN u,
               Gives(u[j], c), Gives(u[k], c)
        PROVE  j = k
    <3>1. j - n = k - n
      BY <2>1, <2>3 DEF Owes
    <3> QED BY <1>1, <3>1
  <2> QED BY <2>2, <2>3 DEF Owes
<1>4. Behind(u)
  BY <1>2 DEF Behind, Notable, Owing
<1>5. Ordered(u)
  <2>1. ASSUME NEW k \in DOMAIN u, u[k][1] \in Sending \cup {"lock"} PROVE FALSE
    BY <1>4, <2>1 DEF Behind
  <2>2. ASSUME NEW j \in DOMAIN u, NEW k \in DOMAIN u, j < k, u[j][1] = "read"
        PROVE  u[k][1] \notin Owing
    <3>1. SUFFICES ASSUME u[k][1] \in Owing PROVE FALSE
      OBVIOUS
    <3>2. j - n \in DOMAIN s /\ u[j] = s[j - n] /\ k - n \in DOMAIN s /\ u[k] = s[k - n]
      BY <1>2, <2>2, <3>1 DEF Notable
    <3>3. j - n < k - n
      BY <1>1, <2>2
    <3> QED BY <2>2, <3>1, <3>2, <3>3 DEF Ordered
  <2> QED BY <2>1, <2>2 DEF Ordered
<1>6. IsSeq(u) /\ Owes(t, u, m) /\ Ordered(u) /\ Behind(u)
  BY <1>1, <1>3, <1>4, <1>5
<1> QED BY <1>6 DEF u

\* A step is made. If it gave back the mutex of c, no other of the thread's steps does.
LEMMA OwesTail ==
    ASSUME NEW t, NEW m, NEW s, IsSeq(s), s # << >>, Owes(t, s, m), Ordered(s)
    PROVE  /\ IsSeq(Tail(s)) /\ Owes(t, Tail(s), m) /\ Ordered(Tail(s)) /\ Behind(Tail(s))
           /\ \A c \in Clients :
                Gives(s[1], c) => \A k \in DOMAIN Tail(s) : ~Gives(Tail(s)[k], c)
<1> DEFINE v == Tail(s)
<1>1. /\ IsSeq(v) /\ 1 \in DOMAIN s /\ DOMAIN v \subseteq Nat \ {0}
      /\ \A k \in DOMAIN v : k + 1 \in DOMAIN s /\ v[k] = s[k + 1]
  BY TailElements
<1> HIDE DEF v
<1>2. Owes(t, v, m)
  <2>1. ASSUME NEW c \in Clients, NEW j \in DOMAIN v, NEW k \in DOMAIN v,
               Gives(v[j], c), Gives(v[k], c)
        PROVE  j = k
    <3>1. j + 1 = k + 1
      BY <1>1, <2>1 DEF Owes
    <3> QED BY <1>1, <3>1
  <2> QED BY <1>1, <2>1 DEF Owes
<1>3. Behind(v)
  <2>1. \A k \in DOMAIN v : k + 1 # 1
    BY <1>1
  <2> QED BY <1>1, <2>1 DEF Behind, Ordered
<1>4. Ordered(v)
  <2>1. \A j, k \in DOMAIN v : j < k => j + 1 < k + 1
    BY <1>1
  <2> QED BY <1>1, <1>3, <2>1 DEF Behind, Ordered
<1>5. ASSUME NEW c \in Clients, Gives(s[1], c), NEW k \in DOMAIN v PROVE ~Gives(v[k], c)
  <2>1. k + 1 # 1
    BY <1>1
  <2> QED BY <1>1, <1>5, <2>1 DEF Owes
<1>6. /\ IsSeq(v) /\ Owes(t, v, m) /\ Ordered(v) /\ Behind(v)
      /\ \A c \in Clients : Gives(s[1], c) => \A k \in DOMAIN v : ~Gives(v[k], c)
  BY <1>1, <1>2, <1>3, <1>4, <1>5
<1> QED BY <1>6 DEF v

\* A send, an unlocking or a wait comes before the others.
LEMMA OwesOne ==
    ASSUME NEW t, NEW m, NEW s, IsSeq(s), Owes(t, s, m), Ordered(s), Behind(s),
           NEW x, x[1] # "read", x[1] = "lock" => x[3] \in Sending,
           \A c \in Clients :
                Gives(x, c) => m[c] = t /\ \A k \in DOMAIN s : ~Gives(s[k], c)
    PROVE  IsSeq(<<x>> \o s) /\ Owes(t, <<x>> \o s, m) /\ Ordered(<<x>> \o s)
<1> DEFINE u == <<x>> \o s
<1> DEFINE q == <<x>>
<1>1. IsSeq(q) /\ Len(q) = 1 /\ DOMAIN q = {1} /\ q[1] = x
  <2>1. q \in Seq({x})
    OBVIOUS
  <2>2. IsSeq(q)
    BY <2>1 DEF IsSeq
  <2>3. Len(q) = 1 /\ DOMAIN q = {1} /\ q[1] = x
    OBVIOUS
  <2> QED BY <2>2, <2>3
<1>2. /\ IsSeq(u) /\ DOMAIN u \subseteq Nat /\ u[1] = x
      /\ \A k \in DOMAIN u : k = 1 \/ (k > 1 /\ k - 1 \in DOMAIN s /\ u[k] = s[k - 1])
  <2> HIDE DEF q
  <2> DEFINE w == q \o s
  <2>1. Joined(w, q, s)
    BY <1>1, ConcatElements
  <2>2. w = u
    BY DEF q
  <2> HIDE DEF w, u
  <2> QED BY <1>1, <2>1, <2>2 DEF Joined
<1> HIDE DEF u, q
<1>3. Owes(t, u, m)
  <2>1. ASSUME NEW c \in Clients, NEW k \in DOMAIN u, Gives(u[k], c)
        PROVE  m[c] = t
    BY <1>2, <2>1 DEF Owes
  <2>2. ASSUME NEW c \in Clients, NEW j \in DOMAIN u, NEW k \in DOMAIN u,
               Gives(u[j], c), Gives(u[k], c)
        PROVE  j = k
    <3>1. CASE j # 1 /\ k # 1
      <4>1. j - 1 = k - 1
        BY <1>2, <2>2, <3>1 DEF Owes
      <4> QED BY <1>2, <4>1
    <3> QED BY <1>2, <2>2, <3>1
  <2> QED BY <2>1, <2>2 DEF Owes
<1>4. Ordered(u)
  <2>1. ASSUME NEW k \in DOMAIN u, u[k][1] \in Sending \cup {"lock"} PROVE k = 1
    BY <1>2, <2>1 DEF Behind
  <2>2. ASSUME NEW j \in DOMAIN u, NEW k \in DOMAIN u, j < k, u[j][1] = "read"
        PROVE  u[k][1] \notin Owing
    <3>1. j # 1
      BY <1>2, <2>2
    <3>2. k # 1 /\ j - 1 < k - 1
      BY <1>2, <2>2, <3>1
    <3>3. j - 1 \in DOMAIN s /\ u[j] = s[j - 1] /\ k - 1 \in DOMAIN s /\ u[k] = s[k - 1]
      BY <1>2, <3>1, <3>2
    <3> QED BY <2>2, <3>2, <3>3 DEF Ordered
  <2> QED BY <1>2, <2>1, <2>2 DEF Ordered
<1>5. IsSeq(u) /\ Owes(t, u, m) /\ Ordered(u)
  BY <1>2, <1>3, <1>4
<1> QED BY <1>5 DEF u

-----------------------------------------------------------------------------
(* The kinds of step of a thread, by what it does to its steps and to the  *)
(* mutexes.                                                                *)

\* It goes on with the steps of a function.
GoesOn(t) ==
    /\ todo[t] # << >> /\ todo[t][1][1] \notin Owing
    /\ \E r : IsSeq(r) /\ Calm(r) /\ Then(t, r)
    /\ UNCHANGED mutex

\* It begins to wait for the mutex of a client that is connected.
Queues(t) ==
    /\ todo[t] # << >> /\ todo[t][1][1] \notin Owing
    /\ \E c \in Clients, what \in Sending :
        client[c].connected /\ Then(t, << <<"lock", c, what>> >>)
    /\ UNCHANGED <<client, mutex>>

\* It takes a mutex that is free, to send.
Takes(t) ==
    /\ todo[t] # << >> /\ todo[t][1][1] \notin Owing
    /\ \E c \in Clients, what \in Sending :
        /\ mutex[c] = Nobody /\ mutex' = [mutex EXCEPT ![c] = t]
        /\ Then(t, << <<what, c>> >>)

GivesBack(t) ==
    /\ todo[t] # << >>
    /\ \E c \in Clients :
        Gives(todo[t][1], c) /\ mutex' = [mutex EXCEPT ![c] = Nobody]
    /\ Then(t, << >>)

\* A send fails: the mutex is given back behind the steps that follow from it.
Fails(t) ==
    /\ todo[t] # << >>
    /\ \E c \in Clients :
        /\ Gives(todo[t][1], c)
        /\ \E r : IsSeq(r) /\ Calm(r) /\ Then(t, r \o << <<"unlock", c>> >>)
        /\ seen'.broken \/ ~client'[c].connected
    /\ UNCHANGED mutex

Stops(t) ==
    /\ todo[t] # << >> /\ todo[t][1][1] = "read"
    /\ todo' = [todo EXCEPT ![t] = << >>]
    /\ UNCHANGED mutex

\* It starts the thread of a client.
Forks(t) ==
    /\ todo[t] # << >> /\ todo[t][1][1] \notin Owing
    /\ \E c \in Fast \ {t} :
        /\ todo[c] = << >>
        /\ todo' = [todo EXCEPT ![t] = Tail(@), ![c] = FastThread(c)]
    /\ UNCHANGED mutex

\* The main loop begins a handler.
Begins(t) ==
    /\ todo[t] = << >>
    /\ \E r : IsSeq(r) /\ Calm(r) /\ todo' = [todo EXCEPT ![t] = r]
    /\ UNCHANGED mutex

Idles == UNCHANGED <<todo, mutex>>

Kind(t) ==
    \/ GoesOn(t) \/ Queues(t) \/ Takes(t) \/ GivesBack(t) \/ Fails(t)
    \/ Stops(t) \/ Forks(t) \/ Begins(t) \/ Idles

\* What follows for unlockings and for waits.
Effects ==
    /\ \A t \in Threads, c \in Clients :
        Unlocks(t, c)' => Unlocks(t, c) \/ seen'.broken \/ ~client'[c].connected
    /\ \A t \in Threads :
        todo'[t] # todo[t] => \A c \in Clients : Waits(t, c)' => client'[c].connected

\* The steps of one thread change.
LEMMA OneChanges ==
    ASSUME MutexInv, Held, NEW t \in Threads, NEW s, todo' = [todo EXCEPT ![t] = s],
           IsSeq(s), Ordered(s), Owes(t, s, mutex'),
           mutex' \in [Clients -> Threads \cup {Nobody}],
           \A u \in Threads \ {t} : Owes(u, todo[u], mutex'),
           \A u \in Threads \ {t}, c \in Clients : mutex'[c] = u => mutex[c] = u,
           \A c \in Clients : mutex'[c] = t => \E k \in DOMAIN s : Gives(s[k], c),
           \A c \in Clients, k \in DOMAIN s :
                s[k][1] = "unlock" /\ s[k][2] = c =>
                    Unlocks(t, c) \/ seen'.broken \/ ~client'[c].connected,
           \A c \in Clients :
                s # << >> /\ s[1][1] = "lock" /\ s[1][2] = c => client'[c].connected
    PROVE  MutexInv' /\ Held' /\ Effects
<1>1. /\ todo' = [u \in Threads |-> IF u = t THEN s ELSE todo[u]]
      /\ todo'[t] = s /\ \A u \in Threads : u # t => todo'[u] = todo[u]
  BY DEF MutexInv
<1>2. todo' = [u \in Threads |-> todo'[u]]
  BY <1>1
<1>3. MutexInv'
  BY <1>1, <1>2 DEF MutexInv
<1>4. Held'
  BY <1>1 DEF Held
<1>5. ASSUME NEW u \in Threads, NEW c \in Clients, Unlocks(u, c)'
      PROVE  Unlocks(u, c) \/ seen'.broken \/ ~client'[c].connected
  BY <1>1, <1>5 DEF Unlocks
<1>6. ASSUME NEW u \in Threads, todo'[u] # todo[u], NEW c \in Clients, Waits(u, c)'
      PROVE  client'[c].connected
  BY <1>1, <1>6 DEF Waits, IsNext
<1> QED BY <1>3, <1>4, <1>5, <1>6 DEF Effects

\* What a thread holds when its next step, which gives none of them back, is made.
LEMMA HeldBehind ==
    ASSUME MutexInv, Held, NEW t \in Threads, todo[t] # << >>, NEW c \in Clients,
           mutex[c] = t, ~Gives(todo[t][1], c)
    PROVE  \E k \in DOMAIN Tail(todo[t]) : Gives(Tail(todo[t])[k], c)
<1>1. PICK k \in DOMAIN todo[t] : Gives(todo[t][k], c)
  BY DEF Held
<1>2. k # 1
  BY <1>1
<1>3. k - 1 \in DOMAIN Tail(todo[t]) /\ Tail(todo[t])[k - 1] = todo[t][k]
  BY <1>2, TailElements DEF MutexInv
<1> QED BY <1>1, <1>3

LEMMA UnlocksBehind ==
    ASSUME MutexInv, NEW t \in Threads, todo[t] # << >>, NEW c, NEW k \in DOMAIN Tail(todo[t]),
           Tail(todo[t])[k][1] = "unlock", Tail(todo[t])[k][2] = c
    PROVE  Unlocks(t, c)
<1>1. k + 1 \in DOMAIN todo[t] /\ Tail(todo[t])[k] = todo[t][k + 1]
  BY TailElements DEF MutexInv
<1> QED BY <1>1 DEF Unlocks

\* s owes what the thread t owes, but for what its next step gives back.
Inherits(t, s) ==
    /\ IsSeq(s) /\ Ordered(s) /\ Owes(t, s, mutex)
    /\ \A c \in Clients :
        mutex[c] = t /\ ~Gives(todo[t][1], c) => \E k \in DOMAIN s : Gives(s[k], c)
    /\ \A c \in Clients :
        Gives(todo[t][1], c) => \A k \in DOMAIN s : ~Gives(s[k], c)
    /\ \A c \in Clients, k \in DOMAIN s :
        s[k][1] = "unlock" /\ s[k][2] = c => Unlocks(t, c)
    /\ s # << >> => s[1][1] # "lock"

LEMMA PushedBefore ==
    ASSUME MutexInv, Held, NEW t \in Threads, todo[t] # << >>, NEW r, IsSeq(r), Calm(r)
    PROVE  Inherits(t, r \o Tail(todo[t]))
<1> DEFINE v == Tail(todo[t])
<1>1. /\ IsSeq(v) /\ Owes(t, v, mutex) /\ Ordered(v) /\ Behind(v)
      /\ \A c \in Clients :
            Gives(todo[t][1], c) => \A k \in DOMAIN v : ~Gives(v[k], c)
  BY OwesTail DEF MutexInv
<1>2. \A c \in Clients :
          mutex[c] = t /\ ~Gives(todo[t][1], c) => \E k \in DOMAIN v : Gives(v[k], c)
  BY HeldBehind
<1>3. \A c, k : k \in DOMAIN v /\ v[k][1] = "unlock" /\ v[k][2] = c => Unlocks(t, c)
  BY UnlocksBehind
<1> HIDE DEF v
<1> DEFINE s == r \o v
<1>4. Joined(s, r, v)
  BY <1>1, ConcatElements
<1>5. IsSeq(s) /\ Owes(t, s, mutex) /\ Ordered(s) /\ Behind(s)
  BY <1>1, OwesBefore
<1> HIDE DEF s
<1>7. /\ \A k \in DOMAIN v : \E j \in DOMAIN s : s[j] = v[k]
      /\ \A k \in DOMAIN s : s[k][1] \in Notable => \E j \in DOMAIN v : s[k] = v[j]
  BY <1>4 DEF Calm, Joined
<1>8. \A c \in Clients :
          mutex[c] = t /\ ~Gives(todo[t][1], c) => \E k \in DOMAIN s : Gives(s[k], c)
  BY <1>2, <1>7
<1>9. \A c, k : k \in DOMAIN s /\ s[k][1] = "unlock" /\ s[k][2] = c => Unlocks(t, c)
  BY <1>3, <1>7 DEF Notable, Owing
<1>10. ASSUME s # << >> PROVE s[1][1] # "lock"
  <2>1. 1 \in DOMAIN s
    BY <1>5, <1>10, TailElements
  <2> QED BY <1>5, <2>1 DEF Behind
<1>11. ASSUME NEW c \in Clients, Gives(todo[t][1], c), NEW k \in DOMAIN s
       PROVE  ~Gives(s[k], c)
  BY <1>1, <1>7, <1>11 DEF Gives, Notable
<1>12. Inherits(t, s)
  BY <1>5, <1>8, <1>9, <1>10, <1>11 DEF Inherits
<1> QED BY <1>12 DEF s, v

LEMMA GoesOnKeeps ==
    ASSUME MutexInv, Held, NEW t \in Threads, GoesOn(t)
    PROVE  MutexInv' /\ Held' /\ Effects
<1>1. PICK r : IsSeq(r) /\ Calm(r) /\ Then(t, r)
  BY DEF GoesOn
<1> DEFINE s == r \o Tail(todo[t])
<1>2. todo' = [todo EXCEPT ![t] = s]
  BY <1>1 DEF Then, MutexInv
<1>3. Inherits(t, s)
  BY <1>1, PushedBefore DEF GoesOn
<1>4. mutex' = mutex /\ \A c : ~Gives(todo[t][1], c)
  BY DEF GoesOn, Gives
<1> HIDE DEF s
<1> QED BY <1>2, <1>3, <1>4, OneChanges DEF MutexInv, Inherits

LEMMA GivesBackKeeps ==
    ASSUME MutexInv, Held, NEW t \in Threads, GivesBack(t)
    PROVE  MutexInv' /\ Held' /\ Effects
<1>1. PICK c \in Clients :
          Gives(todo[t][1], c) /\ mutex' = [mutex EXCEPT ![c] = Nobody] /\ Then(t, << >>)
  BY DEF GivesBack
<1> DEFINE s == << >> \o Tail(todo[t])
<1>2. todo' = [todo EXCEPT ![t] = s]
  BY <1>1 DEF Then, MutexInv
<1>3. Inherits(t, s) /\ \A k \in DOMAIN s : ~Gives(s[k], c)
  <2>1. Inherits(t, s)
    BY CalmNone, PushedBefore DEF GivesBack
  <2> HIDE DEF s
  <2> QED BY <1>1, <2>1 DEF Inherits
<1>4. /\ mutex' \in [Clients -> Threads \cup {Nobody}]
      /\ mutex'[c] = Nobody /\ \A d \in Clients : d # c => mutex'[d] = mutex[d]
  BY <1>1 DEF MutexInv
<1>5. mutex[c] = t
  <2>1. 1 \in DOMAIN todo[t]
    BY TailElements DEF MutexInv, GivesBack
  <2> QED BY <1>1, <2>1 DEF MutexInv, Owes
<1> HIDE DEF s
<1>6. Owes(t, s, mutex')
  BY <1>3, <1>4 DEF Owes, Inherits
<1>7. \A u \in Threads \ {t} : Owes(u, todo[u], mutex')
  BY <1>4, <1>5 DEF MutexInv, Owes
<1>8. \A u \in Threads : u # Nobody
  BY ClientsAssumption DEF Nobody, Threads, Clients, Main
<1>9. \A d \in Clients, u \in Threads : mutex'[d] = u => d # c /\ mutex[d] = u
  BY <1>4, <1>8
<1>10. \A d \in Clients : d # c => ~Gives(todo[t][1], d)
  BY <1>1 DEF Gives
<1> QED BY <1>2, <1>3, <1>4, <1>6, <1>7, <1>9, <1>10, OneChanges DEF Inherits

LEMMA FailsKeeps ==
    ASSUME MutexInv, Held, NEW t \in Threads, Fails(t)
    PROVE  MutexInv' /\ Held' /\ Effects
<1>1. PICK c \in Clients :
          /\ Gives(todo[t][1], c)
          /\ \E r : IsSeq(r) /\ Calm(r) /\ Then(t, r \o << <<"unlock", c>> >>)
          /\ seen'.broken \/ ~client'[c].connected
  BY DEF Fails
<1>2. PICK r : IsSeq(r) /\ Calm(r) /\ Then(t, r \o << <<"unlock", c>> >>)
  BY <1>1
<1> DEFINE v == << >> \o Tail(todo[t])
           x == <<"unlock", c>>
           w == <<x>> \o v
           s == r \o w
<1>3. Inherits(t, v) /\ \A k \in DOMAIN v : ~Gives(v[k], c)
  <2>1. Inherits(t, v)
    BY CalmNone, PushedBefore DEF Fails
  <2> HIDE DEF v
  <2> QED BY <1>1, <2>1 DEF Inherits
<1>4. v = Tail(todo[t])
  <2>1. IsSeq(Tail(todo[t]))
    BY TailElements DEF MutexInv, Fails
  <2>2. PICK S : Tail(todo[t]) \in Seq(S)
    BY <2>1 DEF IsSeq
  <2> QED BY <2>2
<1>5. Behind(v)
  BY <1>4, OwesTail DEF MutexInv, Fails
<1>6. mutex[c] = t
  <2>1. 1 \in DOMAIN todo[t]
    BY TailElements DEF MutexInv, Fails
  <2> QED BY <1>1, <2>1 DEF MutexInv, Owes
<1>7. x[1] = "unlock" /\ x[2] = c
  OBVIOUS
<1>8. (r \o <<x>>) \o v = s
  <2>1. PICK R : r \in Seq(R)
    BY <1>2 DEF IsSeq
  <2>2. PICK S : v \in Seq(S)
    BY <1>3 DEF IsSeq, Inherits
  <2> HIDE DEF v, x
  <2> DEFINE T == R \cup S \cup {x}
  <2>3. r \in Seq(T) /\ v \in Seq(T) /\ <<x>> \in Seq(T)
    BY <2>1, <2>2
  <2> HIDE DEF T
  <2> QED BY <2>3
<1>9. todo' = [todo EXCEPT ![t] = s]
  BY <1>2, <1>4, <1>8 DEF Then, MutexInv
<1> HIDE DEF v
<1>10. IsSeq(w) /\ Owes(t, w, mutex) /\ Ordered(w)
  <2>1. \A d \in Clients : Gives(x, d) => d = c
    BY <1>7 DEF Gives
  <2>2. x[1] # "read" /\ x[1] # "lock"
    BY <1>7
  <2> HIDE DEF x
  <2>3. IsSeq(v) /\ Owes(t, v, mutex) /\ Ordered(v)
    BY <1>3 DEF Inherits
  <2> QED BY <1>3, <1>5, <1>6, <2>1, <2>2, <2>3, OwesOne
<1>11. Joined(w, <<x>>, v) /\ w[1] = x /\ 1 \in DOMAIN w /\ Len(<<x>>) = 1 /\ DOMAIN <<x>> = {1}
  <2> DEFINE q == <<x>>
  <2>1. Len(q) = 1 /\ DOMAIN q = {1} /\ q[1] = x
    BY DEF x
  <2>2. IsSeq(q)
    BY CalmSeq
  <2>3. Joined(w, q, v)
    BY <1>3, <2>2, ConcatElements DEF Inherits
  <2> HIDE DEF q, w
  <2>4. w[1] = x /\ 1 \in DOMAIN w
    BY <2>1, <2>3 DEF Joined
  <2> QED BY <2>1, <2>3, <2>4 DEF q
<1> HIDE DEF w
<1>12. Behind(w)
  <2>1. \A k \in DOMAIN w : k = 1 \/ (k - 1 \in DOMAIN v /\ w[k] = v[k - 1])
    BY <1>11 DEF Joined
  <2> QED BY <1>5, <1>7, <1>11, <2>1 DEF Behind, Sending
<1>13. IsSeq(s) /\ Owes(t, s, mutex) /\ Ordered(s) /\ Behind(s)
  BY <1>2, <1>10, <1>12, OwesBefore
<1>14. Joined(s, r, w)
  BY <1>2, <1>10, ConcatElements
<1> HIDE DEF s
<1>15. /\ \E j \in DOMAIN s : s[j] = x
       /\ \A k \in DOMAIN v : \E j \in DOMAIN s : s[j] = v[k]
       /\ \A k \in DOMAIN s :
            s[k][1] \in Notable => s[k] = x \/ \E j \in DOMAIN v : s[k] = v[j]
  <2>1. /\ \A k \in DOMAIN w : \E j \in DOMAIN s : s[j] = w[k]
        /\ \A k \in DOMAIN s : s[k][1] \in Notable => \E j \in DOMAIN w : s[k] = w[j]
    BY <1>2, <1>14 DEF Calm, Joined
  <2>2. /\ \A k \in DOMAIN v : \E j \in DOMAIN w : w[j] = v[k]
        /\ \A k \in DOMAIN w : w[k] = x \/ \E j \in DOMAIN v : w[k] = v[j]
    BY <1>11 DEF Joined
  <2> HIDE DEF x
  <2> QED BY <1>11, <2>1, <2>2
<1>16. \A d \in Clients : mutex[d] = t => \E k \in DOMAIN s : Gives(s[k], d)
  <2>1. Gives(x, c)
    BY <1>7 DEF Gives, Owing
  <2>2. \A d \in Clients : d # c => ~Gives(todo[t][1], d)
    BY <1>1 DEF Gives
  <2> QED BY <1>3, <1>15, <2>1, <2>2 DEF Inherits
<1>17. ASSUME NEW d \in Clients, NEW k \in DOMAIN s, s[k][1] = "unlock", s[k][2] = d
       PROVE  Unlocks(t, d) \/ seen'.broken \/ ~client'[d].connected
  <2>1. s[k] = x \/ \E j \in DOMAIN v : s[k] = v[j]
    BY <1>15, <1>17 DEF Notable, Owing
  <2>2. CASE s[k] = x
    BY <1>1, <1>7, <1>17, <2>2
  <2>3. CASE \E j \in DOMAIN v : s[k] = v[j]
    BY <1>3, <1>17, <2>3 DEF Inherits
  <2> QED BY <2>1, <2>2, <2>3
<1>18. s # << >> => s[1][1] # "lock"
  <2>1. s # << >> => 1 \in DOMAIN s
    BY <1>13, TailElements
  <2> QED BY <1>13, <2>1 DEF Behind
<1>19. mutex' = mutex
  BY DEF Fails
<1> QED BY <1>9, <1>13, <1>16, <1>17, <1>18, <1>19, OneChanges DEF MutexInv

\* w is v with x before it.
Fronted(w, x, v) ==
    /\ IsSeq(w) /\ 1 \in DOMAIN w /\ w[1] = x
    /\ \A k \in DOMAIN v : \E j \in DOMAIN w : w[j] = v[k]
    /\ \A k \in DOMAIN w : w[k] = x \/ \E j \in DOMAIN v : w[k] = v[j]

LEMMA FrontElements ==
    ASSUME NEW x, NEW v, IsSeq(v)
    PROVE  Fronted(<<x>> \o v, x, v)
<1> DEFINE q == <<x>>
           w == q \o v
<1>1. Len(q) = 1 /\ DOMAIN q = {1} /\ q[1] = x
  OBVIOUS
<1>2. IsSeq(q)
  BY CalmSeq
<1> HIDE DEF q
<1>3. Joined(w, q, v)
  BY <1>2, ConcatElements
<1> HIDE DEF w
<1>4. IsSeq(w) /\ 1 \in DOMAIN w /\ w[1] = x
  BY <1>1, <1>3 DEF Joined
<1>5. \A k \in DOMAIN v : \E j \in DOMAIN w : w[j] = v[k]
  BY <1>3 DEF Joined
<1>6. \A k \in DOMAIN w : w[k] = x \/ \E j \in DOMAIN v : w[k] = v[j]
  BY <1>1, <1>3 DEF Joined
<1>7. Fronted(w, x, v)
  BY <1>4, <1>5, <1>6 DEF Fronted
<1> QED BY <1>7 DEF w, q

LEMMA QueuesKeeps ==
    ASSUME MutexInv, Held, NEW t \in Threads, Queues(t)
    PROVE  MutexInv' /\ Held' /\ Effects
<1>1. PICK c \in Clients, what \in Sending :
          client[c].connected /\ Then(t, << <<"lock", c, what>> >>)
  BY DEF Queues
<1> DEFINE x == <<"lock", c, what>>
           v == << >> \o Tail(todo[t])
           s == <<x>> \o Tail(todo[t])
<1>2. todo' = [todo EXCEPT ![t] = s]
  BY <1>1 DEF Then, MutexInv
<1>3. Inherits(t, v) /\ v = Tail(todo[t])
  <2>1. Inherits(t, v)
    BY CalmNone, PushedBefore DEF Queues
  <2>2. IsSeq(Tail(todo[t]))
    BY TailElements DEF MutexInv, Queues
  <2>3. PICK S : Tail(todo[t]) \in Seq(S)
    BY <2>2 DEF IsSeq
  <2>4. v = Tail(todo[t])
    BY <2>3
  <2> QED BY <2>1, <2>4
<1>4. Behind(v)
  BY <1>3, OwesTail DEF MutexInv, Queues
<1>5. x[1] = "lock" /\ x[2] = c /\ x[3] = what
  OBVIOUS
<1>6. s = <<x>> \o v
  BY <1>3
<1> HIDE DEF v, x
<1>7. IsSeq(s) /\ Owes(t, s, mutex) /\ Ordered(s)
  <2>1. IsSeq(v) /\ Owes(t, v, mutex) /\ Ordered(v)
    BY <1>3 DEF Inherits
  <2>2. x[1] # "read" /\ x[3] \in Sending /\ \A d : ~Gives(x, d)
    BY <1>5 DEF Gives, Owing, Sending
  <2>3. IsSeq(<<x>> \o v) /\ Owes(t, <<x>> \o v, mutex) /\ Ordered(<<x>> \o v)
    BY <1>4, <2>1, <2>2, OwesOne
  <2> QED BY <1>6, <2>3
<1>8. /\ s[1] = x
      /\ \A k \in DOMAIN v : \E j \in DOMAIN s : s[j] = v[k]
      /\ \A k \in DOMAIN s : s[k] = x \/ \E j \in DOMAIN v : s[k] = v[j]
  <2>1. IsSeq(v)
    BY <1>3 DEF Inherits
  <2>2. Fronted(<<x>> \o v, x, v)
    BY <2>1, FrontElements
  <2>3. Fronted(s, x, v)
    BY <1>6, <2>2
  <2> HIDE DEF s
  <2> QED BY <2>3 DEF Fronted
<1> HIDE DEF s
<1>9. \A d \in Clients : ~Gives(todo[t][1], d)
  BY DEF Queues, Gives
<1>10. mutex' = mutex /\ client' = client
  BY DEF Queues
<1>11. \A d \in Clients : mutex'[d] = t => \E k \in DOMAIN s : Gives(s[k], d)
  BY <1>3, <1>8, <1>9, <1>10 DEF Inherits
<1>12. \A d \in Clients, k \in DOMAIN s : s[k][1] = "unlock" /\ s[k][2] = d => Unlocks(t, d)
  BY <1>3, <1>5, <1>8 DEF Inherits
<1>13. \A d \in Clients : s[1][1] = "lock" /\ s[1][2] = d => client'[d].connected
  BY <1>1, <1>5, <1>8, <1>10
<1> QED BY <1>2, <1>7, <1>10, <1>11, <1>12, <1>13, OneChanges DEF MutexInv

LEMMA TakesKeeps ==
    ASSUME MutexInv, Held, NEW t \in Threads, Takes(t)
    PROVE  MutexInv' /\ Held' /\ Effects
<1>1. PICK c \in Clients, what \in Sending :
          /\ mutex[c] = Nobody /\ mutex' = [mutex EXCEPT ![c] = t]
          /\ Then(t, << <<what, c>> >>)
  BY DEF Takes
<1> DEFINE x == <<what, c>>
           v == << >> \o Tail(todo[t])
           s == <<x>> \o Tail(todo[t])
<1>2. todo' = [todo EXCEPT ![t] = s]
  BY <1>1 DEF Then, MutexInv
<1>3. Inherits(t, v) /\ v = Tail(todo[t])
  <2>1. Inherits(t, v)
    BY CalmNone, PushedBefore DEF Takes
  <2>2. IsSeq(Tail(todo[t]))
    BY TailElements DEF MutexInv, Takes
  <2>3. PICK S : Tail(todo[t]) \in Seq(S)
    BY <2>2 DEF IsSeq
  <2>4. v = Tail(todo[t])
    BY <2>3
  <2> QED BY <2>1, <2>4
<1>4. Behind(v)
  <2>1. Behind(Tail(todo[t]))
    BY OwesTail DEF MutexInv, Takes
  <2> HIDE DEF v
  <2> QED BY <1>3, <2>1
<1>5. x[1] = what /\ x[2] = c
  OBVIOUS
<1>6. s = <<x>> \o v
  BY <1>3
<1>7. /\ mutex' \in [Clients -> Threads \cup {Nobody}]
      /\ mutex'[c] = t /\ \A d \in Clients : d # c => mutex'[d] = mutex[d]
  BY <1>1 DEF MutexInv
<1>8. \A u \in Threads : u # Nobody
  BY ClientsAssumption DEF Nobody, Threads, Clients, Main
<1> HIDE DEF v, x
<1>9. ASSUME NEW u \in Threads, NEW w, Owes(u, w, mutex)
      PROVE  Owes(u, w, mutex') /\ \A k \in DOMAIN w : ~Gives(w[k], c)
  BY <1>1, <1>7, <1>8, <1>9 DEF Owes
<1>10. IsSeq(s) /\ Owes(t, s, mutex') /\ Ordered(s)
  <2>1. IsSeq(v) /\ Owes(t, v, mutex') /\ Ordered(v) /\ \A k \in DOMAIN v : ~Gives(v[k], c)
    BY <1>3, <1>9 DEF Inherits
  <2>2. x[1] # "read" /\ x[1] # "lock" /\ \A d : Gives(x, d) => d = c
    BY <1>5 DEF Gives, Owing, Sending
  <2>3. IsSeq(<<x>> \o v) /\ Owes(t, <<x>> \o v, mutex') /\ Ordered(<<x>> \o v)
    BY <1>4, <1>7, <2>1, <2>2, OwesOne
  <2> QED BY <1>6, <2>3
<1>11. /\ s[1] = x /\ 1 \in DOMAIN s
       /\ \A k \in DOMAIN v : \E j \in DOMAIN s : s[j] = v[k]
       /\ \A k \in DOMAIN s : s[k] = x \/ \E j \in DOMAIN v : s[k] = v[j]
  <2>1. IsSeq(v)
    BY <1>3 DEF Inherits
  <2>2. Fronted(<<x>> \o v, x, v)
    BY <2>1, FrontElements
  <2>3. Fronted(s, x, v)
    BY <1>6, <2>2
  <2> HIDE DEF s
  <2> QED BY <2>3 DEF Fronted
<1> HIDE DEF s
<1>12. \A d \in Clients : ~Gives(todo[t][1], d)
  BY DEF Takes, Gives
<1>13. \A d \in Clients : mutex'[d] = t => \E k \in DOMAIN s : Gives(s[k], d)
  <2>1. Gives(x, c)
    BY <1>5 DEF Gives, Owing
  <2> QED BY <1>3, <1>7, <1>11, <1>12, <2>1 DEF Inherits
<1>14. \A d \in Clients, k \in DOMAIN s : s[k][1] = "unlock" /\ s[k][2] = d => Unlocks(t, d)
  <2>1. x[1] # "unlock"
    BY <1>5 DEF Sending
  <2> QED BY <1>3, <1>11, <2>1 DEF Inherits
<1>15. s[1][1] # "lock"
  BY <1>5, <1>11 DEF Sending
<1>16. \A u \in Threads \ {t} : Owes(u, todo[u], mutex')
  BY <1>9 DEF MutexInv
<1>17. \A u \in Threads \ {t}, d \in Clients : mutex'[d] = u => mutex[d] = u
  BY <1>7
<1> QED BY <1>2, <1>7, <1>10, <1>13, <1>14, <1>15, <1>16, <1>17, OneChanges

\* A thread that stops where it reads holds no mutex.
LEMMA StopsKeeps ==
    ASSUME MutexInv, Held, NEW t \in Threads, Stops(t)
    PROVE  MutexInv' /\ Held' /\ Effects
<1>1. \A c \in Clients : mutex[c] # t
  <2>1. SUFFICES ASSUME NEW c \in Clients, mutex[c] = t PROVE FALSE
    OBVIOUS
  <2>2. PICK k \in DOMAIN todo[t] : Gives(todo[t][k], c)
    BY <2>1 DEF Held
  <2>3. 1 \in DOMAIN todo[t] /\ DOMAIN todo[t] \subseteq Nat \ {0}
    BY TailElements DEF MutexInv, Stops
  <2>4. k # 1
    BY <2>2 DEF Stops, Gives, Owing, Sending
  <2>5. 1 < k
    BY <2>3, <2>4
  <2> QED BY <2>2, <2>3, <2>5 DEF MutexInv, Ordered, Stops, Gives
<1>2. Owes(t, << >>, mutex) /\ Ordered(<< >>)
  BY DEF Owes, Ordered
<1> QED BY <1>1, <1>2, CalmNone, OneChanges DEF MutexInv, Stops

LEMMA BeginsKeeps ==
    ASSUME MutexInv, Held, NEW t \in Threads, Begins(t)
    PROVE  MutexInv' /\ Held' /\ Effects
<1>1. PICK r : IsSeq(r) /\ Calm(r) /\ todo' = [todo EXCEPT ![t] = r]
  BY DEF Begins
<1>2. \A c \in Clients : mutex[c] # t
  BY DEF Held, Begins
<1>3. \A k \in DOMAIN r : r[k][1] \notin Sending \cup {"lock", "unlock", "read"}
  BY <1>1 DEF Calm, Notable, Owing
<1>4. Owes(t, r, mutex) /\ Ordered(r)
  BY <1>3 DEF Owes, Ordered, Gives, Owing
<1>5. r # << >> => r[1][1] # "lock"
  BY <1>1, <1>3, TailElements
<1> QED BY <1>1, <1>2, <1>3, <1>4, <1>5, OneChanges DEF MutexInv, Begins

LEMMA ForksKeeps ==
    ASSUME MutexInv, Held, NEW t \in Threads, Forks(t)
    PROVE  MutexInv' /\ Held' /\ Effects
<1>1. PICK c \in Fast \ {t} :
          /\ todo[c] = << >>
          /\ todo' = [todo EXCEPT ![t] = Tail(@), ![c] = FastThread(c)]
  BY DEF Forks
<1> DEFINE v == << >> \o Tail(todo[t])
           r == FastThread(c)
<1>2. Inherits(t, v) /\ v = Tail(todo[t])
  <2>1. Inherits(t, v)
    BY CalmNone, PushedBefore DEF Forks
  <2>2. IsSeq(Tail(todo[t]))
    BY TailElements DEF MutexInv, Forks
  <2>3. PICK S : Tail(todo[t]) \in Seq(S)
    BY <2>2 DEF IsSeq
  <2>4. v = Tail(todo[t])
    BY <2>3
  <2> QED BY <2>1, <2>4
<1>3. c \in Threads /\ c \in Clients /\ c # t
  BY <1>1, ClientsAssumption DEF Threads
<1>4. IsSeq(r) /\ \A k \in DOMAIN r : r[k][1] \in {"done", "read", "post"}
  BY <1>3, FastSteps
<1> HIDE DEF r
<1>5. /\ todo' = [u \in Threads |-> IF u = c THEN r ELSE IF u = t THEN v ELSE todo[u]]
      /\ todo'[c] = r /\ todo'[t] = v
      /\ \A u \in Threads : u # c /\ u # t => todo'[u] = todo[u]
  <2>1. todo' = [todo EXCEPT ![t] = v, ![c] = r]
    BY <1>1, <1>2 DEF r
  <2> HIDE DEF v
  <2> QED BY <1>3, <2>1 DEF MutexInv
<1> HIDE DEF v
<1>6. todo' = [u \in Threads |-> todo'[u]]
  BY <1>5
<1>7. Owes(c, r, mutex) /\ Ordered(r)
  BY <1>4 DEF Owes, Ordered, Gives, Owing, Sending
<1>8. mutex' = mutex
  BY DEF Forks
<1>9. MutexInv'
  <2>1. ASSUME NEW u \in Threads
        PROVE  IsSeq(todo'[u]) /\ Owes(u, todo'[u], mutex') /\ Ordered(todo'[u])
    <3>1. CASE u = c
      BY <1>4, <1>5, <1>7, <1>8, <3>1
    <3>2. CASE u = t
      BY <1>2, <1>5, <1>8, <3>2 DEF Inherits
    <3>3. CASE u # c /\ u # t
      BY <1>5, <1>8, <3>3 DEF MutexInv
    <3> QED BY <3>1, <3>2, <3>3
  <2> QED BY <1>6, <1>8, <2>1 DEF MutexInv
<1>10. Held'
  <2>1. SUFFICES ASSUME NEW d \in Clients, NEW u \in Threads, mutex[d] = u
                 PROVE  \E k \in DOMAIN todo'[u] : Gives(todo'[u][k], d)
    BY <1>8 DEF Held
  <2>2. u # c
    BY <1>1, <2>1 DEF Held
  <2>3. CASE u = t
    BY <1>2, <1>5, <2>1, <2>3 DEF Inherits, Forks, Gives
  <2>4. CASE u # t
    BY <1>5, <2>1, <2>2, <2>4 DEF Held
  <2> QED BY <2>3, <2>4
<1>11. Effects
  <2>1. ASSUME NEW u \in Threads, NEW d \in Clients, Unlocks(u, d)' PROVE Unlocks(u, d)
    <3>1. PICK k \in DOMAIN todo'[u] : todo'[u][k][1] = "unlock" /\ todo'[u][k][2] = d
      BY <2>1 DEF Unlocks
    <3>2. u # c
      BY <1>4, <1>5, <3>1
    <3>3. CASE u = t
      BY <1>2, <1>5, <3>1, <3>3 DEF Inherits
    <3>4. CASE u # t
      BY <1>5, <3>1, <3>2, <3>4 DEF Unlocks
    <3> QED BY <3>3, <3>4
  <2>2. ASSUME NEW u \in Threads, todo'[u] # todo[u], NEW d \in Clients, Waits(u, d)'
        PROVE  FALSE
    <3>1. todo'[u] # << >> /\ todo'[u][1][1] = "lock"
      BY <2>2 DEF Waits, IsNext
    <3>2. u = c \/ u = t
      BY <1>5, <2>2
    <3>3. CASE u = c
      <4>1. 1 \in DOMAIN r
        BY <1>4, <1>5, <3>1, <3>3, TailElements
      <4> QED BY <1>4, <1>5, <3>1, <3>3, <4>1
    <3>4. CASE u = t
      BY <1>2, <1>5, <3>1, <3>4 DEF Inherits
    <3> QED BY <3>2, <3>3, <3>4
  <2> QED BY <2>1, <2>2 DEF Effects
<1> QED BY <1>9, <1>10, <1>11

LEMMA KindKeeps ==
    ASSUME MutexInv, Held, NEW t \in Threads, Kind(t)
    PROVE  MutexInv' /\ Held' /\ Effects
<1>1. CASE Idles
  BY <1>1 DEF Idles, MutexInv, Held, Effects, Unlocks
<1> QED BY <1>1, GoesOnKeeps, QueuesKeeps, TakesKeeps, GivesBackKeeps, FailsKeeps, StopsKeeps,
           ForksKeeps, BeginsKeeps DEF Kind

-----------------------------------------------------------------------------
(* Types, and what never comes back: a connection, and sends that do not   *)
(* fail.                                                                   *)

Later ==
    /\ \A c \in Clients : client'[c].connected => client[c].connected
    /\ seen.broken => seen'.broken
    /\ seen.crossed => seen'.crossed

LevelStep ==
    \/ UNCHANGED level
    \/ \E c \in Clients : \E q : IsSeq(q) /\ level' = [level EXCEPT ![c] = q]

ClientStep ==
    \/ UNCHANGED client
    \/ \E c \in Clients, r \in Record :
        /\ client' = [client EXCEPT ![c] = r]
        /\ r.connected => client[c].connected

SeenStep ==
    /\ seen' \in Seen
    /\ seen.broken => seen'.broken
    /\ seen.crossed => seen'.crossed

LEMMA TypeKeeps ==
    ASSUME TypeInv, LevelStep, ClientStep, SeenStep
    PROVE  TypeInv' /\ Later
<1>1. level' = [c \in Clients |-> level'[c]] /\ \A c \in Clients : IsSeq(level'[c])
  <2>1. CASE UNCHANGED level
    BY <2>1 DEF TypeInv
  <2>2. ASSUME NEW c \in Clients, NEW q, IsSeq(q), level' = [level EXCEPT ![c] = q]
        PROVE  <1>1!:
    <3>1. /\ level' = [d \in Clients |-> IF d = c THEN q ELSE level[d]]
          /\ \A d \in Clients : level'[d] = IF d = c THEN q ELSE level[d]
      BY <2>2 DEF TypeInv
    <3>2. level' = [d \in Clients |-> level'[d]]
      BY <3>1
    <3> QED BY <2>2, <3>1, <3>2 DEF TypeInv
  <2> QED BY <2>1, <2>2 DEF LevelStep
<1>2. /\ client' \in [Clients -> Record]
      /\ \A c \in Clients : client'[c].connected => client[c].connected
  <2>1. CASE UNCHANGED client
    BY <2>1 DEF TypeInv
  <2>2. ASSUME NEW c \in Clients, NEW r \in Record,
               client' = [client EXCEPT ![c] = r], r.connected => client[c].connected
        PROVE  <1>2!:
    <3>1. \A d \in Clients : client'[d] = IF d = c THEN r ELSE client[d]
      BY <2>2 DEF TypeInv
    <3> QED BY <2>2, <3>1 DEF TypeInv
  <2> QED BY <2>1, <2>2 DEF ClientStep
<1> QED BY <1>1, <1>2 DEF TypeInv, Later, SeenStep

LEMMA LostStep ==
    ASSUME TypeInv, NEW C \in SUBSET Clients, Lost(C)
    PROVE  SeenStep
BY DEF TypeInv, Lost, Seen, SeenStep

LEMMA SeenStays ==
    ASSUME TypeInv, UNCHANGED seen
    PROVE  SeenStep
BY DEF TypeInv, SeenStep

LEMMA Disconnected ==
    ASSUME TypeInv, NEW c \in Clients,
           client' = [client EXCEPT ![c].connected = FALSE]
    PROVE  ClientStep
<1> DEFINE r == [client[c] EXCEPT !.connected = FALSE]
<1>1. r \in Record /\ r.connected = FALSE
  BY DEF TypeInv, Record
<1>2. client' = [client EXCEPT ![c] = r]
  OBVIOUS
<1> HIDE DEF r
<1> QED BY <1>1, <1>2 DEF ClientStep

LEMMA StateSet ==
    ASSUME TypeInv, NEW c \in Clients, NEW m \in {"none", "busy", "success", "sent"},
           client' = [client EXCEPT ![c].mapsend = m]
    PROVE  ClientStep
<1> DEFINE r == [client[c] EXCEPT !.mapsend = m]
<1>1. r \in Record /\ r.connected = client[c].connected
  BY DEF TypeInv, Record
<1>2. client' = [client EXCEPT ![c] = r]
  OBVIOUS
<1> HIDE DEF r
<1> QED BY <1>1, <1>2 DEF ClientStep

LEMMA SpawnSet ==
    ASSUME TypeInv, NEW c \in Clients,
           \/ client' = [client EXCEPT ![c].spawned = TRUE]
           \/ client' = [client EXCEPT ![c].connected = FALSE, ![c].spawned = FALSE]
    PROVE  ClientStep
<1> DEFINE q == [client[c] EXCEPT !.spawned = TRUE]
           r == [client[c] EXCEPT !.connected = FALSE, !.spawned = FALSE]
<1>1. q \in Record /\ q.connected = client[c].connected /\ r \in Record /\ r.connected = FALSE
  BY DEF TypeInv, Record
<1>2. client' = [client EXCEPT ![c] = q] \/ client' = [client EXCEPT ![c] = r]
  BY DEF TypeInv
<1> HIDE DEF q, r
<1> QED BY <1>1, <1>2 DEF ClientStep

LEMMA SeqAppend ==
    ASSUME NEW s, NEW x, IsSeq(s)
    PROVE  IsSeq(Append(s, x))
<1>1. PICK S : s \in Seq(S)
  BY DEF IsSeq
<1>2. s \in Seq(S \cup {x})
  BY <1>1
<1>3. Append(s, x) \in Seq(S \cup {x})
  BY <1>2
<1> QED BY <1>3 DEF IsSeq

LEMMA LevelRewound ==
    ASSUME NEW t, NEW c \in Clients, Rewound(t, c)
    PROVE  LevelStep
BY CalmNone DEF Rewound, LevelStep

LEMMA ThreadTyped ==
    ASSUME TypeInv, NEW t \in Threads, ThreadStep(t)
    PROVE  TypeInv' /\ Later
<1>1. PICK c \in Clients :
          \/ Write(t, c) \/ Flush(t, c) \/ Lock(t, c) \/ Unlock(t, c)
          \/ SendsAll(t, c) \/ SendsPart(t, c) \/ SendFindsReset(t, c) \/ SendFails(t, c)
          \/ Down(t, c) \/ Spawned(t, c) \/ Start(t, c) \/ Read(t, c) \/ Done(t, c)
  BY DEF ThreadStep
<1>2. CASE UNCHANGED <<level, client, seen>>
  BY <1>2 DEF TypeInv, Later
<1>3. CASE Write(t, c)
  <2>1. PICK C \in SUBSET Clients : Lost(C)
    <3>1. (IF Race(c) \/ ~Fits(c) THEN {c} ELSE {}) \in SUBSET Clients
      OBVIOUS
    <3> QED BY <1>3, <3>1 DEF Write
  <2>2. LevelStep /\ ClientStep
    BY <1>3 DEF Write, LevelStep, ClientStep
  <2> QED BY <2>1, <2>2, LostStep, TypeKeeps
<1>4. CASE Flush(t, c) \/ Lock(t, c) \/ Unlock(t, c)
  BY <1>2, <1>4 DEF Flush, Lock, Unlock
<1>5. CASE SendsAll(t, c)
  <2>1. PICK C \in SUBSET Clients : Lost(C)
    <3>1. (IF Race(c) THEN {c} ELSE {}) \in SUBSET Clients
      OBVIOUS
    <3> QED BY <1>5, <3>1 DEF SendsAll
  <2>2. LevelStep /\ ClientStep
    BY <1>5, LevelRewound DEF SendsAll, ClientStep
  <2> QED BY <2>1, <2>2, LostStep, TypeKeeps
<1>6. CASE SendsPart(t, c)
  <2>1. Lost({c})
    BY <1>6 DEF SendsPart
  <2>2. LevelStep /\ ClientStep
    BY <1>6, LevelRewound DEF SendsPart, ClientStep
  <2> QED BY <2>1, <2>2, LostStep, TypeKeeps
<1>7. CASE SendFindsReset(t, c)
  <2>1. LevelStep /\ ClientStep
    BY <1>7, LevelRewound, Disconnected DEF SendFindsReset
  <2>2. SeenStep
    BY <1>7, SeenStays DEF SendFindsReset
  <2> QED BY <2>1, <2>2, TypeKeeps
<1>8. CASE SendFails(t, c)
  <2>1. LevelStep /\ ClientStep
    BY <1>8, LevelRewound DEF SendFails, ClientStep
  <2>2. SeenStep
    <3>1. seen' \in Seen /\ seen'.broken /\ (seen.crossed => seen'.crossed)
      BY <1>8 DEF SendFails, TypeInv, Seen
    <3> QED BY <3>1 DEF SeenStep
  <2> QED BY <2>1, <2>2, TypeKeeps
<1>9. CASE Down(t, c)
  <2>1. LevelStep /\ ClientStep
    BY <1>9, SpawnSet DEF Down, LevelStep
  <2>2. SeenStep
    <3> DEFINE x == seen.crossed \/ (client[c].spawned /\ t # Main)
    <3>1. seen' = [seen EXCEPT !.crossed = x] /\ x \in BOOLEAN /\ (seen.crossed => x = TRUE)
      BY <1>9 DEF Down
    <3> HIDE DEF x
    <3>2. seen' \in Seen /\ (seen.broken => seen'.broken)
      BY <3>1 DEF TypeInv, Seen
    <3>3. x = TRUE => seen'.crossed
      BY <3>1 DEF TypeInv, Seen
    <3> QED BY <3>1, <3>2, <3>3 DEF SeenStep
  <2> QED BY <2>1, <2>2, TypeKeeps
<1>10. CASE Spawned(t, c)
  <2>1. LevelStep /\ ClientStep /\ SeenStep
    BY <1>10, SpawnSet, SeenStays DEF Spawned, LevelStep
  <2> QED BY <2>1, TypeKeeps
<1>11. CASE Start(t, c)
  <2>1. ClientStep /\ SeenStep
    BY <1>11, SeenStays DEF Start, ClientStep
  <2>2. LevelStep
    <3> DEFINE e(k) == LET p == SetToSeq(Pos)[k] IN <<"piece", p, world[p]>>
               n == Cardinality(Pos)
    <3>1. UNCHANGED level \/ level' = [level EXCEPT ![c] = [k \in 1 .. n |-> e(k)]]
      BY <1>11 DEF Start
    <3>2. n \in Nat
      BY WorldAssumption, FS_CardinalityType
    <3> HIDE DEF e, n
    <3>3. [k \in 1 .. n |-> e(k)] \in Seq({e(k) : k \in 1 .. n})
      BY <3>2
    <3>4. IsSeq([k \in 1 .. n |-> e(k)])
      BY <3>3 DEF IsSeq
    <3> QED BY <3>1, <3>4 DEF LevelStep
  <2> QED BY <2>1, <2>2, TypeKeeps
<1>12. CASE Read(t, c)
  <2>1. ClientStep /\ SeenStep
    BY <1>12, SeenStays DEF Read, ClientStep
  <2>2. LevelStep
    <3>1. UNCHANGED level \/ \E x : level' = [level EXCEPT ![c] = Append(level[c], x)]
      BY <1>12 DEF Read
    <3>2. \A x : IsSeq(Append(level[c], x))
      BY SeqAppend DEF TypeInv
    <3> QED BY <3>1, <3>2 DEF LevelStep
  <2> QED BY <2>1, <2>2, TypeKeeps
<1>13. CASE Done(t, c)
  <2>1. LevelStep /\ ClientStep /\ SeenStep
    BY <1>13, StateSet, SeenStays DEF Done, LevelStep
  <2> QED BY <2>1, TypeKeeps
<1> QED BY <1>1, <1>3, <1>4, <1>5, <1>6, <1>7, <1>8, <1>9, <1>10, <1>11, <1>12, <1>13

-----------------------------------------------------------------------------
(* Every step of a thread is of one of the kinds.                          *)

\* A step that is not a send, and what comes of a close frame.
LEMMA PlainGoesOn ==
    ASSUME NEW t \in Threads, NEW c, NEW what, what \notin Owing, IsNext(t, what, c),
           NEW r, IsSeq(r), Calm(r), Then(t, r), UNCHANGED mutex
    PROVE  Kind(t)
BY DEF IsNext, GoesOn, Kind

LEMMA ReturnKind ==
    ASSUME NEW t \in Threads, NEW c \in Clients,
           Sends(t, c), Then(t, << >>), Returns(t, c)
    PROVE  Kind(t)
<1>1. CASE IsNext(t, "close", c)
  <2>1. "close" \notin Owing /\ UNCHANGED mutex
    BY <1>1 DEF Owing, Sending, Returns
  <2> QED BY <1>1, <2>1, CalmNone, PlainGoesOn
<1>2. CASE ~IsNext(t, "close", c)
  <2>1. todo[t] # << >> /\ Gives(todo[t][1], c)
    BY <1>2 DEF Sends, IsNext, Gives, Owing, Sending
  <2> QED BY <1>2, <2>1 DEF Returns, GivesBack, Kind
<1> QED BY <1>1, <1>2

LEMMA FailureKind ==
    ASSUME NEW t \in Threads, NEW c \in Clients, NEW r, IsSeq(r), Calm(r),
           Sends(t, c), Then(t, r \o Before(t, c)), UNCHANGED mutex,
           seen'.broken \/ ~client'[c].connected
    PROVE  Kind(t)
<1>1. CASE IsNext(t, "close", c)
  <2>1. "close" \notin Owing
    BY DEF Owing, Sending
  <2>2. r \o << >> = r
    <3>1. PICK R : r \in Seq(R)
      BY DEF IsSeq
    <3> QED BY <3>1
  <2>3. Then(t, r)
    BY <1>1, <2>2 DEF Before
  <2> QED BY <1>1, <2>1, <2>3, PlainGoesOn
<1>2. CASE ~IsNext(t, "close", c)
  <2>1. Then(t, r \o << <<"unlock", c>> >>)
    BY <1>2 DEF Before
  <2>2. todo[t] # << >> /\ Gives(todo[t][1], c)
    BY <1>2 DEF Sends, IsNext, Gives, Owing, Sending
  <2> QED BY <2>1, <2>2 DEF Fails, Kind
<1> QED BY <1>1, <1>2

LEMMA FlushKind ==
    ASSUME NEW t \in Threads, NEW c \in Clients, Flush(t, c)
    PROVE  Kind(t)
<1>1. todo[t] # << >> /\ todo[t][1][1] \notin Owing /\ client' = client
  BY DEF Flush, IsNext, Owing, Sending
<1>2. CASE ~client[c].connected
  BY <1>1, <1>2, CalmNone DEF Flush, GoesOn, Kind
<1>3. CASE client[c].connected
  <2>1. PICK what \in Sending : Acquires(t, c, what)
    <3>1. (IF IsNext(t, "flush", c) THEN "send" ELSE "sendlevel") \in Sending
      BY DEF Sending
    <3> QED BY <1>3, <3>1 DEF Flush
  <2>2. CASE mutex[c] = Nobody
    BY <1>1, <2>1, <2>2 DEF Acquires, Takes, Kind
  <2>3. CASE mutex[c] # Nobody
    BY <1>1, <1>3, <2>1, <2>3 DEF Acquires, Queues, Kind
  <2> QED BY <2>2, <2>3
<1> QED BY <1>2, <1>3

LEMMA LockKind ==
    ASSUME MutexInv, NEW t \in Threads, NEW c \in Clients, Lock(t, c)
    PROVE  Kind(t)
<1>1. todo[t] # << >> /\ todo[t][1][1] = "lock" /\ todo[t][1][1] \notin Owing
  BY DEF Lock, IsNext, Owing, Sending
<1>2. todo[t][1][3] \in Sending
  <2>1. 1 \in DOMAIN todo[t]
    BY <1>1, TailElements DEF MutexInv
  <2> QED BY <1>1, <2>1 DEF MutexInv, Ordered
<1> QED BY <1>1, <1>2 DEF Lock, Takes, Kind

LEMMA ThreadKinds ==
    ASSUME TypeInv, MutexInv, NEW t \in Threads, ThreadStep(t)
    PROVE  Kind(t)
<1>1. PICK c \in Clients :
          \/ Write(t, c) \/ Flush(t, c) \/ Lock(t, c) \/ Unlock(t, c)
          \/ SendsAll(t, c) \/ SendsPart(t, c) \/ SendFindsReset(t, c) \/ SendFails(t, c)
          \/ Down(t, c) \/ Spawned(t, c) \/ Start(t, c) \/ Read(t, c) \/ Done(t, c)
  BY DEF ThreadStep
<1>2. {"write", "down", "spawned", "start", "read", "done"} \cap Owing = {}
  BY DEF Owing, Sending
<1>3. CASE Write(t, c)
  BY <1>2, <1>3, CalmNone, PlainGoesOn DEF Write
<1>4. CASE Flush(t, c) \/ Lock(t, c)
  BY <1>4, FlushKind, LockKind
<1>5. CASE Unlock(t, c)
  BY <1>5 DEF Unlock, IsNext, Gives, Owing, GivesBack, Kind
<1>6. CASE SendsAll(t, c) \/ SendsPart(t, c)
  BY <1>6, ReturnKind DEF SendsAll, SendsPart
<1>7. CASE SendFindsReset(t, c)
  <2>1. <<"down", c>>[1] \notin Notable
    BY DEF Notable, Owing, Sending
  <2>2. IsSeq(<< <<"down", c>> >>) /\ Calm(<< <<"down", c>> >>)
    BY <2>1, CalmOne
  <2>3. ~client'[c].connected
    BY <1>7 DEF SendFindsReset, TypeInv, Record
  <2> QED BY <1>7, <2>2, <2>3, FailureKind DEF SendFindsReset
<1>8. CASE SendFails(t, c)
  <2>1. seen'.broken
    BY <1>8 DEF SendFails, TypeInv, Seen
  <2> QED BY <1>8, <2>1, CalmDisconnect, FailureKind DEF SendFails
<1>9. CASE Down(t, c)
  <2> DEFINE r == IF client[c].spawned THEN Broadcast \o Talk(Others(c)) ELSE << >>
  <2>1. IsSeq(r) /\ Calm(r)
    BY CalmAll, CalmNone, CalmConcat
  <2>2. Then(t, r) /\ IsNext(t, "down", c) /\ UNCHANGED mutex
    BY <1>9 DEF Down
  <2> HIDE DEF r
  <2> QED BY <1>2, <2>1, <2>2, PlainGoesOn
<1>10. CASE Spawned(t, c)
  BY <1>2, <1>10, CalmNone, PlainGoesOn DEF Spawned
<1>11. CASE Start(t, c)
  <2>1. todo[t] # << >> /\ todo[t][1][1] \notin Owing /\ UNCHANGED mutex
    BY <1>2, <1>11 DEF Start, IsNext
  <2>2. CASE c \in Fast
    <3>1. /\ todo[c] = << >> /\ c # t
          /\ todo' = [todo EXCEPT ![t] = Tail(@), ![c] = FastThread(c)]
      BY <1>11, <2>1, <2>2 DEF Start
    <3> QED BY <2>1, <2>2, <3>1 DEF Forks, Kind
  <2>3. CASE c \notin Fast
    BY <1>2, <1>11, <2>3, CalmNone, PlainGoesOn DEF Start
  <2> QED BY <2>2, <2>3
<1>12. CASE Read(t, c)
  <2>1. CASE client[c].connected
    BY <1>2, <1>12, <2>1, CalmNone, PlainGoesOn DEF Read
  <2>2. CASE ~client[c].connected
    BY <1>12, <2>2 DEF Read, IsNext, Stops, Kind
  <2> QED BY <2>1, <2>2
<1>13. CASE Done(t, c)
  BY <1>2, <1>13, CalmNone, PlainGoesOn DEF Done
<1> QED BY <1>1, <1>3, <1>4, <1>5, <1>6, <1>7, <1>8, <1>9, <1>10, <1>11, <1>12, <1>13

-----------------------------------------------------------------------------
(* The main loop.                                                          *)

\* A handler begins with steps of one kind before the main thread.
LEMMA HandlerBegins ==
    ASSUME NEW r, IsSeq(r), Calm(r), todo[Main] = << >>, Do(r), UNCHANGED mutex
    PROVE  Kind(Main)
BY DEF Do, Begins, Kind

LEMMA HandlerOfOne ==
    ASSUME NEW x, x[1] \notin Notable, todo[Main] = << >>, Do(<<x>>), UNCHANGED mutex
    PROVE  Kind(Main)
BY CalmOne, HandlerBegins

LEMMA CalmSetPackets ==
    ASSUME NEW p, NEW b
    PROVE  IsSeq(SetPackets(p, b)) /\ Calm(SetPackets(p, b))
<1> DEFINE e(c) == <<"write", c, <<"set", p, b>>>>
<1>1. N \in Nat
  BY ClientsAssumption
<1>2. SetPackets(p, b) = [c \in 1 .. N |-> e(c)]
  BY DEF SetPackets, Clients
<1>3. \A c \in 1 .. N : e(c)[1] \notin Notable
  BY DEF Notable, Owing, Sending
<1> HIDE DEF e
<1>4. [c \in 1 .. N |-> e(c)] \in Seq({e(c) : c \in 1 .. N})
  BY <1>1
<1> QED BY <1>2, <1>3, <1>4 DEF IsSeq, Calm

LEMMA MainKinds ==
    ASSUME TypeInv, MutexInv, MainStep
    PROVE  TypeInv' /\ Later /\ Kind(Main)
<1>0. Main \in Threads
  BY DEF Threads
<1>1. CASE ThreadStep(Main)
  BY <1>0, <1>1, ThreadTyped, ThreadKinds
<1>2. ASSUME UNCHANGED <<level, client, seen>> PROVE TypeInv' /\ Later
  BY <1>2 DEF TypeInv, Later
<1>3. CASE StartTick \/ Enter \/ EndReceive
  BY <1>2, <1>3 DEF StartTick, Enter, EndReceive, Idles, Kind
<1>4. CASE RecvEditRefused
  <2> DEFINE r == Refused(at, inq[at][1][2])
  <2>1. IsSeq(r) /\ Calm(r)
    <3>1. Len(<<at>>) \in Nat
      OBVIOUS
    <3> QED BY <3>1, CalmTell DEF Refused
  <2>2. Do(r) /\ todo[Main] = << >> /\ UNCHANGED <<level, client, seen, mutex>>
    BY <1>4 DEF RecvEditRefused, Packets, Between
  <2> HIDE DEF r
  <2> QED BY <1>2, <2>1, <2>2, HandlerBegins
<1>5. CASE RecvEdit
  <2> DEFINE p == inq[at][1][2]
             b == inq[at][1][3]
  <2>1. /\ todo[Main] = << >> /\ UNCHANGED <<level, client, seen, mutex>>
        /\ UNCHANGED todo \/ Do(SetPackets(p, b))
    BY <1>5 DEF RecvEdit, Packets, Between
  <2> HIDE DEF p, b
  <2>2. CASE UNCHANGED todo
    BY <1>2, <2>1, <2>2 DEF Idles, Kind
  <2>3. CASE Do(SetPackets(p, b))
    BY <1>2, <2>1, <2>3, CalmSetPackets, HandlerBegins
  <2> QED BY <2>1, <2>2, <2>3
<1>6. CASE RecvAsk
  <2> DEFINE a == Tell(<<at>>, << <<"init">> >>)
             d == << <<"start", at>> >>
  <2>1. IsSeq(a) /\ Calm(a)
    <3>1. Len(<<at>>) \in Nat
      OBVIOUS
    <3> QED BY <3>1, CalmTell
  <2>2. IsSeq(d) /\ Calm(d)
    <3>1. <<"start", at>>[1] \notin Notable
      BY DEF Notable, Owing, Sending
    <3> QED BY <3>1, CalmOne
  <2>3. /\ Do(a \o d) /\ todo[Main] = << >> /\ UNCHANGED <<level, seen, mutex>>
        /\ at \in Clients /\ client' = [client EXCEPT ![at].mapsend = "busy"]
    BY <1>6 DEF RecvAsk, Packets, Between
  <2> HIDE DEF a, d
  <2>4. IsSeq(a \o d) /\ Calm(a \o d)
    BY <2>1, <2>2, CalmConcat
  <2>5. LevelStep /\ ClientStep /\ SeenStep
    BY <2>3, StateSet, SeenStays DEF LevelStep
  <2> QED BY <2>3, <2>4, <2>5, TypeKeeps, HandlerBegins
<1>7. CASE Kick
  <2>1. /\ at \in Clients /\ Do(Disconnect(at)) /\ todo[Main] = << >>
        /\ UNCHANGED <<level, client, seen, mutex>>
    BY <1>7 DEF Kick, Between
  <2> QED BY <1>2, <2>1, CalmDisconnect, HandlerBegins
<1>8. CASE RecvFindsReset
  <2>1. <<"down", at>>[1] \notin Notable
    BY DEF Notable, Owing, Sending
  <2>2. /\ at \in Clients /\ client' = [client EXCEPT ![at].connected = FALSE]
        /\ Do(<< <<"down", at>> >>) /\ todo[Main] = << >> /\ UNCHANGED <<level, seen, mutex>>
    BY <1>8 DEF RecvFindsReset, Between
  <2>3. LevelStep /\ ClientStep /\ SeenStep
    BY <2>2, Disconnected, SeenStays DEF LevelStep
  <2> QED BY <2>1, <2>2, <2>3, TypeKeeps, HandlerOfOne
<1>9. CASE NoLevel
  <2>1. <<"flush", at>>[1] \notin Notable
    BY DEF Notable, Owing, Sending
  <2>2. /\ Do(<< <<"flush", at>> >>) /\ todo[Main] = << >>
        /\ UNCHANGED <<level, client, seen, mutex>>
    BY <1>9 DEF NoLevel, Between
  <2> QED BY <1>2, <2>1, <2>2, HandlerOfOne
<1>10. CASE SendChunks
  <2> DEFINE cs == [k \in DOMAIN level[at] |-> at]
             a  == Tell(cs, level[at])
             d  == << <<"flush", at>> >>
  <2>1. /\ at \in Clients /\ Do(a \o d) /\ todo[Main] = << >>
        /\ UNCHANGED <<client, seen, mutex>>
        /\ level' = [level EXCEPT ![at] = << >>]
    BY <1>10 DEF SendChunks, Between
  <2>2. IsSeq(a) /\ Calm(a)
    <3>1. PICK S : level[at] \in Seq(S)
      BY <2>1 DEF TypeInv, IsSeq
    <3>2. DOMAIN level[at] = 1 .. Len(level[at]) /\ Len(level[at]) \in Nat
      BY <3>1
    <3>3. Len(cs) = Len(level[at])
      BY <3>2
    <3> HIDE DEF cs
    <3> QED BY <3>2, <3>3, CalmTell
  <2>3. IsSeq(d) /\ Calm(d)
    <3>1. <<"flush", at>>[1] \notin Notable
      BY DEF Notable, Owing, Sending
    <3> QED BY <3>1, CalmOne
  <2> HIDE DEF a, d
  <2>4. IsSeq(a \o d) /\ Calm(a \o d)
    BY <2>2, <2>3, CalmConcat
  <2>5. LevelStep /\ ClientStep /\ SeenStep
    BY <2>1, CalmNone, SeenStays DEF LevelStep, ClientStep
  <2> QED BY <2>1, <2>4, <2>5, TypeKeeps, HandlerBegins
<1>11. CASE FinishLevel
  <2>1. /\ at \in Clients /\ Do(Finished(at)) /\ todo[Main] = << >>
        /\ UNCHANGED <<level, seen, mutex>>
        /\ client' = [client EXCEPT ![at].mapsend = "sent"]
    BY <1>11 DEF FinishLevel, Between
  <2>2. LevelStep /\ ClientStep /\ SeenStep
    BY <2>1, StateSet, SeenStays DEF LevelStep
  <2> QED BY <2>1, <2>2, CalmFinished, TypeKeeps, HandlerBegins
<1> QED BY <1>1, <1>3, <1>4, <1>5, <1>6, <1>7, <1>8, <1>9, <1>10, <1>11 DEF MainStep

-----------------------------------------------------------------------------
(* The invariant.                                                          *)

LEMMA OutgoingInit == Init => OutgoingInv
<1> SUFFICES ASSUME Init PROVE OutgoingInv
  OBVIOUS
<1>1. TypeInv
  <2>1. level = [c \in Clients |-> level[c]] /\ \A c \in Clients : IsSeq(level[c])
    BY CalmNone DEF Init
  <2>2. client \in [Clients -> Record]
    BY DEF Init, Record
  <2>3. seen \in Seen
    BY DEF Init, Seen
  <2> QED BY <2>1, <2>2, <2>3 DEF TypeInv
<1>2. /\ todo = [t \in Threads |-> todo[t]] /\ \A t \in Threads : todo[t] = << >>
      /\ mutex \in [Clients -> Threads \cup {Nobody}] /\ \A c \in Clients : mutex[c] = Nobody
  BY DEF Init
<1>3. \A t \in Threads : IsSeq(todo[t]) /\ Owes(t, todo[t], mutex) /\ Ordered(todo[t])
  BY <1>2, CalmNone DEF Owes, Ordered
<1>4. Nobody \notin Threads
  BY ClientsAssumption DEF Nobody, Threads, Clients, Main
<1>5. MutexInv /\ Held
  BY <1>2, <1>3, <1>4 DEF MutexInv, Held
<1>6. Gone /\ Apart
  BY <1>2 DEF Gone, Apart, Unlocks
<1> QED BY <1>1, <1>5, <1>6 DEF OutgoingInv

\* Whoever unlocks later what it has kept keeps it from nobody that comes new to wait.
LEMMA StepKeeps ==
    ASSUME OutgoingInv, NEW t \in Threads, TypeInv', Later, Kind(t)
    PROVE  OutgoingInv'
<1>1. MutexInv' /\ Held' /\ Effects
  BY KindKeeps DEF OutgoingInv
<1>2. ASSUME ~seen'.broken, NEW c \in Clients, NEW u \in Threads, Unlocks(u, c)'
      PROVE  ~client'[c].connected
  <2>1. CASE Unlocks(u, c)
    BY <1>2, <2>1 DEF OutgoingInv, Gone, Later
  <2>2. CASE ~Unlocks(u, c)
    BY <1>1, <1>2, <2>2 DEF Effects
  <2> QED BY <2>1, <2>2
<1>3. Gone'
  BY <1>2 DEF Gone
<1>4. ASSUME ~seen'.broken, NEW u \in Threads, NEW v \in Threads,
             NEW c \in Clients, NEW d \in Clients,
             Waits(u, c)', Unlocks(v, c)', Waits(v, d)', Unlocks(u, d)'
      PROVE  FALSE
  <2>1. ~client'[c].connected /\ ~client'[d].connected
    BY <1>2, <1>4
  <2>2. todo'[u] = todo[u] /\ todo'[v] = todo[v]
    BY <1>1, <1>4, <2>1 DEF Effects
  <2>3. Waits(u, c) /\ Unlocks(v, c) /\ Waits(v, d) /\ Unlocks(u, d)
    BY <1>4, <2>2 DEF Waits, IsNext, Unlocks
  <2> QED BY <1>4, <2>3 DEF OutgoingInv, Apart, Later
<1>5. Apart'
  BY <1>4 DEF Apart
<1> QED BY <1>1, <1>3, <1>5 DEF OutgoingInv

LEMMA OutgoingNext == OutgoingInv /\ [Next]_vars => OutgoingInv'
<1> SUFFICES ASSUME OutgoingInv, [Next]_vars PROVE OutgoingInv'
  OBVIOUS
<1>0. Main \in Threads /\ Fast \subseteq Threads
  BY DEF Threads
<1>1. CASE MainStep
  BY <1>0, <1>1, MainKinds, StepKeeps DEF OutgoingInv
<1>2. ASSUME NEW t \in Fast, ThreadStep(t) PROVE OutgoingInv'
  BY <1>0, <1>2, ThreadTyped, ThreadKinds, StepKeeps DEF OutgoingInv
<1>3. ASSUME UNCHANGED <<level, client, seen, todo, mutex>> PROVE OutgoingInv'
  BY <1>3 DEF OutgoingInv, TypeInv, MutexInv, Held, Gone, Apart, Unlocks, Waits, IsNext
<1>4. ASSUME NEW c \in Clients, Compressed(c) PROVE OutgoingInv'
  <2>1. LevelStep /\ ClientStep /\ SeenStep /\ Kind(Main)
    BY <1>4, StateSet, SeenStays DEF OutgoingInv, Compressed, LevelStep, Idles, Kind
  <2> QED BY <1>0, <2>1, TypeKeeps, StepKeeps DEF OutgoingInv
<1>5. ASSUME NEW c \in Clients, GameAsks(c) \/ \E p \in Pos, b \in Block : GameEdits(c, p, b)
      PROVE  OutgoingInv'
  BY <1>3, <1>5 DEF GameAsks, GameEdits
<1>6. CASE UNCHANGED vars
  BY <1>3, <1>6 DEF vars
<1> QED BY <1>1, <1>2, <1>4, <1>5, <1>6 DEF Next

\* A thread that is about to send owes the mutex and so has it.
LEMMA SendersHold == OutgoingInv => OneSender
<1> SUFFICES ASSUME OutgoingInv, NEW c \in Clients, NEW t \in Threads, NEW u \in Threads,
                    t # u, Sends(t, c), Sends(u, c),
                    ~IsNext(t, "close", c), ~IsNext(u, "close", c)
             PROVE  FALSE
  BY DEF OneSender
<1>1. ASSUME NEW v \in Threads, Sends(v, c), ~IsNext(v, "close", c)
      PROVE  mutex[c] = v
  <2>1. todo[v] # << >> /\ Gives(todo[v][1], c)
    BY <1>1 DEF Sends, IsNext, Gives, Owing, Sending
  <2>2. 1 \in DOMAIN todo[v]
    BY <2>1, TailElements DEF OutgoingInv, MutexInv
  <2> QED BY <2>1, <2>2 DEF OutgoingInv, MutexInv, Owes
<1> QED BY <1>1

\* A thread that waits gives back what it holds by an unlocking.
LEMMA WaitersApart == OutgoingInv => NoEmbrace
<1> SUFFICES ASSUME OutgoingInv, ~seen.broken, NEW t \in Threads, NEW u \in Threads,
                    NEW c \in Clients, NEW d \in Clients,
                    Waits(t, c), mutex[c] = u, Waits(u, d), mutex[d] = t
             PROVE  FALSE
  BY DEF NoEmbrace
<1>1. ASSUME NEW v \in Threads, NEW e \in Clients, NEW f \in Clients, Waits(v, e), mutex[f] = v
      PROVE  Unlocks(v, f)
  <2>1. PICK k \in DOMAIN todo[v] : Gives(todo[v][k], f)
    BY <1>1 DEF OutgoingInv, Held
  <2>2. todo[v][1][1] = "lock"
    BY <1>1 DEF Waits, IsNext
  <2>3. k # 1
    BY <2>1, <2>2 DEF Gives, Owing, Sending
  <2>4. todo[v][k][1] \notin Sending
    BY <2>3 DEF OutgoingInv, MutexInv, Ordered
  <2> QED BY <2>1, <2>4 DEF Gives, Owing, Unlocks
<1>2. Unlocks(u, c) /\ Unlocks(t, d)
  BY <1>1
<1> QED BY <1>2 DEF OutgoingInv, Apart

-----------------------------------------------------------------------------
(* What the threads of the clients do.                                     *)

\* Steps that neither write to an out buffer nor read one, and come to no such step,
\* but by the end of a client that had spawned.
Asides == {"read", "post", "sendlevel", "unlock", "done", "down"}

Aside(s) ==
    \A k \in DOMAIN s :
        s[k][1] \in Asides \/ (s[k][1] = "lock" /\ s[k][3] = "sendlevel")

RaceInv == seen.crossed \/ seen.broken \/ \A t \in Fast : Aside(todo[t])

LEMMA AsideOne == \A x : x[1] \in Asides => IsSeq(<<x>>) /\ Aside(<<x>>)
<1> TAKE x
<1> DEFINE q == <<x>>
<1>1. IsSeq(q) /\ DOMAIN q = {1} /\ q[1] = x
  BY CalmSeq
<1> HIDE DEF q
<1>2. x[1] \in Asides => IsSeq(q) /\ Aside(q)
  BY <1>1 DEF Aside
<1> QED BY <1>2 DEF q

LEMMA AsideConcat ==
    ASSUME NEW r, NEW s, IsSeq(r), IsSeq(s), Aside(r), Aside(s)
    PROVE  Aside(r \o s)
<1> DEFINE u == r \o s
<1>1. Joined(u, r, s)
  BY ConcatElements
<1> HIDE DEF u
<1>2. Aside(u)
  BY <1>1 DEF Joined, Aside
<1> QED BY <1>2 DEF u

LEMMA AsideThen ==
    ASSUME MutexInv, NEW t \in Threads, todo[t] # << >>, Aside(todo[t]),
           NEW r, IsSeq(r), Aside(r), Then(t, r)
    PROVE  Aside(todo'[t])
<1> DEFINE v == Tail(todo[t])
<1>1. IsSeq(v) /\ \A k \in DOMAIN v : k + 1 \in DOMAIN todo[t] /\ v[k] = todo[t][k + 1]
  BY TailElements DEF MutexInv
<1>2. todo'[t] = r \o v
  BY DEF Then, MutexInv
<1> HIDE DEF v
<1>3. Aside(v)
  BY <1>1 DEF Aside
<1> QED BY <1>1, <1>2, <1>3, AsideConcat

\* A step of another thread leaves it alone, or starts it.
LEMMA OthersAside ==
    ASSUME MutexInv, NEW t \in Threads, Kind(t), NEW u \in Fast \ {t}
    PROVE  todo'[u] = todo[u] \/ Aside(todo'[u])
<1>0. u \in Threads /\ u \in Clients
  BY ClientsAssumption DEF Threads
<1>1. ASSUME NEW s, todo' = [todo EXCEPT ![t] = s] PROVE todo'[u] = todo[u]
  BY <1>0, <1>1 DEF MutexInv
<1>2. CASE Forks(t)
  <2>1. PICK c \in Fast \ {t} : todo' = [todo EXCEPT ![t] = Tail(@), ![c] = FastThread(c)]
    BY <1>2 DEF Forks
  <2>2. CASE c = u
    <3>1. todo'[u] = FastThread(u)
      BY <1>0, <2>1, <2>2 DEF MutexInv
    <3> QED BY <1>0, <3>1, FastSteps DEF Aside, Asides
  <2>3. CASE c # u
    BY <1>0, <2>1, <2>3 DEF MutexInv
  <2> QED BY <2>2, <2>3
<1>3. CASE Idles
  BY <1>3 DEF Idles
<1>4. ASSUME \E s : todo' = [todo EXCEPT ![t] = s] PROVE todo'[u] = todo[u]
  BY <1>1, <1>4
<1>5. ASSUME NEW r, Then(t, r) PROVE \E s : todo' = [todo EXCEPT ![t] = s]
  BY <1>5 DEF Then, MutexInv
<1>6. CASE GoesOn(t) \/ Queues(t) \/ Takes(t) \/ GivesBack(t) \/ Fails(t)
  BY <1>4, <1>5, <1>6 DEF GoesOn, Queues, Takes, GivesBack, Fails
<1>7. CASE Stops(t) \/ Begins(t)
  BY <1>4, <1>7 DEF Stops, Begins
<1> QED BY <1>2, <1>3, <1>6, <1>7 DEF Kind

LEMMA FastAside ==
    ASSUME TypeInv, MutexInv, NEW t \in Fast, ThreadStep(t), Aside(todo[t])
    PROVE  Aside(todo'[t]) \/ seen'.broken \/ seen'.crossed
<1>0. t \in Threads /\ t # Main
  BY ClientsAssumption DEF Threads, Clients, Main
<1>1. PICK c \in Clients :
          \/ Write(t, c) \/ Flush(t, c) \/ Lock(t, c) \/ Unlock(t, c)
          \/ SendsAll(t, c) \/ SendsPart(t, c) \/ SendFindsReset(t, c) \/ SendFails(t, c)
          \/ Down(t, c) \/ Spawned(t, c) \/ Start(t, c) \/ Read(t, c) \/ Done(t, c)
  BY DEF ThreadStep
<1>2. ASSUME NEW what, NEW d, IsNext(t, what, d)
      PROVE  what \in Asides \/ (what = "lock" /\ todo[t][1][3] = "sendlevel")
  <2>1. todo[t] # << >> /\ todo[t][1][1] = what
    BY <1>2 DEF IsNext
  <2>2. 1 \in DOMAIN todo[t]
    BY <1>0, <2>1, TailElements DEF MutexInv
  <2> QED BY <2>1, <2>2 DEF Aside
<1>3. ASSUME todo[t] # << >>, Then(t, << >>) PROVE Aside(todo'[t])
  <2>1. Aside(<< >>)
    BY DEF Aside
  <2> QED BY <1>0, <1>3, <2>1, CalmNone, AsideThen
<1>4. CASE Write(t, c) \/ Spawned(t, c) \/ Start(t, c)
  BY <1>2, <1>4 DEF Write, Spawned, Start, Asides
<1>5. CASE Flush(t, c)
  <2>1. ~IsNext(t, "flush", c) /\ todo[t] # << >>
    BY <1>2, <1>5 DEF Flush, IsNext, Asides
  <2>2. Then(t, << >>) \/ Acquires(t, c, "sendlevel")
    BY <1>5, <2>1 DEF Flush
  <2>3. CASE Then(t, << <<"sendlevel", c>> >>)
    <3>1. <<"sendlevel", c>>[1] \in Asides
      BY DEF Asides
    <3>2. IsSeq(<< <<"sendlevel", c>> >>) /\ Aside(<< <<"sendlevel", c>> >>)
      BY <3>1, AsideOne
    <3> QED BY <1>0, <2>1, <2>3, <3>2, AsideThen
  <2>4. CASE Then(t, << <<"lock", c, "sendlevel">> >>)
    <3> DEFINE q == << <<"lock", c, "sendlevel">> >>
    <3>1. IsSeq(q) /\ Aside(q)
      <4>1. IsSeq(q)
        BY CalmSeq
      <4>2. Aside(q)
        BY DEF Aside
      <4> QED BY <4>1, <4>2
    <3> HIDE DEF q
    <3> QED BY <1>0, <2>1, <2>4, <3>1, AsideThen DEF q
  <2> QED BY <1>3, <2>1, <2>2, <2>3, <2>4 DEF Acquires
<1>6. CASE Lock(t, c)
  <2>1. todo[t][1][3] = "sendlevel" /\ todo[t] # << >>
    BY <1>2, <1>6 DEF Lock, IsNext, Asides
  <2>2. <<"sendlevel", c>>[1] \in Asides
    BY DEF Asides
  <2>3. IsSeq(<< <<"sendlevel", c>> >>) /\ Aside(<< <<"sendlevel", c>> >>)
    BY <2>2, AsideOne
  <2> QED BY <1>0, <1>6, <2>1, <2>3, AsideThen DEF Lock
<1>7. CASE Unlock(t, c) \/ SendsAll(t, c) \/ SendsPart(t, c) \/ Done(t, c)
  BY <1>3, <1>7 DEF Unlock, SendsAll, SendsPart, Done, Sends, IsNext
<1>8. CASE SendFindsReset(t, c)
  <2>1. ~IsNext(t, "close", c) /\ todo[t] # << >>
    BY <1>2, <1>8 DEF SendFindsReset, Sends, IsNext, Asides
  <2> DEFINE a == << <<"down", c>> >>
             b == << <<"unlock", c>> >>
  <2>2. IsSeq(a) /\ Aside(a) /\ IsSeq(b) /\ Aside(b)
    <3>1. <<"down", c>>[1] \in Asides /\ <<"unlock", c>>[1] \in Asides
      BY DEF Asides
    <3> QED BY <3>1, AsideOne
  <2>3. Then(t, a \o b)
    BY <1>8, <2>1 DEF SendFindsReset, Before
  <2> HIDE DEF a, b
  <2>4. IsSeq(a \o b) /\ Aside(a \o b)
    BY <2>2, AsideConcat, ConcatElements DEF Joined
  <2> QED BY <1>0, <2>1, <2>3, <2>4, AsideThen
<1>9. CASE SendFails(t, c)
  BY <1>9 DEF SendFails, TypeInv, Seen
<1>10. CASE Down(t, c)
  <2>1. CASE client[c].spawned
    BY <1>0, <1>10, <2>1 DEF Down, TypeInv, Seen
  <2>2. CASE ~client[c].spawned
    BY <1>3, <1>10, <2>2 DEF Down, IsNext
  <2> QED BY <2>1, <2>2
<1>11. CASE Read(t, c)
  <2>1. CASE client[c].connected
    BY <1>3, <1>11, <2>1 DEF Read, IsNext
  <2>2. CASE ~client[c].connected
    <3>1. todo'[t] = << >>
      BY <1>0, <1>11, <2>2 DEF Read, MutexInv
    <3> QED BY <3>1 DEF Aside
  <2> QED BY <2>1, <2>2
<1> QED BY <1>1, <1>4, <1>5, <1>6, <1>7, <1>8, <1>9, <1>10, <1>11

LEMMA RaceNext == OutgoingInv /\ RaceInv /\ [Next]_vars => RaceInv'
<1> SUFFICES ASSUME OutgoingInv, RaceInv, [Next]_vars PROVE RaceInv'
  OBVIOUS
<1>0. Main \in Threads /\ Fast \subseteq Threads /\ Main \notin Fast
  BY ClientsAssumption DEF Threads, Main, Clients
<1>1. ASSUME Later, NEW t \in Threads, Kind(t),
             t \in Fast /\ Aside(todo[t]) => Aside(todo'[t]) \/ seen'.broken \/ seen'.crossed
      PROVE  RaceInv'
  <2>1. CASE seen.crossed \/ seen.broken
    BY <1>1, <2>1 DEF Later, RaceInv
  <2>2. CASE ~seen.crossed /\ ~seen.broken
    <3>1. \A u \in Fast : Aside(todo[u])
      BY <2>2 DEF RaceInv
    <3>2. \A u \in Fast \ {t} : Aside(todo'[u])
      BY <1>1, <3>1, OthersAside DEF OutgoingInv
    <3> QED BY <1>1, <3>1, <3>2 DEF RaceInv
  <2> QED BY <2>1, <2>2
<1>2. CASE MainStep
  BY <1>0, <1>1, <1>2, MainKinds DEF OutgoingInv
<1>3. ASSUME NEW t \in Fast, ThreadStep(t) PROVE RaceInv'
  BY <1>0, <1>1, <1>3, ThreadTyped, ThreadKinds, FastAside DEF OutgoingInv
<1>4. ASSUME UNCHANGED <<seen, todo>> PROVE RaceInv'
  BY <1>4 DEF RaceInv
<1>5. ASSUME NEW c \in Clients,
             Compressed(c) \/ GameAsks(c) \/ \E p \in Pos, b \in Block : GameEdits(c, p, b)
      PROVE  RaceInv'
  BY <1>4, <1>5 DEF Compressed, GameAsks, GameEdits
<1>6. CASE UNCHANGED vars
  BY <1>4, <1>6 DEF vars
<1> QED BY <1>2, <1>3, <1>5, <1>6 DEF Next

\* Of two threads one is a client's own.
LEMMA AsideRaces == OutgoingInv /\ RaceInv => NoRace
<1> SUFFICES ASSUME OutgoingInv, ~seen.crossed, ~seen.broken, \A t \in Fast : Aside(todo[t]),
                    NEW c \in Clients, Race(c)
             PROVE  FALSE
  BY DEF NoRace, RaceInv
<1>1. PICK t \in Fast : Touches(t, c)
  BY DEF Race, Threads
<1>2. todo[t] # << >> /\ todo[t][1][1] \in {"write", "send"}
  BY <1>1 DEF Touches, IsNext
<1>3. 1 \in DOMAIN todo[t]
  BY <1>2, TailElements DEF OutgoingInv, MutexInv, Threads
<1> QED BY <1>2, <1>3 DEF Aside, Asides

-----------------------------------------------------------------------------
(* The theorems.                                                           *)

\* Two threads never send to one client at a time, but for the close frame
\* (client_flush_buffer, out_mutex), whatever fails, and whoever disconnects whom.
THEOREM OneSenderAlways == Spec => []OneSender
<1>1. Init => OutgoingInv
  BY OutgoingInit
<1>2. OutgoingInv /\ [Next]_vars => OutgoingInv'
  BY OutgoingNext
<1>3. OutgoingInv => OneSender
  BY SendersHold
<1> QED BY <1>1, <1>2, <1>3, PTL DEF Spec

\* No thread waits for a mutex of its own, and no two for each other's, although
\* client_send disconnects a client whose mutex it has and tells all others of it:
\* unless a send has failed with an error that is not a reset.
THEOREM NoEmbraceAlways == Spec => []NoEmbrace
<1>1. Init => OutgoingInv
  BY OutgoingInit
<1>2. OutgoingInv /\ [Next]_vars => OutgoingInv'
  BY OutgoingNext
<1>3. OutgoingInv => NoEmbrace
  BY WaitersApart
<1> QED BY <1>1, <1>2, <1>3, PTL DEF Spec

\* No two threads use one out buffer at a time, although writing to it takes no lock
\* (client_flush_buffer, buffer_write), unless a fast thread finds its own client
\* reset after that has spawned, or a send fails with an error that is not a reset.
THEOREM NoRaceAlways == Spec => []NoRace
<1>1. Init => OutgoingInv /\ RaceInv
  <2>1. ASSUME Init PROVE RaceInv
    <3>1. \A t \in Fast : todo[t] = << >>
      BY <2>1 DEF Init, Threads
    <3> QED BY <3>1 DEF RaceInv, Aside
  <2> QED BY <2>1, OutgoingInit
<1>2. OutgoingInv /\ RaceInv /\ [Next]_vars => (OutgoingInv /\ RaceInv)'
  BY OutgoingNext, RaceNext
<1>3. OutgoingInv /\ RaceInv => NoRace
  BY AsideRaces
<1> QED BY <1>1, <1>2, <1>3, PTL DEF Spec
=============================================================================
