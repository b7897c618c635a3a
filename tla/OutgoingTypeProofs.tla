-------------------------- MODULE OutgoingTypeProofs --------------------------
(***************************************************************************)
(* The type invariant of Outgoing, for any number of clients of every kind *)
(* and maps of any size: what each function and handler puts before the    *)
(* threads, and what every step does to the data.                          *)
(***************************************************************************)
EXTENDS OutgoingProofs, CommonLemmas

-----------------------------------------------------------------------------
(* Tasks and packets.                                                      *)

Talking == <<"talk">>

Piece == {"piece"} \X Pos \X Block

\* What the functions are made of that tell clients something.
Chatter == {<<"write", c, Talking>> : c \in Clients} \cup ({"flush", "close", "down"} \X Clients)

LEMMA PacketFields ==
    /\ \A p \in Packet :
        /\ p[1] \in {"init", "finish", "talk", "set", "piece"}
        /\ p[1] \in {"init", "finish", "talk"} => p = <<p[1]>>
        /\ p[1] \in {"set", "piece"} => p[2] \in Pos /\ p[3] \in Block /\ p = <<p[1], p[2], p[3]>>
    /\ {<<"init">>, <<"finish">>, Talking} \subseteq Packet
    /\ \A p \in Pos, b \in Block : <<"set", p, b>> \in Packet /\ <<"piece", p, b>> \in Packet
    /\ Piece \subseteq Packet
BY DEF Packet, Piece, Talking

LEMMA PieceFields ==
    \A x \in Piece : x[1] = "piece" /\ x[2] \in Pos /\ x[3] \in Block /\ x = <<"piece", x[2], x[3]>>
BY DEF Piece

LEMMA TaskFields ==
    ASSUME NEW x \in Task
    PROVE  /\ x[2] \in Clients
           /\ x[1] = "write" => x[3] \in Packet /\ x = <<"write", x[2], x[3]>>
           /\ x[1] = "read" => x[3] \in Pos /\ x = <<"read", x[2], x[3]>>
           /\ x[1] = "lock" => x[3] \in {"send", "sendlevel"} /\ x = <<"lock", x[2], x[3]>>
           /\ x[1] \notin {"write", "read", "lock"} => x = <<x[1], x[2]>>
BY DEF Task

LEMMA TaskKinds ==
    ASSUME NEW c \in Clients
    PROVE  /\ \A p \in Packet : <<"write", c, p>> \in Task
           /\ \A p \in Pos : <<"read", c, p>> \in Task
           /\ \A what \in {"send", "sendlevel"} : <<"lock", c, what>> \in Task
           /\ \A what \in {"flush", "post", "send", "sendlevel", "unlock", "close", "start",
                           "done", "spawned", "down"} : <<what, c>> \in Task
BY DEF Task

LEMMA ChatterFields ==
    /\ Chatter \subseteq Task
    /\ \A x \in Chatter : /\ x[1] \in {"write", "flush", "close", "down"}
                          /\ x[1] = "write" => x[3] = Talking
                          /\ x[2] \in Clients
                          /\ x[1] = "write" => x = <<"write", x[2], Talking>>
                          /\ x[1] # "write" => x = <<x[1], x[2]>>
    /\ \A c \in Clients : /\ <<"write", c, Talking>> \in Chatter /\ <<"flush", c>> \in Chatter
                          /\ <<"close", c>> \in Chatter /\ <<"down", c>> \in Chatter
<1>1. \A c \in Clients : /\ <<"write", c, Talking>> \in Chatter /\ <<"flush", c>> \in Chatter
                         /\ <<"close", c>> \in Chatter /\ <<"down", c>> \in Chatter
  BY DEF Chatter
<1>2. \A x \in Chatter : \E c \in Clients :
          x = <<"write", c, Talking>> \/ x = <<"flush", c>> \/ x = <<"close", c>> \/ x = <<"down", c>>
  BY DEF Chatter
<1>3. \A c \in Clients :
          /\ <<"write", c, Talking>> \in Task /\ <<"flush", c>> \in Task
          /\ <<"close", c>> \in Task /\ <<"down", c>> \in Task
  BY TaskKinds, PacketFields
<1>4. Chatter \subseteq Task
  BY <1>2, <1>3
<1>5. \A x \in Chatter : /\ x[1] \in {"write", "flush", "close", "down"}
                         /\ x[1] = "write" => x[3] = Talking
                         /\ x[2] \in Clients
                         /\ x[1] = "write" => x = <<"write", x[2], Talking>>
                         /\ x[1] # "write" => x = <<x[1], x[2]>>
  BY <1>2
<1> QED BY <1>1, <1>4, <1>5

-----------------------------------------------------------------------------
(* Sequences of tasks that functions make.                                 *)

LEMMA SeqFacts ==
    ASSUME NEW S
    PROVE  /\ \A r, s \in Seq(S) : r \o s \in Seq(S)
           /\ \A s \in Seq(S) : s # << >> => s[1] \in S /\ Tail(s) \in Seq(S)
           /\ << >> \in Seq(S)
           /\ \A x \in S : <<x>> \in Seq(S)
           /\ \A R : R \subseteq S => Seq(R) \subseteq Seq(S)
<1>1. \A R : R \subseteq S => Seq(R) \subseteq Seq(S)
  OBVIOUS
<1>2. \A s \in Seq(S) : s # << >> => s[1] \in S /\ Tail(s) \in Seq(S)
  OBVIOUS
<1> QED BY <1>1, <1>2

LEMMA RangeFacts ==
    ASSUME NEW S
    PROVE  /\ \A r, s \in Seq(S) : Range(r \o s) = Range(r) \cup Range(s)
           /\ \A s \in Seq(S) : s # << >> => Range(s) = {s[1]} \cup Range(Tail(s))
           /\ \A s \in Seq(S) : Range(s) \subseteq S
           /\ Range(<< >>) = {} /\ \A x : Range(<<x>>) = {x}
           /\ \A s \in Seq(S), x \in S : Range(Append(s, x)) = Range(s) \cup {x}
<1>1. ASSUME NEW r \in Seq(S), NEW s \in Seq(S) PROVE Range(r \o s) = Range(r) \cup Range(s)
  <2>1. IsSeq(r) /\ IsSeq(s)
    BY DEF IsSeq
  <2>2. Joined(r \o s, r, s)
    BY <2>1, ConcatElements
  <2>3. Range(r) \cup Range(s) \subseteq Range(r \o s)
    BY <2>2 DEF Joined, Range
  <2>4. Range(r \o s) \subseteq Range(r) \cup Range(s)
    BY <2>2 DEF Joined, Range
  <2> QED BY <2>3, <2>4
<1>2. ASSUME NEW s \in Seq(S), s # << >> PROVE Range(s) = {s[1]} \cup Range(Tail(s))
  <2>1. IsSeq(s)
    BY DEF IsSeq
  <2>2. /\ 1 \in DOMAIN s
        /\ \A k \in DOMAIN Tail(s) : k + 1 \in DOMAIN s /\ Tail(s)[k] = s[k + 1]
        /\ \A k \in DOMAIN s : k # 1 => k - 1 \in DOMAIN Tail(s) /\ Tail(s)[k - 1] = s[k]
    BY <1>2, <2>1, TailElements
  <2>3. Range(s) \subseteq {s[1]} \cup Range(Tail(s))
    <3>1. ASSUME NEW k \in DOMAIN s, k # 1 PROVE s[k] \in Range(Tail(s))
      BY <2>2, <3>1 DEF Range
    <3> QED BY <3>1 DEF Range
  <2>4. Range(Tail(s)) \subseteq Range(s) /\ s[1] \in Range(s)
    BY <2>2 DEF Range
  <2> QED BY <2>3, <2>4
<1>3. \A s \in Seq(S) : Range(s) \subseteq S
  BY DEF Range
<1>4. Range(<< >>) = {} /\ \A x : Range(<<x>>) = {x}
  BY DEF Range
<1>5. ASSUME NEW s \in Seq(S), NEW x \in S PROVE Range(Append(s, x)) = Range(s) \cup {x}
  <2>1. Append(s, x) = s \o <<x>> /\ <<x>> \in Seq(S)
    OBVIOUS
  <2> QED BY <1>1, <1>4, <2>1
<1> QED BY <1>1, <1>2, <1>3, <1>4, <1>5

\* What Tell makes.
TellsOf(cs, ps, s) ==
    /\ s \in Seq(Task) /\ Len(s) = 2 * Len(cs)
    /\ \A k \in 1 .. Len(cs) :
        /\ s[2 * k - 1] = <<"write", cs[k], ps[k]>>
        /\ s[2 * k] = <<"flush", cs[k]>>
    /\ \A k \in DOMAIN s : \E j \in 1 .. Len(cs) : k = 2 * j - 1 \/ k = 2 * j

LEMMA Halves ==
    ASSUME NEW n \in Nat, NEW k \in 1 .. 2 * n
    PROVE  /\ k % 2 = 1 => (k + 1) \div 2 \in 1 .. n /\ k = 2 * ((k + 1) \div 2) - 1
           /\ k % 2 # 1 => k \div 2 \in 1 .. n /\ k = 2 * (k \div 2)
OBVIOUS

LEMMA Doubles ==
    ASSUME NEW n \in Nat, NEW j \in 1 .. n
    PROVE  /\ 2 * j \in 1 .. 2 * n /\ 2 * j - 1 \in 1 .. 2 * n
           /\ (2 * j) % 2 # 1 /\ (2 * j) \div 2 = j
           /\ (2 * j - 1) % 2 = 1 /\ ((2 * j - 1) + 1) \div 2 = j
OBVIOUS

LEMMA TellTyped ==
    ASSUME NEW cs \in Seq(Clients), NEW ps, \A k \in 1 .. Len(cs) : ps[k] \in Packet
    PROVE  TellsOf(cs, ps, Tell(cs, ps))
<1> DEFINE n == Len(cs)
           e(k) == IF k % 2 = 1
                   THEN <<"write", cs[(k + 1) \div 2], ps[(k + 1) \div 2]>>
                   ELSE <<"flush", cs[k \div 2]>>
           s == [k \in 1 .. 2 * n |-> e(k)]
<1>1. n \in Nat /\ 2 * n \in Nat /\ \A k \in 1 .. n : cs[k] \in Clients
  OBVIOUS
<1>2. Tell(cs, ps) = s
  BY DEF Tell
<1> HIDE DEF n
<1>3. ASSUME NEW k \in 1 .. 2 * n PROVE e(k) \in Task
  <2>1. CASE k % 2 = 1
    <3>1. (k + 1) \div 2 \in 1 .. n
      BY <1>1, <2>1, Halves
    <3>2. cs[(k + 1) \div 2] \in Clients /\ ps[(k + 1) \div 2] \in Packet
      BY <1>1, <3>1 DEF n
    <3> QED BY <2>1, <3>2, TaskKinds
  <2>2. CASE k % 2 # 1
    <3>1. k \div 2 \in 1 .. n
      BY <1>1, <2>2, Halves
    <3>2. cs[k \div 2] \in Clients
      BY <1>1, <3>1
    <3> QED BY <2>2, <3>2, TaskKinds
  <2> QED BY <2>1, <2>2
<1>4. s \in Seq(Task) /\ Len(s) = 2 * n /\ DOMAIN s = 1 .. 2 * n
  BY <1>1, <1>3
<1>5. ASSUME NEW j \in 1 .. n
      PROVE  s[2 * j - 1] = <<"write", cs[j], ps[j]>> /\ s[2 * j] = <<"flush", cs[j]>>
  BY <1>1, Doubles
<1>6. ASSUME NEW k \in 1 .. 2 * n PROVE \E j \in 1 .. n : k = 2 * j - 1 \/ k = 2 * j
  BY <1>1, Halves
<1> HIDE DEF s
<1>7. TellsOf(cs, ps, s)
  BY <1>4, <1>5, <1>6 DEF TellsOf, n
<1> QED BY <1>2, <1>7

LEMMA TalkTyped ==
    ASSUME NEW cs \in Seq(Clients)
    PROVE  Talk(cs) \in Seq(Chatter)
<1> DEFINE ps == [k \in DOMAIN cs |-> <<"talk">>]
           s == Tell(cs, ps)
<1>1. DOMAIN cs = 1 .. Len(cs) /\ \A k \in 1 .. Len(cs) : ps[k] = Talking
  BY DEF Talking
<1>2. TellsOf(cs, ps, s)
  BY <1>1, TellTyped, PacketFields
<1>3. Talk(cs) = s
  BY DEF Talk
<1> HIDE DEF ps, s
<1>4. ASSUME NEW k \in DOMAIN s PROVE s[k] \in Chatter
  <2>1. PICK j \in 1 .. Len(cs) : k = 2 * j - 1 \/ k = 2 * j
    BY <1>2 DEF TellsOf
  <2>2. cs[j] \in Clients
    OBVIOUS
  <2>3. s[2 * j - 1] = <<"write", cs[j], Talking>> /\ s[2 * j] = <<"flush", cs[j]>>
    BY <1>1, <1>2 DEF TellsOf
  <2>4. <<"write", cs[j], Talking>> \in Chatter /\ <<"flush", cs[j]>> \in Chatter
    BY <2>2, ChatterFields
  <2> QED BY <2>1, <2>3, <2>4
<1>5. s \in Seq(Chatter)
  <2>1. Len(s) \in Nat /\ DOMAIN s = 1 .. Len(s) /\ s = [k \in 1 .. Len(s) |-> s[k]]
    BY <1>2 DEF TellsOf
  <2> QED BY <1>4, <2>1
<1> QED BY <1>3, <1>5

LEMMA EverybodyTyped ==
    /\ All \in Seq(Clients) /\ Broadcast \in Seq(Chatter)
    /\ \A c \in Clients : Others(c) \in Seq(Clients) /\ Talk(Others(c)) \in Seq(Chatter)
<1>1. N \in Nat \ {0} /\ Clients = 1 .. N
  BY ClientsAssumption DEF Clients
<1>2. All \in Seq(Clients)
  BY <1>1 DEF All
<1>3. ASSUME NEW c \in Clients PROVE Others(c) \in Seq(Clients)
  BY <1>1 DEF Others
<1> QED BY <1>2, <1>3, TalkTyped DEF Broadcast

LEMMA DisconnectTyped ==
    ASSUME NEW c \in Clients
    PROVE  Disconnect(c) \in Seq(Chatter) /\ <<"down", c>> \in Range(Disconnect(c))
<1> DEFINE a == Talk(<<c>>)
           b == IF c \in WebSocket THEN << <<"close", c>> >> ELSE << >>
           d == << <<"down", c>> >>
<1>1. a \in Seq(Chatter) /\ b \in Seq(Chatter) /\ d \in Seq(Chatter)
  <2>1. <<c>> \in Seq(Clients)
    OBVIOUS
  <2>2. a \in Seq(Chatter)
    BY <2>1, TalkTyped
  <2>3. <<"close", c>> \in Chatter /\ <<"down", c>> \in Chatter
    BY ChatterFields
  <2>4. b \in Seq(Chatter)
    BY <2>3, SeqFacts
  <2>5. d \in Seq(Chatter)
    BY <2>3
  <2> QED BY <2>2, <2>4, <2>5
<1>2. Disconnect(c) = (a \o b) \o d
  BY DEF Disconnect
<1>3. Range(d) = {<<"down", c>>}
  BY RangeFacts
<1> HIDE DEF a, b, d
<1>4. a \o b \in Seq(Chatter) /\ (a \o b) \o d \in Seq(Chatter)
  BY <1>1
<1>5. Range((a \o b) \o d) = Range(a \o b) \cup Range(d)
  <2>1. \A r, s \in Seq(Chatter) : Range(r \o s) = Range(r) \cup Range(s)
    BY RangeFacts
  <2> QED BY <1>1, <1>4, <2>1
<1> QED BY <1>2, <1>3, <1>4, <1>5

\* What is left of Finished.
Finale(c) == Chatter \cup {<<"spawned", c>>}

FinishesOf(c, s) ==
    /\ s \in Seq(Task) /\ {1, 2} \subseteq DOMAIN s
    /\ s[1] = <<"write", c, <<"finish">>>> /\ s[2] = <<"flush", c>>
    /\ \A k \in DOMAIN s : k \notin {1, 2} => s[k] \in Finale(c)

LEMMA FinaleTasks ==
    ASSUME NEW c \in Clients
    PROVE  Finale(c) \subseteq Task
BY ChatterFields, TaskKinds DEF Finale

LEMMA FinishesOn ==
    ASSUME NEW c \in Clients, NEW s, FinishesOf(c, s), NEW r \in Seq(Finale(c))
    PROVE  FinishesOf(c, s \o r)
<1>1. s \in Seq(Task) /\ r \in Seq(Task)
  BY FinaleTasks DEF FinishesOf
<1>2. IsSeq(s) /\ IsSeq(r)
  BY <1>1 DEF IsSeq
<1>3. Joined(s \o r, s, r)
  BY <1>2, ConcatElements
<1>4. s \o r \in Seq(Task)
  BY <1>1
<1>5. ASSUME NEW k \in DOMAIN (s \o r), k \notin {1, 2} PROVE (s \o r)[k] \in Finale(c)
  <2>1. CASE k \in DOMAIN s
    BY <1>3, <1>5, <2>1 DEF Joined, FinishesOf
  <2>2. CASE k \notin DOMAIN s
    <3>1. k - Len(s) \in DOMAIN r /\ (s \o r)[k] = r[k - Len(s)]
      BY <1>3, <2>2 DEF Joined
    <3> QED BY <3>1
  <2> QED BY <2>1, <2>2
<1> QED BY <1>3, <1>4, <1>5 DEF Joined, FinishesOf

LEMMA FinishedTyped ==
    ASSUME NEW c \in Clients
    PROVE  FinishesOf(c, Finished(c))
<1> DEFINE a == Tell(<<c, c>>, << <<"finish">>, <<"talk">> >>)
           x == [k \in 1 .. 2 * (N - 1) |-> IF k % 2 = 1 THEN c ELSE Others(c)[k \div 2]]
           d == << <<"spawned", c>> >>
           f == << <<"flush", c>> >>
           F == Finale(c)
<1>1. FinishesOf(c, a)
  <2> DEFINE cs == <<c, c>>
             ps == << <<"finish">>, <<"talk">> >>
  <2>1. cs \in Seq(Clients) /\ Len(cs) = 2 /\ cs[1] = c /\ cs[2] = c
    OBVIOUS
  <2>2. ps[1] = <<"finish">> /\ ps[2] = Talking
    BY DEF Talking
  <2>3. \A k \in 1 .. 2 : ps[k] \in Packet
    BY <2>2, PacketFields
  <2>4. a = Tell(cs, ps)
    OBVIOUS
  <2> HIDE DEF cs, ps, a
  <2>5. TellsOf(cs, ps, a)
    BY <2>1, <2>3, <2>4, TellTyped
  <2>6. a \in Seq(Task) /\ Len(a) = 4 /\ DOMAIN a = 1 .. 4
    BY <2>1, <2>5 DEF TellsOf
  <2>7. /\ \A k \in 1 .. 2 : a[2 * k - 1] = <<"write", cs[k], ps[k]>> /\ a[2 * k] = <<"flush", cs[k]>>
    BY <2>1, <2>5 DEF TellsOf
  <2>8. /\ 1 \in 1 .. 2 /\ 2 \in 1 .. 2 /\ 2 * 1 - 1 = 1 /\ 2 * 1 = 2 /\ 2 * 2 - 1 = 3 /\ 2 * 2 = 4
    OBVIOUS
  <2>9. /\ a[1] = <<"write", c, <<"finish">>>> /\ a[2] = <<"flush", c>>
        /\ a[3] = <<"write", c, Talking>> /\ a[4] = <<"flush", c>>
    BY <2>1, <2>2, <2>7, <2>8
  <2>10. a[3] \in Finale(c) /\ a[4] \in Finale(c)
    BY <2>9, ChatterFields DEF Finale
  <2>11. \A k \in DOMAIN a : k \notin {1, 2} => k = 3 \/ k = 4
    BY <2>6
  <2> QED BY <2>6, <2>9, <2>10, <2>11 DEF FinishesOf
<1>2. Talk(x) \in Seq(F) /\ d \in Seq(F) /\ f \in Seq(F) /\ Broadcast \in Seq(F)
  <2>1. N - 1 \in Nat /\ \A k \in 1 .. N - 1 : Others(c)[k] \in Clients
    <3>1. N \in Nat \ {0}
      BY ClientsAssumption
    <3>2. Others(c) \in Seq(Clients) /\ DOMAIN Others(c) = 1 .. N - 1
      BY EverybodyTyped DEF Others
    <3> QED BY <3>1, <3>2
  <2>2. \A k \in 1 .. 2 * (N - 1) : (IF k % 2 = 1 THEN c ELSE Others(c)[k \div 2]) \in Clients
    BY <2>1, Halves
  <2>3. x \in Seq(Clients)
    BY <2>1, <2>2
  <2>4. Chatter \subseteq F /\ <<"spawned", c>> \in F /\ <<"flush", c>> \in F
    BY ChatterFields DEF Finale
  <2>5. Seq(Chatter) \subseteq Seq(F)
    BY <2>4
  <2> HIDE DEF x, F
  <2>6. Talk(x) \in Seq(Chatter) /\ Broadcast \in Seq(Chatter)
    BY <2>3, TalkTyped, EverybodyTyped
  <2> QED BY <2>4, <2>5, <2>6
<1>3. Finished(c) = a \o Talk(x) \o d \o Broadcast \o f
  BY DEF Finished
<1> HIDE DEF a, x, d, f
<1>4. FinishesOf(c, a \o Talk(x))
  BY <1>1, <1>2, FinishesOn
<1>5. FinishesOf(c, a \o Talk(x) \o d)
  BY <1>2, <1>4, FinishesOn
<1>6. FinishesOf(c, a \o Talk(x) \o d \o Broadcast)
  BY <1>2, <1>5, FinishesOn
<1> QED BY <1>2, <1>3, <1>6, FinishesOn

\* The positions in some order, each of them.
LEMMA Positions ==
    /\ Cardinality(Pos) \in Nat
    /\ \A k \in 1 .. Cardinality(Pos) : SetToSeq(Pos)[k] \in Pos
    /\ \A p \in Pos : \E k \in 1 .. Cardinality(Pos) : SetToSeq(Pos)[k] = p
<1> DEFINE n == Cardinality(Pos)
           f == SetToSeq(Pos)
<1>1. n \in Nat /\ ExistsBijection(1 .. n, Pos)
  BY WorldAssumption, FS_CardinalityType
<1>2. \E g \in [1 .. n -> Pos] : IsInjective(g)
  <2>1. PICK g : g \in Bijection(1 .. n, Pos)
    BY <1>1 DEF ExistsBijection
  <2> QED BY <2>1 DEF Bijection, Injection, IsInjective
<1>3. f \in [1 .. n -> Pos] /\ IsInjective(f)
  BY <1>2 DEF SetToSeq
<1> HIDE DEF f
<1>4. f \in Injection(1 .. n, Pos)
  BY <1>3 DEF Injection, IsInjective
<1>5. Cardinality(1 .. n) = n
  <2>1. 1 \in Int /\ n \in Int
    BY <1>1
  <2>2. Cardinality(1 .. n) = IF 1 > n THEN 0 ELSE n - 1 + 1
    BY <2>1, FS_Interval
  <2> QED BY <1>1, <2>2
<1>6. f \in Surjection(1 .. n, Pos)
  BY <1>4, <1>5, WorldAssumption, FS_Injection
<1> QED BY <1>1, <1>3, <1>6 DEF Surjection, f

\* The steps of a fast thread.
ReadsOf(c, s) ==
    /\ s \in Seq(Task)
    /\ \A k \in DOMAIN s :
        /\ s[k][1] \in {"read", "post", "done"} /\ s[k][2] = c
        /\ s[k][1] = "done" => k = Len(s)
    /\ \A p \in Pos : <<"read", c, p>> \in Range(s)

LEMMA FastThreadTyped ==
    ASSUME NEW c \in Clients
    PROVE  ReadsOf(c, FastThread(c))
<1> DEFINE m    == Cardinality(Pos)
           n    == 2 * m + 1
           e(k) == IF k = n THEN <<"done", c>>
                   ELSE IF k % 2 = 1 THEN <<"read", c, SetToSeq(Pos)[(k + 1) \div 2]>>
                   ELSE <<"post", c>>
           s    == [k \in 1 .. n |-> e(k)]
<1>1. m \in Nat
  BY Positions
<1>2. FastThread(c) = s
  BY DEF FastThread
<1> HIDE DEF m
<1>3. ASSUME NEW k \in 1 .. n
      PROVE  /\ e(k) \in Task /\ e(k)[1] \in {"read", "post", "done"} /\ e(k)[2] = c
             /\ e(k)[1] = "done" => k = n
  <2>1. CASE k = n
    BY <2>1, TaskKinds
  <2>2. CASE k # n /\ k % 2 = 1
    <3>1. (k + 1) \div 2 \in 1 .. m
      BY <1>1, <2>2, Halves
    <3>2. SetToSeq(Pos)[(k + 1) \div 2] \in Pos
      BY <3>1, Positions DEF m
    <3> QED BY <2>2, <3>2, TaskKinds
  <2>3. CASE k # n /\ k % 2 # 1
    BY <2>3, TaskKinds
  <2> QED BY <2>1, <2>2, <2>3
<1>4. s \in Seq(Task) /\ DOMAIN s = 1 .. n /\ Len(s) = n
  BY <1>1, <1>3
<1>5. ASSUME NEW p \in Pos PROVE <<"read", c, p>> \in Range(s)
  <2>1. PICK j \in 1 .. m : SetToSeq(Pos)[j] = p
    BY Positions DEF m
  <2>2. /\ 2 * j - 1 \in 1 .. n /\ 2 * j - 1 # n /\ (2 * j - 1) % 2 = 1
        /\ ((2 * j - 1) + 1) \div 2 = j
    BY <1>1, Doubles
  <2>3. s[2 * j - 1] = <<"read", c, p>>
    BY <2>1, <2>2
  <2> QED BY <1>4, <2>2, <2>3 DEF Range
<1>6. \A k \in DOMAIN s : /\ s[k][1] \in {"read", "post", "done"} /\ s[k][2] = c
                          /\ s[k][1] = "done" => k = Len(s)
  BY <1>3, <1>4
<1> HIDE DEF s
<1> QED BY <1>2, <1>4, <1>5, <1>6 DEF ReadsOf

-----------------------------------------------------------------------------
(* The steps before the threads.                                           *)

\* Packets of a level: each of them is flushed at once.
Big == {"init", "piece", "finish"}

\* What comes before a thread's other steps: what functions say, and sends.
Errands(t) ==
    Chatter \cup ({"send", "unlock"} \X Clients)
            \cup {<<"lock", c, "send">> : c \in Clients}
            \cup {x \in {<<"sendlevel", t>>, <<"lock", t, "sendlevel">>} : t \in Clients}

MainShape(s) ==
    /\ s \in Seq(Task)
    /\ \A k \in DOMAIN s :
        /\ s[k][1] \notin {"read", "done", "post", "sendlevel"}
        /\ s[k][1] = "lock" => s[k][3] = "send"
        /\ s[k][1] = "start" => k = Len(s)
        /\ s[k][1] = "write" /\ s[k][3][1] \in Big =>
            k + 1 \in DOMAIN s /\ s[k + 1] = <<"flush", s[k][2]>>
        /\ s[k][1] = "write" /\ s[k][3][1] = "init" =>
            k + 2 \in DOMAIN s /\ s[k + 2] = <<"start", s[k][2]>>
    /\ \A j, k \in DOMAIN s :
        s[j] = s[k] /\ s[k][1] = "write" /\ s[k][3][1] = "finish" => j = k

FastShape(t, s) ==
    /\ s \in Seq(Task)
    /\ \A k \in DOMAIN s :
        /\ s[k][1] \notin {"start", "spawned"}
        /\ s[k][1] = "write" => s[k][3] = Talking
        /\ s[k][1] \in {"read", "done", "post", "sendlevel"} => s[k][2] = t
        /\ s[k][1] = "lock" /\ s[k][3] # "send" => s[k][2] = t
        /\ s[k][1] = "done" => k = Len(s)
    /\ \A j, k \in DOMAIN s :
        j < k /\ s[j][1] = "read" => s[k][1] \in {"read", "post", "done"}

TodoInv ==
    /\ todo \in [Threads -> Seq(Task)]
    /\ MainShape(todo[Main])
    /\ \A t \in Fast : FastShape(t, todo[t])

LEMMA ErrandFields ==
    ASSUME NEW t \in Threads
    PROVE  /\ Errands(t) \subseteq Task
           /\ \A x \in Errands(t) :
                /\ x[1] \in {"write", "flush", "close", "down", "send", "unlock", "lock", "sendlevel"}
                /\ x[1] = "write" => x[3] = Talking
                /\ x[1] = "lock" => x[3] = "send" \/ (x[2] = t /\ t \in Clients)
                /\ x[1] = "sendlevel" => x[2] = t /\ t \in Clients
           /\ Chatter \subseteq Errands(t)
           /\ \A c \in Clients : /\ <<"send", c>> \in Errands(t) /\ <<"unlock", c>> \in Errands(t)
                                 /\ <<"lock", c, "send">> \in Errands(t)
           /\ t \in Clients => /\ <<"sendlevel", t>> \in Errands(t)
                               /\ <<"lock", t, "sendlevel">> \in Errands(t)
<1>1. \A x \in Errands(t) :
        \/ x \in Chatter
        \/ \E c \in Clients : x \in {<<"send", c>>, <<"unlock", c>>, <<"lock", c, "send">>}
        \/ t \in Clients /\ x \in {<<"sendlevel", t>>, <<"lock", t, "sendlevel">>}
  BY DEF Errands
<1>2. Errands(t) \subseteq Task
  BY <1>1, ChatterFields, TaskKinds
<1>3. \A x \in Errands(t) :
        /\ x[1] \in {"write", "flush", "close", "down", "send", "unlock", "lock", "sendlevel"}
        /\ x[1] = "write" => x[3] = Talking
        /\ x[1] = "lock" => x[3] = "send" \/ (x[2] = t /\ t \in Clients)
        /\ x[1] = "sendlevel" => x[2] = t /\ t \in Clients
  BY <1>1, ChatterFields
<1>4. /\ Chatter \subseteq Errands(t)
      /\ \A c \in Clients : /\ <<"send", c>> \in Errands(t) /\ <<"unlock", c>> \in Errands(t)
                            /\ <<"lock", c, "send">> \in Errands(t)
      /\ t \in Clients => /\ <<"sendlevel", t>> \in Errands(t)
                          /\ <<"lock", t, "sendlevel">> \in Errands(t)
  BY DEF Errands
<1> QED BY <1>2, <1>3, <1>4

LEMMA MainIsNoClient == Main \notin Clients /\ Main \in Threads /\ Fast \subseteq Clients
                        /\ \A t \in Threads : t = Main \/ t \in Fast
BY ClientsAssumption DEF Main, Clients, Threads

LEMMA LenTail ==
    ASSUME NEW S, NEW s \in Seq(S), s # << >>
    PROVE  Len(Tail(s)) = Len(s) - 1 /\ Len(s) \in Nat
OBVIOUS

LEMMA LenZero ==
    ASSUME NEW S, NEW s \in Seq(S), Len(s) = 0
    PROVE  s = << >>
OBVIOUS

LEMMA MainTail ==
    ASSUME NEW s, MainShape(s), s # << >>
    PROVE  MainShape(Tail(s))
<1> DEFINE u == Tail(s)
<1>1. s \in Seq(Task) /\ IsSeq(s)
  BY DEF MainShape, IsSeq
<1>2. /\ DOMAIN s \subseteq Nat \ {0} /\ DOMAIN u \subseteq Nat \ {0}
      /\ \A k \in DOMAIN u : k + 1 \in DOMAIN s /\ u[k] = s[k + 1]
      /\ \A k \in DOMAIN s : k # 1 => k - 1 \in DOMAIN u /\ u[k - 1] = s[k]
  BY <1>1, TailElements
<1>3. u \in Seq(Task) /\ Len(u) = Len(s) - 1 /\ Len(s) \in Nat
  BY <1>1, SeqFacts, LenTail
<1> HIDE DEF u
<1>4. ASSUME NEW k \in DOMAIN u
      PROVE  /\ u[k][1] \notin {"read", "done", "post", "sendlevel"}
             /\ u[k][1] = "lock" => u[k][3] = "send"
             /\ u[k][1] = "start" => k = Len(u)
             /\ u[k][1] = "write" /\ u[k][3][1] \in Big =>
                 k + 1 \in DOMAIN u /\ u[k + 1] = <<"flush", u[k][2]>>
             /\ u[k][1] = "write" /\ u[k][3][1] = "init" =>
                 k + 2 \in DOMAIN u /\ u[k + 2] = <<"start", u[k][2]>>
  <2>1. k \in Nat /\ k + 1 \in DOMAIN s /\ u[k] = s[k + 1] /\ k # 0
    BY <1>2
  <2>2. /\ (k + 1) + 1 # 1 /\ ((k + 1) + 1) - 1 = k + 1
        /\ (k + 1) + 2 # 1 /\ ((k + 1) + 2) - 1 = k + 2
    BY <2>1
  <2>3. u[k][1] = "start" => k = Len(u)
    BY <1>3, <2>1 DEF MainShape
  <2>4. u[k][1] = "write" /\ u[k][3][1] \in Big =>
            k + 1 \in DOMAIN u /\ u[k + 1] = <<"flush", u[k][2]>>
    BY <1>2, <2>1, <2>2 DEF MainShape
  <2>5. u[k][1] = "write" /\ u[k][3][1] = "init" =>
            k + 2 \in DOMAIN u /\ u[k + 2] = <<"start", u[k][2]>>
    BY <1>2, <2>1, <2>2 DEF MainShape
  <2> QED BY <2>1, <2>3, <2>4, <2>5 DEF MainShape
<1>5. ASSUME NEW j \in DOMAIN u, NEW k \in DOMAIN u,
             u[j] = u[k], u[k][1] = "write", u[k][3][1] = "finish"
      PROVE  j = k
  <2>1. j + 1 = k + 1 /\ j \in Nat /\ k \in Nat
    BY <1>2, <1>5 DEF MainShape
  <2> QED BY <2>1
<1>6. MainShape(u)
  BY <1>3, <1>4, <1>5 DEF MainShape
<1> QED BY <1>6 DEF u

LEMMA MainBefore ==
    ASSUME NEW s, MainShape(s), NEW r \in Seq(Errands(Main))
    PROVE  MainShape(r \o s)
<1> DEFINE u == r \o s
           n == Len(r)
<1>0. /\ Main \in Threads /\ Main \notin Clients /\ Errands(Main) \subseteq Task
      /\ \A x \in Errands(Main) :
            /\ x[1] \notin {"read", "done", "post", "sendlevel", "start"}
            /\ x[1] = "lock" => x[3] = "send"
            /\ x[1] = "write" => x[3] = Talking
  BY MainIsNoClient, ErrandFields
<1>1. s \in Seq(Task) /\ r \in Seq(Task) /\ IsSeq(s) /\ IsSeq(r)
  <2>1. s \in Seq(Task) /\ r \in Seq(Task)
    BY <1>0 DEF MainShape
  <2> QED BY <2>1 DEF IsSeq
<1>2. Joined(u, r, s)
  BY <1>1, ConcatElements
<1>3. u \in Seq(Task) /\ Len(u) = n + Len(s) /\ Len(s) \in Nat /\ n \in Nat
  BY <1>1
<1> HIDE DEF u
<1>4. /\ DOMAIN s \subseteq Nat \ {0}
      /\ \A k \in DOMAIN s : n + k \in DOMAIN u /\ u[n + k] = s[k]
      /\ \A k \in DOMAIN u : \/ k \in DOMAIN r /\ u[k] = r[k]
                             \/ k > n /\ k - n \in DOMAIN s /\ u[k] = s[k - n]
  BY <1>2 DEF Joined
<1>5. \A k \in DOMAIN r : /\ r[k][1] \notin {"read", "done", "post", "sendlevel", "start"}
                          /\ r[k][1] = "lock" => r[k][3] = "send"
                          /\ r[k][1] = "write" => r[k][3][1] \notin Big
  <2>1. \A k \in DOMAIN r : r[k] \in Errands(Main)
    OBVIOUS
  <2>2. Talking[1] \notin Big
    BY DEF Talking, Big
  <2> QED BY <1>0, <2>1, <2>2
<1>6. ASSUME NEW k \in DOMAIN u
      PROVE  /\ u[k][1] \notin {"read", "done", "post", "sendlevel"}
             /\ u[k][1] = "lock" => u[k][3] = "send"
             /\ u[k][1] = "start" => k = Len(u)
             /\ u[k][1] = "write" /\ u[k][3][1] \in Big =>
                 k + 1 \in DOMAIN u /\ u[k + 1] = <<"flush", u[k][2]>>
             /\ u[k][1] = "write" /\ u[k][3][1] = "init" =>
                 k + 2 \in DOMAIN u /\ u[k + 2] = <<"start", u[k][2]>>
  <2>1. CASE k \in DOMAIN r /\ u[k] = r[k]
    <3>1. "init" \in Big
      BY DEF Big
    <3> QED BY <1>5, <2>1, <3>1
  <2>2. CASE k > n /\ k - n \in DOMAIN s /\ u[k] = s[k - n]
    <3>1. k - n \in Nat /\ k \in Int
      <4>1. k \in Nat
        BY <1>2 DEF Joined
      <4> QED BY <1>3, <2>2, <4>1
    <3>2. n + ((k - n) + 1) = k + 1 /\ n + ((k - n) + 2) = k + 2
      BY <1>3, <3>1
    <3>3. u[k][1] = "start" => k = Len(u)
      BY <1>3, <2>2, <3>1 DEF MainShape
    <3>4. u[k][1] = "write" /\ u[k][3][1] \in Big =>
              k + 1 \in DOMAIN u /\ u[k + 1] = <<"flush", u[k][2]>>
      BY <1>4, <2>2, <3>2 DEF MainShape
    <3>5. u[k][1] = "write" /\ u[k][3][1] = "init" =>
              k + 2 \in DOMAIN u /\ u[k + 2] = <<"start", u[k][2]>>
      BY <1>4, <2>2, <3>2 DEF MainShape
    <3> QED BY <2>2, <3>3, <3>4, <3>5 DEF MainShape
  <2> QED BY <1>4, <2>1, <2>2
<1>7. ASSUME NEW j \in DOMAIN u, NEW k \in DOMAIN u,
             u[j] = u[k], u[k][1] = "write", u[k][3][1] = "finish"
      PROVE  j = k
  <2>1. "finish" \in Big
    BY DEF Big
  <2>2. j - n \in DOMAIN s /\ k - n \in DOMAIN s /\ u[j] = s[j - n] /\ u[k] = s[k - n]
    BY <1>4, <1>5, <1>7, <2>1
  <2>3. j - n = k - n
    BY <1>7, <2>2 DEF MainShape
  <2>4. j \in Nat /\ k \in Nat
    BY <1>2 DEF Joined
  <2> QED BY <1>3, <2>3, <2>4
<1>8. MainShape(u)
  BY <1>3, <1>6, <1>7 DEF MainShape
<1> QED BY <1>8 DEF u

LEMMA FastTail ==
    ASSUME NEW t, NEW s, FastShape(t, s), s # << >>
    PROVE  FastShape(t, Tail(s))
<1> DEFINE u == Tail(s)
<1>1. s \in Seq(Task) /\ IsSeq(s)
  BY DEF FastShape, IsSeq
<1>2. /\ DOMAIN u \subseteq Nat \ {0}
      /\ \A k \in DOMAIN u : k + 1 \in DOMAIN s /\ u[k] = s[k + 1]
  BY <1>1, TailElements
<1>3. u \in Seq(Task) /\ Len(u) = Len(s) - 1 /\ Len(s) \in Nat
  BY <1>1, SeqFacts, LenTail
<1> HIDE DEF u
<1>4. ASSUME NEW k \in DOMAIN u
      PROVE  /\ u[k][1] \notin {"start", "spawned"}
             /\ u[k][1] = "write" => u[k][3] = Talking
             /\ u[k][1] \in {"read", "done", "post", "sendlevel"} => u[k][2] = t
             /\ u[k][1] = "lock" /\ u[k][3] # "send" => u[k][2] = t
             /\ u[k][1] = "done" => k = Len(u)
  <2>1. k \in Nat /\ k + 1 \in DOMAIN s /\ u[k] = s[k + 1]
    BY <1>2
  <2>2. u[k][1] = "done" => k = Len(u)
    BY <1>3, <2>1 DEF FastShape
  <2> QED BY <2>1, <2>2 DEF FastShape
<1>5. ASSUME NEW j \in DOMAIN u, NEW k \in DOMAIN u, j < k, u[j][1] = "read"
      PROVE  u[k][1] \in {"read", "post", "done"}
  <2>1. j + 1 < k + 1
    BY <1>2, <1>5
  <2> QED BY <1>2, <1>5, <2>1 DEF FastShape
<1>6. FastShape(t, u)
  BY <1>3, <1>4, <1>5 DEF FastShape
<1> QED BY <1>6 DEF u

LEMMA FastBefore ==
    ASSUME NEW t \in Fast, NEW s, FastShape(t, s), NEW r \in Seq(Errands(t))
    PROVE  FastShape(t, r \o s)
<1> DEFINE u == r \o s
           n == Len(r)
<1>1. /\ t \in Threads /\ Errands(t) \subseteq Task
      /\ \A x \in Errands(t) :
            /\ x[1] \notin {"read", "done", "post", "start", "spawned"}
            /\ x[1] = "lock" => x[3] = "send" \/ x[2] = t
            /\ x[1] = "write" => x[3] = Talking
            /\ x[1] = "sendlevel" => x[2] = t
  <2>1. t \in Threads
    BY MainIsNoClient DEF Threads
  <2> QED BY <2>1, ErrandFields
<1>2. s \in Seq(Task) /\ r \in Seq(Task) /\ IsSeq(s) /\ IsSeq(r)
  <2>1. s \in Seq(Task) /\ r \in Seq(Task)
    BY <1>1 DEF FastShape
  <2> QED BY <2>1 DEF IsSeq
<1>3. Joined(u, r, s)
  BY <1>2, ConcatElements
<1>4. u \in Seq(Task) /\ Len(u) = n + Len(s) /\ Len(s) \in Nat /\ n \in Nat
  BY <1>2
<1> HIDE DEF u
<1>5. \A k \in DOMAIN u : \/ k \in DOMAIN r /\ u[k] = r[k]
                          \/ k > n /\ k - n \in DOMAIN s /\ u[k] = s[k - n]
  BY <1>3 DEF Joined
<1>6. \A k \in DOMAIN r : r[k] \in Errands(t)
  OBVIOUS
<1>7. ASSUME NEW k \in DOMAIN u
      PROVE  /\ u[k][1] \notin {"start", "spawned"}
             /\ u[k][1] = "write" => u[k][3] = Talking
             /\ u[k][1] \in {"read", "done", "post", "sendlevel"} => u[k][2] = t
             /\ u[k][1] = "lock" /\ u[k][3] # "send" => u[k][2] = t
             /\ u[k][1] = "done" => k = Len(u)
  <2>1. CASE k \in DOMAIN r /\ u[k] = r[k]
    BY <1>1, <1>6, <2>1
  <2>2. CASE k > n /\ k - n \in DOMAIN s /\ u[k] = s[k - n]
    <3>1. k \in Nat
      BY <1>3 DEF Joined
    <3>2. u[k][1] = "done" => k = Len(u)
      BY <1>4, <2>2, <3>1 DEF FastShape
    <3> QED BY <2>2, <3>2 DEF FastShape
  <2> QED BY <1>5, <2>1, <2>2
<1>8. ASSUME NEW j \in DOMAIN u, NEW k \in DOMAIN u, j < k, u[j][1] = "read"
      PROVE  u[k][1] \in {"read", "post", "done"}
  <2>1. j > n /\ j - n \in DOMAIN s /\ u[j] = s[j - n]
    BY <1>1, <1>5, <1>6, <1>8
  <2>2. j \in Nat /\ k \in Nat /\ DOMAIN r = 1 .. n
    BY <1>3 DEF Joined
  <2>3. k > n /\ k - n \in DOMAIN s /\ u[k] = s[k - n]
    BY <1>4, <1>5, <1>8, <2>1, <2>2
  <2>4. j - n < k - n
    BY <1>4, <1>8, <2>2
  <2> QED BY <1>8, <2>1, <2>3, <2>4 DEF FastShape
<1>9. FastShape(t, u)
  BY <1>4, <1>7, <1>8 DEF FastShape
<1> QED BY <1>9 DEF u

LEMMA FastNew ==
    ASSUME NEW c \in Fast
    PROVE  FastShape(c, FastThread(c)) /\ FastShape(c, << >>)
<1>1. c \in Clients
  BY MainIsNoClient
<1>2. ReadsOf(c, FastThread(c))
  BY <1>1, FastThreadTyped
<1>3. FastShape(c, FastThread(c))
  BY <1>2 DEF ReadsOf, FastShape
<1>4. FastShape(c, << >>)
  BY SeqFacts DEF FastShape
<1> QED BY <1>3, <1>4

LEMMA MainNothing == MainShape(<< >>)
BY SeqFacts DEF MainShape

-----------------------------------------------------------------------------
(* What a step does to the steps before the threads.                       *)

\* It puts these in front.
Goes(t, r) == t \in Threads /\ todo[t] # << >> /\ r \in Seq(Errands(t)) /\ Then(t, r)

\* A handler of the main loop begins.
Handles(s) ==
    todo[Main] = << >> /\ MainShape(s) /\ todo' = [todo EXCEPT ![Main] = s]

LEMMA GoesShape ==
    ASSUME TodoInv, NEW t, NEW r, Goes(t, r)
    PROVE  /\ TodoInv'
           /\ todo'[t] = r \o Tail(todo[t])
           /\ \A u \in Threads : u # t => todo'[u] = todo[u]
<1>1. t \in Threads /\ todo[t] \in Seq(Task) /\ todo[t] # << >> /\ Errands(t) \subseteq Task
  BY ErrandFields DEF Goes, TodoInv
<1> DEFINE s == r \o Tail(todo[t])
<1>2. s \in Seq(Task)
  BY <1>1, SeqFacts DEF Goes
<1>3. todo' = [todo EXCEPT ![t] = s]
  BY DEF Goes, Then
<1>4. /\ todo' \in [Threads -> Seq(Task)] /\ todo'[t] = s
      /\ \A u \in Threads : u # t => todo'[u] = todo[u]
  BY <1>1, <1>2, <1>3 DEF TodoInv
<1>5. CASE t = Main
  <2>1. MainShape(s)
    BY <1>1, <1>5, MainTail, MainBefore DEF TodoInv, Goes
  <2>2. \A u \in Fast : u # t /\ u \in Threads
    BY <1>5, MainIsNoClient DEF Threads
  <2> QED BY <1>4, <1>5, <2>1, <2>2 DEF TodoInv
<1>6. CASE t # Main
  <2>1. t \in Fast
    BY <1>1, <1>6, MainIsNoClient
  <2>2. FastShape(t, s)
    BY <1>1, <2>1, FastTail, FastBefore DEF TodoInv, Goes
  <2>3. todo'[Main] = todo[Main] /\ \A u \in Fast : u \in Threads
    BY <1>4, <1>6, MainIsNoClient DEF Threads
  <2>4. \A u \in Fast : FastShape(u, todo'[u])
    BY <1>4, <2>2, <2>3 DEF TodoInv
  <2> QED BY <1>4, <2>3, <2>4 DEF TodoInv
<1> QED BY <1>4, <1>5, <1>6

LEMMA HandlesShape ==
    ASSUME TodoInv, NEW s, Handles(s)
    PROVE  TodoInv' /\ todo'[Main] = s /\ \A u \in Fast : todo'[u] = todo[u]
<1>1. todo' \in [Threads -> Seq(Task)] /\ todo'[Main] = s /\ \A u \in Fast : todo'[u] = todo[u]
  BY MainIsNoClient DEF Handles, TodoInv, MainShape, Threads
<1> QED BY <1>1 DEF TodoInv, Handles

\* The main thread starts the thread of a client.
LEMMA StartShape ==
    ASSUME TodoInv, NEW t \in Threads, NEW c \in Fast, Start(t, c)
    PROVE  /\ TodoInv' /\ t = Main /\ todo[c] = << >>
           /\ todo[Main] # << >> /\ todo[Main][1] = <<"start", c>>
           /\ todo'[Main] = << >> /\ todo'[c] = FastThread(c)
           /\ \A u \in Fast \ {c} : todo'[u] = todo[u]
<1>1. /\ todo[t] # << >> /\ todo[t][1][1] = "start" /\ todo[t][1][2] = c
      /\ todo[c] = << >>
      /\ todo' = [todo EXCEPT ![t] = Tail(@), ![c] = FastThread(c)]
  BY DEF Start, IsNext
<1>2. todo[t] \in Seq(Task) /\ todo[t][1] \in Task /\ 1 \in DOMAIN todo[t]
  BY <1>1 DEF TodoInv
<1>3. t = Main
  BY <1>1, <1>2, MainIsNoClient DEF TodoInv, FastShape
<1>4. todo[t][1] = <<"start", c>>
  BY <1>1, <1>2, TaskFields
<1>5. Len(todo[t]) = 1
  BY <1>1, <1>2, <1>3 DEF TodoInv, MainShape
<1>6. Tail(todo[t]) = << >>
  <2>1. todo[t] \in Seq(Task) /\ todo[t] # << >>
    BY <1>1, <1>2
  <2>2. Tail(todo[t]) \in Seq(Task) /\ Len(Tail(todo[t])) = 0
    BY <1>5, <2>1, SeqFacts, LenTail
  <2> QED BY <2>2, LenZero
<1>7. /\ todo' \in [Threads -> Seq(Task)] /\ todo'[Main] = << >> /\ todo'[c] = FastThread(c)
      /\ \A u \in Fast \ {c} : todo'[u] = todo[u]
  <2>1. FastThread(c) \in Seq(Task) /\ << >> \in Seq(Task) /\ c # Main /\ Fast \subseteq Threads
        /\ c \in Threads /\ Main \notin Fast
    BY FastNew, MainIsNoClient, SeqFacts DEF FastShape, Threads
  <2> QED BY <1>1, <1>3, <1>6, <2>1 DEF TodoInv
<1>8. TodoInv'
  BY <1>7, FastNew, MainNothing DEF TodoInv
<1> QED BY <1>1, <1>3, <1>4, <1>7, <1>8

\* A fast thread stops.
LEMMA StopShape ==
    ASSUME TodoInv, NEW t \in Threads, todo[t] # << >>, todo[t][1][1] = "read",
           todo' = [todo EXCEPT ![t] = << >>]
    PROVE  /\ TodoInv' /\ t \in Fast /\ todo'[t] = << >>
           /\ \A u \in Threads : u # t => todo'[u] = todo[u]
           /\ \A k \in DOMAIN todo[t] : todo[t][k][1] \in {"read", "post", "done"}
<1>1. todo[t] \in Seq(Task) /\ 1 \in DOMAIN todo[t]
  BY DEF TodoInv
<1>2. t \in Fast /\ t # Main
  BY <1>1, MainIsNoClient DEF TodoInv, MainShape
<1>3. /\ todo' \in [Threads -> Seq(Task)] /\ todo'[t] = << >>
      /\ \A u \in Threads : u # t => todo'[u] = todo[u]
  BY SeqFacts DEF TodoInv
<1>4. TodoInv'
  <2>1. todo'[Main] = todo[Main] /\ Fast \subseteq Threads
    BY <1>2, <1>3, MainIsNoClient DEF Threads
  <2>2. \A u \in Fast : FastShape(u, todo'[u])
    BY <1>3, <2>1, FastNew DEF TodoInv
  <2> QED BY <1>3, <2>1, <2>2 DEF TodoInv
<1>5. ASSUME NEW k \in DOMAIN todo[t] PROVE todo[t][k][1] \in {"read", "post", "done"}
  <2>1. k = 1 \/ 1 < k
    BY <1>1
  <2> QED BY <1>1, <1>2, <2>1 DEF TodoInv, FastShape
<1> QED BY <1>2, <1>3, <1>4, <1>5

-----------------------------------------------------------------------------
(* The handlers of the main loop, as sequences of steps.                   *)

\* The packets to c, other than talk, that some steps write.
DueOf(c, X) == {x \in Packet : x # Talking /\ <<"write", c, x>> \in X}

\* A handler that writes these to each client, and starts nothing.
Tells(s, f) ==
    /\ MainShape(s)
    /\ \A c \in Clients : DueOf(c, Range(s)) = f[c] /\ <<"start", c>> \notin Range(s)

LEMMA ErrandsTell ==
    ASSUME NEW s \in Seq(Errands(Main))
    PROVE  Tells(s, [c \in Clients |-> {}])
<1>1. Main \in Threads
  BY MainIsNoClient
<1>2. /\ Errands(Main) \subseteq Task
      /\ \A x \in Errands(Main) : x[1] # "start" /\ (x[1] = "write" => x[3] = Talking)
  BY <1>1, ErrandFields
<1>3. s \in Seq(Task)
  BY <1>2
<1>4. s \o << >> = s
  BY <1>3
<1>5. MainShape(s \o << >>)
  BY MainNothing, MainBefore
<1>6. Range(s) \subseteq Errands(Main)
  BY RangeFacts
<1>7. ASSUME NEW c \in Clients
      PROVE  DueOf(c, Range(s)) = {} /\ <<"start", c>> \notin Range(s)
  <2>1. \A x \in Packet : <<"write", c, x>>[1] = "write" /\ <<"write", c, x>>[3] = x
    OBVIOUS
  <2>2. <<"start", c>>[1] = "start"
    OBVIOUS
  <2> QED BY <1>2, <1>6, <2>1, <2>2 DEF DueOf
<1> QED BY <1>4, <1>5, <1>7 DEF Tells

\* Writes and flushes, but none of an init.
LEMMA TellTells ==
    ASSUME NEW cs \in Seq(Clients), NEW ps, NEW c \in Clients,
           \A k \in 1 .. Len(cs) : ps[k] \in Packet /\ ps[k][1] \in {"set", "piece"}
    PROVE  /\ MainShape(Tell(cs, ps)) /\ MainShape(Tell(cs, ps) \o << <<"flush", c>> >>)
           /\ Range(Tell(cs, ps) \o << <<"flush", c>> >>)
                = Range(Tell(cs, ps)) \cup {<<"flush", c>>}
<1> DEFINE s == Tell(cs, ps)
           f == <<"flush", c>>
           u == s \o <<f>>
           n == Len(s)
<1>1. TellsOf(cs, ps, s)
  BY TellTyped
<1>2. f \in Task /\ f[1] = "flush"
  BY TaskKinds
<1> HIDE DEF s, f
<1>3. s \in Seq(Task) /\ <<f>> \in Seq(Task) /\ IsSeq(s) /\ IsSeq(<<f>>)
  <2>1. s \in Seq(Task) /\ <<f>> \in Seq(Task)
    BY <1>1, <1>2 DEF TellsOf
  <2> QED BY <2>1 DEF IsSeq
<1>4. Joined(u, s, <<f>>)
  BY <1>3, ConcatElements
<1>5. u \in Seq(Task) /\ DOMAIN s = 1 .. n /\ n \in Nat /\ n = 2 * Len(cs) /\ Len(cs) \in Nat
  BY <1>1, <1>3 DEF TellsOf
<1>6. ASSUME NEW k \in DOMAIN s
      PROVE  /\ s[k][1] \in {"write", "flush"}
             /\ s[k][1] = "write" =>
                    /\ k + 1 \in DOMAIN s /\ s[k + 1] = <<"flush", s[k][2]>>
                    /\ s[k][3][1] \notin {"init", "finish"}
  <2>1. PICK j \in 1 .. Len(cs) : k = 2 * j - 1 \/ k = 2 * j
    BY <1>1 DEF TellsOf
  <2>2. s[2 * j - 1] = <<"write", cs[j], ps[j]>> /\ s[2 * j] = <<"flush", cs[j]>>
    BY <1>1 DEF TellsOf
  <2>3. CASE k = 2 * j
    BY <2>2, <2>3
  <2>4. CASE k = 2 * j - 1
    <3>1. k + 1 = 2 * j /\ 2 * j \in 1 .. n
      BY <1>5, <2>4
    <3>2. s[k] = <<"write", cs[j], ps[j]>> /\ s[k + 1] = <<"flush", cs[j]>>
      BY <2>2, <2>4, <3>1
    <3>3. k + 1 \in DOMAIN s /\ ps[j][1] \notin {"init", "finish"}
      BY <1>5, <3>1
    <3> QED BY <3>2, <3>3
  <2> QED BY <2>1, <2>3, <2>4
<1>7. MainShape(s)
  BY <1>3, <1>6 DEF MainShape
<1>8. ASSUME NEW k \in DOMAIN u
      PROVE  \/ k \in DOMAIN s /\ u[k] = s[k]
             \/ u[k] = f
  <2>1. <<f>>[1] = f /\ DOMAIN <<f>> = {1}
    OBVIOUS
  <2> QED BY <1>4, <2>1 DEF Joined
<1>9. \A k \in DOMAIN s : k \in DOMAIN u /\ u[k] = s[k]
  BY <1>4 DEF Joined
<1>10. ASSUME NEW k \in DOMAIN u
       PROVE  /\ u[k][1] \in {"write", "flush"}
              /\ u[k][1] = "write" =>
                    /\ k + 1 \in DOMAIN u /\ u[k + 1] = <<"flush", u[k][2]>>
                    /\ u[k][3][1] \notin {"init", "finish"}
  BY <1>2, <1>6, <1>8, <1>9
<1> HIDE DEF u
<1>11. MainShape(u)
  BY <1>5, <1>10 DEF MainShape
<1>12. Range(u) = Range(s) \cup {f}
  <2>1. Range(<<f>>) = {f} /\ \A r1, r2 \in Seq(Task) : Range(r1 \o r2) = Range(r1) \cup Range(r2)
    BY RangeFacts
  <2> QED BY <1>3, <2>1 DEF u
<1> QED BY <1>7, <1>11, <1>12 DEF s, u, f

\* The range of what Tell makes.
LEMMA TellDue ==
    ASSUME NEW cs \in Seq(Clients), NEW ps,
           \A k \in 1 .. Len(cs) : ps[k] \in Packet /\ ps[k] # Talking, NEW c \in Clients
    PROVE  /\ DueOf(c, Range(Tell(cs, ps))) = {ps[k] : k \in {j \in 1 .. Len(cs) : cs[j] = c}}
           /\ \A X : DueOf(c, X \cup {<<"flush", c>>}) = DueOf(c, X)
           /\ \A d : <<"start", d>> \notin Range(Tell(cs, ps))
<1> DEFINE s == Tell(cs, ps)
<1>1. TellsOf(cs, ps, s)
  BY TellTyped
<1> HIDE DEF s
<1>2. ASSUME NEW x \in Range(s)
      PROVE  \E j \in 1 .. Len(cs) : x = <<"write", cs[j], ps[j]>> \/ x = <<"flush", cs[j]>>
  <2>1. PICK k \in DOMAIN s : x = s[k]
    BY DEF Range
  <2>2. PICK j \in 1 .. Len(cs) : k = 2 * j - 1 \/ k = 2 * j
    BY <1>1 DEF TellsOf
  <2>3. s[2 * j - 1] = <<"write", cs[j], ps[j]>> /\ s[2 * j] = <<"flush", cs[j]>>
    BY <1>1 DEF TellsOf
  <2> QED BY <2>1, <2>2, <2>3
<1>3. ASSUME NEW j \in 1 .. Len(cs) PROVE <<"write", cs[j], ps[j]>> \in Range(s)
  <2>1. 2 * j - 1 \in DOMAIN s
    <3>1. DOMAIN s = 1 .. 2 * Len(cs) /\ Len(cs) \in Nat
      BY <1>1 DEF TellsOf
    <3> QED BY <3>1
  <2> QED BY <1>1, <2>1 DEF TellsOf, Range
<1>4. DueOf(c, Range(s)) \subseteq {ps[k] : k \in {j \in 1 .. Len(cs) : cs[j] = c}}
  BY <1>2 DEF DueOf
<1>5. {ps[k] : k \in {j \in 1 .. Len(cs) : cs[j] = c}} \subseteq DueOf(c, Range(s))
  BY <1>3 DEF DueOf
<1>6. \A X : DueOf(c, X \cup {<<"flush", c>>}) = DueOf(c, X)
  BY DEF DueOf
<1>7. \A d : <<"start", d>> \notin Range(s)
  BY <1>2
<1> QED BY <1>4, <1>5, <1>6, <1>7 DEF s

LEMMA SetTells ==
    ASSUME NEW p \in Pos, NEW b \in Block
    PROVE  Tells(SetPackets(p, b), [c \in Clients |-> {<<"set", p, b>>}])
<1> DEFINE s == SetPackets(p, b)
           x == <<"set", p, b>>
<1>1. x \in Packet /\ x # Talking /\ x[1] = "set"
  BY PacketFields DEF Talking
<1>2. s = [c \in Clients |-> <<"write", c, x>>]
  BY DEF SetPackets
<1> HIDE DEF s, x
<1>3. \A c \in Clients : <<"write", c, x>> \in Task
  BY <1>1, TaskKinds
<1>4. s \in Seq(Task)
  BY <1>2, <1>3, ClientsAssumption DEF Clients
<1>5. MainShape(s)
  BY <1>1, <1>2, <1>4 DEF MainShape, Big
<1>6. \A y \in Range(s) : \E c \in Clients : y = <<"write", c, x>>
  BY <1>2 DEF Range
<1>7. \A c \in Clients : <<"write", c, x>> \in Range(s)
  BY <1>2 DEF Range
<1>8. ASSUME NEW c \in Clients PROVE DueOf(c, Range(s)) = {x} /\ <<"start", c>> \notin Range(s)
  BY <1>1, <1>6, <1>7 DEF DueOf
<1> QED BY <1>5, <1>8 DEF Tells, s, x

LEMMA OneTells ==
    ASSUME NEW a \in Clients, NEW x \in Packet, x[1] = "set"
    PROVE  Tells(Tell(<<a>>, <<x>>), [c \in Clients |-> IF c = a THEN {x} ELSE {}])
<1> DEFINE cs == <<a>>
           ps == <<x>>
<1>1. cs \in Seq(Clients) /\ Len(cs) = 1 /\ cs[1] = a /\ ps[1] = x /\ 1 .. Len(cs) = {1}
  OBVIOUS
<1>2. x # Talking
  BY DEF Talking
<1> HIDE DEF cs, ps
<1>3. MainShape(Tell(cs, ps))
  BY <1>1, TellTells
<1>4. ASSUME NEW c \in Clients
      PROVE  /\ DueOf(c, Range(Tell(cs, ps))) = IF c = a THEN {x} ELSE {}
             /\ <<"start", c>> \notin Range(Tell(cs, ps))
  <2>1. /\ DueOf(c, Range(Tell(cs, ps))) = {ps[k] : k \in {j \in 1 .. Len(cs) : cs[j] = c}}
        /\ <<"start", c>> \notin Range(Tell(cs, ps))
    BY <1>1, <1>2, TellDue
  <2>2. {ps[k] : k \in {j \in 1 .. Len(cs) : cs[j] = c}} = IF c = a THEN {x} ELSE {}
    BY <1>1
  <2> QED BY <2>1, <2>2
<1> QED BY <1>3, <1>4 DEF Tells, cs, ps

LEMMA ChunksTell ==
    ASSUME NEW a \in Clients, NEW l \in Seq(Piece)
    PROVE  Tells(Tell([k \in DOMAIN l |-> a], l) \o << <<"flush", a>> >>,
                 [c \in Clients |-> IF c = a THEN Range(l) ELSE {}])
<1> DEFINE cs == [k \in DOMAIN l |-> a]
           s  == Tell(cs, l)
           u  == s \o << <<"flush", a>> >>
<1>1. DOMAIN l = 1 .. Len(l) /\ Len(l) \in Nat /\ \A k \in 1 .. Len(l) : l[k] \in Piece
  OBVIOUS
<1>2. cs \in Seq(Clients) /\ Len(cs) = Len(l) /\ \A k \in 1 .. Len(l) : cs[k] = a
  BY <1>1
<1>3. \A k \in 1 .. Len(l) : l[k] \in Packet /\ l[k][1] = "piece" /\ l[k] # Talking
  BY <1>1, PieceFields, PacketFields DEF Talking
<1> HIDE DEF cs
<1>6. \A k \in 1 .. Len(cs) : l[k] \in Packet /\ l[k][1] \in {"set", "piece"}
  BY <1>2, <1>3
<1>4. MainShape(u) /\ Range(u) = Range(s) \cup {<<"flush", a>>}
  BY <1>2, <1>6, TellTells
<1> HIDE DEF u
<1>5. ASSUME NEW c \in Clients
      PROVE  /\ DueOf(c, Range(u)) = IF c = a THEN Range(l) ELSE {}
             /\ <<"start", c>> \notin Range(u)
  <2>1. /\ DueOf(c, Range(s)) = {l[k] : k \in {j \in 1 .. Len(cs) : cs[j] = c}}
        /\ <<"start", c>> \notin Range(s)
    BY <1>2, <1>3, TellDue
  <2> HIDE DEF s
  <2>2. {l[k] : k \in {j \in 1 .. Len(cs) : cs[j] = c}} = IF c = a THEN Range(l) ELSE {}
    BY <1>1, <1>2 DEF Range
  <2>3. DueOf(c, Range(u)) = DueOf(c, Range(s))
    BY <1>4 DEF DueOf
  <2>4. <<"start", c>> \notin Range(u)
    BY <1>4, <2>1
  <2> QED BY <2>1, <2>2, <2>3, <2>4
<1> QED BY <1>4, <1>5 DEF Tells, cs, s, u

LEMMA FinishTells ==
    ASSUME NEW a \in Clients
    PROVE  Tells(Finished(a), [c \in Clients |-> IF c = a THEN {<<"finish">>} ELSE {}])
<1> DEFINE s == Finished(a)
           x == <<"finish">>
<1>1. FinishesOf(a, s)
  BY FinishedTyped
<1>2. x \in Packet /\ x # Talking /\ x[1] = "finish"
  BY PacketFields DEF Talking
<1> HIDE DEF s, x
<1>3. /\ s \in Seq(Task) /\ {1, 2} \subseteq DOMAIN s
      /\ s[1] = <<"write", a, x>> /\ s[2] = <<"flush", a>>
      /\ \A k \in DOMAIN s : k \notin {1, 2} => s[k] \in Finale(a)
  BY <1>1 DEF FinishesOf, x
<1>4. \A y \in Finale(a) : y[1] \in {"write", "flush", "close", "down", "spawned"}
                           /\ (y[1] = "write" => y[3] = Talking)
  BY ChatterFields DEF Finale
<1>5. Talking[1] = "talk"
  BY DEF Talking
<1>6. MainShape(s)
  <2>1. ASSUME NEW k \in DOMAIN s, k \notin {1, 2}
        PROVE  /\ s[k][1] \in {"write", "flush", "close", "down", "spawned"}
               /\ s[k][1] = "write" => s[k][3][1] = "talk"
    BY <1>3, <1>4, <1>5, <2>1
  <2>2. \A k \in DOMAIN s : k = 1 \/ k = 2 \/ k \notin {1, 2}
    OBVIOUS
  <2>3. s[1][1] = "write" /\ s[1][2] = a /\ s[1][3][1] = "finish" /\ s[2][1] = "flush"
    BY <1>2, <1>3
  <2>4. 1 + 1 = 2
    OBVIOUS
  <2> QED BY <1>3, <2>1, <2>2, <2>3, <2>4 DEF MainShape, Big
<1>7. ASSUME NEW c \in Clients
      PROVE  /\ DueOf(c, Range(s)) = IF c = a THEN {x} ELSE {}
             /\ <<"start", c>> \notin Range(s)
  <2>1. \A y \in Range(s) : y = <<"write", a, x>> \/ y = <<"flush", a>> \/ y \in Finale(a)
    BY <1>3 DEF Range
  <2>2. <<"write", a, x>> \in Range(s)
    BY <1>3 DEF Range
  <2>3. \A y \in Packet : <<"write", c, y>>[1] = "write" /\ <<"write", c, y>>[3] = y
                          /\ <<"write", c, y>>[2] = c
    OBVIOUS
  <2>4. \A y \in Packet : y # Talking => <<"write", c, y>> \notin Finale(a)
    BY <1>4, <2>3
  <2>5. <<"start", c>> \notin Finale(a)
    BY <1>4
  <2>6. ASSUME NEW y \in DueOf(c, Range(s)) PROVE y = x /\ c = a
    BY <2>1, <2>3, <2>4 DEF DueOf
  <2>7. c = a => x \in DueOf(c, Range(s))
    BY <1>2, <2>2 DEF DueOf
  <2> QED BY <2>1, <2>5, <2>6, <2>7
<1> QED BY <1>6, <1>7 DEF Tells, s, x

LEMMA OneMore ==
    ASSUME NEW S, NEW r \in Seq(S), NEW t \in Seq(S), Len(r) = 2, Len(t) = 1
    PROVE  /\ r \o t \in Seq(S) /\ Len(r \o t) = 3
           /\ (r \o t)[1] = r[1] /\ (r \o t)[2] = r[2] /\ (r \o t)[3] = t[1]
<1>1. /\ r \o t \in Seq(S) /\ Len(r \o t) = Len(r) + Len(t)
      /\ \A j \in 1 .. Len(r) + Len(t) : (r \o t)[j] = IF j <= Len(r) THEN r[j] ELSE t[j - Len(r)]
  BY ConcatProperties
<1>2. 1 \in 1 .. 2 + 1 /\ 2 \in 1 .. 2 + 1 /\ 3 \in 1 .. 2 + 1 /\ 1 <= 2 /\ 2 <= 2 /\ ~(3 <= 2) /\ 3 - 2 = 1
  OBVIOUS
<1> QED BY <1>1, <1>2

\* client_send_level.
AskSteps(a) == Tell(<<a>>, << <<"init">> >>) \o << <<"start", a>> >>

LEMMA AskTells ==
    ASSUME NEW a \in Clients
    PROVE  /\ MainShape(AskSteps(a)) /\ <<"start", a>> \in Range(AskSteps(a))
           /\ \A c \in Clients :
                /\ DueOf(c, Range(AskSteps(a))) = IF c = a THEN {<<"init">>} ELSE {}
                /\ c # a => <<"start", c>> \notin Range(AskSteps(a))
<1> DEFINE cs == <<a>>
           ps == << <<"init">> >>
           x  == <<"init">>
           s  == Tell(cs, ps)
           f  == <<"start", a>>
           u  == s \o <<f>>
<1>1. cs \in Seq(Clients) /\ Len(cs) = 1 /\ cs[1] = a /\ ps[1] = x /\ 1 .. Len(cs) = {1}
  OBVIOUS
<1>2. x # Talking /\ x \in Packet /\ x[1] = "init"
  BY PacketFields DEF Talking
<1>3. f \in Task /\ f[1] = "start" /\ f[2] = a
  BY TaskKinds
<1> HIDE DEF cs, ps, f, x
<1>4. TellsOf(cs, ps, s)
  BY <1>1, <1>2, TellTyped
<1> HIDE DEF s
<1>5. s \in Seq(Task) /\ Len(s) = 2 /\ s[1] = <<"write", a, x>> /\ s[2] = <<"flush", a>>
  <2>1. /\ s[2 * 1 - 1] = <<"write", cs[1], ps[1]>> /\ s[2 * 1] = <<"flush", cs[1]>>
    BY <1>1, <1>4 DEF TellsOf
  <2>2. 2 * 1 - 1 = 1 /\ 2 * 1 = 2
    OBVIOUS
  <2> QED BY <1>1, <1>4, <2>1, <2>2 DEF TellsOf
<1>6. u \in Seq(Task) /\ Len(u) = 3 /\ DOMAIN u = 1 .. 3
      /\ u[1] = <<"write", a, x>> /\ u[2] = <<"flush", a>> /\ u[3] = f
  <2> DEFINE v == <<f>>
  <2>1. v \in Seq(Task) /\ Len(v) = 1 /\ v[1] = f
    BY <1>3
  <2> HIDE DEF v
  <2>2. s \o v \in Seq(Task) /\ Len(s \o v) = 3
    BY <1>5, <2>1, OneMore
  <2>3. (s \o v)[1] = s[1] /\ (s \o v)[2] = s[2] /\ (s \o v)[3] = v[1]
    BY <1>5, <2>1, OneMore
  <2>4. u = s \o v
    BY DEF v
  <2> QED BY <1>5, <2>1, <2>2, <2>3, <2>4
<1> HIDE DEF u
<1>7. \A k \in DOMAIN u : k = 1 \/ k = 2 \/ k = 3
  BY <1>6
<1>8. MainShape(u)
  <2>1. u[1][1] = "write" /\ u[1][2] = a /\ u[1][3][1] = "init" /\ u[2][1] = "flush"
        /\ u[3][1] = "start" /\ u[3] = <<"start", a>>
    BY <1>2, <1>3, <1>6 DEF f
  <2>2. 1 + 1 = 2 /\ 1 + 2 = 3 /\ {1, 2, 3} \subseteq DOMAIN u
    BY <1>6
  <2> QED BY <1>6, <1>7, <2>1, <2>2 DEF MainShape
<1>9. Range(u) = {<<"write", a, x>>, <<"flush", a>>, f}
  <2>1. {1, 2, 3} \subseteq DOMAIN u
    BY <1>6
  <2> QED BY <1>6, <1>7, <2>1 DEF Range
<1>10. ASSUME NEW c \in Clients
       PROVE  /\ DueOf(c, Range(u)) = IF c = a THEN {x} ELSE {}
              /\ c # a => <<"start", c>> \notin Range(u)
  <2>1. f = <<"start", a>>
    BY DEF f
  <2>2. DueOf(c, Range(u)) \subseteq IF c = a THEN {x} ELSE {}
    BY <1>9, <2>1 DEF DueOf
  <2>3. c = a => x \in DueOf(c, Range(u))
    BY <1>2, <1>9 DEF DueOf
  <2>4. c # a => <<"start", c>> \notin Range(u)
    BY <1>9, <2>1
  <2> QED BY <2>2, <2>3, <2>4
<1> QED BY <1>8, <1>9, <1>10 DEF AskSteps, cs, ps, s, u, f, x

-----------------------------------------------------------------------------
(* The steps of a thread, as what they put in front.                       *)

LEMMA NextTask ==
    ASSUME TodoInv, NEW t \in Threads, NEW what, NEW c \in Clients, IsNext(t, what, c)
    PROVE  /\ todo[t] # << >> /\ todo[t] \in Seq(Task) /\ 1 \in DOMAIN todo[t]
           /\ todo[t][1] \in Task /\ todo[t][1][1] = what
           /\ what \notin {"write", "read", "lock"} => todo[t][1] = <<what, c>>
           /\ what = "write" => /\ todo[t][1][3] \in Packet
                                /\ todo[t][1] = <<"write", c, todo[t][1][3]>>
           /\ what = "read" => /\ todo[t][1][3] \in Pos
                               /\ todo[t][1] = <<"read", c, todo[t][1][3]>>
           /\ what = "lock" => /\ todo[t][1][3] \in {"send", "sendlevel"}
                               /\ todo[t][1] = <<"lock", c, todo[t][1][3]>>
           /\ what \in {"read", "done", "post", "sendlevel"} => t = c /\ t \in Fast
           /\ what = "lock" /\ todo[t][1][3] = "sendlevel" => t = c
<1>1. todo[t] # << >> /\ todo[t] \in Seq(Task) /\ todo[t][1][1] = what /\ todo[t][1][2] = c
  BY DEF IsNext, TodoInv
<1>2. todo[t][1] \in Task /\ 1 \in DOMAIN todo[t]
  BY <1>1
<1>3. t = Main \/ t \in Fast
  BY MainIsNoClient
<1>4. CASE t = Main
  <2>1. MainShape(todo[t])
    BY <1>4 DEF TodoInv
  <2>2. what \notin {"read", "done", "post", "sendlevel"} /\ (what = "lock" => todo[t][1][3] = "send")
    BY <1>1, <1>2, <2>1 DEF MainShape
  <2> QED BY <1>1, <1>2, <2>2, TaskFields
<1>5. CASE t \in Fast
  <2>1. FastShape(t, todo[t])
    BY <1>5 DEF TodoInv
  <2>2. /\ what \in {"read", "done", "post", "sendlevel"} => t = c
        /\ what = "lock" /\ todo[t][1][3] = "sendlevel" => t = c
    BY <1>1, <1>2, <2>1 DEF FastShape
  <2> QED BY <1>1, <1>2, <1>5, <2>2, TaskFields
<1> QED BY <1>3, <1>4, <1>5

LEMMA GoesNothing ==
    ASSUME NEW t \in Threads, todo[t] # << >>, Then(t, << >>)
    PROVE  Goes(t, << >>)
BY SeqFacts DEF Goes

LEMMA ErrandOne ==
    ASSUME NEW t \in Threads, NEW x \in Errands(t)
    PROVE  <<x>> \in Seq(Errands(t))
BY SeqFacts

LEMMA ChatterErrands ==
    ASSUME NEW t \in Threads
    PROVE  Seq(Chatter) \subseteq Seq(Errands(t))
<1>1. Chatter \subseteq Errands(t)
  BY ErrandFields
<1> QED BY <1>1, SeqFacts

\* It begins to flush, and so to send, or to wait for that.
Flushes(t, c, r) ==
    \/ r = << <<"send", c>> >> \/ r = << <<"lock", c, "send">> >>
    \/ t = c /\ (r = << <<"sendlevel", c>> >> \/ r = << <<"lock", c, "sendlevel">> >>)

LEMMA FlushesErrands ==
    ASSUME NEW t \in Threads, NEW c \in Clients, NEW r, Flushes(t, c, r)
    PROVE  r \in Seq(Errands(t))
<1>1. <<"send", c>> \in Errands(t) /\ <<"lock", c, "send">> \in Errands(t)
  BY ErrandFields
<1>2. t = c => <<"sendlevel", c>> \in Errands(t) /\ <<"lock", c, "sendlevel">> \in Errands(t)
  BY ErrandFields
<1> QED BY <1>1, <1>2, ErrandOne DEF Flushes

LEMMA FlushGoes ==
    ASSUME TodoInv, NEW t \in Threads, NEW c \in Clients, Flush(t, c)
    PROVE  /\ todo[t][1] = <<"flush", c>> \/ todo[t][1] = <<"post", c>>
           /\ client[c].connected => \E r : Flushes(t, c, r) /\ Goes(t, r)
           /\ ~client[c].connected => Goes(t, << >>)
           /\ client[c].connected /\ todo[t][1] = <<"flush", c>> =>
                Goes(t, << <<"send", c>> >>) \/ Goes(t, << <<"lock", c, "send">> >>)
<1>1. CASE IsNext(t, "flush", c)
  <2>1. todo[t] # << >> /\ todo[t][1] = <<"flush", c>>
    BY <1>1, NextTask
  <2>2. client[c].connected =>
            Then(t, << <<"send", c>> >>) \/ Then(t, << <<"lock", c, "send">> >>)
    BY <1>1 DEF Flush, Acquires
  <2>3. ~client[c].connected => Then(t, << >>)
    BY DEF Flush
  <2>4. << <<"send", c>> >> \in Seq(Errands(t)) /\ << <<"lock", c, "send">> >> \in Seq(Errands(t))
    BY FlushesErrands DEF Flushes
  <2> QED BY <2>1, <2>2, <2>3, <2>4, GoesNothing DEF Goes, Flushes
<1>2. CASE IsNext(t, "post", c)
  <2>1. todo[t] # << >> /\ todo[t][1] = <<"post", c>> /\ t = c /\ ~IsNext(t, "flush", c)
    BY <1>2, NextTask DEF IsNext
  <2>2. client[c].connected =>
            Then(t, << <<"sendlevel", c>> >>) \/ Then(t, << <<"lock", c, "sendlevel">> >>)
    BY <1>2, <2>1 DEF Flush, Acquires
  <2>3. ~client[c].connected => Then(t, << >>)
    BY DEF Flush
  <2>4. /\ << <<"sendlevel", c>> >> \in Seq(Errands(t))
        /\ << <<"lock", c, "sendlevel">> >> \in Seq(Errands(t))
    BY <2>1, FlushesErrands DEF Flushes
  <2>5. <<"post", c>> # <<"flush", c>>
    OBVIOUS
  <2> QED BY <2>1, <2>2, <2>3, <2>4, <2>5, GoesNothing DEF Goes, Flushes
<1> QED BY <1>1, <1>2 DEF Flush

LEMMA LockGoes ==
    ASSUME TodoInv, NEW t \in Threads, NEW c \in Clients, Lock(t, c)
    PROVE  \E what \in {"send", "sendlevel"} :
              /\ todo[t][1] = <<"lock", c, what>> /\ Goes(t, << <<what, c>> >>)
<1>1. /\ todo[t] # << >> /\ todo[t][1][3] \in {"send", "sendlevel"}
      /\ todo[t][1] = <<"lock", c, todo[t][1][3]>>
      /\ todo[t][1][3] = "sendlevel" => t = c
  BY NextTask DEF Lock
<1>2. PICK what \in {"send", "sendlevel"} : what = todo[t][1][3]
  BY <1>1
<1>3. << <<what, c>> >> \in Seq(Errands(t))
  BY <1>1, <1>2, FlushesErrands DEF Flushes
<1>4. Then(t, << <<what, c>> >>)
  BY <1>2 DEF Lock
<1> QED BY <1>1, <1>2, <1>3, <1>4 DEF Goes

LEMMA SendsWhat ==
    ASSUME TodoInv, NEW t \in Threads, NEW c \in Clients, Sends(t, c)
    PROVE  /\ todo[t] # << >> /\ todo[t][1] \in {<<"send", c>>, <<"sendlevel", c>>, <<"close", c>>}
           /\ IsNext(t, "send", c) <=> todo[t][1] = <<"send", c>>
           /\ IsNext(t, "sendlevel", c) <=> todo[t][1] = <<"sendlevel", c>>
<1>1. /\ IsNext(t, "send", c) => todo[t] # << >> /\ todo[t][1] = <<"send", c>>
      /\ IsNext(t, "sendlevel", c) => todo[t] # << >> /\ todo[t][1] = <<"sendlevel", c>>
      /\ IsNext(t, "close", c) => todo[t] # << >> /\ todo[t][1] = <<"close", c>>
  BY NextTask
<1>2. todo[t] # << >> /\ todo[t][1] \in {<<"send", c>>, <<"sendlevel", c>>, <<"close", c>>}
  BY <1>1 DEF Sends
<1>3. /\ todo[t][1] = <<"send", c>> => IsNext(t, "send", c)
      /\ todo[t][1] = <<"sendlevel", c>> => IsNext(t, "sendlevel", c)
  BY <1>2 DEF IsNext
<1> QED BY <1>1, <1>2, <1>3

LEMMA FailGoes ==
    ASSUME NEW t \in Threads, NEW c \in Clients, todo[t] # << >>, NEW s \in Seq(Chatter),
           Then(t, s \o Before(t, c))
    PROVE  Goes(t, s \o Before(t, c)) /\ Range(s) \subseteq Range(s \o Before(t, c))
<1>1. Before(t, c) \in Seq(Errands(t))
  <2>1. << <<"unlock", c>> >> \in Seq(Errands(t))
    BY ErrandFields, ErrandOne
  <2>2. << >> \in Seq(Errands(t))
    BY SeqFacts
  <2> QED BY <2>1, <2>2 DEF Before
<1>2. s \in Seq(Errands(t))
  BY ChatterErrands
<1>3. s \o Before(t, c) \in Seq(Errands(t))
  BY <1>1, <1>2, SeqFacts
<1>4. Range(s \o Before(t, c)) = Range(s) \cup Range(Before(t, c))
  <2>1. \A r1, r2 \in Seq(Errands(t)) : Range(r1 \o r2) = Range(r1) \cup Range(r2)
    BY RangeFacts
  <2> QED BY <1>1, <1>2, <2>1
<1> QED BY <1>3, <1>4 DEF Goes

LEMMA DownOne ==
    ASSUME NEW c \in Clients
    PROVE  << <<"down", c>> >> \in Seq(Chatter) /\ <<"down", c>> \in Range(<< <<"down", c>> >>)
<1>1. <<"down", c>> \in Chatter
  BY ChatterFields
<1> QED BY <1>1, SeqFacts, RangeFacts

\* A send fails: its client is to go down.
LEMMA SendFailsGoes ==
    ASSUME TodoInv, NEW t \in Threads, NEW c \in Clients, SendFindsReset(t, c) \/ SendFails(t, c)
    PROVE  \E r : Goes(t, r) /\ <<"down", c>> \in Range(r)
<1>1. todo[t] # << >>
  BY SendsWhat DEF SendFindsReset, SendFails
<1>2. CASE SendFindsReset(t, c)
  <2>1. Then(t, << <<"down", c>> >> \o Before(t, c))
    BY <1>2 DEF SendFindsReset
  <2> DEFINE d == << <<"down", c>> >>
             r == d \o Before(t, c)
  <2>2. d \in Seq(Chatter) /\ <<"down", c>> \in Range(d)
    BY DownOne
  <2> HIDE DEF d
  <2>3. Goes(t, r) /\ Range(d) \subseteq Range(r)
    BY <1>1, <2>1, <2>2, FailGoes DEF d
  <2> QED BY <2>2, <2>3
<1>3. CASE SendFails(t, c)
  <2>1. Then(t, Disconnect(c) \o Before(t, c))
    BY <1>3 DEF SendFails
  <2>2. Disconnect(c) \in Seq(Chatter) /\ <<"down", c>> \in Range(Disconnect(c))
    BY DisconnectTyped
  <2>3. /\ Goes(t, Disconnect(c) \o Before(t, c))
        /\ Range(Disconnect(c)) \subseteq Range(Disconnect(c) \o Before(t, c))
    BY <1>1, <2>1, <2>2, FailGoes
  <2> QED BY <2>2, <2>3
<1> QED BY <1>2, <1>3

LEMMA DownGoes ==
    ASSUME TodoInv, NEW t \in Threads, NEW c \in Clients, Down(t, c)
    PROVE  todo[t][1] = <<"down", c>> /\ \E r : Goes(t, r)
<1>1. todo[t] # << >> /\ todo[t][1] = <<"down", c>>
  BY NextTask DEF Down
<1>2. (IF client[c].spawned THEN Broadcast \o Talk(Others(c)) ELSE << >>) \in Seq(Chatter)
  <2>1. Broadcast \in Seq(Chatter) /\ Talk(Others(c)) \in Seq(Chatter) /\ << >> \in Seq(Chatter)
    BY EverybodyTyped, SeqFacts
  <2> QED BY <2>1, SeqFacts
<1> QED BY <1>1, <1>2, ChatterErrands DEF Down, Goes

\* The others put nothing in front.
LEMMA PlainlyGoes ==
    ASSUME TodoInv, NEW t \in Threads, NEW c \in Clients
    PROVE  /\ Write(t, c) => Goes(t, << >>) /\ \E x \in Packet :
                /\ todo[t][1] = <<"write", c, x>> /\ todo[t][1][3] = x
           /\ Unlock(t, c) => Goes(t, << >>) /\ todo[t][1] = <<"unlock", c>>
           /\ SendsAll(t, c) \/ SendsPart(t, c) => Goes(t, << >>)
           /\ Spawned(t, c) => Goes(t, << >>) /\ todo[t][1] = <<"spawned", c>>
           /\ Done(t, c) => Goes(t, << >>) /\ todo[t][1] = <<"done", c>> /\ t = c
           /\ Start(t, c) /\ c \notin Fast => Goes(t, << >>) /\ todo[t][1] = <<"start", c>>
           /\ Read(t, c) /\ client[c].connected =>
                Goes(t, << >>) /\ t = c /\ todo[t][1][3] \in Pos
                /\ todo[t][1] = <<"read", c, todo[t][1][3]>>
<1>1. Write(t, c) => Goes(t, << >>) /\ \E x \in Packet :
                /\ todo[t][1] = <<"write", c, x>> /\ todo[t][1][3] = x
  BY NextTask, GoesNothing DEF Write
<1>2. Unlock(t, c) => Goes(t, << >>) /\ todo[t][1] = <<"unlock", c>>
  BY NextTask, GoesNothing DEF Unlock
<1>3. SendsAll(t, c) \/ SendsPart(t, c) => Goes(t, << >>)
  BY SendsWhat, GoesNothing DEF SendsAll, SendsPart
<1>4. Spawned(t, c) => Goes(t, << >>) /\ todo[t][1] = <<"spawned", c>>
  BY NextTask, GoesNothing DEF Spawned
<1>5. Done(t, c) => Goes(t, << >>) /\ todo[t][1] = <<"done", c>> /\ t = c
  BY NextTask, GoesNothing DEF Done
<1>6. Start(t, c) /\ c \notin Fast => Goes(t, << >>) /\ todo[t][1] = <<"start", c>>
  BY NextTask, GoesNothing DEF Start
<1>7. Read(t, c) /\ client[c].connected =>
                Goes(t, << >>) /\ t = c /\ todo[t][1][3] \in Pos
                /\ todo[t][1] = <<"read", c, todo[t][1][3]>>
  BY NextTask, GoesNothing DEF Read
<1> QED BY <1>1, <1>2, <1>3, <1>4, <1>5, <1>6, <1>7

-----------------------------------------------------------------------------
(* What a game shows when it is sent one packet.                           *)

LEMMA ShowsOne ==
    ASSUME NEW g \in Game, NEW x \in Packet
    PROVE  /\ Shows(g, x) \in Game
           /\ x[1] = "init" =>
                ~Shows(g, x).loaded /\ Shows(g, x).view = g.view /\ Shows(g, x).missed = {}
           /\ x[1] = "finish" =>
                /\ Shows(g, x).loaded
                /\ Shows(g, x).view = g.view /\ Shows(g, x).missed = g.missed
           /\ x[1] = "piece" =>
                /\ Shows(g, x).loaded = g.loaded /\ Shows(g, x).missed = g.missed
                /\ Shows(g, x).view[x[2]] = x[3]
                /\ \A p \in Pos : p # x[2] => Shows(g, x).view[p] = g.view[p]
           /\ x[1] = "set" /\ g.loaded =>
                /\ Shows(g, x).loaded /\ Shows(g, x).missed = g.missed \ {x[2]}
                /\ Shows(g, x).view[x[2]] = x[3]
                /\ \A p \in Pos : p # x[2] => Shows(g, x).view[p] = g.view[p]
           /\ x[1] = "talk" \/ (x[1] = "set" /\ ~g.loaded) => Shows(g, x) = g
<1> DEFINE h == Shows(g, x)
           w == [g.view EXCEPT ![x[2]] = x[3]]
<1>1. /\ g = [loaded |-> g.loaded, view |-> g.view, missed |-> g.missed]
      /\ g.loaded \in BOOLEAN /\ g.view \in [Pos -> Block] /\ g.missed \in SUBSET Pos
  BY DEF Game
<1>2. x[1] \in {"init", "finish", "talk", "set", "piece"}
  BY PacketFields
<1>3. ASSUME x[1] \in {"set", "piece"}
      PROVE  /\ w \in [Pos -> Block] /\ w[x[2]] = x[3]
             /\ \A p \in Pos : p # x[2] => w[p] = g.view[p]
  <2>1. x[2] \in Pos /\ x[3] \in Block
    BY <1>3, PacketFields
  <2> QED BY <1>1, <2>1
<1>4. \A ld \in BOOLEAN, v \in [Pos -> Block], m \in SUBSET Pos :
        [loaded |-> ld, view |-> v, missed |-> m] \in Game
  BY DEF Game
<1>5. CASE x[1] = "init"
  <2>1. h = [loaded |-> FALSE, view |-> g.view, missed |-> {}]
    BY <1>1, <1>5 DEF Shows
  <2> HIDE DEF h
  <2>2. h \in Game
    BY <1>1, <1>4, <2>1
  <2>3. ~h.loaded /\ h.view = g.view /\ h.missed = {}
    BY <2>1
  <2> QED BY <1>5, <2>2, <2>3 DEF h
<1>6. CASE x[1] = "finish"
  <2>1. h = [loaded |-> TRUE, view |-> g.view, missed |-> g.missed]
    BY <1>1, <1>6 DEF Shows
  <2> HIDE DEF h
  <2>2. h \in Game
    BY <1>1, <1>4, <2>1
  <2>3. h.loaded /\ h.view = g.view /\ h.missed = g.missed
    BY <2>1
  <2> QED BY <1>6, <2>2, <2>3 DEF h
<1>7. CASE x[1] = "piece"
  <2>1. h = [loaded |-> g.loaded, view |-> w, missed |-> g.missed]
    BY <1>1, <1>7 DEF Shows
  <2>2. /\ w \in [Pos -> Block] /\ w[x[2]] = x[3]
        /\ \A p \in Pos : p # x[2] => w[p] = g.view[p]
    BY <1>3, <1>7
  <2> HIDE DEF h, w
  <2>3. h \in Game
    BY <1>1, <1>4, <2>1, <2>2
  <2>4. h.loaded = g.loaded /\ h.view = w /\ h.missed = g.missed
    BY <2>1
  <2> QED BY <1>7, <2>2, <2>3, <2>4 DEF h
<1>8. CASE x[1] = "set" /\ g.loaded
  <2>1. h = [loaded |-> g.loaded, view |-> w, missed |-> g.missed \ {x[2]}]
    BY <1>1, <1>8 DEF Shows
  <2>2. /\ w \in [Pos -> Block] /\ w[x[2]] = x[3]
        /\ \A p \in Pos : p # x[2] => w[p] = g.view[p]
    BY <1>3, <1>8
  <2> HIDE DEF h, w
  <2>3. h \in Game
    <3>1. g.missed \ {x[2]} \in SUBSET Pos
      BY <1>1
    <3> QED BY <1>1, <1>4, <2>1, <2>2, <3>1
  <2>4. h.loaded = g.loaded /\ h.view = w /\ h.missed = g.missed \ {x[2]}
    BY <2>1
  <2> QED BY <1>8, <2>2, <2>3, <2>4 DEF h
<1>9. CASE x[1] = "talk" \/ (x[1] = "set" /\ ~g.loaded)
  <2>1. h = g
    BY <1>9 DEF Shows
  <2> HIDE DEF h
  <2> QED BY <1>9, <2>1 DEF h
<1> QED BY <1>2, <1>5, <1>6, <1>7, <1>8, <1>9
LEMMA ShowsAll ==
    ASSUME NEW s \in Seq(Packet), NEW g \in Game
    PROVE  \E h \in [0 .. Len(s) -> Game] :
              /\ h[0] = g /\ FoldLeft(Shows, g, s) = h[Len(s)]
              /\ \A k \in 1 .. Len(s) : h[k] = Shows(h[k - 1], s[k])
<1> DEFINE n == Len(s)
           f == [k \in 1 .. n |-> [x \in Game |-> Shows(x, s[k])]]
           P(it) == it = [t \in SUBSET (1 .. n) |->
                    IF t = {} THEN g ELSE Shows(it[t \ {Max(t)}], s[Max(t)])]
           iter == CHOOSE it : P(it)
<1>1. n \in Nat /\ DOMAIN s = 1 .. n /\ \A k \in 1 .. n : s[k] \in Packet
  OBVIOUS
<1>2. FoldLeft(Shows, g, s) = iter[1 .. n]
  BY <1>1 DEF FoldLeft, MapThenFoldSet
<1>3. /\ \A x \in Game, k \in 1 .. n : f[k][x] = Shows(x, s[k]) /\ f[k][x] \in Game
      /\ f \in [1 .. n -> [Game -> Game]]
  BY <1>1, ShowsOne
<1> HIDE DEF f, n, iter, P
<1>4. PICK it \in [SUBSET (1 .. n) -> Game] : Folds(it, f, g, n)
  BY <1>1, <1>3, FoldExists
<1>5. ASSUME NEW t \in SUBSET (1 .. n), t # {}
      PROVE  Max(t) \in 1 .. n /\ t \ {Max(t)} \in SUBSET (1 .. n)
  <2>1. Max(t) \in t
    BY <1>1, <1>5, Largest
  <2> QED BY <2>1
<1>6. P(it)
  <2>1. ASSUME NEW t \in SUBSET (1 .. n)
        PROVE  (IF t = {} THEN g ELSE f[Max(t)][it[t \ {Max(t)}]])
                 = (IF t = {} THEN g ELSE Shows(it[t \ {Max(t)}], s[Max(t)]))
    <3>1. CASE t # {}
      <4>1. Max(t) \in 1 .. n /\ it[t \ {Max(t)}] \in Game
        BY <1>5, <3>1
      <4> QED BY <1>3, <3>1, <4>1
    <3> QED BY <3>1
  <2> QED BY <1>4, <2>1 DEF Folds, P
<1>7. P(iter)
  BY <1>6 DEF iter
<1>8. \A t \in SUBSET (1 .. n) :
        iter[t] = IF t = {} THEN g ELSE Shows(iter[t \ {Max(t)}], s[Max(t)])
  BY <1>7 DEF P
<1> DEFINE h == [k \in 0 .. n |-> iter[1 .. k]]
<1>9. h[0] = g
  <2>1. 1 .. 0 = {} /\ 0 \in 0 .. n
    BY <1>1
  <2> QED BY <1>8, <2>1
<1>10. ASSUME NEW k \in 1 .. n PROVE h[k] = Shows(h[k - 1], s[k])
  <2> DEFINE t == 1 .. k
  <2>1. t \in SUBSET (1 .. n) /\ t # {} /\ k \in t
    <3>1. k \in Nat /\ k >= 1 /\ k <= n
      BY <1>1
    <3>2. \A j \in 1 .. k : j \in 1 .. n
      BY <1>1, <3>1
    <3> QED BY <3>1, <3>2
  <2>2. Max(t) = k
    <3>1. Max(t) \in t /\ \A j \in t : j <= Max(t)
      BY <1>1, <2>1, Largest
    <3> QED BY <2>1, <3>1
  <2>3. t \ {k} = 1 .. k - 1
    OBVIOUS
  <2>4. iter[1 .. k] = Shows(iter[1 .. k - 1], s[k])
    BY <1>8, <2>1, <2>2, <2>3
  <2>5. k \in 0 .. n /\ k - 1 \in 0 .. n
    BY <1>1
  <2> QED BY <2>4, <2>5
<1> HIDE DEF h
<1>11. \A k \in 0 .. n : h[k] \in Game
  <2> DEFINE T == {k \in Nat : k <= n => h[k] \in Game}
  <2>1. 0 \in T
    BY <1>9
  <2>2. ASSUME NEW k \in Nat, k \in T PROVE k + 1 \in T
    <3> SUFFICES ASSUME k + 1 <= n PROVE h[k + 1] \in Game
      OBVIOUS
    <3>1. k + 1 \in 1 .. n /\ (k + 1) - 1 = k /\ h[k] \in Game
      BY <1>1, <2>2
    <3>2. h[k + 1] = Shows(h[k], s[k + 1])
      BY <1>10, <3>1
    <3> QED BY <1>1, <3>1, <3>2, ShowsOne
  <2> HIDE DEF T
  <2>3. Nat \subseteq T
    BY <2>1, <2>2, SetInduction
  <2> QED BY <1>1, <2>3 DEF T
<1>12. h \in [0 .. n -> Game]
  <2>1. h = [k \in 0 .. n |-> h[k]]
    BY DEF h
  <2> QED BY <1>11, <2>1
<1>13. h[n] = iter[1 .. n]
  BY <1>1 DEF h
<1> QED BY <1>2, <1>9, <1>10, <1>12, <1>13 DEF n

-----------------------------------------------------------------------------
(* What is on its way to the server.                                       *)

LEMMA RequestFields ==
    \A x \in Request :
        /\ x[1] \in {"ask", "edit"}
        /\ x[1] = "ask" => x = <<"ask">>
        /\ x[1] = "edit" => x[2] \in Pos /\ x[3] \in Block /\ x = <<"edit", x[2], x[3]>>
BY DEF Request

LEMMA RequestKinds ==
    <<"ask">> \in Request /\ \A p \in Pos, b \in Block : <<"edit", p, b>> \in Request
BY DEF Request

-----------------------------------------------------------------------------
(* Types.                                                                  *)

WorldType == world \in [Pos -> Block]

GameType == game \in [Clients -> Game]

InqType == inq \in [Clients -> Seq(Request)]

OutType == out \in [Clients -> Seq(Packet)] /\ \A c \in Clients : Len(out[c]) <= Cap

LevelType == level \in [Clients -> Seq(Piece)]

TurnType == at \in 0 .. N /\ step \in {"enter", "receive", "send"}

SpentType == spent \in [edits : 0 .. MaxEdits, asks : 0 .. MaxAsks, faults : 0 .. MaxFaults]

DataType ==
    WorldType /\ GameType /\ InqType /\ OutType /\ LevelType /\ TurnType /\ SpentType

LEMMA FaultTyped ==
    ASSUME SpentType, NEW n \in Nat, Fault(n)
    PROVE  SpentType'
BY BoundsAssumption DEF SpentType, Fault

LEMMA NextTyped ==
    ASSUME TurnType, NextClient
    PROVE  TurnType'
<1>1. N \in Nat \ {0} /\ at \in Nat
  BY ClientsAssumption DEF TurnType
<1>2. (at + 1) % (N + 1) \in 0 .. N
  BY <1>1
<1> QED BY <1>2 DEF TurnType, NextClient

LEMMA ShownTyped ==
    ASSUME GameType, NEW c \in Clients, NEW s \in Seq(Packet),
           game' = [game EXCEPT ![c] = FoldLeft(Shows, @, s)]
    PROVE  GameType' /\ game'[c] = FoldLeft(Shows, game[c], s)
           /\ \A d \in Clients : d # c => game'[d] = game[d]
<1>1. game[c] \in Game
  BY DEF GameType
<1>2. PICK h \in [0 .. Len(s) -> Game] : FoldLeft(Shows, game[c], s) = h[Len(s)]
  BY <1>1, ShowsAll
<1>3. Len(s) \in 0 .. Len(s)
  OBVIOUS
<1>4. FoldLeft(Shows, game[c], s) \in Game
  BY <1>2, <1>3
<1> QED BY <1>4 DEF GameType

LEMMA RewoundTyped ==
    ASSUME OutType, LevelType, NEW t, NEW c \in Clients, Rewound(t, c)
    PROVE  /\ OutType' /\ LevelType'
           /\ out'[c] = IF IsNext(t, "send", c) THEN << >> ELSE out[c]
           /\ level'[c] = IF IsNext(t, "sendlevel", c) THEN << >> ELSE level[c]
           /\ \A d \in Clients : d # c => out'[d] = out[d] /\ level'[d] = level[d]
<1>1. Cap \in Nat /\ Len(<< >>) = 0
  BY WorldAssumption
<1>2. << >> \in Seq(Packet) /\ << >> \in Seq(Piece)
  BY SeqFacts
<1>3. \/ out' = [out EXCEPT ![c] = << >>] /\ IsNext(t, "send", c)
      \/ out' = out /\ ~IsNext(t, "send", c)
  BY DEF Rewound
<1>4. \/ level' = [level EXCEPT ![c] = << >>] /\ IsNext(t, "sendlevel", c)
      \/ level' = level /\ ~IsNext(t, "sendlevel", c)
  BY DEF Rewound
<1>5. OutType'
  <2>1. CASE out' = out
    BY <2>1 DEF OutType
  <2>2. CASE out' = [out EXCEPT ![c] = << >>]
    <3>1. \A d \in Clients : out'[d] = IF d = c THEN << >> ELSE out[d]
      BY <2>2 DEF OutType
    <3>2. out' \in [Clients -> Seq(Packet)]
      BY <1>2, <2>2 DEF OutType
    <3>3. \A d \in Clients : Len(out'[d]) <= Cap
      BY <1>1, <3>1 DEF OutType
    <3> QED BY <3>2, <3>3 DEF OutType
  <2> QED BY <1>3, <2>1, <2>2
<1>6. LevelType'
  BY <1>2, <1>4 DEF LevelType
<1>7. /\ out'[c] = IF IsNext(t, "send", c) THEN << >> ELSE out[c]
      /\ \A d \in Clients : d # c => out'[d] = out[d]
  BY <1>3 DEF OutType
<1>8. /\ level'[c] = IF IsNext(t, "sendlevel", c) THEN << >> ELSE level[c]
      /\ \A d \in Clients : d # c => level'[d] = level[d]
  BY <1>4 DEF LevelType
<1> QED BY <1>5, <1>6, <1>7, <1>8

LEMMA DataTyped ==
    ASSUME OutType, LevelType, NEW t, NEW c \in Clients
    PROVE  /\ Data(t, c) \in Seq(Packet) /\ \A k \in 0 .. Len(Data(t, c)) - 1 : SubSeq(Data(t, c), 1, k) \in Seq(Packet)
           /\ IsNext(t, "send", c) => Data(t, c) = out[c]
           /\ IsNext(t, "sendlevel", c) /\ ~IsNext(t, "send", c) => Data(t, c) = level[c]
           /\ ~IsNext(t, "send", c) /\ ~IsNext(t, "sendlevel", c) => Data(t, c) = <<Talking>>
<1>1. out[c] \in Seq(Packet) /\ level[c] \in Seq(Piece) /\ <<Talking>> \in Seq(Packet)
  <2>1. Talking \in Packet
    BY PacketFields
  <2>2. <<Talking>> \in Seq(Packet)
    BY <2>1
  <2> QED BY <2>2 DEF OutType, LevelType
<1>2. level[c] \in Seq(Packet)
  BY <1>1, PacketFields
<1>3. /\ IsNext(t, "send", c) => Data(t, c) = out[c]
      /\ IsNext(t, "sendlevel", c) /\ ~IsNext(t, "send", c) => Data(t, c) = level[c]
      /\ ~IsNext(t, "send", c) /\ ~IsNext(t, "sendlevel", c) => Data(t, c) = <<Talking>>
  <2>1. CASE IsNext(t, "send", c)
    <3>1. ~IsNext(t, "sendlevel", c)
      BY <2>1 DEF IsNext
    <3> QED BY <2>1, <3>1 DEF Data
  <2>2. CASE ~IsNext(t, "send", c) /\ IsNext(t, "sendlevel", c)
    BY <2>2 DEF Data
  <2>3. CASE ~IsNext(t, "send", c) /\ ~IsNext(t, "sendlevel", c)
    BY <2>3 DEF Data, Talking
  <2> QED BY <2>1, <2>2, <2>3
<1>4. Data(t, c) \in Seq(Packet)
  BY <1>1, <1>2, <1>3
<1>5. \A k \in 0 .. Len(Data(t, c)) - 1 : SubSeq(Data(t, c), 1, k) \in Seq(Packet)
  <2>1. \A s \in Seq(Packet) : \A k \in 0 .. Len(s) - 1 : SubSeq(s, 1, k) \in Seq(Packet)
    OBVIOUS
  <2> QED BY <1>4, <2>1
<1> QED BY <1>3, <1>4, <1>5

LEMMA SpentStays ==
    ASSUME DataType, UNCHANGED <<world, inq, at, step>>
    PROVE  WorldType' /\ InqType' /\ TurnType' /\ (UNCHANGED spent => SpentType')
           /\ (UNCHANGED game => GameType') /\ (UNCHANGED out => OutType')
           /\ (UNCHANGED level => LevelType')
BY DEF DataType, WorldType, InqType, TurnType, SpentType, GameType, OutType, LevelType

\* A copy of the world.
LevelOf(w) ==
    [k \in 1 .. Cardinality(Pos) |-> LET p == SetToSeq(Pos)[k] IN <<"piece", p, w[p]>>]

LEMMA LevelOfWorld ==
    ASSUME WorldType
    PROVE  /\ LevelOf(world) \in Seq(Piece)
           /\ \A j \in DOMAIN LevelOf(world) :
                /\ LevelOf(world)[j][2] \in Pos
                /\ LevelOf(world)[j][3] = world[LevelOf(world)[j][2]]
           /\ \A p \in Pos : \E j \in DOMAIN LevelOf(world) : LevelOf(world)[j][2] = p
<1> DEFINE n == Cardinality(Pos)
           f == SetToSeq(Pos)
           e(k) == <<"piece", f[k], world[f[k]]>>
<1>1. n \in Nat /\ (\A k \in 1 .. n : f[k] \in Pos) /\ \A p \in Pos : \E k \in 1 .. n : f[k] = p
  BY Positions
<1>2. LevelOf(world) = [k \in 1 .. n |-> e(k)]
  BY DEF LevelOf
<1> HIDE DEF n, f
<1>3. \A k \in 1 .. n : e(k) \in Piece
  BY <1>1 DEF WorldType, Piece
<1>4. [k \in 1 .. n |-> e(k)] \in Seq(Piece) /\ DOMAIN [k \in 1 .. n |-> e(k)] = 1 .. n
  BY <1>1, <1>3
<1>5. \A k \in 1 .. n : LevelOf(world)[k][2] = f[k] /\ LevelOf(world)[k][3] = world[f[k]]
  BY <1>2
<1> QED BY <1>1, <1>2, <1>4, <1>5

LEMMA WriteData ==
    ASSUME TodoInv, DataType, NEW t \in Threads, NEW c \in Clients, Write(t, c)
    PROVE  DataType'
<1>1. PICK x \in Packet : todo[t][1][3] = x
  BY PlainlyGoes
<1>2. out[c] \in Seq(Packet) /\ Len(out[c]) \in Nat /\ Cap \in Nat
  BY WorldAssumption DEF DataType, OutType
<1>3. OutType'
  <2>1. CASE UNCHANGED out
    BY <2>1 DEF DataType, OutType
  <2>2. CASE Fits(c) /\ out' = [out EXCEPT ![c] = Append(@, x)]
    <3>1. Append(out[c], x) \in Seq(Packet) /\ Len(Append(out[c], x)) = Len(out[c]) + 1
      BY <1>2
    <3>2. Len(Append(out[c], x)) <= Cap
      BY <1>2, <2>2, <3>1 DEF Fits
    <3> DEFINE y == Append(out[c], x)
    <3>3. \A d \in Clients : out'[d] = IF d = c THEN y ELSE out[d]
      BY <2>2 DEF DataType, OutType
    <3>4. out' \in [Clients -> Seq(Packet)]
      BY <2>2, <3>1 DEF DataType, OutType
    <3> HIDE DEF y
    <3>5. \A d \in Clients : Len(out'[d]) <= Cap
      BY <3>2, <3>3 DEF DataType, OutType, y
    <3> QED BY <3>4, <3>5 DEF OutType
  <2> QED BY <1>1, <2>1, <2>2 DEF Write
<1>4. UNCHANGED <<world, inq, at, step>> /\ UNCHANGED <<game, level, spent>>
  BY DEF Write
<1> QED BY <1>3, <1>4, SpentStays DEF DataType

LEMMA SendData ==
    ASSUME TodoInv, DataType, NEW t \in Threads, NEW c \in Clients,
           \/ SendsAll(t, c) \/ SendsPart(t, c) \/ SendFindsReset(t, c) \/ SendFails(t, c)
    PROVE  DataType' /\ \A d \in Clients :
              d # c => game'[d] = game[d] /\ out'[d] = out[d] /\ level'[d] = level[d]
<1>0. OutType /\ LevelType /\ GameType /\ SpentType
  BY DEF DataType
<1>1. Rewound(t, c)
  BY DEF SendsAll, SendsPart, SendFindsReset, SendFails
<1>2. /\ OutType' /\ LevelType'
      /\ \A d \in Clients : d # c => out'[d] = out[d] /\ level'[d] = level[d]
  BY <1>0, <1>1, RewoundTyped
<1>3. /\ Data(t, c) \in Seq(Packet)
      /\ \A k \in 0 .. Len(Data(t, c)) - 1 : SubSeq(Data(t, c), 1, k) \in Seq(Packet)
  BY <1>0, DataTyped
<1>4. GameType' /\ \A d \in Clients : d # c => game'[d] = game[d]
  <2>1. CASE SendsAll(t, c)
    BY <1>0, <1>3, <2>1, ShownTyped DEF SendsAll
  <2>2. CASE SendsPart(t, c)
    <3>1. PICK k \in 0 .. Len(Data(t, c)) - 1 :
            game' = [game EXCEPT ![c] = FoldLeft(Shows, @, SubSeq(Data(t, c), 1, k))]
      BY <2>2 DEF SendsPart
    <3> QED BY <1>0, <1>3, <3>1, ShownTyped
  <2>3. CASE SendFindsReset(t, c) \/ SendFails(t, c)
    BY <1>0, <2>3 DEF SendFindsReset, SendFails, GameType
  <2> QED BY <2>1, <2>2, <2>3
<1>5. SpentType'
  <2>1. UNCHANGED spent \/ Fault(1) \/ Fault(2)
    BY DEF SendsAll, SendsPart, SendFindsReset, SendFails
  <2>2. 1 \in Nat /\ 2 \in Nat
    OBVIOUS
  <2> QED BY <1>0, <2>1, <2>2, FaultTyped DEF SpentType
<1>6. WorldType' /\ InqType' /\ TurnType'
  <2>1. UNCHANGED <<world, inq, at, step>>
    BY DEF SendsAll, SendsPart, SendFindsReset, SendFails
  <2> QED BY <2>1, SpentStays
<1> QED BY <1>2, <1>4, <1>5, <1>6 DEF DataType

\* client_start_mapsave and the fast thread's copy.
LEMMA StartData ==
    ASSUME TodoInv, DataType, NEW t \in Threads, NEW c \in Clients, Start(t, c) \/ Read(t, c)
    PROVE  DataType' /\ \A d \in Clients : d # c => level'[d] = level[d]
<1>1. UNCHANGED <<world, inq, at, step>> /\ UNCHANGED <<game, out, spent>>
  BY DEF Start, Read
<1>2. LevelType' /\ \A d \in Clients : d # c => level'[d] = level[d]
  <2>1. CASE UNCHANGED level
    BY <2>1 DEF DataType, LevelType
  <2>2. CASE Start(t, c) /\ c \notin Fast
    <3>1. level' = [level EXCEPT ![c] = LevelOf(world)]
      BY <2>2 DEF Start, LevelOf
    <3> QED BY <3>1, LevelOfWorld DEF DataType, LevelType
  <2>3. CASE Read(t, c) /\ client[c].connected
    <3> DEFINE p == todo[t][1][3]
               x == <<"piece", p, world[p]>>
    <3>1. p \in Pos
      BY <2>3, PlainlyGoes
    <3>2. level' = [level EXCEPT ![c] = Append(@, x)]
      BY <2>3 DEF Read
    <3>3. x \in Piece
      BY <3>1 DEF DataType, WorldType, Piece
    <3> HIDE DEF x
    <3>4. level[c] \in Seq(Piece)
      BY DEF DataType, LevelType
    <3>5. Append(level[c], x) \in Seq(Piece)
      BY <3>3, <3>4
    <3> QED BY <3>2, <3>5 DEF DataType, LevelType
  <2> QED BY <2>1, <2>2, <2>3 DEF Start, Read
<1> QED BY <1>1, <1>2, SpentStays DEF DataType

LEMMA ThreadData ==
    ASSUME TodoInv, DataType, NEW t \in Threads, ThreadStep(t)
    PROVE  TodoInv' /\ DataType'
<1>1. PICK c \in Clients :
          \/ Write(t, c) \/ Flush(t, c) \/ Lock(t, c) \/ Unlock(t, c)
          \/ SendsAll(t, c) \/ SendsPart(t, c) \/ SendFindsReset(t, c) \/ SendFails(t, c)
          \/ Down(t, c) \/ Spawned(t, c) \/ Start(t, c) \/ Read(t, c) \/ Done(t, c)
  BY DEF ThreadStep
<1>2. DataType'
  <2>1. CASE Flush(t, c) \/ Lock(t, c) \/ Unlock(t, c) \/ Down(t, c) \/ Spawned(t, c) \/ Done(t, c)
    <3>1. UNCHANGED <<world, inq, at, step>> /\ UNCHANGED <<game, out, level, spent>>
      BY <2>1 DEF Flush, Lock, Unlock, Down, Spawned, Done
    <3> QED BY <3>1, SpentStays DEF DataType
  <2> QED BY <1>1, <2>1, WriteData, SendData, StartData
<1>3. TodoInv'
  <2>1. SUFFICES (\E r : Goes(t, r)) \/ (Start(t, c) /\ c \in Fast)
                    \/ (Read(t, c) /\ ~client[c].connected)
    <3>1. CASE \E r : Goes(t, r)
      BY <3>1, GoesShape
    <3>2. CASE Start(t, c) /\ c \in Fast
      BY <3>2, StartShape
    <3>3. CASE Read(t, c) /\ ~client[c].connected
      <4>1. todo[t] # << >> /\ todo[t][1][1] = "read" /\ todo' = [todo EXCEPT ![t] = << >>]
        BY <3>3 DEF Read, IsNext
      <4> QED BY <4>1, StopShape
    <3> QED BY <2>1, <3>1, <3>2, <3>3
  <2>2. CASE Flush(t, c)
    BY <2>2, FlushGoes
  <2>3. CASE Lock(t, c)
    BY <2>3, LockGoes
  <2>4. CASE SendFindsReset(t, c) \/ SendFails(t, c)
    BY <2>4, SendFailsGoes
  <2>5. CASE Down(t, c)
    BY <2>5, DownGoes
  <2> QED BY <1>1, <2>2, <2>3, <2>4, <2>5, PlainlyGoes
<1> QED BY <1>2, <1>3

-----------------------------------------------------------------------------
(* The handlers of the main loop.                                          *)

Sets(p, b) == Tell(<<at>>, << <<"set", p, b>> >>)

Chunks == Tell([k \in DOMAIN level[at] |-> at], level[at]) \o << <<"flush", at>> >>

LEMMA PacketTaken ==
    ASSUME DataType, NEW kind, Packets(kind), Taken
    PROVE  /\ at \in Clients /\ inq[at] \in Seq(Request) /\ inq[at] # << >>
           /\ inq[at][1] \in Request /\ inq[at][1][1] = kind
           /\ InqType' /\ inq'[at] = Tail(inq[at])
           /\ \A d \in Clients : d # at => inq'[d] = inq[d]
<1>1. /\ at \in Clients /\ inq[at] \in Seq(Request) /\ inq[at] # << >> /\ inq[at][1][1] = kind
      /\ inq' = [inq EXCEPT ![at] = Tail(@)]
  BY DEF Packets, Between, DataType, InqType, Taken
<1>2. inq[at][1] \in Request /\ Tail(inq[at]) \in Seq(Request)
  BY <1>1, SeqFacts
<1> QED BY <1>1, <1>2 DEF DataType, InqType

LEMMA HandlesSteps ==
    ASSUME TodoInv, DataType, Between(step)
    PROVE  /\ \A p \in Pos, b \in Block :
                /\ Do(Sets(p, b)) => Handles(Sets(p, b))
                /\ Do(SetPackets(p, b)) => Handles(SetPackets(p, b))
           /\ Do(AskSteps(at)) => Handles(AskSteps(at))
           /\ \A s \in Seq(Chatter) : Do(s) => Handles(s) /\ Tells(s, [c \in Clients |-> {}])
           /\ Do(Chunks) => Handles(Chunks)
           /\ Do(Finished(at)) => Handles(Finished(at))
<1>1. at \in Clients /\ todo[Main] = << >>
  BY DEF Between
<1>2. ASSUME NEW s, MainShape(s), Do(s) PROVE Handles(s)
  BY <1>1, <1>2 DEF Handles, Do
<1>3. ASSUME NEW p \in Pos, NEW b \in Block
      PROVE MainShape(Sets(p, b)) /\ MainShape(SetPackets(p, b))
  <2>1. <<"set", p, b>> \in Packet /\ <<"set", p, b>>[1] = "set"
    BY PacketFields
  <2> DEFINE x == <<"set", p, b>>
  <2>2. x \in Packet /\ x[1] = "set"
    BY <2>1
  <2> HIDE DEF x
  <2>3. MainShape(Tell(<<at>>, <<x>>))
    BY <1>1, <2>2, OneTells DEF Tells
  <2> QED BY <2>3, SetTells DEF x, Sets, Tells
<1>4. MainShape(AskSteps(at))
  BY <1>1, AskTells
<1>5. ASSUME NEW s \in Seq(Chatter)
      PROVE  Tells(s, [c \in Clients |-> {}]) /\ MainShape(s)
  <2>1. s \in Seq(Errands(Main))
    BY ChatterErrands, MainIsNoClient
  <2> QED BY <2>1, ErrandsTell DEF Tells
<1>6. MainShape(Chunks)
  <2>1. level[at] \in Seq(Piece)
    BY <1>1 DEF DataType, LevelType
  <2> QED BY <1>1, <2>1, ChunksTell DEF Chunks, Tells
<1>7. MainShape(Finished(at))
  BY <1>1, FinishTells DEF Tells
<1> QED BY <1>2, <1>3, <1>4, <1>5, <1>6, <1>7

Handler ==
    \/ RecvEditRefused \/ RecvEdit \/ RecvAsk \/ Kick \/ RecvFindsReset
    \/ NoLevel \/ SendChunks \/ FinishLevel

LEMMA FlushOne ==
    ASSUME NEW c \in Clients
    PROVE  << <<"flush", c>> >> \in Seq(Chatter)
<1>1. <<"flush", c>> \in Chatter
  BY ChatterFields
<1> QED BY <1>1

LEMMA HandlerTodo ==
    ASSUME TodoInv, DataType, Handler
    PROVE  /\ todo[Main] = << >> /\ at \in Clients
           /\ UNCHANGED todo \/ \E s : Handles(s)
<1>1. Between(step)
  BY DEF Handler, RecvEditRefused, RecvEdit, RecvAsk, Kick, RecvFindsReset, NoLevel, SendChunks,
         FinishLevel, Packets, Between
<1>2. at \in Clients /\ todo[Main] = << >>
  BY <1>1 DEF Between
<1>3. UNCHANGED todo \/ \E s : Handles(s)
  <2>1. CASE RecvEditRefused \/ RecvEdit
    <3> DEFINE p == inq[at][1][2]
               b == inq[at][1][3]
    <3>1. p \in Pos /\ b \in Block
      BY <2>1, PacketTaken, RequestFields DEF RecvEditRefused, RecvEdit
    <3>2. world[p] \in Block
      BY <3>1 DEF DataType, WorldType
    <3>3. CASE RecvEditRefused
      <4>1. Do(Sets(p, world[p]))
        BY <3>3 DEF RecvEditRefused, Refused, Sets
      <4> HIDE DEF p
      <4> QED BY <1>1, <3>1, <3>2, <4>1, HandlesSteps
    <3>4. CASE RecvEdit
      <4>1. UNCHANGED todo \/ Do(SetPackets(p, b))
        BY <3>4 DEF RecvEdit
      <4> HIDE DEF p, b
      <4> QED BY <1>1, <3>1, <4>1, HandlesSteps
    <3> QED BY <2>1, <3>3, <3>4
  <2>2. CASE RecvAsk
    BY <1>1, <2>2, HandlesSteps DEF RecvAsk, AskSteps
  <2>3. CASE Kick \/ RecvFindsReset \/ NoLevel
    <3>1. \E s \in Seq(Chatter) : Do(s)
      BY <1>2, <2>3, DisconnectTyped, DownOne, FlushOne DEF Kick, RecvFindsReset, NoLevel
    <3> QED BY <1>1, <3>1, HandlesSteps
  <2>4. CASE SendChunks \/ FinishLevel
    BY <1>1, <2>4, HandlesSteps DEF SendChunks, FinishLevel, Chunks
  <2> QED BY <2>1, <2>2, <2>3, <2>4 DEF Handler
<1> QED BY <1>2, <1>3

LEMMA TurnTaken ==
    ASSUME TurnType, NextClient \/ UNCHANGED <<at, step>>
    PROVE  TurnType'
BY NextTyped DEF TurnType

\* The game keeps in mind what has changed.
LEMMA MissedTyped ==
    ASSUME NEW g \in Game, NEW p \in Pos
    PROVE  [g EXCEPT !.missed = @ \cup {p}] \in Game
BY DEF Game

LEMMA HandlerData ==
    ASSUME TodoInv, DataType, Handler
    PROVE  DataType'
<1>0. WorldType /\ GameType /\ InqType /\ OutType /\ LevelType /\ TurnType /\ SpentType
  BY DEF DataType
<1>1. CASE RecvEditRefused \/ RecvAsk
  <2>1. InqType' /\ UNCHANGED <<world, game, out, level, at, step, spent>>
    BY <1>1, PacketTaken DEF RecvEditRefused, RecvAsk
  <2> QED BY <1>0, <2>1
          DEF DataType, WorldType, GameType, OutType, LevelType, TurnType, SpentType
<1>2. CASE RecvEdit
  <2> DEFINE p == inq[at][1][2]
             b == inq[at][1][3]
  <2>1. InqType' /\ p \in Pos /\ b \in Block /\ UNCHANGED <<out, level, at, step, spent>>
    BY <1>2, PacketTaken, RequestFields DEF RecvEdit
  <2>2. \/ UNCHANGED <<world, game>>
        \/ /\ world' = [world EXCEPT ![p] = b]
           /\ game' = [c \in Clients |-> IF game[c].loaded THEN game[c]
                                         ELSE [game[c] EXCEPT !.missed = @ \cup {p}]]
    BY <1>2 DEF RecvEdit
  <2> HIDE DEF p, b
  <2>3. WorldType' /\ GameType'
    <3>1. CASE UNCHANGED <<world, game>>
      BY <1>0, <3>1 DEF WorldType, GameType
    <3>2. CASE ~UNCHANGED <<world, game>>
      <4>1. \A c \in Clients : game[c] \in Game /\ [game[c] EXCEPT !.missed = @ \cup {p}] \in Game
        BY <1>0, <2>1, MissedTyped DEF GameType
      <4> QED BY <1>0, <2>1, <2>2, <3>2, <4>1 DEF WorldType, GameType
    <3> QED BY <3>1, <3>2
  <2> QED BY <1>0, <2>1, <2>3 DEF DataType, OutType, LevelType, TurnType, SpentType
<1>3. CASE Kick \/ RecvFindsReset
  <2>1. SpentType' /\ UNCHANGED <<world, game, inq, out, level, at, step>>
    <3>1. 1 \in Nat
      OBVIOUS
    <3> QED BY <1>0, <1>3, <3>1, FaultTyped DEF Kick, RecvFindsReset
  <2> QED BY <1>0, <2>1
          DEF DataType, WorldType, GameType, InqType, OutType, LevelType, TurnType
<1>4. CASE NoLevel \/ FinishLevel
  <2>1. TurnType' /\ UNCHANGED <<world, game, inq, out, level, spent>>
    BY <1>0, <1>4, NextTyped DEF NoLevel, FinishLevel
  <2> QED BY <1>0, <2>1
          DEF DataType, WorldType, GameType, InqType, OutType, LevelType, SpentType
<1>5. CASE SendChunks
  <2>1. TurnType' /\ UNCHANGED <<world, game, inq, out, spent>>
    BY <1>0, <1>5, TurnTaken DEF SendChunks
  <2>2. level' = [level EXCEPT ![at] = << >>] /\ << >> \in Seq(Piece)
    BY <1>5, SeqFacts DEF SendChunks
  <2>3. LevelType'
    BY <1>0, <2>2 DEF LevelType
  <2> QED BY <1>0, <2>1, <2>3
          DEF DataType, WorldType, GameType, InqType, OutType, SpentType
<1> QED BY <1>1, <1>2, <1>3, <1>4, <1>5 DEF Handler

-----------------------------------------------------------------------------
(* Types hold.                                                             *)

LEMMA PlayerData ==
    ASSUME DataType, NEW c \in Clients,
           GameAsks(c) \/ \E p \in Pos, b \in Block : GameEdits(c, p, b)
    PROVE  /\ DataType'
           /\ \A d \in Clients : d # c => game'[d] = game[d] /\ inq'[d] = inq[d]
<1>0. WorldType /\ GameType /\ InqType /\ OutType /\ LevelType /\ TurnType /\ SpentType
  BY DEF DataType
<1>1. UNCHANGED <<world, out, level, at, step>>
  BY DEF GameAsks, GameEdits
<1>2. PICK x \in Request : inq' = [inq EXCEPT ![c] = Append(@, x)]
  BY RequestKinds DEF GameAsks, GameEdits
<1>3. InqType' /\ \A d \in Clients : d # c => inq'[d] = inq[d]
  <2>1. inq[c] \in Seq(Request)
    BY <1>0 DEF InqType
  <2>2. Append(inq[c], x) \in Seq(Request)
    BY <2>1
  <2> QED BY <1>0, <1>2, <2>2 DEF InqType
<1>4. GameType' /\ \A d \in Clients : d # c => game'[d] = game[d]
  <2>1. CASE UNCHANGED game
    BY <1>0, <2>1 DEF GameType
  <2>2. ASSUME NEW p \in Pos, NEW b \in Block, game' = [game EXCEPT ![c].view[p] = b]
        PROVE  GameType' /\ \A d \in Clients : d # c => game'[d] = game[d]
    <3>1. game[c] \in Game /\ [game[c] EXCEPT !.view[p] = b] \in Game
      BY <1>0 DEF GameType, Game
    <3>2. game' = [game EXCEPT ![c] = [game[c] EXCEPT !.view[p] = b]]
      BY <2>2
    <3> QED BY <1>0, <3>1, <3>2 DEF GameType
  <2> QED BY <2>1, <2>2 DEF GameAsks, GameEdits
<1>5. SpentType'
  BY <1>0, BoundsAssumption DEF SpentType, GameAsks, GameEdits
<1> QED BY <1>0, <1>1, <1>3, <1>4, <1>5
        DEF DataType, WorldType, OutType, LevelType, TurnType

LEMMA OtherData ==
    ASSUME DataType,
           StartTick \/ Enter \/ EndReceive \/ \E c \in Clients : Compressed(c)
    PROVE  DataType'
<1>1. UNCHANGED <<world, game, inq, out, level, spent>>
  BY DEF StartTick, Enter, EndReceive, Compressed
<1>2. TurnType'
  BY NextTyped DEF DataType, TurnType, StartTick, Enter, EndReceive, Compressed
<1> QED BY <1>1, <1>2 DEF DataType, WorldType, GameType, InqType, OutType, LevelType, SpentType

\* The threads' steps and the data.
PartsInv == TodoInv /\ DataType

LEMMA PartsInit == Init => PartsInv
<1> SUFFICES ASSUME Init PROVE PartsInv
  OBVIOUS
<1>1. TodoInv
  <2>1. Main \in Threads /\ Fast \subseteq Threads /\ << >> \in Seq(Task)
    BY MainIsNoClient, SeqFacts DEF Threads
  <2> QED BY <2>1, FastNew, MainNothing DEF TodoInv, Init
<1>2. << >> \in Seq(Request) /\ << >> \in Seq(Packet) /\ << >> \in Seq(Piece)
  BY SeqFacts
<1>3. WorldType /\ GameType /\ InqType /\ LevelType
  BY <1>2, WorldAssumption DEF Init, WorldType, GameType, InqType, LevelType, Game
<1>4. OutType
  <2>1. \A c \in Clients : out[c] = << >> /\ Len(<< >>) = 0 /\ Cap \in Nat
    BY WorldAssumption DEF Init
  <2>2. out \in [Clients -> Seq(Packet)]
    BY <1>2 DEF Init
  <2>3. \A c \in Clients : Len(out[c]) <= Cap
    BY <2>1
  <2> QED BY <2>2, <2>3 DEF OutType
<1>5. TurnType /\ SpentType
  BY ClientsAssumption, BoundsAssumption DEF Init, TurnType, SpentType
<1> QED BY <1>1, <1>3, <1>4, <1>5 DEF PartsInv, DataType

LEMMA PartsNext == PartsInv /\ [Next]_vars => PartsInv'
<1> SUFFICES ASSUME PartsInv, [Next]_vars PROVE PartsInv'
  OBVIOUS
<1>0. TodoInv /\ DataType
  BY DEF PartsInv
<1>1. CASE UNCHANGED vars
  BY <1>0, <1>1 DEF vars, PartsInv, TodoInv, DataType, WorldType, GameType, InqType, OutType,
                    LevelType, TurnType, SpentType
<1>2. CASE \E t \in Threads : ThreadStep(t)
  BY <1>0, <1>2, ThreadData DEF PartsInv
<1>3. CASE Handler
  <2>1. TodoInv'
    <3>1. CASE UNCHANGED todo
      BY <1>0, <3>1 DEF TodoInv
    <3>2. CASE \E s : Handles(s)
      BY <1>0, <3>2, HandlesShape
    <3> QED BY <1>0, <1>3, <3>1, <3>2, HandlerTodo
  <2> QED BY <1>0, <1>3, <2>1, HandlerData DEF PartsInv
<1>4. CASE StartTick \/ Enter \/ EndReceive \/ \E c \in Clients : Compressed(c)
  <2>1. UNCHANGED todo
    BY <1>4 DEF StartTick, Enter, EndReceive, Compressed
  <2> QED BY <1>0, <1>4, <2>1, OtherData DEF PartsInv, TodoInv
<1>5. CASE \E c \in Clients : GameAsks(c) \/ \E p \in Pos, b \in Block : GameEdits(c, p, b)
  <2>1. UNCHANGED todo
    BY <1>5 DEF GameAsks, GameEdits
  <2> QED BY <1>0, <1>5, <2>1, PlayerData DEF PartsInv, TodoInv
<1>6. Main \in Threads /\ Fast \subseteq Threads
  BY MainIsNoClient DEF Threads
<1> QED BY <1>1, <1>2, <1>3, <1>4, <1>5, <1>6 DEF Next, MainStep, Handler

\* The type invariant: in particular no out buffer holds more than it has room for,
\* whoever writes to it (buffer_write), and what a thread has before it are steps of
\* the functions of client.c.
THEOREM OutgoingTypeCorrect == Spec => []TypeOK
<1>1. Init => OutgoingInv /\ PartsInv
  BY OutgoingInit, PartsInit
<1>2. OutgoingInv /\ PartsInv /\ [Next]_vars => OutgoingInv' /\ PartsInv'
  BY OutgoingNext, PartsNext
<1>3. OutgoingInv /\ PartsInv => TypeOK
  <2> SUFFICES ASSUME OutgoingInv, PartsInv PROVE TypeOK
    OBVIOUS
  <2>1. level \in [Clients -> Seq(Packet)]
    <3>1. Seq(Piece) \subseteq Seq(Packet)
      BY PacketFields
    <3> QED BY <3>1 DEF PartsInv, DataType, LevelType
  <2> QED BY <2>1 DEF OutgoingInv, TypeInv, MutexInv, PartsInv, TodoInv, DataType, WorldType,
                      GameType, InqType, OutType, TurnType, SpentType, TypeOK
<1> QED BY <1>1, <1>2, <1>3, PTL DEF Spec

===============================================================================
