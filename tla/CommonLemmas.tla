---------------------------- MODULE CommonLemmas -----------------------------
(***************************************************************************)
(* What the proofs of several modules need, and the libraries do not say:  *)
(* loops, flattened sequences, division.                                   *)
(***************************************************************************)
EXTENDS Integers, SequencesExt, WellFoundedInduction, SequenceTheorems, TLAPS

-----------------------------------------------------------------------------
(* Induction, for sets of numbers, and loops.                              *)

LEMMA SetInduction ==
    ASSUME NEW T, 0 \in T, \A n \in Nat : n \in T => n + 1 \in T
    PROVE  Nat \subseteq T
<1> DEFINE F == Nat \ T
           R == OpToRel(<, Nat)
<1> SUFFICES ASSUME F # {} PROVE FALSE
  OBVIOUS
<1>1. IsWellFoundedOn(R, Nat)
  BY NatLessThanWellFounded
<1>2. \A x, y \in Nat : <<y, x>> \in R <=> y < x
  BY DEF OpToRel
<1> HIDE DEF R
<1>3. PICK x \in F : \A y \in F : ~ (<<y, x>> \in R)
  BY <1>1, WFMin
<1>4. x \in Nat /\ x \notin T /\ x # 0
  OBVIOUS
<1>5. x - 1 \in Nat /\ x - 1 < x
  BY <1>4
<1>6. x - 1 \in T
  BY <1>2, <1>3, <1>4, <1>5
<1>7. (x - 1) + 1 = x
  BY <1>4
<1> QED BY <1>4, <1>5, <1>6, <1>7

\* h[k] is what the loop has after the turn k.
Runs(h, f, w, n) == h[0] = w /\ \A k \in 1 .. n : h[k] = f[k][h[k - 1]]

\* There is a function that runs a loop whose turns stay within W.
LEMMA LoopExists ==
    ASSUME NEW W, NEW n \in Nat, NEW f \in [1 .. n -> [W -> W]], NEW w \in W
    PROVE  \E h \in [0 .. n -> W] : Runs(h, f, w, n)
<1> DEFINE T == {m \in Nat : m <= n => \E h \in [0 .. m -> W] : Runs(h, f, w, m)}
<1>1. 0 \in T
  <2> DEFINE h == [k \in 0 .. 0 |-> w]
  <2>1. h \in [0 .. 0 -> W] /\ Runs(h, f, w, 0)
    BY DEF Runs
  <2> QED BY <2>1
<1>2. ASSUME NEW m \in Nat, m \in T PROVE m + 1 \in T
  <2> SUFFICES ASSUME m + 1 <= n PROVE \E h \in [0 .. m + 1 -> W] : Runs(h, f, w, m + 1)
    OBVIOUS
  <2>1. PICK h \in [0 .. m -> W] : Runs(h, f, w, m)
    BY <1>2
  <2> DEFINE x == f[m + 1][h[m]]
             g == [k \in 0 .. m + 1 |-> IF k = m + 1 THEN x ELSE h[k]]
  <2>2. x \in W
    OBVIOUS
  <2>3. g \in [0 .. m + 1 -> W]
    BY <2>2
  <2>4. g[0] = w /\ g[m + 1] = f[m + 1][g[m]]
    BY <2>1 DEF Runs
  <2>5. \A k \in 1 .. m : g[k] = f[k][g[k - 1]]
    BY <2>1 DEF Runs
  <2>6. \A k \in 1 .. m + 1 : g[k] = f[k][g[k - 1]]
    <3>1. \A k \in 1 .. m + 1 : k \in 1 .. m \/ k = m + 1
      OBVIOUS
    <3>2. g[m + 1] = f[m + 1][g[(m + 1) - 1]]
      BY <2>4
    <3> QED BY ONLY <2>5, <3>1, <3>2
  <2>7. Runs(g, f, w, m + 1)
    BY ONLY <2>4, <2>6 DEF Runs
  <2> HIDE DEF g
  <2> QED BY <2>3, <2>7
<1> HIDE DEF T
<1>3. n \in T
  BY <1>1, <1>2, SetInduction
<1> QED BY <1>3 DEF T

\* What a loop keeps, and what the turn j of it achieves and the others keep.
LEMMA LoopReaches ==
    ASSUME NEW W, NEW K, NEW n \in Nat, NEW g, NEW j \in 1 .. n,
           g[0] \in W,
           \A k \in 1 .. n : g[k - 1] \in W => g[k] \in W,
           \A k \in 1 .. n : g[k - 1] \in K => g[k] \in K,
           g[j - 1] \in W => g[j] \in K
    PROVE  g[n] \in K
<1> DEFINE T == {m \in Nat : m <= n => g[m] \in W}
           U == {m \in Nat : j + m <= n => g[j + m] \in K}
<1>1. Nat \subseteq T
  <2>1. 0 \in T
    OBVIOUS
  <2>2. ASSUME NEW m \in Nat, m \in T PROVE m + 1 \in T
    BY <2>2
  <2> HIDE DEF T
  <2> QED BY <2>1, <2>2, SetInduction
<1>2. g[j] \in K
  BY <1>1
<1>3. Nat \subseteq U
  <2>1. 0 \in U
    BY <1>2
  <2>2. ASSUME NEW m \in Nat, m \in U PROVE m + 1 \in U
    <3> SUFFICES ASSUME j + (m + 1) <= n PROVE g[j + (m + 1)] \in K
      OBVIOUS
    <3>1. g[j + m] \in K /\ j + m + 1 \in 1 .. n /\ (j + m + 1) - 1 = j + m
      BY <2>2
    <3> QED BY <3>1
  <2> HIDE DEF U
  <2> QED BY <2>1, <2>2, SetInduction
<1>4. n - j \in U
  BY <1>3
<1> QED BY <1>4

LEMMA LoopKeeps ==
    ASSUME NEW W, NEW n \in Nat, NEW g, g[0] \in W,
           \A k \in 1 .. n : g[k - 1] \in W => g[k] \in W
    PROVE  g[n] \in W
<1> DEFINE T == {m \in Nat : m <= n => g[m] \in W}
<1>1. 0 \in T
  OBVIOUS
<1>2. ASSUME NEW m \in Nat, m \in T PROVE m + 1 \in T
  BY <1>2
<1> HIDE DEF T
<1>3. n \in T
  BY <1>1, <1>2, SetInduction
<1> QED BY <1>3 DEF T

LEMMA FlattenExists ==
    ASSUME NEW E, NEW s \in Seq(Seq(E)), s # << >>
    PROVE  \E g : g = [j \in 1 .. Len(s) |-> IF j = 1 THEN s[j] ELSE g[j - 1] \o s[j]]
<1> DEFINE W == Seq(E)
           n == Len(s)
           f == [k \in 1 .. n |-> [x \in W |-> x \o s[k]]]
<1>1. n \in Nat \ {0} /\ \A k \in 1 .. n : s[k] \in W
  OBVIOUS
<1>2. \A x \in W, k \in 1 .. n : x \o s[k] \in W
  BY <1>1
<1>3. << >> \in W
  OBVIOUS
<1>8. f \in [1 .. n -> [W -> W]] /\ \A x \in W, k \in 1 .. n : f[k][x] = x \o s[k]
  BY <1>2
<1> HIDE DEF f, W, n
<1>10. n \in Nat /\ \A k \in 1 .. n : k - 1 \in 0 .. n
  BY <1>1
<1>4. PICK h \in [0 .. n -> W] : Runs(h, f, << >>, n)
  BY <1>10, <1>8, <1>3, LoopExists
<1>9. h[0] = << >> /\ \A k \in 1 .. n : h[k] = f[k][h[k - 1]]
  BY <1>4 DEF Runs
<1> DEFINE g == [j \in 1 .. n |-> h[j]]
<1>5. \A k \in 1 .. n : h[k] = h[k - 1] \o s[k]
  BY <1>10, <1>9, <1>8
<1>6. h[1] = s[1]
  <2>1. 1 \in 1 .. n /\ s[1] \in Seq(E)
    BY <1>1 DEF W
  <2>2. h[1] = h[1 - 1] \o s[1]
    BY <2>1, <1>5
  <2>3. h[1] = << >> \o s[1]
    <3>1. 1 - 1 = 0
      OBVIOUS
    <3> QED BY ONLY <2>2, <1>9, <3>1
  <2> QED BY <2>1, <2>3
<1>7. g = [j \in 1 .. n |-> IF j = 1 THEN s[j] ELSE g[j - 1] \o s[j]]
  <2>1. \A j \in 1 .. n : j # 1 => j - 1 \in 1 .. n
    BY <1>10
  <2>2. \A j \in 1 .. n : j # 1 => g[j - 1] = h[j - 1]
    BY <2>1
  <2>3. \A j \in 1 .. n : j # 1 => h[j] = g[j - 1] \o s[j]
    BY <2>2, <1>5
  <2> QED BY <2>3, <1>6
<1> QED BY <1>7 DEF n

\* A flattened sequence holds what its members hold.
LEMMA FlattenHolds ==
    ASSUME NEW E, NEW s \in Seq(Seq(E))
    PROVE  /\ FlattenSeq(s) \in Seq(E)
           /\ \A e : e \in Range(FlattenSeq(s)) <=> \E k \in DOMAIN s : e \in Range(s[k])
<1>1. CASE s = << >>
  BY <1>1 DEF FlattenSeq, Range
<1>2. CASE s # << >>
  <2> DEFINE n == Len(s)
             g == CHOOSE g : g = [j \in 1 .. n |-> IF j = 1 THEN s[j] ELSE g[j - 1] \o s[j]]
             Good(m) == /\ g[m] \in Seq(E)
                        /\ \A e : e \in Range(g[m]) <=> \E k \in 1 .. m : e \in Range(s[k])
             T == {m \in Nat : m + 1 <= n => Good(m + 1)}
  <2>1. n \in Nat \ {0} /\ DOMAIN s = 1 .. n /\ \A k \in 1 .. n : s[k] \in Seq(E)
    BY <1>2
  <2>2. g = [j \in 1 .. n |-> IF j = 1 THEN s[j] ELSE g[j - 1] \o s[j]]
    BY <1>2, FlattenExists
  <2>3. FlattenSeq(s) = g[n]
    BY <2>1 DEF FlattenSeq
  <2> HIDE DEF g, n
  <2>4. \A a, b \in Seq(E) : \A e : e \in Range(a \o b) <=> e \in Range(a) \/ e \in Range(b)
    <3> SUFFICES ASSUME NEW a \in Seq(E), NEW b \in Seq(E)
                 PROVE  \A e : e \in Range(a \o b) <=> e \in Range(a) \/ e \in Range(b)
      OBVIOUS
    <3>1. /\ DOMAIN a = 1 .. Len(a) /\ DOMAIN b = 1 .. Len(b) /\ Len(a) \in Nat /\ Len(b) \in Nat
          /\ DOMAIN (a \o b) = 1 .. Len(a) + Len(b)
          /\ \A k \in 1 .. Len(a) + Len(b) :
                (a \o b)[k] = IF k <= Len(a) THEN a[k] ELSE b[k - Len(a)]
      OBVIOUS
    <3>2. ASSUME NEW e, e \in Range(a \o b) PROVE e \in Range(a) \/ e \in Range(b)
      <4>1. PICK k \in 1 .. Len(a) + Len(b) : e = (a \o b)[k]
        BY <3>1, <3>2 DEF Range
      <4>2. CASE k <= Len(a)
        BY <3>1, <4>1, <4>2 DEF Range
      <4>3. CASE ~(k <= Len(a))
        <5>1. k - Len(a) \in DOMAIN b /\ e = b[k - Len(a)]
          BY <3>1, <4>1, <4>3
        <5> QED BY <5>1 DEF Range
      <4> QED BY <4>2, <4>3
    <3>3. ASSUME NEW e, e \in Range(a) PROVE e \in Range(a \o b)
      <4>1. PICK k \in DOMAIN a : e = a[k]
        BY <3>3 DEF Range
      <4>2. k \in DOMAIN (a \o b) /\ e = (a \o b)[k]
        BY <3>1, <4>1
      <4> QED BY <4>2 DEF Range
    <3>4. ASSUME NEW e, e \in Range(b) PROVE e \in Range(a \o b)
      <4>1. PICK k \in DOMAIN b : e = b[k]
        BY <3>4 DEF Range
      <4>2. k + Len(a) \in DOMAIN (a \o b) /\ e = (a \o b)[k + Len(a)]
        BY <3>1, <4>1
      <4> QED BY <4>2 DEF Range
    <3> QED BY <3>2, <3>3, <3>4
  <2>5. 0 \in T
    <3>1. g[1] = s[1]
      BY <2>1, <2>2
    <3>2. 1 .. 1 = {1}
      OBVIOUS
    <3>3. Good(1)
      BY <2>1, <3>1, <3>2
    <3> QED BY <3>3
  <2>6. ASSUME NEW m \in Nat, m \in T PROVE m + 1 \in T
    <3> SUFFICES ASSUME m + 2 <= n PROVE Good(m + 2)
      BY <2>1
    <3>1. m + 2 \in 1 .. n /\ m + 2 # 1 /\ (m + 2) - 1 = m + 1
      BY <2>1
    <3>2. Good(m + 1)
      BY <2>1, <2>6
    <3>3. g[m + 2] = g[m + 1] \o s[m + 2]
      BY <2>2, <3>1
    <3>4. g[m + 2] \in Seq(E)
      BY <2>1, <3>1, <3>2, <3>3
    <3>5. \A k : k \in 1 .. m + 2 <=> k \in 1 .. m + 1 \/ k = m + 2
      OBVIOUS
    <3>6. \A e : e \in Range(g[m + 2]) <=> \E k \in 1 .. m + 2 : e \in Range(s[k])
      BY <2>1, <2>4, <3>1, <3>2, <3>3, <3>5
    <3> QED BY <3>4, <3>6
  <2> HIDE DEF T, Good
  <2>7. Nat \subseteq T
    BY <2>5, <2>6, SetInduction
  <2>8. n - 1 \in Nat /\ (n - 1) + 1 = n
    BY <2>1
  <2>9. Good((n - 1) + 1)
    <3>1. n - 1 \in T
      BY <2>7, <2>8
    <3>2. (n - 1) + 1 <= n
      BY <2>1
    <3> QED BY ONLY <3>1, <3>2 DEF T
  <2> QED BY <2>1, <2>3, <2>8, <2>9 DEF Good
<1> QED BY <1>1, <1>2

-----------------------------------------------------------------------------
(* Rows of an array.                                                       *)

LEMMA TimesGrows ==
    ASSUME NEW a \in Nat, NEW b \in Nat, NEW c \in Nat, a <= b
    PROVE  a * c <= b * c /\ a * c \in Nat /\ b * c \in Nat
OBVIOUS

\* A row of n in rows of length w.
LEMMA RowInside ==
    ASSUME NEW a \in Nat, NEW n \in Nat, NEW w \in Nat, a < n, NEW x \in 0 .. w - 1
    PROVE  a * w + x \in Nat /\ a * w + x < n * w
<1>1. (a + 1) * w <= n * w /\ (a + 1) * w \in Nat /\ n * w \in Nat
  BY TimesGrows
<1>2. (a + 1) * w = a * w + w /\ a * w \in Nat
  OBVIOUS
<1> QED BY <1>1, <1>2

LEMMA RowUnique ==
    ASSUME NEW w \in Nat, NEW a \in Nat, NEW b \in Nat, NEW x \in 0 .. w - 1,
           NEW y \in 0 .. w - 1, a * w + x = b * w + y
    PROVE  a = b /\ x = y
<1>0. a * w \in Nat /\ b * w \in Nat
  OBVIOUS
<1>1. ASSUME a < b PROVE FALSE
  <2>1. a * w + x < b * w
    BY <1>1, RowInside
  <2> QED BY <1>0, <2>1
<1>2. ASSUME b < a PROVE FALSE
  <2>1. b * w + y < a * w
    BY <1>2, RowInside
  <2> QED BY <1>0, <2>1
<1>3. a = b
  BY <1>1, <1>2
<1> QED BY <1>0, <1>3

LEMMA DivMod ==
    ASSUME NEW n \in Nat, NEW d \in Nat \ {0}
    PROVE  n \div d \in Nat /\ n % d \in 0 .. d - 1 /\ n = (n \div d) * d + (n % d)
<1>1. n % d \in 0 .. d - 1
  OBVIOUS
<1>2. n \div d \in Int
  OBVIOUS
<1>3. n = d * (n \div d) + (n % d)
  OBVIOUS
<1>4. n \div d \in Nat
  <2> DEFINE k == n \div d
  <2>1. n = d * k + (n % d) /\ k \in Int
    BY <1>2, <1>3
  <2> HIDE DEF k
  <2>2. ASSUME k < 0 PROVE FALSE
    <3>1. d * k <= 0 - d
      <4>1. k + 1 <= 0
        BY <2>1, <2>2
      <4>2. d * (k + 1) <= 0
        BY <2>1, <4>1
      <4>3. d * (k + 1) = d * k + d /\ d * k \in Int
        BY <2>1
      <4> QED BY <4>2, <4>3
    <3>2. n % d <= d - 1 /\ n % d \in Int
      BY <1>1
    <3>3. d * k \in Int
      BY <2>1
    <3> QED BY <2>1, <3>1, <3>2, <3>3
  <2> QED BY <2>1, <2>2 DEF k
<1>5. n = (n \div d) * d + (n % d)
  <2> DEFINE k == n \div d
             m == n % d
  <2>1. k \in Int /\ n = d * k + m
    BY <1>2, <1>3
  <2> HIDE DEF k, m
  <2>2. d * k = k * d
    BY <2>1
  <2>3. n = k * d + m
    BY <2>1, <2>2
  <2> QED BY <2>3 DEF k, m
<1> QED BY <1>1, <1>4, <1>5

LEMMA RowDivides ==
    ASSUME NEW w \in Nat, NEW a \in Nat, NEW x \in 0 .. w - 1
    PROVE  (a * w + x) \div w = a /\ (a * w + x) % w = x
<1>0. w \in Nat \ {0}
  OBVIOUS
<1> DEFINE n == a * w + x
<1>1. n \in Nat
  OBVIOUS
<1>2. n \div w \in Nat /\ n % w \in 0 .. w - 1 /\ n = (n \div w) * w + (n % w)
  BY <1>0, <1>1, DivMod
<1> DEFINE q == n \div w
           m == n % w
<1>3. q \in Nat /\ m \in 0 .. w - 1 /\ a * w + x = q * w + m
  BY <1>2
<1> HIDE DEF q, m, n
<1>4. a = q /\ x = m
  BY <1>3, RowUnique
<1> QED BY <1>4 DEF q, m, n

-----------------------------------------------------------------------------
(* Folds.                                                                  *)

LEMMA Largest ==
    ASSUME NEW n \in Nat, NEW s \in SUBSET (1 .. n), s # {}
    PROVE  Max(s) \in s /\ \A k \in s : k <= Max(s)
<1> DEFINE T == {m \in Nat : \A r \in SUBSET (1 .. m) :
                    r # {} => \E x \in r : \A y \in r : x >= y}
<1>1. 0 \in T
  <2>1. \A r \in SUBSET (1 .. 0) : r = {}
    OBVIOUS
  <2> QED BY <2>1
<1>2. ASSUME NEW m \in Nat, m \in T PROVE m + 1 \in T
  <2> SUFFICES ASSUME NEW r \in SUBSET (1 .. m + 1), r # {}
               PROVE  \E x \in r : \A y \in r : x >= y
    OBVIOUS
  <2>1. CASE m + 1 \in r
    BY <2>1
  <2>2. CASE m + 1 \notin r
    <3>1. r \in SUBSET (1 .. m)
      BY <2>2
    <3> QED BY <1>2, <3>1
  <2> QED BY <2>1, <2>2
<1> HIDE DEF T
<1>3. n \in T
  BY <1>1, <1>2, SetInduction
<1>4. \E x \in s : \A y \in s : x >= y
  BY <1>3 DEF T
<1>5. Max(s) \in s /\ \A y \in s : Max(s) >= y
  BY <1>4 DEF Max
<1> QED BY <1>5

\* The recursion of a fold: the largest member of a set comes last.
Folds(it, f, w, n) ==
    it = [s \in SUBSET (1 .. n) |->
            IF s = {} THEN w ELSE f[Max(s)][it[s \ {Max(s)}]]]

LEMMA FoldExists ==
    ASSUME NEW W, NEW n \in Nat, NEW f \in [1 .. n -> [W -> W]], NEW w \in W
    PROVE  \E it \in [SUBSET (1 .. n) -> W] : Folds(it, f, w, n)
<1> DEFINE Good(m) == \E it \in [SUBSET (1 .. m) -> W] : Folds(it, f, w, m)
           T == {m \in Nat : m <= n => Good(m)}
<1>1. Good(0)
  <2> DEFINE it == [s \in SUBSET (1 .. 0) |-> w]
  <2>1. \A s \in SUBSET (1 .. 0) : s = {}
    OBVIOUS
  <2>2. it \in [SUBSET (1 .. 0) -> W] /\ Folds(it, f, w, 0)
    BY <2>1 DEF Folds
  <2> QED BY <2>2
<1>2. ASSUME NEW m \in Nat, m + 1 <= n, Good(m) PROVE Good(m + 1)
  <2>1. PICK h \in [SUBSET (1 .. m) -> W] : Folds(h, f, w, m)
    BY <1>2
  <2> DEFINE D == SUBSET (1 .. m + 1)
             it == [s \in D |-> IF m + 1 \in s THEN f[m + 1][h[s \ {m + 1}]] ELSE h[s]]
  <2>2. \A s \in D : s \ {m + 1} \in SUBSET (1 .. m) /\ (m + 1 \notin s => s \in SUBSET (1 .. m))
    OBVIOUS
  <2>3. f[m + 1] \in [W -> W]
    BY <1>2
  <2>4. it \in [D -> W]
    BY <2>2, <2>3
  <2>5. ASSUME NEW s \in D
        PROVE  it[s] = IF s = {} THEN w ELSE f[Max(s)][it[s \ {Max(s)}]]
    <3>1. CASE m + 1 \in s
      <4>1. Max(s) = m + 1
        <5>1. Max(s) \in s /\ \A k \in s : k <= Max(s)
          <6>1. m + 1 \in Nat /\ s \in SUBSET (1 .. m + 1) /\ s # {}
            BY <1>2, <3>1
          <6> QED BY ONLY <6>1, Largest
        <5>2. Max(s) <= m + 1 /\ Max(s) \in Nat
          <6>1. Max(s) \in 1 .. m + 1
            BY <5>1
          <6> HIDE DEF D
          <6> QED BY ONLY <6>1, m \in Nat
        <5> QED BY <3>1, <5>1, <5>2
      <4>2. it[s \ {m + 1}] = h[s \ {m + 1}]
        BY <2>2
      <4> QED BY <3>1, <4>1, <4>2
    <3>2. CASE m + 1 \notin s
      <4>1. s \in SUBSET (1 .. m)
        BY <2>2, <3>2
      <4>2. h[s] = IF s = {} THEN w ELSE f[Max(s)][h[s \ {Max(s)}]]
        BY <2>1, <4>1 DEF Folds
      <4>3. s \ {Max(s)} \in D /\ m + 1 \notin s \ {Max(s)}
        BY <3>2
      <4>4. it[s \ {Max(s)}] = h[s \ {Max(s)}] /\ it[s] = h[s]
        BY <3>2, <4>3
      <4> QED BY <4>2, <4>4
    <3> QED BY <3>1, <3>2
  <2>6. Folds(it, f, w, m + 1)
    BY <2>5 DEF Folds
  <2> HIDE DEF it
  <2> QED BY <2>4, <2>6
<1> HIDE DEF Good
<1>3. 0 \in T
  BY <1>1
<1>4. ASSUME NEW m \in Nat, m \in T PROVE m + 1 \in T
  BY <1>2, <1>4
<1> HIDE DEF T
<1>5. n \in T
  BY <1>3, <1>4, SetInduction
<1>6. Good(n)
  BY <1>5 DEF T
<1> QED BY <1>6 DEF Good

\* A fold runs as a loop: from 1 to n.
LEMMA FoldRuns ==
    ASSUME NEW W, NEW n \in Nat, NEW f, NEW w,
           NEW it \in [SUBSET (1 .. n) -> W], Folds(it, f, w, n)
    PROVE  /\ [k \in 0 .. n |-> it[1 .. k]] \in [0 .. n -> W]
           /\ Runs([k \in 0 .. n |-> it[1 .. k]], f, w, n)
<1> DEFINE h == [k \in 0 .. n |-> it[1 .. k]]
<1>1. \A k \in 0 .. n : 1 .. k \in SUBSET (1 .. n)
  OBVIOUS
<1>2. h \in [0 .. n -> W]
  BY <1>1
<1>3. h[0] = w
  <2>1. 1 .. 0 = {}
    OBVIOUS
  <2>2. it[1 .. 0] = w
    BY <1>1, <2>1 DEF Folds
  <2> QED BY <2>2
<1>4. ASSUME NEW k \in 1 .. n PROVE h[k] = f[k][h[k - 1]]
  <2> DEFINE s == 1 .. k
  <2>1. s \in SUBSET (1 .. n) /\ s # {} /\ k \in s
    OBVIOUS
  <2>2. Max(s) = k
    <3>1. Max(s) \in s /\ \A j \in s : j <= Max(s)
      BY <2>1, Largest
    <3> QED BY <2>1, <3>1
  <2>3. s \ {k} = 1 .. k - 1
    OBVIOUS
  <2>4. it[s] = f[Max(s)][it[s \ {Max(s)}]]
    BY <2>1 DEF Folds
  <2>5. it[1 .. k] = f[k][it[1 .. k - 1]]
    BY <2>2, <2>3, <2>4
  <2>6. k \in 0 .. n /\ k - 1 \in 0 .. n
    OBVIOUS
  <2> QED BY <2>5, <2>6
<1> QED BY <1>2, <1>3, <1>4 DEF Runs
=============================================================================
