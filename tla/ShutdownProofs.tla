--------------------------- MODULE ShutdownProofs ---------------------------
(***************************************************************************)
(* Proofs about Shutdown, for any set of threads and any number of         *)
(* signals: the frames of a thread are its own code below and handlers     *)
(* above it, only the innermost one moves, and log_mutex belongs to the    *)
(* one frame that writes.                                                  *)
(***************************************************************************)
EXTENDS Shutdown, SequenceTheorems, TLAPS

ThreadFrames  == [of : {"thread"}, at : {"test", "run", "lock", "log"}]
HandlerFrames == [of : Kinds, at : {"lock", "log", "set"}]

\* A frame of thread code at the bottom, handlers above it.
Layered(s) ==
    \A k \in 1 .. Len(s) : IF k = 1 THEN s[k] \in ThreadFrames ELSE s[k] \in HandlerFrames

\* What TypeOK says but for the order of the frames.
Typed ==
    /\ phase \in {"serving", "stopping", "returned"}
    /\ running \in BOOLEAN
    /\ stack \in [Threads -> Seq(Frame)]
    /\ mutex \in Threads \cup {Nobody}
    /\ signals \in 0 .. MaxSignals
    /\ nested \in BOOLEAN

\* Nobody writes without the mutex, a thread that holds it writes, and no
\* thread writes twice.
WriterInv ==
    \A t \in Threads :
        /\ Layered(stack[t])
        /\ mutex = t => \E k \in 1 .. Len(stack[t]) : stack[t][k].at = "log"
        /\ \A k \in 1 .. Len(stack[t]) : stack[t][k].at = "log" => mutex = t
        /\ \A j, k \in 1 .. Len(stack[t]) :
              stack[t][j].at = "log" /\ stack[t][k].at = "log" => j = k

IInv == Typed /\ WriterInv /\ SignalKept

-----------------------------------------------------------------------------
(* The innermost frame.                                                    *)

\* What a thread that is alive has on top of its stack.
LEMMA TopFrame ==
    ASSUME Typed, WriterInv, NEW t \in Threads, NEW where, At(t, where)
    PROVE  LET n == Len(stack[t])
           IN  /\ n \in Nat \ {0} /\ n \in 1 .. n
               /\ stack[t] \in Seq(Frame) /\ stack[t][n] \in Frame
               /\ stack[t][n].at = where
               /\ n = 1 => stack[t][n] \in ThreadFrames
               /\ n # 1 => stack[t][n] \in HandlerFrames
<1> DEFINE s == stack[t]
<1>1. s \in Seq(Frame) /\ s # << >> /\ Layered(s) /\ s[Len(s)].at = where
  BY DEF Typed, WriterInv, At, Alive
<1> HIDE DEF s
<1>2. Len(s) \in Nat \ {0}
  BY <1>1, EmptySeq
<1>3. Len(s) \in 1 .. Len(s)
  BY <1>2
<1>4. /\ Len(s) = 1 => s[Len(s)] \in ThreadFrames
      /\ Len(s) # 1 => s[Len(s)] \in HandlerFrames
  BY <1>1, <1>3 DEF Layered
<1>5. s[Len(s)] \in Frame
  BY <1>1, <1>3
<1> QED BY <1>1, <1>2, <1>3, <1>4, <1>5 DEF s

\* The innermost frame goes to another point of its code: the stack keeps its
\* frames but for that one.
LEMMA Moved ==
    ASSUME Typed, WriterInv, NEW t \in Threads, NEW where, NEW there,
           At(t, where), Goes(t, there),
           stack[t][Len(stack[t])] \in ThreadFrames => there \in {"test", "run", "lock", "log"},
           stack[t][Len(stack[t])] \in HandlerFrames => there \in {"lock", "log", "set"}
    PROVE  /\ stack' \in [Threads -> Seq(Frame)]
           /\ \A v \in Threads : v # t => stack'[v] = stack[v]
           /\ Len(stack'[t]) = Len(stack[t])
           /\ Layered(stack'[t])
           /\ \A k \in 1 .. Len(stack[t]) :
                 /\ k # Len(stack[t]) => stack'[t][k] = stack[t][k]
                 /\ stack'[t][k].of = stack[t][k].of
           /\ stack'[t][Len(stack[t])].at = there
<1> DEFINE s == stack[t]
           n == Len(stack[t])
           r == [s[n] EXCEPT !.at = there]
<1>1. /\ n \in Nat \ {0} /\ n \in 1 .. n /\ s \in Seq(Frame) /\ s[n] \in Frame
      /\ n = 1 => s[n] \in ThreadFrames
      /\ n # 1 => s[n] \in HandlerFrames
  BY TopFrame
<1>2. r.of = s[n].of /\ r.at = there
  BY <1>1 DEF Frame
<1>3. /\ n = 1 => r \in ThreadFrames
      /\ n # 1 => r \in HandlerFrames
  BY <1>1 DEF ThreadFrames, HandlerFrames
<1>4. r \in Frame
  BY <1>3 DEF Frame, ThreadFrames, HandlerFrames
<1>5. stack' = [stack EXCEPT ![t] = [s EXCEPT ![n] = r]]
  BY DEF Goes
<1>6. stack \in [Threads -> Seq(Frame)] /\ Layered(s) /\ s = stack[t] /\ n = Len(s)
  BY DEF Typed, WriterInv
<1> HIDE DEF r, s, n
<1>7. /\ [s EXCEPT ![n] = r] \in Seq(Frame) /\ Len([s EXCEPT ![n] = r]) = Len(s)
      /\ \A k \in 1 .. Len(s) : [s EXCEPT ![n] = r][k] = IF k = n THEN r ELSE s[k]
  BY <1>1, <1>4, <1>6, ExceptSeq
<1>8. stack'[t] = [s EXCEPT ![n] = r]
  BY <1>5, <1>6
<1>9. stack' \in [Threads -> Seq(Frame)] /\ \A v \in Threads : v # t => stack'[v] = stack[v]
  BY <1>5, <1>6, <1>7
<1>10. Layered(stack'[t])
  BY <1>3, <1>6, <1>7, <1>8 DEF Layered
<1> QED BY <1>1, <1>2, <1>6, <1>7, <1>8, <1>9, <1>10

-----------------------------------------------------------------------------
(* Steps.                                                                  *)

\* The stacks other than that of t are what they were.
Only(t) == \A v \in Threads : v # t => stack'[v] = stack[v]

\* The conjuncts of WriterInv for one thread.
Tidy(m, t, s) ==
    /\ Layered(s)
    /\ m = t => \E k \in 1 .. Len(s) : s[k].at = "log"
    /\ \A k \in 1 .. Len(s) : s[k].at = "log" => m = t
    /\ \A j, k \in 1 .. Len(s) : s[j].at = "log" /\ s[k].at = "log" => j = k

\* A thread whose innermost frame moves, neither into nor out of the log.
LEMMA PlainMove ==
    ASSUME IInv, NEW t \in Threads, NEW where, NEW there, At(t, where), Goes(t, there),
           where # "log", there # "log",
           stack[t][Len(stack[t])] \in ThreadFrames => there \in {"test", "run", "lock"},
           stack[t][Len(stack[t])] \in HandlerFrames => there \in {"lock", "set"},
           UNCHANGED mutex, running' \in BOOLEAN, running' => running, UNCHANGED signals,
           phase' \in {"serving", "stopping", "returned"}, UNCHANGED nested
    PROVE  IInv'
<1> DEFINE n == Len(stack[t])
<1>1. /\ stack' \in [Threads -> Seq(Frame)] /\ Only(t) /\ Len(stack'[t]) = n
      /\ Layered(stack'[t])
      /\ \A k \in 1 .. n :
            /\ k # n => stack'[t][k] = stack[t][k]
            /\ stack'[t][k].of = stack[t][k].of
      /\ stack'[t][n].at = there /\ stack[t][n].at = where
  BY Moved, TopFrame DEF IInv, Only
<1>2. Typed'
  BY <1>1 DEF IInv, Typed
<1>3. \A v \in Threads : Tidy(mutex, v, stack[v])
  BY DEF IInv, WriterInv, Tidy
<1>4. \A k \in 1 .. n : stack'[t][k].at = "log" <=> stack[t][k].at = "log"
  BY <1>1
<1>5. Tidy(mutex, t, stack'[t])
  BY <1>1, <1>3, <1>4 DEF Tidy
<1>6. \A v \in Threads : Tidy(mutex', v, stack'[v])
  BY <1>1, <1>3, <1>5 DEF Only
<1>7. WriterInv'
  BY <1>6 DEF WriterInv, Tidy
<1>8. SignalKept'
  <2>1. SUFFICES ASSUME signals > 0, running
                 PROVE  \E v \in Threads : \E k \in DOMAIN stack'[v] : stack'[v][k].of \in Kinds
    BY DEF SignalKept
  <2>2. PICK v \in Threads : \E k \in DOMAIN stack[v] : stack[v][k].of \in Kinds
    BY <2>1 DEF IInv, SignalKept
  <2>3. DOMAIN stack'[t] = DOMAIN stack[t] /\ DOMAIN stack[t] = 1 .. n
    BY <1>1 DEF IInv, Typed
  <2> QED BY <1>1, <2>2, <2>3 DEF Only
<1> QED BY <1>2, <1>7, <1>8 DEF IInv

\* What the moves of an innermost frame leave of the promise that some handler
\* will clear the flag.
LEMMA MoveKeepsSignal ==
    ASSUME IInv, NEW t \in Threads, Only(t), DOMAIN stack'[t] = DOMAIN stack[t],
           \A k \in DOMAIN stack[t] : stack'[t][k].of = stack[t][k].of,
           UNCHANGED <<running, signals>>
    PROVE  SignalKept'
<1>1. SUFFICES ASSUME signals > 0, running
               PROVE  \E v \in Threads : \E k \in DOMAIN stack'[v] : stack'[v][k].of \in Kinds
  BY DEF SignalKept
<1>2. PICK v \in Threads : \E k \in DOMAIN stack[v] : stack[v][k].of \in Kinds
  BY <1>1 DEF IInv, SignalKept
<1> QED BY <1>2 DEF Only

\* log_mutex is taken by the frame that goes on to write.
LEMMA LockStep ==
    ASSUME IInv, NEW t \in Threads, Lock(t)
    PROVE  IInv'
<1> DEFINE n == Len(stack[t])
<1>1. /\ stack' \in [Threads -> Seq(Frame)] /\ Only(t) /\ Len(stack'[t]) = n
      /\ Layered(stack'[t]) /\ n \in 1 .. n
      /\ \A k \in 1 .. n :
            /\ k # n => stack'[t][k] = stack[t][k]
            /\ stack'[t][k].of = stack[t][k].of
      /\ stack'[t][n].at = "log"
  BY Moved, TopFrame DEF IInv, Only, Lock
<1>2. /\ mutex = Nobody /\ mutex' = t /\ UNCHANGED <<phase, running, signals, nested>>
      /\ t # Nobody
  BY ThreadsAssumption DEF Lock
<1>3. Typed'
  BY <1>1, <1>2 DEF IInv, Typed
<1>4. \A v \in Threads : Layered(stack[v]) /\ \A k \in 1 .. Len(stack[v]) : stack[v][k].at # "log"
  BY <1>2, ThreadsAssumption DEF IInv, WriterInv
<1>5. Tidy(t, t, stack'[t])
  BY <1>1, <1>4 DEF Tidy
<1>6. ASSUME NEW v \in Threads, v # t
      PROVE  Tidy(t, v, stack[v])
  BY <1>4, <1>6 DEF Tidy
<1>7. WriterInv'
  BY <1>1, <1>2, <1>5, <1>6 DEF WriterInv, Tidy, Only
<1>8. SignalKept'
  <2>1. DOMAIN stack'[t] = 1 .. n /\ DOMAIN stack[t] = 1 .. n
    BY <1>1 DEF IInv, Typed
  <2> QED BY <1>1, <1>2, <2>1, MoveKeepsSignal
<1> QED BY <1>3, <1>7, <1>8 DEF IInv

\* The frame that has written gives log_mutex up, and nobody else has it.
LEMMA UnlockStep ==
    ASSUME IInv, NEW t \in Threads, Unlock(t)
    PROVE  IInv'
<1> DEFINE n == Len(stack[t])
           there == IF stack[t][n].of = "thread" THEN "run" ELSE "set"
<1>0. At(t, "log") /\ Goes(t, there)
  BY DEF Unlock, Resume
<1>1. /\ stack[t][n] \in ThreadFrames => there = "run"
      /\ stack[t][n] \in HandlerFrames => there = "set"
  BY DEF ThreadFrames, HandlerFrames, Kinds
<1>2. there # "log"
  OBVIOUS
<1> HIDE DEF there
<1>3. /\ stack' \in [Threads -> Seq(Frame)] /\ Only(t) /\ Len(stack'[t]) = n
      /\ Layered(stack'[t]) /\ n \in 1 .. n
      /\ \A k \in 1 .. n :
            /\ k # n => stack'[t][k] = stack[t][k]
            /\ stack'[t][k].of = stack[t][k].of
      /\ stack'[t][n].at = there /\ stack[t][n].at = "log"
  BY <1>0, <1>1, Moved, TopFrame DEF IInv, Only
<1>4. mutex' = Nobody /\ UNCHANGED <<phase, running, signals, nested>>
  BY DEF Unlock
<1>5. Typed'
  BY <1>3, <1>4 DEF IInv, Typed
<1>6. mutex = t /\ \A k \in 1 .. n : stack[t][k].at = "log" => k = n
  BY <1>3 DEF IInv, WriterInv
<1>7. \A v \in Threads : v # Nobody
  BY ThreadsAssumption
<1>8. Tidy(Nobody, t, stack'[t])
  BY <1>2, <1>3, <1>6, <1>7 DEF Tidy
<1>9. ASSUME NEW v \in Threads, v # t
      PROVE  Tidy(Nobody, v, stack[v])
  <2>1. Layered(stack[v]) /\ \A k \in 1 .. Len(stack[v]) : stack[v][k].at # "log"
    BY <1>6, <1>9 DEF IInv, WriterInv
  <2> QED BY <1>7, <2>1 DEF Tidy
<1>10. WriterInv'
  BY <1>3, <1>4, <1>8, <1>9 DEF WriterInv, Tidy, Only
<1>11. SignalKept'
  <2>1. DOMAIN stack'[t] = 1 .. n /\ DOMAIN stack[t] = 1 .. n
    BY <1>3 DEF IInv, Typed
  <2> QED BY <1>3, <1>4, <2>1, MoveKeepsSignal
<1> QED BY <1>5, <1>10, <1>11 DEF IInv

\* A helper thread starts with one frame and ends with none; a handler on top of
\* it has returned before it can end.
LEMMA HelperStep ==
    ASSUME IInv, NEW t \in Helpers, StartHelper(t) \/ EndHelper(t)
    PROVE  IInv'
<1> DEFINE s == IF StartHelper(t) THEN Started("run") ELSE << >>
<1>1. t \in Threads /\ UNCHANGED <<phase, running, mutex, signals, nested>>
  BY DEF Threads, StartHelper, EndHelper
<1>2. \A k \in 1 .. Len(stack[t]) : stack[t][k].of = "thread" /\ stack[t][k].at # "log"
  <2>1. CASE StartHelper(t)
    BY <2>1 DEF StartHelper
  <2>2. CASE EndHelper(t)
    <3>1. At(t, "run")
      BY <2>2 DEF EndHelper
    <3>2. Len(stack[t]) = 1 /\ stack[t][1] \in ThreadFrames /\ stack[t][1].at = "run"
      BY <1>1, <3>1, TopFrame DEF IInv, HandlerFrames
    <3> QED BY <3>2 DEF ThreadFrames
  <2> QED BY <2>1, <2>2
<1>3. stack' = [stack EXCEPT ![t] = s]
  BY DEF StartHelper, EndHelper
<1>4. /\ s \in Seq(Frame) /\ Layered(s)
      /\ \A k \in 1 .. Len(s) : s[k].at # "log"
  <2>1. /\ [of |-> "thread", at |-> "run"] \in Frame
        /\ [of |-> "thread", at |-> "run"] \in ThreadFrames
    BY DEF Frame, ThreadFrames
  <2> DEFINE r == [of |-> "thread", at |-> "run"]
  <2>2. r.at = "run"
    OBVIOUS
  <2>3. s = << r >> \/ s = << >>
    BY DEF Started
  <2> HIDE DEF r, s
  <2>4. CASE s = << r >>
    <3>1. s \in Seq(Frame) /\ Len(s) = 1 /\ s[1] = r
      BY <2>1, <2>4 DEF r
    <3> QED BY <2>1, <2>2, <3>1 DEF Layered, r
  <2>5. CASE s = << >>
    BY <2>5 DEF Layered
  <2> QED BY <2>3, <2>4, <2>5
<1> HIDE DEF s
<1>5. stack'[t] = s /\ Only(t)
  BY <1>1, <1>3 DEF IInv, Typed, Only
<1>6. Typed'
  BY <1>1, <1>3, <1>4 DEF IInv, Typed
<1>7. mutex # t
  BY <1>1, <1>2 DEF IInv, WriterInv
<1>8. Tidy(mutex, t, s)
  BY <1>4, <1>7 DEF Tidy
<1>9. WriterInv'
  BY <1>1, <1>5, <1>8 DEF IInv, WriterInv, Tidy, Only
<1>10. SignalKept'
  <2>1. SUFFICES ASSUME signals > 0, running
                 PROVE  \E v \in Threads : \E k \in DOMAIN stack'[v] : stack'[v][k].of \in Kinds
    BY <1>1 DEF SignalKept
  <2>2. PICK v \in Threads : \E k \in DOMAIN stack[v] : stack[v][k].of \in Kinds
    BY <2>1 DEF IInv, SignalKept
  <2>3. v # t
    BY <1>1, <1>2, <2>2 DEF IInv, Typed, Kinds
  <2> QED BY <1>5, <2>2, <2>3 DEF Only
<1> QED BY <1>6, <1>9, <1>10 DEF IInv

\* A signal puts its handler on top, wherever the thread is.
LEMMA SignalStep ==
    ASSUME IInv, NEW t \in Threads, NEW kind \in Kinds, Signal(t, kind)
    PROVE  IInv'
<1> DEFINE s == stack[t]
           r == [of |-> kind, at |-> "lock"]
           u == Append(s, r)
           n == Len(s)
<1>1. /\ stack' = [stack EXCEPT ![t] = u] /\ s # << >> /\ signals < MaxSignals
      /\ signals' = signals + 1 /\ nested' = (nested \/ mutex = t)
      /\ UNCHANGED <<phase, running, mutex>>
  BY DEF Signal, Alive
<1>2. s \in Seq(Frame) /\ n \in Nat \ {0}
  BY <1>1, EmptySeq DEF IInv, Typed
<1>3. r \in Frame /\ r \in HandlerFrames /\ r.at = "lock" /\ r.of \in Kinds
  BY DEF Frame, HandlerFrames
<1>4. Tidy(mutex, t, s)
  BY DEF IInv, WriterInv, Tidy
<1> HIDE DEF s, r
<1>5. /\ u \in Seq(Frame) /\ Len(u) = n + 1 /\ u[n + 1] = r
      /\ \A k \in 1 .. n : u[k] = s[k]
  BY <1>2, <1>3, AppendProperties
<1> HIDE DEF u, n
<1>6. /\ n + 1 # 1 /\ n + 1 \in 1 .. n + 1 /\ n = Len(s)
      /\ \A k \in 1 .. n + 1 : k = n + 1 \/ k \in 1 .. n
      /\ \A k \in 1 .. n : k \in 1 .. n + 1
  BY <1>2 DEF n
<1>7. Tidy(mutex, t, u)
  <2>1. Layered(u)
    BY <1>3, <1>4, <1>5, <1>6 DEF Tidy, Layered
  <2>2. \A k \in 1 .. n + 1 : u[k].at = "log" => k \in 1 .. n /\ s[k].at = "log"
    BY <1>3, <1>5, <1>6
  <2>3. (\E k \in 1 .. n : s[k].at = "log") => \E k \in 1 .. n + 1 : u[k].at = "log"
    BY <1>5, <1>6
  <2> QED BY <1>4, <1>5, <1>6, <2>1, <2>2, <2>3 DEF Tidy
<1>8. stack'[t] = u /\ Only(t)
  BY <1>1 DEF IInv, Typed, Only
<1>9. Typed'
  <2>1. signals' \in 0 .. MaxSignals
    BY <1>1, SignalsAssumption DEF IInv, Typed
  <2>2. stack' \in [Threads -> Seq(Frame)]
    BY <1>1, <1>5 DEF IInv, Typed
  <2> QED BY <1>1, <2>1, <2>2 DEF IInv, Typed
<1>10. WriterInv'
  BY <1>1, <1>7, <1>8 DEF IInv, WriterInv, Tidy, Only
<1>11. SignalKept'
  <2>1. n + 1 \in DOMAIN stack'[t] /\ stack'[t][n + 1].of \in Kinds
    BY <1>3, <1>5, <1>6, <1>8
  <2> QED BY <2>1 DEF SignalKept
<1> QED BY <1>9, <1>10, <1>11 DEF IInv

\* A handler returns to what it interrupted, once it has cleared `running`.
LEMMA ReturnStep ==
    ASSUME IInv, NEW t \in Threads, HandlerReturn(t)
    PROVE  IInv'
<1> DEFINE s == stack[t]
           n == Len(s)
           u == SubSeq(s, 1, n - 1)
<1>1. /\ stack' = [stack EXCEPT ![t] = u] /\ running' = FALSE
      /\ UNCHANGED <<phase, mutex, signals, nested>>
  BY DEF HandlerReturn
<1>2. s \in Seq(Frame) /\ n \in Nat \ {0} /\ n \in 1 .. n /\ s[n].at = "set"
  BY TopFrame DEF HandlerReturn, IInv
<1>3. Tidy(mutex, t, s)
  BY DEF IInv, WriterInv, Tidy
<1> HIDE DEF s
<1>4. u \in Seq(Frame) /\ Len(u) = n - 1 /\ \A k \in 1 .. n - 1 : u[k] = s[k]
  <2>1. 1 \in 1 .. Len(s) + 1 /\ n - 1 \in 1 - 1 .. Len(s)
    BY <1>2
  <2>2. \A k \in 1 .. n - 1 : 1 + k - 1 = k
    BY <1>2
  <2>3. /\ u \in Seq(Frame)
        /\ Len(u) = IF 1 <= n - 1 THEN (n - 1) - 1 + 1 ELSE 0
        /\ \A k \in 1 .. (n - 1) - 1 + 1 : u[k] = s[1 + k - 1]
    BY <1>2, <2>1, SubSeqProperties
  <2> HIDE DEF u, n
  <2>4. Len(u) = n - 1 /\ (n - 1) - 1 + 1 = n - 1
    BY <1>2, <2>3
  <2> QED BY <2>2, <2>3, <2>4
<1> HIDE DEF u, n
<1>5. /\ \A k \in 1 .. n : k = n \/ k \in 1 .. n - 1
      /\ \A k \in 1 .. n - 1 : k \in 1 .. n
      /\ n = Len(s)
  BY <1>2 DEF n
<1>6. Tidy(mutex, t, u)
  <2>1. Layered(u)
    BY <1>3, <1>4, <1>5 DEF Tidy, Layered
  <2>2. \A k \in 1 .. n : s[k].at = "log" => k \in 1 .. n - 1 /\ u[k].at = "log"
    BY <1>2, <1>4, <1>5
  <2>3. \A k \in 1 .. n - 1 : u[k].at = "log" => s[k].at = "log"
    BY <1>4
  <2>4. mutex = t => \E k \in 1 .. n - 1 : u[k].at = "log"
    BY <1>3, <1>5, <2>2 DEF Tidy
  <2> QED BY <1>3, <1>4, <1>5, <2>1, <2>3, <2>4 DEF Tidy
<1>7. stack'[t] = u /\ Only(t)
  BY <1>1 DEF IInv, Typed, Only
<1>8. Typed'
  BY <1>1, <1>4 DEF IInv, Typed
<1>9. WriterInv'
  BY <1>1, <1>6, <1>7 DEF IInv, WriterInv, Tidy, Only
<1>10. SignalKept'
  BY <1>1 DEF SignalKept
<1> QED BY <1>8, <1>9, <1>10 DEF IInv

-----------------------------------------------------------------------------
(* Theorems.                                                               *)

\* The invariant is inductive: one step per action.
LEMMA Inductive ==
    ASSUME IInv, [Next]_vars
    PROVE  IInv'
<1>0. Main \in Threads
  BY DEF Threads
<1>1. ASSUME NEW t \in Threads, At(t, "test") \/ At(t, "run")
      PROVE  /\ stack[t][Len(stack[t])] \in ThreadFrames
             /\ stack[t][Len(stack[t])] \notin HandlerFrames
  <2>1. stack[t][Len(stack[t])] \notin HandlerFrames
    BY <1>1, TopFrame DEF IInv, HandlerFrames
  <2> QED BY <1>1, <2>1, TopFrame DEF IInv
<1>2. phase \in {"serving", "stopping", "returned"} /\ running \in BOOLEAN
  BY DEF IInv, Typed
<1>3. CASE LoopTest
  <2>1. /\ At(Main, "test") /\ Goes(Main, "run")
        /\ UNCHANGED <<running, mutex, signals, nested>>
        /\ phase' \in {phase, "stopping"}
    BY <1>3 DEF LoopTest
  <2>2. phase' \in {"serving", "stopping", "returned"}
    BY <1>2, <2>1
  <2> QED BY <1>0, <1>1, <1>2, <2>1, <2>2, PlainMove
<1>4. CASE EndTick
  <2>1. /\ At(Main, "run") /\ Goes(Main, "test")
        /\ UNCHANGED <<phase, running, mutex, signals, nested>>
    BY <1>4 DEF EndTick
  <2> QED BY <1>0, <1>1, <1>2, <2>1, PlainMove
<1>5. CASE Return
  <2>1. phase' = "returned" /\ UNCHANGED <<running, stack, mutex, signals, nested>>
    BY <1>5 DEF Return
  <2> QED BY <2>1 DEF IInv, Typed, WriterInv, SignalKept
<1>6. ASSUME NEW t \in Threads, CallLog(t)
      PROVE  IInv'
  <2>1. /\ At(t, "run") /\ Goes(t, "lock")
        /\ UNCHANGED <<phase, running, mutex, signals, nested>>
    BY <1>6 DEF CallLog
  <2> QED BY <1>1, <1>2, <2>1, PlainMove
<1>7. CASE UNCHANGED vars
  BY <1>7 DEF vars, IInv, Typed, WriterInv, SignalKept
<1> QED BY <1>3, <1>4, <1>5, <1>6, <1>7, HelperStep, LockStep, UnlockStep, ReturnStep, SignalStep
        DEF Next, MainProceeds, Releases

LEMMA Invariant == Spec => []IInv
<1>1. Init => IInv
  <2>1. SUFFICES ASSUME Init PROVE IInv
    OBVIOUS
  <2> DEFINE r == [of |-> "thread", at |-> "test"]
  <2>2. r \in Frame /\ r \in ThreadFrames /\ r.at = "test"
    BY DEF Frame, ThreadFrames
  <2>3. \A t \in Threads : stack[t] = << r >> \/ stack[t] = << >>
    BY <2>1 DEF Init, Started
  <2>4. stack = [t \in Threads |-> stack[t]]
    BY <2>1 DEF Init
  <2> HIDE DEF r
  <2>5. ASSUME NEW t \in Threads
        PROVE  /\ stack[t] \in Seq(Frame) /\ Layered(stack[t])
               /\ \A k \in 1 .. Len(stack[t]) : stack[t][k].at # "log"
    <3>1. CASE stack[t] = << r >>
      <4>1. << r >> \in Seq(Frame) /\ Len(<< r >>) = 1 /\ << r >>[1] = r
        BY <2>2
      <4> QED BY <2>2, <3>1, <4>1 DEF Layered
    <3>2. CASE stack[t] = << >>
      BY <3>2 DEF Layered
    <3> QED BY <2>3, <3>1, <3>2
  <2>6. mutex = Nobody /\ \A t \in Threads : mutex # t
    BY <2>1, ThreadsAssumption DEF Init
  <2>7. Typed
    <3>1. stack \in [Threads -> Seq(Frame)]
      BY <2>4, <2>5
    <3>2. 0 \in 0 .. MaxSignals
      BY SignalsAssumption
    <3> QED BY <2>1, <3>1, <3>2 DEF Init, Typed
  <2>8. WriterInv
    BY <2>5, <2>6 DEF WriterInv
  <2>9. SignalKept
    BY <2>1 DEF Init, SignalKept
  <2> QED BY <2>7, <2>8, <2>9 DEF IInv
<1> QED BY <1>1, Inductive, PTL DEF Spec

\* The frames of every thread are well formed: the thread's own code at the bottom, and
\* above it, and nowhere else, handlers that wait, write or are about to clear the flag.
THEOREM TypeCorrect == Spec => []TypeOK
<1>1. ASSUME IInv PROVE TypeOK
  <2>1. Typed /\ \A t \in Threads : Layered(stack[t])
    BY <1>1 DEF IInv, WriterInv
  <2>2. ASSUME NEW t \in Threads, NEW k \in DOMAIN stack[t]
        PROVE  stack[t][k].of = "thread" <=> k = 1
    <3>1. k \in 1 .. Len(stack[t])
      BY <2>1 DEF Typed
    <3>2. k = 1 => stack[t][k] \in ThreadFrames
      BY <2>1, <3>1 DEF Layered
    <3>3. k # 1 => stack[t][k] \in HandlerFrames
      BY <2>1, <3>1 DEF Layered
    <3> QED BY <3>2, <3>3 DEF ThreadFrames, HandlerFrames, Kinds
  <2> QED BY <2>1, <2>2 DEF Typed, TypeOK
<1> QED BY <1>1, Invariant, PTL

\* log_mutex is held exactly while one frame of its holder writes, however many
\* threads log and however signals interrupt them.
THEOREM LogLinesApart == Spec => []OneWriter
<1>1. IInv => OneWriter
  <2>1. IInv => \A t \in Threads : DOMAIN stack[t] = 1 .. Len(stack[t])
    BY DEF IInv, Typed
  <2> QED BY <2>1 DEF IInv, WriterInv, OneWriter, Writing
<1> QED BY <1>1, Invariant, PTL

\* A delivered signal clears the flag or has a handler that still will.
THEOREM SignalIsKept == Spec => []SignalKept
BY Invariant, PTL DEF IInv
=============================================================================
