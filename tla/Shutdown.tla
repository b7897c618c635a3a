------------------------------ MODULE Shutdown ------------------------------
(***************************************************************************)
(* How a signal ends the server: main.c's loop and signal handler, and the *)
(* mutex of log.c that every log_printf holds while it writes.             *)
(*                                                                         *)
(* A signal interrupts whichever thread it is delivered to, wherever that  *)
(* thread is: the handler is a frame on top of the thread's own code, and  *)
(* a signal of the other kind may interrupt the handler too.  The handler  *)
(* logs before it clears `running`, and the mutex is not recursive.        *)
(***************************************************************************)
EXTENDS Integers, Sequences

CONSTANTS
    Main,           \* the main thread
    Helpers,        \* heartbeat and map-send threads that may be running
    Nobody,         \* the holder of a mutex that is free
    MaxSignals      \* bound: signals that are sent

Threads == Helpers \cup {Main}

Kinds == {"SIGINT", "SIGTERM"}

ASSUME ThreadsAssumption == Main \notin Helpers /\ Nobody \notin Threads
ASSUME SignalsAssumption == MaxSignals \in Nat

VARIABLES
    phase,      \* main(): in its loop, shutting down, or returned
    running,    \* main.c's flag
    stack,      \* the frames of each thread, innermost last; none: not started
    mutex,      \* the thread that holds log_mutex
    signals,    \* signals delivered so far
    nested      \* history: a signal interrupted the thread that held log_mutex

vars == <<phase, running, stack, mutex, signals, nested>>

\* A frame is the thread's own code or a signal's handler, and where it is: at
\* the loop test, running, waiting for log_mutex, holding it, or about to clear
\* `running`.
Frame ==
    [of : {"thread"}, at : {"test", "run", "lock", "log"}]
        \cup [of : Kinds, at : {"lock", "log", "set"}]

\* A thread's own code is at the bottom of its stack, and nowhere else.
TypeOK ==
    /\ phase \in {"serving", "stopping", "returned"}
    /\ running \in BOOLEAN
    /\ stack \in [Threads -> Seq(Frame)]
    /\ \A t \in Threads : \A k \in DOMAIN stack[t] : stack[t][k].of = "thread" <=> k = 1
    /\ mutex \in Threads \cup {Nobody}
    /\ signals \in 0 .. MaxSignals
    /\ nested \in BOOLEAN

Started(at) == <<[of |-> "thread", at |-> at]>>

Init ==
    /\ phase = "serving"
    /\ running = TRUE
    /\ stack = [t \in Threads |-> IF t = Main THEN Started("test") ELSE << >>]
    /\ mutex = Nobody
    /\ signals = 0
    /\ nested = FALSE

Alive(t) == phase # "returned" /\ stack[t] # << >>

\* The innermost frame of t is at this point.
At(t, where) == Alive(t) /\ stack[t][Len(stack[t])].at = where

Goes(t, where) == stack' = [stack EXCEPT ![t][Len(stack[t])].at = where]

-----------------------------------------------------------------------------
(* main() and the threads it starts.                                       *)

\* The test of `while (running)`.
LoopTest ==
    /\ At(Main, "test")
    /\ phase' = IF running THEN phase ELSE "stopping"
    /\ Goes(Main, "run")
    /\ UNCHANGED <<running, mutex, signals, nested>>

EndTick ==
    /\ At(Main, "run")
    /\ phase = "serving"
    /\ Goes(Main, "test")
    /\ UNCHANGED <<phase, running, mutex, signals, nested>>

\* A tick may start heartbeat and map-send threads.
StartHelper(t) ==
    /\ At(Main, "run")
    /\ stack[t] = << >>
    /\ stack' = [stack EXCEPT ![t] = Started("run")]
    /\ UNCHANGED <<phase, running, mutex, signals, nested>>

EndHelper(t) ==
    /\ At(t, "run")
    /\ stack' = [stack EXCEPT ![t] = << >>]
    /\ UNCHANGED <<phase, running, mutex, signals, nested>>

\* server_shutdown, config_destroy, log_shutdown, and return from main().
Return ==
    /\ At(Main, "run")
    /\ phase = "stopping"
    /\ phase' = "returned"
    /\ UNCHANGED <<running, stack, mutex, signals, nested>>

-----------------------------------------------------------------------------
(* log_printf, called by a thread or by the handler.                       *)

CallLog(t) ==
    /\ At(t, "run")
    /\ Goes(t, "lock")
    /\ UNCHANGED <<phase, running, mutex, signals, nested>>

\* Mutant: log_printf does not wait for another thread's line.
Lock_Unguarded(t) ==
    /\ At(t, "lock")
    /\ mutex' = t
    /\ Goes(t, "log")
    /\ UNCHANGED <<phase, running, signals, nested>>

Lock(t) ==
    /\ At(t, "lock")
    /\ mutex = Nobody
    /\ mutex' = t
    /\ Goes(t, "log")
    /\ UNCHANGED <<phase, running, signals, nested>>

\* Mutant: the handler logs and does not go on to clear `running`.
Resume_Thread(t) == Goes(t, "run")

\* The caller's next point.
Resume(t) ==
    Goes(t, IF stack[t][Len(stack[t])].of = "thread" THEN "run" ELSE "set")

\* Mutant: one path of log_printf returns without unlocking.
Unlock_Forgotten(t) ==
    /\ At(t, "log")
    /\ Resume(t)
    /\ UNCHANGED <<phase, running, mutex, signals, nested>>

Unlock(t) ==
    /\ At(t, "log")
    /\ mutex' = Nobody
    /\ Resume(t)
    /\ UNCHANGED <<phase, running, signals, nested>>

-----------------------------------------------------------------------------
(* signal_handler; a kind of signal is blocked while its handler runs.     *)

Signal(t, kind) ==
    /\ Alive(t)
    /\ signals < MaxSignals
    /\ \A k \in DOMAIN stack[t] : stack[t][k].of # kind
    /\ stack' = [stack EXCEPT ![t] = Append(@, [of |-> kind, at |-> "lock"])]
    /\ signals' = signals + 1
    /\ nested' = (nested \/ mutex = t)
    /\ UNCHANGED <<phase, running, mutex>>

\* Mutant: the handler tests which signal it is given.
HandlerReturn_SigtermOnly(t) ==
    /\ At(t, "set")
    /\ running' = (running /\ stack[t][Len(stack[t])].of # "SIGTERM")
    /\ stack' = [stack EXCEPT ![t] = SubSeq(@, 1, Len(@) - 1)]
    /\ UNCHANGED <<phase, mutex, signals, nested>>

HandlerReturn(t) ==
    /\ At(t, "set")
    /\ running' = FALSE
    /\ stack' = [stack EXCEPT ![t] = SubSeq(@, 1, Len(@) - 1)]
    /\ UNCHANGED <<phase, mutex, signals, nested>>

-----------------------------------------------------------------------------
MainProceeds == LoopTest \/ EndTick \/ Return

Releases(t) == Unlock(t) \/ HandlerReturn(t)

Next ==
    \/ MainProceeds
    \/ \E t \in Helpers : StartHelper(t) \/ EndHelper(t)
    \/ \E t \in Threads :
        \/ CallLog(t) \/ Lock(t) \/ Releases(t)
        \/ \E kind \in Kinds : Signal(t, kind)

Spec == Init /\ [][Next]_vars

\* Threads are scheduled; a tick and the shutdown log finitely often; and a
\* thread that waits for log_mutex gets it in the end, because the others keep
\* releasing it and the main thread sleeps between ticks.
Fairness ==
    /\ SF_vars(MainProceeds)
    /\ \A t \in Threads : WF_vars(Releases(t)) /\ SF_vars(Lock(t))

FairSpec == Spec /\ Fairness

-----------------------------------------------------------------------------
(* Properties                                                              *)

\* The lines of the log do not mix: log_mutex is held exactly while one frame of
\* its holder writes, also when a signal has interrupted that frame and its
\* handler waits to log as well.
Writing(t) == {k \in DOMAIN stack[t] : stack[t][k].at = "log"}

OneWriter ==
    \A t \in Threads :
        /\ mutex = t <=> Writing(t) # {}
        /\ \A j, k \in Writing(t) : j = k

\* A signal is not forgotten: until `running` is cleared, a handler is still on
\* its way to do so on some thread, even though threads end.
SignalKept ==
    signals > 0 /\ running =>
        \E t \in Threads : \E k \in DOMAIN stack[t] : stack[t][k].of \in Kinds

\* main.c: "Received signal %d, will exit."
WillExit == (signals > 0) ~> (phase = "returned")

\* It does exit when no signal interrupts the thread that is writing to the
\* log, whatever other threads hold the mutex at that moment.
WillExitUnlessNested == (signals > 0) ~> (phase = "returned" \/ nested)
=============================================================================
