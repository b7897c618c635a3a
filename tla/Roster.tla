------------------------------- MODULE Roster -------------------------------
(***************************************************************************)
(* What the client table promises about players, seen from outside: a set  *)
(* of distinct names that players join, leave and change, never more than  *)
(* the server lets on and never a barred one.                              *)
(***************************************************************************)
EXTENDS Integers, FiniteSets

CONSTANTS Names, Barred, MaxPlayers

VARIABLE online

Init == online = {}

Join(u) ==
    /\ u \in Names \ (online \cup Barred)
    /\ Cardinality(online) < MaxPlayers
    /\ online' = online \cup {u}

Leave(u) ==
    /\ u \in online
    /\ online' = online \ {u}

\* A player that identifies again under another name.
Rename(u, v) ==
    /\ u \in online
    /\ v \in Names \ (online \cup Barred)
    /\ online' = (online \ {u}) \cup {v}

Next ==
    \/ \E u \in Names : Join(u) \/ Leave(u)
    \/ \E u, v \in Names : Rename(u, v)

Spec == Init /\ [][Next]_online
=============================================================================
