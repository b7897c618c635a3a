------------------------------ MODULE MCServer ------------------------------
(***************************************************************************)
(* Server on small instances.                                              *)
(***************************************************************************)
EXTENDS Server

\* Connections, threads and names that no configuration singles out.
Symmetry ==
    Permutations(Conns \ BannedIPs) \cup Permutations(Workers)
        \cup Permutations((Names \cap Whitelist) \ BannedUsers)

\* For a search that needs neither lost packets nor stale pointers.
NoMishap == ~torn /\ \A k \in DOMAIN clients : ~clients[k].missed
=============================================================================
