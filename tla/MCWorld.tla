------------------------------ MODULE MCWorld -------------------------------
(***************************************************************************)
(* World on a small map: a corridor through bedrock.                        *)
(***************************************************************************)
EXTENDS World

\* A corridor along x; the bedrock around it keeps every box that matters in
\* the map.
Corridor == {<<x, 3, 3>> : x \in 0 .. Width - 1}

\* A sponge in the middle holds water at the far end back.  The generator has left
\* water right above the sponge, and water that nothing holds above the near end.
Held ==
    [n \in 0 .. Size - 1 |->
        CASE n = Index(<<3, 3, 3>>) -> "sponge"
          [] n \in {Index(q) : q \in {<<0, 4, 3>>, <<3, 4, 3>>, <<6, 3, 3>>}} -> "water"
          [] OTHER -> IF \E p \in Corridor : Index(p) = n THEN "air" ELSE "bedrock"]

\* The near end, the sponge and the next block.
Spots == {<<x, 3, 3>> : x \in {0, 3, 4}}
=============================================================================
