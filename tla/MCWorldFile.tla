---------------------------- MODULE MCWorldFile -----------------------------
(***************************************************************************)
(* WorldFile with a map of air and, at the top, sand.                     *)
(***************************************************************************)
EXTENDS WorldFile

\* The generator has left the sand hanging.
Airy == [n \in 0 .. Size - 1 |-> IF n = Index(<<0, Depth - 1, 0>>) THEN "sand" ELSE "air"]
=============================================================================
