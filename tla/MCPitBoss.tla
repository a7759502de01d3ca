----------------------------- MODULE MCPitBoss ------------------------------
(* Three web clients of one table and one of another.                      *)
EXTENDS PitBoss, TLC

CONSTANTS c1, c2, c3, c4, t1, t2

MCTableOf == (c1 :> t1) @@ (c2 :> t1) @@ (c3 :> t1) @@ (c4 :> t2)
Symmetry  == Permutations({c1, c2, c3})
=============================================================================
