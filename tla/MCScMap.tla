------------------------------ MODULE MCScMap ------------------------------
EXTENDS ScMapRefinement, ScMapForeach, TLC

CONSTANTS v1, v2, v3

(* sc_map_hash_32.                                                         *)
Identity == [k \in Key |-> k]

(* 7, 15 and 23 share a home, the last of eight slots, and run over into   *)
(* the first ones; each has a value of its own.                            *)
SomeValues ==
  0 :> {v1, v2} @@ 6 :> {v1} @@ 7 :> {v1} @@ 14 :> {v2} @@ 15 :> {v2} @@ 23 :> {v3}

=============================================================================
