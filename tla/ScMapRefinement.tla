-------------------------- MODULE ScMapRefinement --------------------------
(***************************************************************************)
(* The hash map behaves as a function from keys to values.                 *)
(***************************************************************************)
EXTENDS ScMap

Contents ==
  [k \in {map.key[i] : i \in Occupied(map)} \cup (IF map.used THEN {0} ELSE {}) |->
     IF k = 0 THEN map.zero
     ELSE map.value[CHOOSE i \in Occupied(map) : map.key[i] = k]]

Abstract == INSTANCE KeyValue WITH contents <- Contents, None <- 0

(* Whatever was put and deleted before, in whatever order and however the  *)
(* keys collide, every call answers and changes what a function would.     *)
ImplementsKeyValue == Abstract!Spec

=============================================================================
