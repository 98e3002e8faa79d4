------------------------------ MODULE MCFsTree ------------------------------
EXTENDS FsTreeRefinement, PathString, TLC

CONSTANTS i1, i2, i3, a, b, long

(* Two letters, or three: a path of three short names just fits path_copy.   *)
TwoOrThree == [n \in Name |-> IF n \in LongName THEN <<n, n, n>> ELSE <<n, n>>]

(* The items other than the root are interchangeable, and so are the short *)
(* names.                                                                  *)
Symmetry == Permutations({i1, i2, i3}) \cup Permutations({a, b})

=============================================================================
