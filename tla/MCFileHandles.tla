--------------------------- MODULE MCFileHandles ---------------------------
EXTENDS FileHandles, TLC

CONSTANTS t1, t2, p1, p2, i1, i2, f1, f2, o1, o2

(* Two processes of one thread, and one process of two.                    *)
TwoProcesses == t1 :> p1 @@ t2 :> p2
OneProcess == t1 :> p1 @@ t2 :> p1

Symmetry == Permutations({i1, i2}) \cup Permutations({f1, f2}) \cup Permutations({o1, o2})

=============================================================================
