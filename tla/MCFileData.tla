----------------------------- MODULE MCFileData -----------------------------
EXTENDS FileDataRefinement, TLC

CONSTANTS x, y

(* What a byte is makes no difference to any handler.                      *)
Symmetry == Permutations({x, y})

=============================================================================
