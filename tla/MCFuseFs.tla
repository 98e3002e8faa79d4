------------------------------ MODULE MCFuseFs ------------------------------
EXTENDS FuseFsRefinement, TLC

CONSTANTS i1, i2, i3, a, b, h1, h2, f1, f2, me

(* chown of the owner alone.                                               *)
OwnerOnly == {<<me, NoId>>}
AllOrNothing == {{}, {"r", "w"}}

(* States that differ in the last answer alone are one: nothing but the    *)
(* step that gives an answer looks at it.                                  *)
WithoutReply == <<type, name, parent, items, status, attr, open, dead, pending, lost>>

Symmetry ==
  Permutations(Item \ {Root}) \cup Permutations(Name \ HiddenName)
    \cup Permutations(HiddenName) \cup Permutations(File)

=============================================================================
