-------------------------- MODULE FuseFsRefinement --------------------------
(***************************************************************************)
(* FuseFs implements PosixFiles: the tree without the hidden names is what *)
(* paths lead to, the items of the handles are the open inodes.            *)
(***************************************************************************)
EXTENDS FuseFs, Functions

(* The paths that lead somewhere (Linked and NoLeak hold): those without a *)
(* hidden name on them are the clients'.                                   *)
Lookups == {p \in {PathTo(x) : x \in {y \in Item : Live(y)}} : Range(p) \cap HiddenName = {}}

(* Until the second call of a rename is made its locks keep every request  *)
(* of this module from the path whose file already has another name.  (A   *)
(* mere lookup of that path they do not keep away: it finds it missing.)   *)
Replacing == {r.to : r \in Waiting("rename")}
View ==
  [p \in Lookups \cup Replacing |->
     IF p \in Replacing THEN (CHOOSE r \in Waiting("rename") : r.to = p).item
     ELSE fs_get_item(p, 0).item]

Opened == [f \in DOMAIN open \ dead |-> open[f]]

Inodes == [x \in Range(View) \cup Range(Opened) |-> [type |-> type[x], attr |-> attr[x]]]

Abstract == INSTANCE PosixFiles WITH
  ns <- View, inode <- Inodes, opened <- Opened, Name <- Name \ HiddenName, Inode <- Item

(* Through hidden names, moved directories and requests that take two      *)
(* calls, clients see files that live until their last name and their last *)
(* open file are gone, each with the attributes that were given to it and  *)
(* no other.                                                               *)
ImplementsPosixFiles == Abstract!Spec

=============================================================================
