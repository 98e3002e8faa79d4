-------------------------- MODULE FsTreeRefinement --------------------------
(***************************************************************************)
(* FsTree implements Namespace: the paths there are, are the ones          *)
(* fs_get_item finds.                                                      *)
(***************************************************************************)
EXTENDS FsTree

(* The paths that lead somewhere, and the type of what they lead to.       *)
Named == {p \in Paths : fs_get_item(p, 0).ret = "OK"}
View == [p \in {<<>>} \cup Named |-> IF p = <<>> THEN "DIR" ELSE type[fs_get_item(p, 0).item]]

Abstract == INSTANCE Namespace WITH ns <- IF Running THEN View ELSE <<>>, up <- Running

(* Whatever the handlers do to items, maps, names and parent pointers, a   *)
(* client sees a hierarchical namespace: each call gives POSIX's answer    *)
(* and has POSIX's effect on every path, the moved subtree of a rename     *)
(* included.                                                               *)
ImplementsNamespace == Abstract!Spec

(* The comment over fs_rename says it (fs.c:413): "If newpath exists but   *)
(* the operation fails for some reason, rename() guarantees to leave an    *)
(* instance of newpath in place."  So a rename that does not succeed       *)
(* leaves every path there was.                                            *)
FailedRenameKeepsPaths ==
  [][reply'.op = "rename" /\ reply'.ret # "OK" => Running' /\ Named \subseteq Named']_vars

=============================================================================
