------------------------- MODULE FileDataRefinement -------------------------
(***************************************************************************)
(* Clients see a sequence of bytes, except for what ByteFile leaves open.  *)
(***************************************************************************)
EXTENDS FileData

File == [i \in 1..st_size |-> data[i - 1]]

Abstract == INSTANCE ByteFile WITH file <- File

(* Every read of the file returns the bytes that were written last, and    *)
(* every call answers and changes what a sequence of bytes would, also     *)
(* after a write inside the file has cut it: what is left is right, and    *)
(* what is appended to it goes where it should.                            *)
ImplementsByteFile == Abstract!Spec

=============================================================================
