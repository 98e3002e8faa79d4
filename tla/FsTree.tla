------------------------------- MODULE FsTree -------------------------------
(***************************************************************************)
(* The directory tree kept by src/src/fs.c: items linked both ways, each   *)
(* directory holding a map from names to items and each item holding its   *)
(* own name and a pointer to its parent.                                   *)
(*                                                                         *)
(* A handler of main.c is one action: it does what it does when no other   *)
(* worker is in the maps it goes through.  Nothing sees to that.  libfuse  *)
(* locks what a request removes or moves, but the directories on the way   *)
(* it only shares, the kernel locks the directories a request changes and  *)
(* not those it goes through, and a RELEASE, behind which libfuse may      *)
(* unlink, has no lock of the kernel's at all.  What can become of a       *)
(* handler when workers do meet in a map is the action Overtaken, and the  *)
(* constant Overlap says whether they do.                                  *)
(*                                                                         *)
(* A failed resolution is modelled for every path, the ones the kernel     *)
(* would have refused included; only where a handler relies on the         *)
(* kernel's checks is that assumption a guard, named Kernel...             *)
(***************************************************************************)
EXTENDS Integers, Sequences, FiniteSets

CONSTANTS
  Item,       \* the fs_item objects malloc can return, and root_dir
  Root,       \* the static root_dir
  NoItem,     \* NULL, and the answer of sc_map_get for an absent key
  Name,       \* file names
  LongName,   \* the names longer than FILE_NAME_MAX
  NoName,     \* the name of an item that is not allocated
  MknodType,  \* the file types mknod is asked for
  Overlap,    \* calls of two workers meet in a map: never if the daemon has
              \* one worker (-s), at any time if it has more (the default)
  MaxPath     \* bound: the longest path a client names

ItemType == {"DIR", "REG", "FIFO", "SOCK"}

ASSUME TreeAssumption ==
  /\ Root \in Item
  /\ NoItem \notin Item
  /\ LongName \subseteq Name
  /\ NoName \notin Name
  /\ MknodType \subseteq ItemType \ {"DIR"}
  /\ Overlap \in BOOLEAN
  /\ MaxPath \in Nat \ {0}

VARIABLES
  type,    \* the file type bits of st.st_mode, "FREE" before malloc and after free
  name,    \* fs_item.name
  parent,  \* fs_item.parent
  items,   \* fs_item.as.dir.items: what sc_map_get finds under each name
  status,  \* the daemon: "up", "unmounted" after free_fs, "aborted" by a
           \* signal, "corrupt" on its heap or in its tree
  reply    \* what the last handler answered

tree == <<type, name, parent, items>>
vars == <<type, name, parent, items, status, reply>>

Live(x) == type[x] # "FREE"

EmptyMap == [n \in Name |-> NoItem]

(* Paths are relative to the mount point.  The kernel itself refuses to    *)
(* create, remove or rename the mount point, <<>>.                         *)
Paths == UNION {[1..n -> Name] : n \in 1..MaxPath}

Parent(p) == SubSeq(p, 1, Len(p) - 1)
ps_last_file(p) == p[Len(p)]

-----------------------------------------------------------------------------
(* Both tests look for one bit of st_mode, and the code of a socket (or a  *)
(* block device) contains the bits of a directory and of a regular file.   *)
fs_item_is_dir(x) == type[x] \in {"DIR", "SOCK"}

Found(x) == [ret |-> "OK", item |-> x]
Fail(e) == [ret |-> e, item |-> NoItem]

parse_path_string(p) ==
  IF ps_last_file(p) \in LongName THEN "ENAMETOOLONG" ELSE "OK"

(* One turn of the loop of fs_get_item, over component i of k: one that is *)
(* not the last has to be a directory.  Its get and its test of found see  *)
(* the same map here; see Overtaken.                                       *)
Lookup(d, n, i, k) ==
  IF items[d][n] = NoItem THEN Fail("ENOENT")
  ELSE IF i < k /\ ~fs_item_is_dir(items[d][n]) THEN Fail("ENOTDIR")
  ELSE Found(items[d][n])

(* The result after each turn of the loop over the first k components.     *)
Walk(p, k) ==
  LET turn[i \in 0..k] ==
        IF i = 0 THEN Found(Root)
        ELSE IF turn[i - 1].ret # "OK" THEN turn[i - 1]
        ELSE Lookup(turn[i - 1].item, p[i], i, k)
  IN  turn

fs_get_item(p, offset) == Walk(p, Len(p) - offset)[Len(p) - offset]

fs_get_dir_item(p, offset) ==
  LET r == fs_get_item(p, offset)
  IN  IF r.ret = "OK" /\ ~fs_item_is_dir(r.item) THEN Fail("ENOTDIR") ELSE r

fs_get_file_item(p) ==
  LET r == fs_get_item(p, 0)
  IN  IF r.ret = "OK" /\ fs_item_is_dir(r.item) THEN Fail("EISDIR") ELSE r

(* Mutant of Subtree: free_fs_dir frees the entries, not what is in them.   *)
SubtreeOneLevel(x) == {x} \cup {y \in Item : \E n \in Name : items[x][n] = y}

(* What free_fs_item(root) visits: the least set that holds x and the      *)
(* entries of every directory in it.                                       *)
Closed(S) == \A d \in S, n \in Name : items[d][n] # NoItem => items[d][n] \in S
Subtree(x) == {y \in Item : \A S \in SUBSET Item : x \in S /\ Closed(S) => y \in S}

(* The path libfuse has for an item.                                       *)
PathTo(x) ==
  LET up[i \in 0..Cardinality(Item)] ==
        IF i = 0 THEN x ELSE IF up[i - 1] = Root THEN Root ELSE parent[up[i - 1]]
      depth == CHOOSE d \in 0..Cardinality(Item) : up[d] = Root /\ \A e \in 0..(d - 1) : up[e] # Root
  IN  [j \in 1..depth |-> name[up[depth - j]]]

-----------------------------------------------------------------------------
Answer(op, ret) == reply' = [op |-> op, ret |-> ret, mode |-> "NONE", names |-> {}]

(* A handler that only answers.                                            *)
Refuse(op, ret) == Answer(op, ret) /\ UNCHANGED <<tree, status>>

(* A handler that does what C leaves undefined.  The end of the model.     *)
Undefined(op) ==
  /\ status' \in {"aborted", "corrupt"}
  /\ Answer(op, "NONE")
  /\ UNCHANGED tree

Init ==
  /\ type = [x \in Item |-> IF x = Root THEN "DIR" ELSE "FREE"]
  /\ name = [x \in Item |-> NoName]
  /\ parent = [x \in Item |-> NoItem]
  /\ items = [x \in Item |-> EmptyMap]
  /\ status = "up"
  /\ reply = [op |-> "init", ret |-> "OK", mode |-> "NONE", names |-> {}]

(* The mount point has no last component: ps_last_file takes idx_buff[-1], *)
(* which is bytes of path_copy nobody wrote, for the place of its name.    *)
(* parse_path_string finds a short name there, one too long, or a place    *)
(* outside the process.                                                    *)
GetattrMountPoint ==
  \/ /\ reply' = [op |-> "getattr", ret |-> "OK", mode |-> type[Root], names |-> {}]
     /\ UNCHANGED <<tree, status>>
  \/ Refuse("getattr", "ENAMETOOLONG")
  \/ /\ status' = "aborted"
     /\ Answer("getattr", "NONE")
     /\ UNCHANGED tree

fdo_getattr(p) ==
  LET r == fs_get_item(p, 0)
  IN  IF parse_path_string(p) # "OK" THEN Refuse("getattr", parse_path_string(p))
      ELSE IF r.ret # "OK" THEN Refuse("getattr", r.ret)
      ELSE /\ reply' = [op |-> "getattr", ret |-> "OK", mode |-> type[r.item], names |-> {}]
           /\ UNCHANGED <<tree, status>>

(* The kernel opens a directory only where getattr said it is one.         *)
KernelOpensDir(p) ==
  LET r == fs_get_item(p, 0) IN r.ret = "OK" /\ type[r.item] = "DIR"

fdo_readdir(p) ==
  LET d == fs_get_item(p, 0).item
  IN  /\ KernelOpensDir(p)
      /\ reply' = [op |-> "readdir", ret |-> "OK", mode |-> "NONE",
                   names |-> {n \in Name : items[d][n] # NoItem}]
      /\ UNCHANGED <<tree, status>>

(* The kernel walks through directories only: a socket, which the handlers *)
(* take for a directory, is never an inner component of a path.            *)
KernelPath(p) ==
  \A k \in 1..(Len(p) - 1) :
    LET r == fs_get_item(p, k) IN r.ret = "OK" => type[r.item] # "SOCK"

ClientPaths == {p \in Paths : KernelPath(p)}

(* add_item looks nothing up before it puts: that the name is free is the  *)
(* kernel's doing (EEXIST).                                                *)
KernelCreates(p) == fs_get_item(p, 0).ret # "OK"

add_item(op, p, t) ==
  LET d == fs_get_dir_item(p, 1)
  IN  IF d.ret # "OK" THEN Refuse(op, d.ret)
      ELSE \E x \in Item :
             /\ ~Live(x)
             /\ type' = [type EXCEPT ![x] = t]
             /\ name' = [name EXCEPT ![x] = ps_last_file(p)]
             /\ parent' = [parent EXCEPT ![x] = d.item]
             /\ items' = [items EXCEPT ![d.item][ps_last_file(p)] = x, ![x] = EmptyMap]
             /\ Answer(op, "OK")
             /\ UNCHANGED status

(* Mutant of fdo_mkdir: fs_mkdir forgets S_IFDIR (line 556).                *)
MkdirWithoutType(p) ==
  IF parse_path_string(p) # "OK" THEN Refuse("mkdir", parse_path_string(p))
  ELSE add_item("mkdir", p, "NONE")

fdo_mkdir(p) ==
  IF parse_path_string(p) # "OK" THEN Refuse("mkdir", parse_path_string(p))
  ELSE add_item("mkdir", p, "DIR")

fdo_mknod(p, t) ==
  IF parse_path_string(p) # "OK" THEN Refuse("mknod", parse_path_string(p))
  ELSE add_item("mknod", p, t)

-----------------------------------------------------------------------------
(* free(): the item is gone, with its name and its map.                    *)
FreeAll(S) ==
  /\ type' = [x \in Item |-> IF x \in S THEN "FREE" ELSE type[x]]
  /\ name' = [x \in Item |-> IF x \in S THEN NoName ELSE name[x]]
  /\ parent' = [x \in Item |-> IF x \in S THEN NoItem ELSE parent[x]]

(* Mutant of DeleteItem: the item leaves its directory but is not freed.    *)
DeleteKeepsItem(x) ==
  /\ items' = [items EXCEPT ![parent[x]][name[x]] = NoItem]
  /\ UNCHANGED <<type, name, parent>>

(* sc_map_del through the parent pointer and the name of the item itself,  *)
(* then free.                                                              *)
DeleteItem(x) ==
  /\ items' = [items EXCEPT ![parent[x]][name[x]] = NoItem]
  /\ FreeAll({x})

fs_file_delete(p) ==
  LET r == fs_get_file_item(p)
  IN  IF r.ret # "OK" THEN Refuse("unlink", r.ret)
      ELSE DeleteItem(r.item) /\ Answer("unlink", "OK") /\ UNCHANGED status

fdo_unlink(p) ==
  IF parse_path_string(p) # "OK" THEN Refuse("unlink", parse_path_string(p))
  ELSE fs_file_delete(p)

(* fs_dir_delete trusts its callers not to name a socket (the kernel       *)
(* answers ENOTDIR).                                                       *)
KernelRemovesDir(p) ==
  LET r == fs_get_item(p, 0) IN r.ret = "OK" => type[r.item] # "SOCK"

(* Mutant of fs_dir_delete: the map is tested last (line 199 after 207).    *)
DeleteThenTest(p) ==
  LET r == fs_get_dir_item(p, 0)
  IN  IF r.ret # "OK" THEN Refuse("rmdir", r.ret)
      ELSE /\ DeleteItem(r.item) /\ UNCHANGED status
           /\ Answer("rmdir", IF items[r.item] = EmptyMap THEN "OK" ELSE "ENOTEMPTY")

fs_dir_delete(p) ==
  LET r == fs_get_dir_item(p, 0)
  IN  IF r.ret # "OK" THEN Refuse("rmdir", r.ret)
      ELSE IF items[r.item] # EmptyMap THEN Refuse("rmdir", "ENOTEMPTY")
      ELSE DeleteItem(r.item) /\ Answer("rmdir", "OK") /\ UNCHANGED status

fdo_rmdir(p) ==
  IF parse_path_string(p) # "OK" THEN Refuse("rmdir", parse_path_string(p))
  ELSE fs_dir_delete(p)

-----------------------------------------------------------------------------
IsPrefixOf(p, q) == Len(p) <= Len(q) /\ SubSeq(q, 1, Len(p)) = p

(* What the kernel checks before it asks for a rename: the two paths are   *)
(* not the same, neither is inside the other, and a directory replaces     *)
(* directories only, a file files only.                                    *)
KernelRenames(p, q) ==
  /\ ~IsPrefixOf(p, q) /\ ~IsPrefixOf(q, p)
  /\ LET x == fs_get_item(p, 0)
         y == fs_get_item(q, 0)
     IN  x.ret = "OK" /\ y.ret = "OK" => (type[x.item] = "DIR" <=> type[y.item] = "DIR")

(* Mutant of MoveItem: the item keeps its old name (line 458 dropped).      *)
MoveKeepsName(x, d, n) ==
  /\ items' = [items EXCEPT ![parent[x]][name[x]] = NoItem, ![d][n] = x]
  /\ parent' = [parent EXCEPT ![x] = d]
  /\ UNCHANGED <<type, name, status>>
  /\ Answer("rename", "OK")

(* Mutant of MoveItem: the item stays under its old name too.               *)
MoveKeepsEntry(x, d, n) ==
  /\ items' = [items EXCEPT ![d][n] = x]
  /\ parent' = [parent EXCEPT ![x] = d]
  /\ name' = [name EXCEPT ![x] = n]
  /\ UNCHANGED <<type, status>>
  /\ Answer("rename", "OK")

(* The new name is free: the item leaves its directory under its old name  *)
(* and enters the other under its new one.                                 *)
MoveItem(x, d, n) ==
  /\ items' = [items EXCEPT ![parent[x]][name[x]] = NoItem, ![d][n] = x]
  /\ parent' = [parent EXCEPT ![x] = d]
  /\ name' = [name EXCEPT ![x] = n]
  /\ UNCHANGED type
  /\ Answer("rename", "OK")
  /\ UNCHANGED status

(* The new name is taken.  Past its checks the code ends in free(new_dir)  *)
(* or free(new_file), a pointer into the middle of the fs_item malloc      *)
(* returned: undefined behaviour.  glibc aborts the process when the bytes *)
(* in front of the pointer do not look like a chunk of its heap, and goes  *)
(* on with a corrupt heap when they do.  A file renamed onto a socket is   *)
(* put into the map a socket does not have.                                *)
ReplaceItem == Undefined("rename")

(* A socket has no items: what stands there is what malloc left.           *)
LooksEmpty(y) == IF type[y] = "SOCK" THEN BOOLEAN ELSE {items[y] = EmptyMap}

(* The mount point, which line 422 asks for, is not among the paths.       *)
fs_rename(p, q) ==
  LET old == fs_get_item(p, 0)
      dir == fs_get_dir_item(q, 1)
      new == items[dir.item][ps_last_file(q)]
  IN  IF old.ret # "OK" THEN Refuse("rename", old.ret)
      ELSE IF dir.ret # "OK" THEN Refuse("rename", dir.ret)
      ELSE IF new = NoItem THEN MoveItem(old.item, dir.item, ps_last_file(q))
      ELSE IF ~fs_item_is_dir(old.item) THEN ReplaceItem
      ELSE IF ~fs_item_is_dir(new) THEN Refuse("rename", "EPERM")
      ELSE \E empty \in LooksEmpty(new) :
             IF empty THEN ReplaceItem ELSE Refuse("rename", "ENOTEMPTY")

(* Mutant of fdo_rename: newpath is not measured (main.c:172).         *)
RenameToAnyName(p, q) ==
  IF parse_path_string(p) # "OK" THEN Refuse("rename", parse_path_string(p))
  ELSE fs_rename(p, q)

fdo_rename(p, q) ==
  IF parse_path_string(p) # "OK" THEN Refuse("rename", parse_path_string(p))
  ELSE IF parse_path_string(q) # "OK" THEN Refuse("rename", parse_path_string(q))
  ELSE fs_rename(p, q)

-----------------------------------------------------------------------------
(* free_fs after fuse_main returns: free_fs_item takes every item the root *)
(* reaches, and a socket for a directory, whose map it terminates: free on *)
(* a pointer malloc never returned.                                        *)
free_fs ==
  IF \E x \in Subtree(Root) : type[x] = "SOCK"
  THEN status' = "aborted" /\ Answer("unmount", "NONE") /\ UNCHANGED tree
  ELSE /\ FreeAll(Subtree(Root) \ {Root})
       /\ items' = [x \in Item |-> IF x \in Subtree(Root) THEN EmptyMap ELSE items[x]]
       /\ status' = "unmounted"
       /\ Answer("unmount", "OK")

Running == status = "up"

(* Another worker is in a map at the same time.  found is the map's and    *)
(* not the call's: between the get and the test of a walk (lines 220, 221) *)
(* the other's get of a name no entry has clears it, and a path that is    *)
(* there is answered ENOENT.                                               *)
OvertakenAnswer(p) ==
  \/ Refuse("getattr", "ENOENT") \/ Refuse("unlink", "ENOENT") \/ Refuse("rmdir", "ENOENT")
  \/ /\ Len(p) > 1 /\ KernelCreates(p)
     /\ Refuse("mkdir", "ENOENT") \/ (MknodType # {} /\ Refuse("mknod", "ENOENT"))
  \/ /\ \E q \in ClientPaths : KernelRenames(p, q) /\ parse_path_string(q) = "OK"
     /\ Refuse("rename", "ENOENT")

(* The other's get of an entry sets it, and the NULL of a name that is not *)
(* there is followed.  A put or a del of the other's (lines 177, 204, 396, *)
(* 454, 459; that of a RELEASE has no lock) frees or moves the slots this  *)
(* one reads or writes, or an unlink frees the item a lookup of the same   *)
(* name has found and not yet copied (main.c:104).  And an entry that is   *)
(* there is put again, because the test of line 444 or the lookup of the   *)
(* kernel missed it: what it led to is lost with everything in it.         *)
(* None of the calls is answered, and nothing after is modelled.           *)
OvertakenEnd == Undefined("none")

Overtaken ==
  /\ Running /\ Overlap
  /\ \/ \E p \in ClientPaths : parse_path_string(p) = "OK" /\ OvertakenAnswer(p)
     \/ OvertakenEnd

Getattr == Running /\ (GetattrMountPoint \/ \E p \in ClientPaths : fdo_getattr(p))
Readdir == Running /\ \E p \in ClientPaths : fdo_readdir(p)
Mkdir == Running /\ \E p \in ClientPaths : KernelCreates(p) /\ fdo_mkdir(p)
Mknod == Running /\ \E p \in ClientPaths, t \in MknodType : KernelCreates(p) /\ fdo_mknod(p, t)
Unlink == Running /\ \E p \in ClientPaths : fdo_unlink(p)
Rmdir == Running /\ \E p \in ClientPaths : KernelRemovesDir(p) /\ fdo_rmdir(p)
Rename == Running /\ \E p, q \in ClientPaths : KernelRenames(p, q) /\ fdo_rename(p, q)
Unmount == Running /\ free_fs

Next ==
  \/ Getattr \/ Readdir \/ Mkdir \/ Mknod \/ Unlink \/ Rmdir \/ Rename \/ Unmount
  \/ Overtaken

Spec == Init /\ [][Next]_vars

-----------------------------------------------------------------------------
TypeOK ==
  /\ type \in [Item -> ItemType \cup {"FREE"}]
  /\ name \in [Item -> Name \cup {NoName}]
  /\ parent \in [Item -> Item \cup {NoItem}]
  /\ items \in [Item -> [Name -> Item \cup {NoItem}]]
  /\ status \in {"up", "unmounted", "aborted", "corrupt"}
  /\ reply.ret \in {"OK", "NONE", "ENOENT", "ENOTDIR", "EISDIR", "ENOTEMPTY", "EPERM",
                    "ENAMETOOLONG"}

(* Every entry of every map is an allocated item that says so itself: its  *)
(* name is the key it is found under and its parent the directory that     *)
(* holds it.  Unlink, rmdir and rename delete through the item's own name  *)
(* and parent (fs.c:204, 396, 454), so an item that lies leaves a pointer  *)
(* to freed memory behind in the directory that holds it.                  *)
Linked ==
  \A d \in Item, n \in Name :
    items[d][n] # NoItem =>
      /\ type[d] = "DIR"
      /\ items[d][n] # Root
      /\ Live(items[d][n])
      /\ name[items[d][n]] = n
      /\ parent[items[d][n]] = d

(* Every allocated item but the root is in its parent's map: no operation  *)
(* leaves one that no path reaches and nothing will free.                  *)
NoLeak ==
  \A x \in Item \ {Root} :
    Live(x) =>
      /\ parent[x] \in Item
      /\ name[x] \in Name
      /\ items[parent[x]][name[x]] = x

(* Every allocated item is below the root: no sequence of renames turns a  *)
(* subtree into an island.                                                 *)
Rooted == \A x \in Item : Live(x) => x \in Subtree(Root)

(* No item holds a name that overflows fs_item.name, although only the     *)
(* last component of a path is ever measured (fs.c:186).                   *)
NamesFit == \A x \in Item : name[x] \notin LongName

(* free_fs frees every item there is.                                      *)
UnmountFreesAll == status = "unmounted" => \A x \in Item \ {Root} : ~Live(x)

(* A handler that answers an error has changed nothing: no check comes     *)
(* after the first change.                                                 *)
ErrorsChangeNothing ==
  [][reply'.ret # "OK" => UNCHANGED tree]_vars

=============================================================================
