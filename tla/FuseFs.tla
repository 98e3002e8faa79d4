------------------------------- MODULE FuseFs -------------------------------
(***************************************************************************)
(* The directory tree with the files clients hold open, and libfuse in     *)
(* between.  A handle leads to an item (FileHandles!Resolves) and nothing  *)
(* in src/src counts the handles of an item: that unlink and rename do not *)
(* free one in use is libfuse's doing.  It renames an open file that is    *)
(* about to lose its name to a hidden one, .fuse_hidden..., and unlinks    *)
(* that after the last release (the option hard_remove is off).  It does   *)
(* so for files, not for directories; of those the kernel remembers that   *)
(* they are gone.                                                          *)
(*                                                                         *)
(* Each call of a handler is a step.  The requests that take two of them,  *)
(* and have made one, wait in "pending", any number at once, while other   *)
(* worker threads serve requests whose paths are not locked.  What becomes *)
(* of the second call when it meets another in a map (FsTree!Overtaken) is *)
(* FinishOvertaken.  What the handlers do to st_mode and to the owner is   *)
(* here too.                                                               *)
(***************************************************************************)
EXTENDS FsTree

CONSTANTS
  HiddenName,  \* libfuse's names; clients leave them alone
  File,        \* bound: the kernel's open files
  Perm,        \* what a client gives chmod, mknod and mkdir: sets of "r" and "w"
  Mounter,     \* getuid() and getgid()
  ChownTo,     \* the <<uid, gid>> of chown; NoId, which is -1, leaves one as it is
  NoId,
  MaxChanged,  \* bound: how many items have other attributes than the root at once
  MaxWaiting   \* bound: how many requests wait for their second call at once

ASSUME FuseAssumption ==
  /\ HiddenName \subseteq Name \ LongName
  /\ Perm \subseteq SUBSET {"r", "w"}
  /\ IsFiniteSet(Item)

VARIABLES
  attr,    \* the owner's bits of st_mode, st_uid and st_gid of every item
  open,    \* the kernel's open files: the item each one's handle leads to
  dead,    \* the open directories the kernel has seen removed (S_DEAD)
  pending, \* the requests libfuse has still a call to make for
  lost     \* history: the hidden files whose unlink met another call

fuseVars == <<type, name, parent, items, status, reply, attr, open, dead, pending, lost>>

Blank == [perm |-> {}, uid |-> NoId, gid |-> NoId]
Fresh(m) == [perm |-> m, uid |-> Mounter, gid |-> Mounter]

Visible == UNION {[1..n -> Name \ HiddenName] : n \in 1..MaxPath}
Using(x) == {f \in DOMAIN open \ dead : open[f] = x}

(* open_count of libfuse's node, which counts files and not directories.   *)
is_open(x) == x # NoItem /\ type[x] = "REG" /\ Using(x) # {}

Waiting(op) == {r \in pending : r.op = op}

(* libfuse holds locks on the paths of a request: shared ones on the       *)
(* directories on the way, an exclusive one on what is removed or moved.   *)
(* That of a file to be replaced goes with it to its hidden name; the name *)
(* it leaves is free, and the kernel holds the lock of its directory.      *)
Exclusive == UNION {{r.from, r.to, PathTo(r.item)} : r \in Waiting("rename")}
Shared == {r.from : r \in Waiting("release")}
MayReach(p) == \A q \in Exclusive : ~IsPrefixOf(q, p)
MayChange(p) == MayReach(p) /\ \A q \in Exclusive \cup Shared : ~IsPrefixOf(p, q)

-----------------------------------------------------------------------------
FuseInit ==
  /\ Init
  /\ attr = [x \in Item |-> IF x = Root THEN Fresh({"r", "w"}) ELSE Blank]
  /\ open = <<>>
  /\ dead = {}
  /\ pending = {}
  /\ lost = {}

(* The attributes after a change of the tree: init_fs_file and init_fs_dir *)
(* set those of a new item, free forgets those of an old one.              *)
Attributes(m) ==
  attr' = [x \in Item |->
             IF type'[x] = "FREE" THEN Blank
             ELSE IF Live(x) THEN attr[x] ELSE Fresh(m)]

(* A request that is refused changes nothing (FsTree!ErrorsChangeNothing)  *)
(* and is left out; a rename onto an unused file ends the daemon.          *)
Effective == reply'.ret \in {"OK", "NONE"}

Create ==
  \E p \in Visible, m \in Perm :
    /\ MayReach(p) /\ KernelCreates(p)
    /\ fdo_mkdir(p) \/ fdo_mknod(p, "REG")
    /\ Effective
    /\ Attributes(m)
    /\ UNCHANGED <<open, dead, pending, lost>>

(* The bits of _acc for the two lowest bits of the flags.  Behind its      *)
(* three entries lies whatever the stack holds.                            *)
Needs(accmode) ==
  CASE accmode = 0 -> {{"r"}}
    [] accmode = 1 -> {{"w"}}
    [] accmode = 2 -> {{"r", "w"}}
    [] accmode = 3 -> SUBSET {"r", "w", "other"}

(* fdo_open and fdo_opendir; the kernel opens no directory for writing.    *)
(* Its look at the path and the OPEN that follows are one step: nobody     *)
(* removes the file in between.                                            *)
Open ==
  \E f \in File \ DOMAIN open, p \in Visible, accmode \in 0..3 :
    LET r == fs_get_item(p, 0)
    IN  /\ MayReach(p)
        /\ r.ret = "OK" /\ type[r.item] \in {"REG", "DIR"}
        /\ type[r.item] = "DIR" => accmode = 0
        /\ \E access \in Needs(accmode) : access \subseteq attr[r.item].perm
        /\ open' = [g \in DOMAIN open \cup {f} |-> IF g = f THEN r.item ELSE open[g]]
        /\ UNCHANGED <<vars, attr, dead, pending, lost>>

(* hide_node of libfuse.                                                   *)
Hide(p) ==
  \E h \in HiddenName :
    LET hidden == Append(Parent(p), h)
    IN  fs_get_item(hidden, 0).ret = "ENOENT" /\ fdo_rename(p, hidden)

FuseUnlink ==
  \E p \in Visible :
    /\ MayChange(p)
    /\ IF is_open(fs_get_item(p, 0).item) THEN Hide(p) ELSE fdo_unlink(p)
    /\ Effective
    /\ Attributes({})
    /\ UNCHANGED <<open, dead, pending, lost>>

FuseRmdir ==
  \E p \in Visible :
    /\ MayChange(p) /\ KernelRemovesDir(p)
    /\ fdo_rmdir(p)
    /\ Effective
    /\ dead' = dead \cup Using(fs_get_item(p, 0).item)
    /\ Attributes({})
    /\ UNCHANGED <<open, pending, lost>>

FuseRename ==
  \E p, q \in Visible :
    /\ MayChange(p) /\ MayChange(q) /\ KernelRenames(p, q)
    /\ LET target == fs_get_item(q, 0).item
       IN  IF fs_get_item(p, 0).ret = "OK" /\ is_open(target)
           THEN /\ Hide(q)
                /\ pending' = pending \cup
                     {[op |-> "rename", from |-> p, to |-> q, item |-> target]}
           ELSE fdo_rename(p, q) /\ UNCHANGED pending
    /\ Effective
    /\ Attributes({})
    /\ UNCHANGED <<open, dead, lost>>

FinishRename ==
  /\ \E r \in Waiting("rename") : fdo_rename(r.from, r.to) /\ pending' = pending \ {r}
  /\ Attributes({})
  /\ UNCHANGED <<open, dead, lost>>

(* fdo_release and fdo_releasedir drop the handle.  libfuse then unlinks a *)
(* file that it has hidden and nobody uses any more.  All along it has the *)
(* path, and makes the second call whatever became of the first.           *)
Release ==
  \E f \in DOMAIN open :
    LET x == open[f]
        last == f \notin dead /\ Using(x) = {f} /\ type[x] = "REG" /\ name[x] \in HiddenName
    IN  /\ f \notin dead => MayReach(PathTo(x))
        /\ open' = [g \in DOMAIN open \ {f} |-> open[g]]
        /\ dead' = dead \ {f}
        /\ IF last
           THEN pending' = pending \cup
                  {[op |-> "release", from |-> PathTo(x), to |-> <<>>, item |-> x]}
           ELSE UNCHANGED pending
        /\ UNCHANGED <<vars, attr, lost>>

FinishRelease ==
  /\ \E r \in Waiting("release") : fdo_unlink(r.from) /\ pending' = pending \ {r}
  /\ Attributes({})
  /\ UNCHANGED <<open, dead, lost>>

(* The second call of a request meets one of another worker's in a map:    *)
(* it misses a path that is there, and that is the end of the request.     *)
(* libfuse does not look at the answer of the unlink behind a release.     *)
(* Or the meeting of any two is the end of the daemon.                     *)
FinishOvertaken ==
  /\ Overlap
  /\ \/ /\ \E r \in Waiting("rename") : pending' = pending \ {r}
        /\ Refuse("rename", "ENOENT") /\ UNCHANGED lost
     \/ /\ \E r \in Waiting("release") : pending' = pending \ {r} /\ lost' = lost \cup {r.item}
        /\ Refuse("unlink", "ENOENT")
     \/ OvertakenEnd /\ UNCHANGED <<pending, lost>>
  /\ UNCHANGED <<attr, open, dead>>

(* Mutant of _fs_chmod: only the permissions are kept of the mode.         *)
ChmodWithoutType(x, t, m) ==
  /\ type' = [type EXCEPT ![x] = "NONE"]
  /\ attr' = [attr EXCEPT ![x].perm = m]

(* The whole of st_mode is replaced, the type with it.                     *)
_fs_chmod(x, t, m) ==
  /\ type' = [type EXCEPT ![x] = t]
  /\ attr' = [attr EXCEPT ![x].perm = m]

(* Mutant of _fs_chown: owner and group change places.                     *)
ChownSwaps(x, u, g) == attr' = [attr EXCEPT ![x].uid = g, ![x].gid = u]

(* The -1 for "leave it" is stored.                                        *)
_fs_chown(x, u, g) == attr' = [attr EXCEPT ![x].uid = u, ![x].gid = g]

(* The items a request can be about: those libfuse finds a path for, the   *)
(* hidden ones included, and those a handle leads to.                      *)
Addressed ==
  {fs_get_item(p, 0).item : p \in {q \in Paths : MayReach(q) /\ fs_get_item(q, 0).ret = "OK"}}
    \cup {open[f] : f \in DOMAIN open \ dead}

(* The kernel sends the type it knows with the new permissions.            *)
Chmod ==
  /\ \E x \in Addressed, m \in Perm : _fs_chmod(x, type[x], m)
  /\ UNCHANGED <<name, parent, items, status, reply, open, dead, pending, lost>>

Chown ==
  /\ \E x \in Addressed, ids \in ChownTo : _fs_chown(x, ids[1], ids[2])
  /\ UNCHANGED <<vars, open, dead, pending, lost>>

Changed == {x \in Item : Live(x) /\ attr[x] # Fresh({"r", "w"})}

FuseNext ==
  /\ Running
  /\ \/ Create \/ Open \/ FuseUnlink \/ FuseRmdir
     \/ FuseRename \/ FinishRename \/ Release \/ FinishRelease
     \/ FinishOvertaken \/ Chmod \/ Chown
  /\ Cardinality(Changed') <= MaxChanged
  /\ Cardinality(pending') <= MaxWaiting

FuseSpec == FuseInit /\ [][FuseNext]_fuseVars

-----------------------------------------------------------------------------
FuseTypeOK ==
  /\ TypeOK
  /\ \A x \in Item : attr[x].perm \subseteq {"r", "w"}
  /\ DOMAIN open \subseteq File
  /\ \A f \in DOMAIN open : open[f] \in Item
  /\ dead \subseteq DOMAIN open
  /\ \A r \in pending : r.op \in {"rename", "release"} /\ r.item \in Item

(* fs_fh_get_file and fs_fh_get_dir on the item a handle leads to; it must *)
(* be allocated for that.                                                  *)
Answers(x) ==
  CASE ~Live(x) -> "freed"
    [] Live(x) /\ fs_item_is_dir(x) -> "directory"
    [] Live(x) /\ type[x] = "REG" -> "file"
    [] OTHER -> "neither"

(* No sequence of unlinks, renames, removals of directories and changes of *)
(* mode by others takes an item from under an open file: every read, write *)
(* or truncation of it passes fs_fh_get_file (fs_fh.c:109-120) and finds   *)
(* memory that is allocated; the same for a directory that is listed.      *)
OpenFilesLive ==
  \A f \in DOMAIN open \ dead : Answers(open[f]) \in {"file", "directory"}

(* A hidden file is there for as long as somebody uses it and no longer,   *)
(* but for one whose own unlink met another call: what unlink took away    *)
(* comes back under no name and costs no memory.                           *)
HiddenInUse ==
  \A x \in Item :
    Live(x) /\ name[x] \in HiddenName =>
      x \in lost \/ Using(x) # {} \/ \E r \in Waiting("release") : r.item = x

(* A rename that replaces a file in use takes two calls.  Once the first   *)
(* has taken the name from that file, the second finds everything in place *)
(* whatever other requests, lost or not, come in between: made now it      *)
(* succeeds, unless it meets another call in a map.  Otherwise the file    *)
(* would have lost its name to nobody.                                     *)
RenamesFinish ==
  \A r \in Waiting("rename") :
    /\ parse_path_string(r.from) = "OK" /\ fs_get_item(r.from, 0).ret = "OK"
    /\ parse_path_string(r.to) = "OK" /\ fs_get_item(r.to, 0).ret = "ENOENT"
    /\ fs_get_dir_item(r.to, 1).ret = "OK"

=============================================================================
