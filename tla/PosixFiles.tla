----------------------------- MODULE PosixFiles -----------------------------
(***************************************************************************)
(* What clients expect of files they hold open while others remove and     *)
(* rename them: a path names an inode, an open file is an inode, and an    *)
(* inode with its attributes lives as long as there is a path or an open   *)
(* file for it.  There are no hidden names, and a rename that replaces a   *)
(* file is one step.  Four departures: chown stores the -1 that should     *)
(* leave owner or group alone, an open directory that is removed is gone   *)
(* at once, some operations may be refused (a directory may hold hidden    *)
(* files, and a rename that replaces an unused file ends the daemon), and  *)
(* a rename that replaces an open file may fail with that file unlinked.   *)
(***************************************************************************)
EXTENDS Integers, Sequences, Functions

CONSTANTS Name, Inode, Root, File, Perm, Mounter, ChownTo, MaxPath

VARIABLES
  ns,      \* path -> inode
  inode,   \* inode -> its type, permissions, owner and group
  opened   \* open file -> inode

vars == <<ns, inode, opened>>

Paths == UNION {[1..n -> Name] : n \in 1..MaxPath}
Parent(p) == SubSeq(p, 1, Len(p) - 1)
Under(p, q) == Len(p) <= Len(q) /\ SubSeq(q, 1, Len(p)) = p
Without(f, S) == [x \in DOMAIN f \ S |-> f[x]]
With(f, x, y) == [z \in DOMAIN f \cup {x} |-> IF z = x THEN y ELSE f[z]]

(* The state as a value: the operations relate one, s, to the next, t.     *)
Now == [ns |-> ns, opened |-> opened, inode |-> inode]

Exists(s, p) == p \in DOMAIN s.ns
IsDir(s, p) == Exists(s, p) /\ s.inode[s.ns[p]].type = "DIR"
IsFile(s, p) == Exists(s, p) /\ s.inode[s.ns[p]].type # "DIR"
Owned(m) == [perm |-> m, uid |-> Mounter, gid |-> Mounter]

(* An inode that has neither a path nor an open file is gone.              *)
Holding(names, files, inodes) ==
  [ns |-> names, opened |-> files,
   inode |-> [i \in Range(names) \cup Range(files) |-> inodes[i]]]

-----------------------------------------------------------------------------
Init ==
  /\ ns = [p \in {<<>>} |-> Root]
  /\ inode = [i \in {Root} |-> [type |-> "DIR", attr |-> Owned({"r", "w"})]]
  /\ opened = <<>>

Create(s, t, p, type, m) ==
  /\ ~Exists(s, p) /\ Exists(t, p) /\ IsDir(s, Parent(p))
  /\ \E i \in Inode \ DOMAIN s.inode :
       t = Holding(With(s.ns, p, i), s.opened, With(s.inode, i, [type |-> type, attr |-> Owned(m)]))

Unlink(s, t, p) ==
  /\ IsFile(s, p)
  /\ t = Holding(Without(s.ns, {p}), s.opened, s.inode)

Rmdir(s, t, p) ==
  /\ IsDir(s, p) /\ \A q \in DOMAIN s.ns : Under(p, q) => p = q
  /\ t = Holding(Without(s.ns, {p}), Without(s.opened, {f \in DOMAIN s.opened : s.opened[f] = s.ns[p]}),
                 s.inode)

(* What was at or under p is at or under q; what was at q has no name.     *)
Rename(s, t, p, q) ==
  LET tail(r, full) == SubSeq(full, Len(r) + 1, Len(full))
      before(r) == IF Under(q, r) THEN p \o tail(q, r) ELSE r
      stay == {r \in DOMAIN s.ns : ~Under(p, r) /\ ~Under(q, r)}
      moved == {q \o tail(p, r) : r \in {r \in DOMAIN s.ns : Under(p, r)}}
  IN  /\ Exists(s, p) /\ ~Exists(t, p) /\ Exists(t, q) /\ ~Under(p, q) /\ ~Under(q, p)
      /\ IsDir(s, Parent(q))
      /\ Exists(s, q) => IsFile(s, p) /\ IsFile(s, q) /\ s.ns[q] \in Range(s.opened)
      /\ t = Holding([r \in stay \cup moved |-> s.ns[before(r)]], s.opened, s.inode)

Open(s, t, f, p) ==
  /\ f \notin DOMAIN s.opened /\ Exists(s, p)
  /\ t = [s EXCEPT !.opened = With(s.opened, f, s.ns[p])]

Close(s, t, f) ==
  /\ f \in DOMAIN s.opened
  /\ t = Holding(s.ns, Without(s.opened, {f}), s.inode)

Chmod(s, t, i, m) == t = [s EXCEPT !.inode[i].attr.perm = m]

Chown(s, t, i, ids) == t = [s EXCEPT !.inode[i].attr.uid = ids[1], !.inode[i].attr.gid = ids[2]]

Step(s, t) ==
  \/ \E p \in Paths :
       \/ \E type \in {"DIR", "REG"}, m \in Perm : Create(s, t, p, type, m)
       \/ Unlink(s, t, p) \/ Rmdir(s, t, p)
       \/ \E q \in Paths : Rename(s, t, p, q)
       \/ \E f \in File : Open(s, t, f, p)
  \/ \E f \in File : Close(s, t, f)
  \/ \E i \in DOMAIN s.inode :
       (\E m \in Perm : Chmod(s, t, i, m)) \/ (\E ids \in ChownTo : Chown(s, t, i, ids))

Next == \E s \in {Now}, t \in {Now'} : s # t /\ Step(s, t)

Spec == Init /\ [][Next]_vars

=============================================================================
