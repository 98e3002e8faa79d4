----------------------------- MODULE Namespace -----------------------------
(***************************************************************************)
(* What the directory tree promises its clients: a set of paths with the   *)
(* type of what they name, closed under parent directories, and for each   *)
(* operation the answer POSIX gives.  No items, no pointers, no maps:      *)
(* FsTree is shown to implement this.                                      *)
(***************************************************************************)
EXTENDS Integers, Sequences

CONSTANTS
  Name, LongName, MknodType, MaxPath,
  Overlap  \* calls of several clients at once

Errno == {"ENOENT", "ENOTDIR", "EISDIR", "ENOTEMPTY", "ENAMETOOLONG"}

VARIABLES
  ns,     \* the type of every path there is; the mount point is <<>>
  up,     \* the daemon answers
  reply   \* what the last operation answered

vars == <<ns, up, reply>>

Paths == UNION {[1..n -> Name] : n \in 1..MaxPath}

Exists(p) == p \in DOMAIN ns
Parent(p) == SubSeq(p, 1, Len(p) - 1)
Last(p) == p[Len(p)]
Under(p, q) == Len(p) <= Len(q) /\ SubSeq(q, 1, Len(p)) = p
Children(p) == {n \in Name : Exists(Append(p, n))}

(* Some directory on the way to p is not one.                              *)
Blocked(p) ==
  \E k \in 1..(Len(p) - 1) : Exists(SubSeq(p, 1, k)) /\ ns[SubSeq(p, 1, k)] # "DIR"

(* The error an operation on p meets before it looks at what p names.      *)
Error(p) ==
  CASE Last(p) \in LongName -> "ENAMETOOLONG"
    [] Last(p) \notin LongName /\ Blocked(p) -> "ENOTDIR"
    [] OTHER -> "OK"

Missing(p) == IF Error(p) = "OK" /\ ~Exists(p) THEN "ENOENT" ELSE Error(p)
NoParent(p) == IF Error(p) = "OK" /\ ~Exists(Parent(p)) THEN "ENOENT" ELSE Error(p)

Answer(op, ret) == reply' = [op |-> op, ret |-> ret, mode |-> "NONE", names |-> {}]

(* Calls that meet may miss what is there.                                 *)
Refuse(op, ret) ==
  \E e \in Errno :
    /\ Answer(op, e) /\ UNCHANGED <<ns, up>>
    /\ ret = e \/ (Overlap /\ e = "ENOENT" /\ ret # "ENAMETOOLONG")

Add(p, t) == ns' = [q \in DOMAIN ns \cup {p} |-> IF q = p THEN t ELSE ns[q]]
Remove(p) == ns' = [q \in DOMAIN ns \ {p} |-> ns[q]]

-----------------------------------------------------------------------------
Init ==
  /\ ns = [p \in {<<>>} |-> "DIR"]
  /\ up = TRUE
  /\ reply = [op |-> "init", ret |-> "OK", mode |-> "NONE", names |-> {}]

Getattr(p) ==
  \/ Refuse("getattr", Missing(p))
  \/ \E t \in {"DIR"} \cup MknodType :
       /\ reply' = [op |-> "getattr", ret |-> "OK", mode |-> t, names |-> {}]
       /\ UNCHANGED <<ns, up>>
       /\ Missing(p) = "OK"
       /\ t = ns[p]

Readdir(p) ==
  /\ \E c \in SUBSET Name :
       /\ reply' = [op |-> "readdir", ret |-> "OK", mode |-> "NONE", names |-> c]
       /\ UNCHANGED <<ns, up>>
       /\ c = Children(p)
  /\ Exists(p)
  /\ ns[p] = "DIR"

Create(op, p, t) ==
  /\ \/ Refuse(op, NoParent(p))
     \/ Answer(op, "OK") /\ NoParent(p) = "OK" /\ Add(p, t) /\ UNCHANGED up
  /\ ~Exists(p)

Unlink(p) ==
  LET err == IF Missing(p) = "OK" /\ ns[p] = "DIR" THEN "EISDIR" ELSE Missing(p)
  IN  \/ Refuse("unlink", err)
      \/ Answer("unlink", "OK") /\ err = "OK" /\ Remove(p) /\ UNCHANGED up

Rmdir(p) ==
  LET err == IF Missing(p) # "OK" THEN Missing(p)
             ELSE IF ns[p] # "DIR" THEN "ENOTDIR"
             ELSE IF Children(p) # {} THEN "ENOTEMPTY" ELSE "OK"
  IN  \/ Refuse("rmdir", err)
      \/ Answer("rmdir", "OK") /\ err = "OK" /\ Remove(p) /\ UNCHANGED up

(* Everything at or under p is found at or under q afterwards.             *)
Move(p, q) ==
  LET tail(r, s) == SubSeq(s, Len(r) + 1, Len(s))
      before(r) == IF Under(q, r) THEN p \o tail(q, r) ELSE r
      stay == {r \in DOMAIN ns : ~Under(p, r)}
      moved == {q \o tail(p, r) : r \in {s \in DOMAIN ns : Under(p, s)}}
  IN  ns' = [r \in stay \cup moved |-> ns[before(r)]]

Rename(p, q) ==
  LET err == IF Last(p) \in LongName \/ Last(q) \in LongName THEN "ENAMETOOLONG"
             ELSE IF Missing(p) # "OK" THEN Missing(p)
             ELSE IF NoParent(q) # "OK" THEN NoParent(q)
             ELSE IF Exists(q) /\ Children(q) # {} THEN "ENOTEMPTY" ELSE "OK"
  IN  /\ ~Under(p, q) /\ ~Under(q, p)
      /\ \/ Refuse("rename", err)
         \/ Answer("rename", "OK") /\ err = "OK" /\ ~Exists(q) /\ Move(p, q) /\ UNCHANGED up

(* The mount point is a directory, but asking for it is undefined: what    *)
(* comes back may be an error, and Stop allows for the end of the daemon.  *)
MountPoint ==
  /\ reply' \in {[op |-> "getattr", ret |-> "OK", mode |-> "DIR", names |-> {}],
                 [op |-> "getattr", ret |-> "ENAMETOOLONG", mode |-> "NONE", names |-> {}]}
  /\ UNCHANGED <<ns, up>>

(* The daemon is gone, with everything in it: unmounted, or killed by a    *)
(* rename onto a path that exists, by a look at the mount point or by two  *)
(* calls that meet.                                                        *)
Stop ==
  /\ up' = FALSE
  /\ ns' = <<>>
  /\ \/ Answer("unmount", "OK")
     \/ Answer("getattr", "NONE")
     \/ Overlap /\ Answer("none", "NONE")
     \/ /\ Answer("rename", "NONE")
        /\ \E p, q \in DOMAIN ns : p # q /\ (ns[p] = "DIR" <=> ns[q] = "DIR") /\ Children(q) = {}

Next ==
  /\ up
  /\ \/ \E p \in Paths :
          \/ Getattr(p) \/ Readdir(p) \/ Unlink(p) \/ Rmdir(p)
          \/ Create("mkdir", p, "DIR")
          \/ \E t \in MknodType : Create("mknod", p, t)
          \/ \E q \in Paths : Rename(p, q)
     \/ MountPoint
     \/ Stop

Spec == Init /\ [][Next]_vars

=============================================================================
