---------------------------- MODULE FuseFsProofs ----------------------------
(***************************************************************************)
(* Proofs about FuseFs: what a client has open is allocated, what libfuse  *)
(* has hidden is in use, the second call of a rename finds what it needs,  *)
(* and clients see PosixFiles, for any number of items, open files and     *)
(* requests, whether calls of different workers meet in a map or not.      *)
(*                                                                         *)
(* The invariant has to say where a request that waits stands.  A release  *)
(* that waits holds a path, not an item: the path leads to the hidden file *)
(* until the request goes on, because every change on the way to it is     *)
(* kept out by MayChange, and so FinishRelease frees that file and no      *)
(* other.  A rename that waits needs its two paths to be apart and nothing *)
(* of what they lead to by then.                                           *)
(*                                                                         *)
(* The refinement needs more of it (RenameOK): the name it has taken away  *)
(* is still free, in a directory that is still there, and what it moves is *)
(* where it was.  The rest follows the paths: Shown says what clients see  *)
(* at one, each lemma ...Seen what a call changes about that, from what    *)
(* FsTreeProofs says of Leads; paths with a hidden name drop out.          *)
(***************************************************************************)
EXTENDS FuseFsRefinement, FsTreeProofs, FiniteSetTheorems

Id == {Mounter, NoId} \cup {ids[1] : ids \in ChownTo} \cup {ids[2] : ids \in ChownTo}

AttrOK == attr \in [Item -> [perm : SUBSET {"r", "w"}, uid : Id, gid : Id]]

(* Clients create directories and regular files and nothing else here.     *)
NoSockets == \A x \in Item : type[x] \in {"DIR", "REG", "FREE"}

OpenOK ==
  /\ DOMAIN open \subseteq File
  /\ \A f \in DOMAIN open : open[f] \in Item
  /\ dead \subseteq DOMAIN open
  /\ \A f \in DOMAIN open \ dead : Live(open[f])

Hidden(x) == Live(x) /\ name[x] \in HiddenName

Releasing(x) == \E r \in Waiting("release") : r.item = x

(* It is about to be unlinked, or should have been.                        *)
Owed(x) == x \in lost \/ Releasing(x)

HiddenOK ==
  \A x \in Item :
    Hidden(x) =>
      /\ type[x] = "REG"
      /\ Using(x) # {} \/ Owed(x)

Apart(p, q) == ~IsPrefixOf(p, q) /\ ~IsPrefixOf(q, p)

(* What is known of a request that waits, whatever the tree is by now, ... *)
Asks(r) ==
  /\ r.op \in {"rename", "release"}
  /\ r.item \in Item
  /\ r.op = "rename" => r.from \in Visible /\ r.to \in Visible /\ Apart(r.from, r.to)
  /\ r.op = "release" => r.from \in Seq(Name) /\ r.from # <<>>

(* ... and what nobody has changed about the tree since.                   *)
Kept(r) == r.op = "release" => Hidden(r.item) /\ Leads(r.from, r.item) /\ Using(r.item) = {}

PendingOK == \A r \in pending : Asks(r) /\ Kept(r)

(* What the locks see to between requests that wait.                       *)
LocksOK ==
  /\ \A r \in Waiting("rename"), s \in Waiting("release") : ~IsPrefixOf(r.from, s.from)
  /\ \A r, s \in Waiting("rename") :
       r = s \/ \A p \in {r.from, r.to}, q \in {s.from, s.to} : ~IsPrefixOf(p, q)
  /\ \A r, s \in Waiting("release") : r.item = s.item => r = s

FuseInv ==
  IInv /\ Rooted /\ NoSockets /\ AttrOK /\ OpenOK /\ HiddenOK /\ PendingOK /\ LocksOK

-----------------------------------------------------------------------------
(* The paths of a request.                                                 *)
LEMMA AllClientPaths ==
  ASSUME TreeAssumption, IInv, NoSockets
  PROVE  Paths \subseteq ClientPaths
PROOF
<1> SUFFICES ASSUME NEW p \in Paths, NEW k \in 1..(Len(p) - 1), fs_get_item(p, k).ret = "OK"
             PROVE  type[fs_get_item(p, k).item] # "SOCK"
  BY DEF ClientPaths, KernelPath
<1>1. k \in 0..Len(p)
  BY PathIsSeq
<1>2. fs_get_item(p, k).item \in Item
  BY <1>1, GetItem
<1> QED
  BY <1>2 DEF NoSockets

LEMMA VisiblePath ==
  ASSUME TreeAssumption, FuseAssumption, NEW p \in Visible
  PROVE  /\ p \in Paths /\ p \in Seq(Name) /\ p # <<>>
         /\ ps_last_file(p) \in Name /\ ps_last_file(p) \notin HiddenName
PROOF
<1>1. PICK n \in 1..MaxPath : p \in [1..n -> Name \ HiddenName]
  BY DEF Visible
<1>2. p \in [1..n -> Name] /\ n \in Nat \ {0}
  BY <1>1 DEF TreeAssumption
<1>3. p \in Paths
  BY <1>1, <1>2 DEF Paths
<1>4. Len(p) = n
  BY <1>2
<1> QED
  BY <1>1, <1>2, <1>3, <1>4, PathIsSeq DEF ps_last_file

(* The hidden name is in the directory of the one it replaces.             *)
LEMMA HiddenPath ==
  ASSUME TreeAssumption, FuseAssumption, NEW p \in Visible, NEW h \in HiddenName
  PROVE  LET q == Append(Parent(p), h)
         IN  q \in Paths /\ ps_last_file(q) = h /\ ~IsPrefixOf(p, q)
PROOF
<1> DEFINE q == Append(Parent(p), h)
           k == Len(p)
<1>1. PICK n \in 1..MaxPath : p \in [1..n -> Name \ HiddenName]
  BY DEF Visible
<1>2. p \in Seq(Name) /\ k = n /\ k \in Nat \ {0} /\ k \in 1..MaxPath /\ h \in Name
  BY <1>1 DEF TreeAssumption, FuseAssumption
<1>3. Parent(p) \in Seq(Name) /\ Len(Parent(p)) = k - 1
  BY <1>2 DEF Parent
<1> HIDE DEF k
<1>4. q \in Seq(Name) /\ Len(q) = k /\ q[k] = h
  BY <1>2, <1>3
<1> HIDE DEF q
<1>5. q \in [1..k -> Name]
  BY <1>2, <1>4
<1>6. q \in Paths
  BY <1>2, <1>5 DEF Paths
<1>7. p[k] # h
  BY <1>1, <1>2
<1>8. ~IsPrefixOf(p, q)
  <2> SUFFICES ASSUME SubSeq(q, 1, k) = p
               PROVE  FALSE
    BY DEF IsPrefixOf, k
  <2>1. SubSeq(q, 1, k)[k] = q[k]
    BY <1>2, <1>4
  <2> QED
    BY <1>4, <1>7, <2>1
<1> QED
  BY <1>4, <1>6, <1>8 DEF q, ps_last_file

-----------------------------------------------------------------------------
(* What has to be known of pending' where it is not about to change an     *)
(* item: a release that waits keeps its path.                              *)
NextAsks ==
  /\ \A r \in pending' : Asks(r) /\ (r.op = "release" => r \in pending)
  /\ \A x : Owed(x) => Owed(x)'

NextPending(p) ==
  /\ NextAsks
  /\ \A r \in Waiting("release") : ps_last_file(p) \notin HiddenName /\ ~IsPrefixOf(p, r.from)

LEMMA LocksLess ==
  ASSUME LocksOK, pending' \subseteq pending
  PROVE  LocksOK'
PROOF
<1> QED
  BY DEF LocksOK, Waiting

LEMMA AsksSame ==
  ASSUME PendingOK, pending' = pending, lost' = lost
  PROVE  NextAsks
PROOF
<1> QED
  BY DEF NextAsks, PendingOK, Owed, Releasing, Waiting

LEMMA LeadsSame ==
  ASSUME UNCHANGED items, NEW p, NEW x
  PROVE  Leads(p, x)' <=> Leads(p, x)
PROOF
<1> QED
  BY DEF Leads, Chain

LEMMA AttributesOK ==
  ASSUME FuseAssumption, AttrOK, NEW m \in SUBSET {"r", "w"}, Attributes(m)
  PROVE  AttrOK'
PROOF
<1>1. Blank \in [perm : SUBSET {"r", "w"}, uid : Id, gid : Id]
  BY DEF Blank, Id
<1>2. Fresh(m) \in [perm : SUBSET {"r", "w"}, uid : Id, gid : Id]
  BY DEF Fresh, Id
<1> QED
  BY <1>1, <1>2 DEF AttrOK, Attributes

(* The tree stays, the files too.                                          *)
LEMMA SameOK ==
  ASSUME FuseInv, UNCHANGED tree, UNCHANGED <<open, dead>>, NextAsks
  PROVE  OpenOK' /\ HiddenOK' /\ PendingOK'
PROOF
<1>1. \A x : Live(x)' <=> Live(x)
  BY DEF tree, Live
<1>2. \A x : Hidden(x)' <=> Hidden(x)
  BY <1>1 DEF tree, Hidden
<1>3. \A x : Using(x)' = Using(x)
  BY DEF Using
<1>4. OpenOK'
  BY <1>1 DEF FuseInv, OpenOK
<1>5. \A x : Owed(x) => Owed(x)'
  BY DEF NextAsks
<1>6. HiddenOK'
  BY <1>2, <1>3, <1>5 DEF FuseInv, HiddenOK, tree
<1>7. \A q, x : Leads(q, x)' <=> Leads(q, x)
  BY LeadsSame DEF tree
<1>8. PendingOK'
  <2> SUFFICES ASSUME NEW r \in pending'
               PROVE  (Asks(r) /\ Kept(r))'
    BY DEF PendingOK
  <2>1. Asks(r) /\ (r.op = "release" => Kept(r))
    BY DEF NextAsks, FuseInv, PendingOK
  <2> QED
    BY <1>2, <1>3, <1>7, <2>1, Zenon DEF Asks, Kept
<1> QED
  BY <1>4, <1>6, <1>8

(* An item goes to another place or name.                                  *)
PathsKept(p) ==
  \A q \in Seq(Name), y \in Item : Leads(q, y) /\ ~IsPrefixOf(p, q) => Leads(q, y)'

Moved(p, x, n) ==
  /\ x # Root /\ Live(x) /\ Leads(p, x) /\ fs_get_item(p, 0) = Found(x)
  /\ type' = type /\ name' = [name EXCEPT ![x] = n]
  /\ PathsKept(p)

LEMMA RenameMoves ==
  ASSUME TreeAssumption, FuseInv, NEW p \in Paths, NEW q \in Paths, ~IsPrefixOf(p, q),
         fdo_rename(p, q)
  PROVE  /\ IInv' /\ Rooted' /\ NoSockets'
         /\ UNCHANGED tree \/ \E x \in Item : Moved(p, x, ps_last_file(q))
PROOF
<1>1. p \in ClientPaths /\ q \in ClientPaths /\ IInv /\ Rooted
  BY AllClientPaths DEF FuseInv
<1>2. p \in Seq(Name) /\ q \in Seq(Name) /\ ps_last_file(q) \in Name
  BY PathIsSeq DEF ps_last_file
<1>3. IInv' /\ Rooted'
  BY <1>1, RenamePreserves, RenameRooted
<1>4. ASSUME NEW x \in Item, NEW d \in Item,
             x # Root, Live(x), Leads(p, x), fs_get_item(p, 0) = Found(x),
             items[d][ps_last_file(q)] = NoItem, MoveItem(x, d, ps_last_file(q))
      PROVE  Moved(p, x, ps_last_file(q))
  <2>1. PathsKept(p)
    BY <1>1, <1>2, <1>4, LeadsAfterMove DEF PathsKept
  <2> QED
    BY <1>4, <2>1 DEF Moved, MoveItem
<1>5. UNCHANGED tree \/ \E x \in Item : Moved(p, x, ps_last_file(q))
  BY <1>1, <1>4, RenameEffect
<1>6. type' = type
  BY <1>5 DEF Moved, tree
<1>7. NoSockets'
  BY <1>6 DEF NoSockets, FuseInv
<1> QED
  BY <1>3, <1>5, <1>7

LEMMA MovedOK ==
  ASSUME TreeAssumption, FuseInv, NEW p \in Seq(Name), p # <<>>, NEW x \in Item, NEW n,
         Moved(p, x, n), n \in HiddenName => type[x] = "REG" /\ Using(x) # {},
         UNCHANGED <<open, dead>>, NextPending(p)
  PROVE  OpenOK' /\ HiddenOK' /\ PendingOK'
PROOF
<1>1. /\ type' = type /\ name' = [name EXCEPT ![x] = n]
      /\ Leads(p, x) /\ PathsKept(p)
  BY DEF Moved
<1>2. name[x] = ps_last_file(p) /\ DOMAIN name = Item
  BY <1>1, LastName DEF FuseInv, IInv, TypeOK
<1>3. \A y \in Item : /\ Live(y)' <=> Live(y)
                      /\ y # x => (Hidden(y)' <=> Hidden(y))
                      /\ Hidden(x)' => n \in HiddenName
  BY <1>1, <1>2 DEF Live, Hidden
<1>4. \A y : Using(y)' = Using(y)
  BY DEF Using
<1>5. OpenOK'
  BY <1>3 DEF FuseInv, OpenOK
<1>6. \A y : Owed(y) => Owed(y)'
  BY DEF NextPending, NextAsks
<1>7. HiddenOK'
  <2> SUFFICES ASSUME NEW y \in Item, Hidden(y)'
               PROVE  type[y] = "REG" /\ (Using(y) # {} \/ Owed(y)')
    BY <1>1, <1>4 DEF HiddenOK
  <2>1. CASE y = x
    BY <1>3, <2>1
  <2>2. CASE y # x
    BY <1>3, <1>6, <2>2 DEF FuseInv, HiddenOK
  <2> QED
    BY <2>1, <2>2
<1>8. PendingOK'
  <2> SUFFICES ASSUME NEW r \in pending'
               PROVE  (Asks(r) /\ Kept(r))'
    BY DEF PendingOK
  <2>1. Asks(r) /\ (r.op = "release" => r \in Waiting("release"))
    BY DEF NextPending, NextAsks, Waiting
  <2>2. CASE r.op # "release"
    BY <2>1, <2>2 DEF Asks, Kept
  <2>3. CASE r.op = "release"
    <3>1. /\ r.from \in Seq(Name) /\ r.item \in Item /\ ps_last_file(p) \notin HiddenName
          /\ ~IsPrefixOf(p, r.from)
      BY <2>1, <2>3 DEF NextPending, Asks
    <3>2. Hidden(r.item) /\ Leads(r.from, r.item) /\ Using(r.item) = {}
      BY <2>1, <2>3 DEF FuseInv, PendingOK, Kept, Waiting
    <3>3. Hidden(r.item)' /\ Leads(r.from, r.item)'
      BY <1>1, <1>2, <1>3, <3>1, <3>2 DEF PathsKept, Hidden
    <3> QED
      BY <1>4, <2>1, <3>3, <3>2 DEF Asks, Kept
  <2> QED
    BY <2>2, <2>3
<1> QED
  BY <1>5, <1>7, <1>8

(* An item is freed, with the last use of it by others.                    *)
LEMMA DeletedOK ==
  ASSUME TreeAssumption, FuseInv, IInv', NEW p \in Seq(Name), p # <<>>, NEW x \in Item,
         x # Root, Live(x), items[x] = EmptyMap, Leads(p, x), DeleteItem(x),
         open' = open, dead' = dead \cup Using(x), pending' \subseteq pending, lost' = lost,
         \A r \in Waiting("release") : r \in pending' <=> r.item # x
  PROVE  OpenOK' /\ HiddenOK' /\ PendingOK' /\ LocksOK'
PROOF
<1>1. \A y \in Item : /\ type'[y] = IF y = x THEN "FREE" ELSE type[y]
                      /\ name'[y] = IF y = x THEN NoName ELSE name[y]
  BY DEF DeleteItem, FreeAll
<1>3. \A y \in Item : /\ Live(y)' <=> Live(y) /\ y # x
                      /\ Hidden(y)' <=> Hidden(y) /\ y # x
  BY <1>1 DEF Live, Hidden
<1>4. \A y \in Item : y # x => Using(y)' = Using(y)
  BY DEF Using
<1>5. OpenOK'
  <2>1. DOMAIN open \subseteq File /\ dead' \subseteq DOMAIN open
        /\ \A f \in DOMAIN open : open[f] \in Item
    BY DEF FuseInv, OpenOK, Using
  <2>2. ASSUME NEW f \in DOMAIN open \ dead'
        PROVE  Live(open[f])'
    <3>1. f \in DOMAIN open \ dead /\ open[f] # x
      BY DEF Using
    <3> QED
      BY <1>3, <3>1 DEF FuseInv, OpenOK
  <2> QED
    BY <2>1, <2>2 DEF OpenOK
<1>6. \A y : y # x /\ Owed(y) => Owed(y)'
  BY DEF Owed, Releasing, Waiting
<1>7. HiddenOK'
  <2> SUFFICES ASSUME NEW y \in Item, Hidden(y)'
               PROVE  type'[y] = "REG" /\ (Using(y)' # {} \/ Owed(y)')
    BY DEF HiddenOK
  <2> QED
    BY <1>1, <1>3, <1>4, <1>6 DEF FuseInv, HiddenOK
<1>8. PendingOK'
  <2> SUFFICES ASSUME NEW r \in pending'
               PROVE  (Asks(r) /\ Kept(r))'
    BY DEF PendingOK
  <2>1. Asks(r) /\ Kept(r)
    BY DEF FuseInv, PendingOK
  <2>2. CASE r.op # "release"
    BY <2>1, <2>2 DEF Asks, Kept
  <2>3. CASE r.op = "release"
    <3>1. r.item # x /\ r.item \in Item /\ r.from \in Seq(Name)
      BY <2>1, <2>3 DEF Waiting, Asks
    <3>2. Hidden(r.item) /\ Leads(r.from, r.item) /\ Using(r.item) = {}
      BY <2>1, <2>3 DEF Kept
    <3>3. r.from # p
      BY <3>1, <3>2, LeadsOnce DEF FuseInv, IInv
    <3>4. Leads(r.from, r.item)'
      BY <3>1, <3>2, <3>3, PathsAfterDelete DEF FuseInv
    <3> QED
      BY <1>3, <1>4, <2>1, <3>1, <3>2, <3>4 DEF Asks, Kept
  <2> QED
    BY <2>2, <2>3
<1> QED
  BY <1>5, <1>7, <1>8, LocksLess DEF FuseInv

LEMMA DeleteTree ==
  ASSUME TreeAssumption, FuseInv, NEW x \in Item, x # Root, Live(x), items[x] = EmptyMap,
         DeleteItem(x), UNCHANGED status, reply'.ret = "OK"
  PROVE  IInv' /\ Rooted' /\ NoSockets'
PROOF
<1>1. IInv /\ Rooted
  BY DEF FuseInv
<1>2. IInv' /\ Rooted'
  BY <1>1, DeletePreserves, RootedDelete
<1>3. NoSockets'
  BY DEF DeleteItem, FreeAll, NoSockets, FuseInv
<1> QED
  BY <1>2, <1>3

-----------------------------------------------------------------------------
(* One lemma per request, or half of one.                                  *)
LEMMA CreateOK ==
  ASSUME TreeAssumption, FuseAssumption, FuseInv, Create
  PROVE  FuseInv'
PROOF
<1>1. PICK p \in Visible, m \in Perm :
        /\ KernelCreates(p)
        /\ fdo_mkdir(p) \/ fdo_mknod(p, "REG")
        /\ Effective
        /\ Attributes(m)
        /\ UNCHANGED <<open, dead, pending, lost>>
  BY DEF Create
<1>2. p \in ClientPaths /\ p \in Seq(Name) /\ p # <<>>
      /\ ps_last_file(p) \in Name /\ ps_last_file(p) \notin HiddenName
  BY AllClientPaths, VisiblePath DEF FuseInv
<1>3. PICK op \in {"mkdir", "mknod"}, t \in {"DIR", "REG"} : add_item(op, p, t)
  <2>1. CASE fdo_mkdir(p)
    BY <1>1, <2>1, ParseRet DEF fdo_mkdir, Refuse, Answer, Effective, parse_path_string
  <2>2. CASE fdo_mknod(p, "REG")
    BY <1>1, <2>2, ParseRet DEF fdo_mknod, Refuse, Answer, Effective, parse_path_string
  <2> QED
    BY <1>1, <2>1, <2>2
<1>4. IInv /\ Rooted
  BY DEF FuseInv
<1>5. IInv'
  BY <1>1, <1>2, <1>3, <1>4, AddPreserves DEF ItemType
<1>6. Rooted'
  BY <1>1, <1>2, <1>3, <1>4, CreateRooted
<1>7. PICK x \in Item, d \in Item :
        /\ ~Live(x) /\ items[d][ps_last_file(p)] = NoItem
        /\ AddItem(x, d, ps_last_file(p), t)
  BY <1>1, <1>2, <1>3, <1>4, CreateEffect DEF Effective
<1> DEFINE n == ps_last_file(p)
<1>8. /\ type' = [type EXCEPT ![x] = t] /\ name' = [name EXCEPT ![x] = n]
      /\ DOMAIN type = Item /\ DOMAIN name = Item
  BY <1>4, <1>7 DEF AddItem, IInv, TypeOK
<1> HIDE DEF n
<1>9. \A y \in Item : /\ type'[y] = IF y = x THEN t ELSE type[y]
                      /\ name'[y] = IF y = x THEN n ELSE name[y]
  BY <1>8
<1>10. NoSockets'
  BY <1>3, <1>9 DEF NoSockets, FuseInv
<1>11. AttrOK'
  BY <1>1, AttributesOK DEF FuseInv, FuseAssumption
<1>12. \A y \in Item : /\ Live(y) => Live(y)'
                       /\ Hidden(y)' <=> Hidden(y)
  BY <1>2, <1>7, <1>9 DEF Live, Hidden, n
<1>13. \A y : Using(y)' = Using(y)
  BY <1>1 DEF Using
<1>14. OpenOK'
  BY <1>1, <1>12 DEF FuseInv, OpenOK
<1>15. HiddenOK'
  <2> SUFFICES ASSUME NEW y \in Item, Hidden(y)'
               PROVE  /\ type'[y] = "REG"
                      /\ Using(y) # {} \/ Owed(y)'
    BY <1>1, <1>13 DEF HiddenOK
  <2>1. Hidden(y) /\ y # x
    BY <1>7, <1>12 DEF Hidden
  <2> QED
    BY <1>1, <1>9, <2>1 DEF FuseInv, HiddenOK, Owed, Releasing, Waiting
<1>16. PendingOK'
  <2> SUFFICES ASSUME NEW r \in pending
               PROVE  (Asks(r) /\ Kept(r))'
    BY <1>1 DEF PendingOK
  <2>1. Asks(r) /\ Kept(r)
    BY DEF FuseInv, PendingOK
  <2>2. ASSUME r.op = "release"
        PROVE  Leads(r.from, r.item)'
    BY <1>1, <1>2, <1>4, <1>7, <2>1, <2>2, LeadsAfterAdd DEF Asks, Kept
  <2> QED
    BY <1>12, <1>13, <2>1, <2>2 DEF Asks, Kept
<1>17. LocksOK'
  BY <1>1, LocksLess DEF FuseInv
<1> QED
  BY <1>5, <1>6, <1>10, <1>11, <1>14, <1>15, <1>16, <1>17 DEF FuseInv

(* A step that leaves the tree and answers nothing.                        *)
LEMMA TreeSame ==
  ASSUME FuseInv, UNCHANGED vars
  PROVE  IInv' /\ Rooted' /\ NoSockets'
PROOF
<1>1. UNCHANGED tree /\ status' = status /\ reply' = reply
  BY DEF vars, tree
<1>2. IInv'
  BY <1>1, AnswerPreserves DEF FuseInv, IInv, TypeOK
<1>3. Rooted'
  BY <1>1, RootedSame DEF FuseInv
<1> QED
  BY <1>1, <1>2, <1>3 DEF FuseInv, NoSockets, tree

LEMMA OpenStepOK ==
  ASSUME TreeAssumption, FuseAssumption, FuseInv, Open
  PROVE  FuseInv'
PROOF
<1>1. PICK f \in File \ DOMAIN open, p \in Visible :
        LET r == fs_get_item(p, 0)
        IN  /\ r.ret = "OK"
            /\ open' = [g \in DOMAIN open \cup {f} |-> IF g = f THEN r.item ELSE open[g]]
            /\ UNCHANGED <<vars, attr, dead, pending, lost>>
  BY DEF Open
<1> DEFINE x == fs_get_item(p, 0).item
<1>2. p \in Seq(Name) /\ p # <<>> /\ ps_last_file(p) \notin HiddenName
  BY VisiblePath
<1>3. Leads(p, x) /\ Linked
  BY <1>1, <1>2, FoundLeads DEF FuseInv, IInv
<1>4. open' = [g \in DOMAIN open \cup {f} |-> IF g = f THEN x ELSE open[g]]
  BY <1>1
<1> HIDE DEF x
<1>5. x \in Item /\ Live(x) /\ ~Hidden(x)
  BY <1>2, <1>3, LastName DEF Hidden
<1>6. UNCHANGED vars /\ UNCHANGED <<attr, dead, pending, lost>> /\ UNCHANGED <<type, name, items>>
  BY <1>1 DEF vars
<1>7. IInv' /\ Rooted' /\ NoSockets' /\ AttrOK'
  BY <1>6, TreeSame DEF FuseInv, AttrOK
<1>8. \A y : (Live(y)' <=> Live(y)) /\ (Hidden(y)' <=> Hidden(y)) /\ \A q : Leads(q, y)' <=> Leads(q, y)
  BY <1>6, LeadsSame DEF Live, Hidden
<1>9. f \notin dead /\ dead \subseteq DOMAIN open
  BY DEF FuseInv, OpenOK
<1>10. \A y : Using(y) \subseteq Using(y)' /\ (y # x => Using(y)' = Using(y))
  BY <1>4, <1>6, <1>9 DEF Using
<1>11. OpenOK'
  <2>1. DOMAIN open' = DOMAIN open \cup {f} /\ \A g \in DOMAIN open' : open'[g] \in Item
    BY <1>4, <1>5 DEF FuseInv, OpenOK
  <2>2. \A g \in DOMAIN open' \ dead' : Live(open'[g])
    BY <1>4, <1>5, <1>6 DEF FuseInv, OpenOK
  <2>3. \A g \in DOMAIN open' \ dead' : type'[open'[g]] # "FREE"
    BY <1>6, <2>2 DEF Live
  <2>4. DOMAIN open' \subseteq File /\ dead' \subseteq DOMAIN open'
    BY <1>6, <2>1 DEF FuseInv, OpenOK
  <2> QED
    BY <2>1, <2>3, <2>4 DEF OpenOK, Live
<1>12. HiddenOK'
  BY <1>6, <1>8, <1>10 DEF FuseInv, HiddenOK, Owed, Releasing, Waiting
<1>13. PendingOK'
  <2> SUFFICES ASSUME NEW r \in pending
               PROVE  (Asks(r) /\ Kept(r))'
    BY <1>6 DEF PendingOK
  <2>1. Asks(r) /\ Kept(r)
    BY DEF FuseInv, PendingOK
  <2> QED
    BY <1>5, <1>8, <1>10, <2>1, Zenon DEF Asks, Kept
<1>14. LocksOK'
  BY <1>6, LocksLess DEF FuseInv
<1> QED
  BY <1>7, <1>11, <1>12, <1>13, <1>14 DEF FuseInv

(* The file hide_node gives another name is in use.                        *)
LEMMA HideOK ==
  ASSUME TreeAssumption, FuseAssumption, FuseInv, NEW p \in Visible,
         is_open(fs_get_item(p, 0).item), Hide(p), UNCHANGED <<open, dead>>, NextPending(p)
  PROVE  IInv' /\ Rooted' /\ NoSockets' /\ OpenOK' /\ HiddenOK' /\ PendingOK'
PROOF
<1>1. PICK h \in HiddenName : fdo_rename(p, Append(Parent(p), h))
  BY DEF Hide
<1> DEFINE q == Append(Parent(p), h)
<1>2. q \in Paths /\ ps_last_file(q) = h /\ ~IsPrefixOf(p, q)
  BY HiddenPath
<1>3. fdo_rename(p, q)
  BY <1>1
<1> HIDE DEF q
<1>4. p \in Paths /\ p \in Seq(Name) /\ p # <<>>
  BY VisiblePath
<1>5. /\ IInv' /\ Rooted' /\ NoSockets'
      /\ UNCHANGED tree \/ \E x \in Item : Moved(p, x, h)
  BY <1>2, <1>3, <1>4, RenameMoves
<1>6. CASE UNCHANGED tree
  BY <1>5, <1>6, SameOK DEF NextPending
<1>7. ASSUME NEW x \in Item, Moved(p, x, h)
      PROVE  OpenOK' /\ HiddenOK' /\ PendingOK'
  <2>1. type[x] = "REG" /\ Using(x) # {}
    BY <1>7 DEF Moved, Found, is_open
  <2> QED
    BY <1>4, <1>7, <2>1, MovedOK
<1> QED
  BY <1>5, <1>6, <1>7

(* The file or directory a client moves gets a name of the client's.       *)
LEMMA VisibleRenameOK ==
  ASSUME TreeAssumption, FuseAssumption, FuseInv, NEW p \in Visible, NEW q \in Visible,
         Apart(p, q), fdo_rename(p, q), UNCHANGED <<open, dead>>, NextPending(p)
  PROVE  IInv' /\ Rooted' /\ NoSockets' /\ OpenOK' /\ HiddenOK' /\ PendingOK'
PROOF
<1>1. /\ p \in Paths /\ p \in Seq(Name) /\ p # <<>>
      /\ q \in Paths /\ ps_last_file(q) \notin HiddenName
  BY VisiblePath
<1>2. ~IsPrefixOf(p, q)
  BY DEF Apart
<1>3. /\ IInv' /\ Rooted' /\ NoSockets'
      /\ UNCHANGED tree \/ \E x \in Item : Moved(p, x, ps_last_file(q))
  BY <1>1, <1>2, RenameMoves
<1>4. CASE UNCHANGED tree
  BY <1>3, <1>4, SameOK DEF NextPending
<1>5. ASSUME NEW x \in Item, Moved(p, x, ps_last_file(q))
      PROVE  OpenOK' /\ HiddenOK' /\ PendingOK'
  BY <1>1, <1>5, MovedOK
<1> QED
  BY <1>3, <1>4, <1>5

(* The lock of a release that waits.                                       *)
LEMMA ChangeApart ==
  ASSUME TreeAssumption, FuseAssumption, NEW p \in Visible, MayChange(p), NextAsks
  PROVE  NextPending(p)
PROOF
<1>1. ps_last_file(p) \notin HiddenName
  BY VisiblePath
<1>2. \A r \in Waiting("release") : ~IsPrefixOf(p, r.from)
  BY DEF MayChange, Shared
<1> QED
  BY <1>1, <1>2 DEF NextPending

(* A client's file is not one that a release is about to unlink.           *)
LEMMA VisibleNotReleased ==
  ASSUME TreeAssumption, FuseAssumption, FuseInv, NEW p \in Visible, NEW x \in Item, Leads(p, x)
  PROVE  \A r \in Waiting("release") : r.item # x
PROOF
<1>1. p \in Seq(Name) /\ p # <<>> /\ ps_last_file(p) \notin HiddenName
  BY VisiblePath
<1>2. ~Hidden(x)
  BY <1>1, LastName DEF Hidden, FuseInv, IInv
<1> QED
  BY <1>2 DEF FuseInv, PendingOK, Kept, Waiting

LEMMA FuseUnlinkOK ==
  ASSUME TreeAssumption, FuseAssumption, FuseInv, FuseUnlink
  PROVE  FuseInv'
PROOF
<1>1. PICK p \in Visible :
        /\ MayChange(p)
        /\ IF is_open(fs_get_item(p, 0).item) THEN Hide(p) ELSE fdo_unlink(p)
        /\ Effective
        /\ Attributes({})
        /\ UNCHANGED <<open, dead, pending, lost>>
  BY DEF FuseUnlink
<1>2. p \in Seq(Name) /\ p # <<>> /\ ps_last_file(p) \notin HiddenName
  BY VisiblePath
<1>3. NextPending(p)
  BY <1>1, ChangeApart, AsksSame DEF FuseInv
<1>4. AttrOK'
  BY <1>1, AttributesOK DEF FuseInv
<1>5. CASE is_open(fs_get_item(p, 0).item)
  BY <1>1, <1>3, <1>4, <1>5, HideOK, LocksLess DEF FuseInv
<1>6. CASE ~is_open(fs_get_item(p, 0).item)
  <2>1. fdo_unlink(p)
    BY <1>1, <1>6
  <2>2. PICK x \in Item :
          /\ x # Root /\ Live(x) /\ type[x] # "DIR" /\ Leads(p, x)
          /\ items[x] = EmptyMap /\ fs_get_item(p, 0) = Found(x)
          /\ DeleteItem(x) /\ UNCHANGED status /\ reply'.ret = "OK"
    BY <1>1, <1>2, <2>1, UnlinkEffect DEF FuseInv, Effective
  <2>3. type[x] = "REG" /\ x # NoItem
    BY <2>2 DEF FuseInv, NoSockets, Live, TreeAssumption
  <2>4. Using(x) = {}
    BY <1>6, <2>2, <2>3 DEF is_open, Found
  <2>5. IInv' /\ Rooted' /\ NoSockets'
    BY <2>2, DeleteTree
  <2>6. /\ open' = open /\ dead' = dead \cup Using(x) /\ pending' = pending /\ lost' = lost
        /\ \A r \in Waiting("release") : r \in pending' <=> r.item # x
    BY <1>1, <2>2, <2>4, VisibleNotReleased DEF Waiting
  <2>7. OpenOK' /\ HiddenOK' /\ PendingOK' /\ LocksOK'
    BY <1>2, <2>2, <2>5, <2>6, DeletedOK
  <2> QED
    BY <1>4, <2>5, <2>7 DEF FuseInv
<1> QED
  BY <1>5, <1>6

LEMMA FuseRmdirOK ==
  ASSUME TreeAssumption, FuseAssumption, FuseInv, FuseRmdir
  PROVE  FuseInv'
PROOF
<1>1. PICK p \in Visible :
        /\ MayChange(p)
        /\ fdo_rmdir(p)
        /\ Effective
        /\ dead' = dead \cup Using(fs_get_item(p, 0).item)
        /\ Attributes({})
        /\ UNCHANGED <<open, pending, lost>>
  BY DEF FuseRmdir
<1>2. p \in ClientPaths /\ p \in Seq(Name) /\ p # <<>> /\ ps_last_file(p) \notin HiddenName
  BY VisiblePath, AllClientPaths DEF FuseInv
<1>3. PICK x \in Item :
        /\ x # Root /\ Live(x) /\ Leads(p, x)
        /\ items[x] = EmptyMap /\ fs_get_item(p, 0).item = x
        /\ DeleteItem(x) /\ UNCHANGED status /\ reply'.ret = "OK"
  BY <1>1, <1>2, RmdirEffect DEF FuseInv, Effective
<1>4. AttrOK'
  BY <1>1, AttributesOK DEF FuseInv
<1>5. IInv' /\ Rooted' /\ NoSockets'
  BY <1>3, DeleteTree
<1>6. /\ open' = open /\ dead' = dead \cup Using(x) /\ pending' = pending /\ lost' = lost
      /\ \A r \in Waiting("release") : r \in pending' <=> r.item # x
  BY <1>1, <1>3, VisibleNotReleased DEF Waiting
<1>7. OpenOK' /\ HiddenOK' /\ PendingOK' /\ LocksOK'
  BY <1>2, <1>3, <1>5, <1>6, DeletedOK
<1> QED
  BY <1>4, <1>5, <1>7 DEF FuseInv

LEMMA FuseRenameOK ==
  ASSUME TreeAssumption, FuseAssumption, FuseInv, FuseRename
  PROVE  FuseInv'
PROOF
<1>1. PICK p \in Visible, q \in Visible :
        /\ MayChange(p) /\ MayChange(q) /\ KernelRenames(p, q)
        /\ LET target == fs_get_item(q, 0).item
           IN  IF fs_get_item(p, 0).ret = "OK" /\ is_open(target)
               THEN /\ Hide(q)
                    /\ pending' = pending \cup
                         {[op |-> "rename", from |-> p, to |-> q, item |-> target]}
               ELSE fdo_rename(p, q) /\ UNCHANGED pending
        /\ Attributes({})
        /\ UNCHANGED <<open, dead, lost>>
  BY DEF FuseRename
<1>2. Apart(p, q)
  BY <1>1 DEF KernelRenames, Apart
<1>3. AttrOK'
  BY <1>1, AttributesOK DEF FuseInv
<1> DEFINE hides == fs_get_item(p, 0).ret = "OK" /\ is_open(fs_get_item(q, 0).item)
           y == fs_get_item(q, 0).item
<1>4. CASE hides
  <2> DEFINE new == [op |-> "rename", from |-> p, to |-> q, item |-> y]
  <2>1. pending' = pending \cup {new} /\ Hide(q) /\ is_open(y)
    BY <1>1, <1>4
  <2>2. y \in Item
    <3>1. Using(y) # {}
      BY <2>1 DEF is_open
    <3> HIDE DEF y
    <3> QED
      BY <3>1 DEF Using, FuseInv, OpenOK
  <2>3. Asks(new)
    BY <1>2, <2>2 DEF Asks
  <2>4. /\ new.op = "rename" /\ new.from = p /\ new.to = q
    OBVIOUS
  <2> HIDE DEF new
  <2>5. NextAsks
    BY <1>1, <2>1, <2>3, <2>4 DEF NextAsks, Owed, Releasing, Waiting, FuseInv, PendingOK
  <2>6. NextPending(q)
    BY <1>1, <2>5, ChangeApart
  <2>7. LocksOK'
    <3>1. \A s \in Waiting("release") : ~IsPrefixOf(p, s.from)
      BY <1>1 DEF MayChange, Shared
    <3>2. \A s \in Waiting("rename") : \A a \in {p, q}, b \in {s.from, s.to} :
            ~IsPrefixOf(a, b) /\ ~IsPrefixOf(b, a)
      BY <1>1 DEF MayChange, MayReach, Exclusive
    <3>3. Waiting("rename")' = Waiting("rename") \cup {new} /\ Waiting("release")' = Waiting("release")
      BY <2>1, <2>4 DEF Waiting
    <3> QED
      BY <2>4, <3>1, <3>2, <3>3 DEF LocksOK, FuseInv
  <2> QED
    BY <1>1, <1>3, <2>1, <2>6, <2>7, HideOK DEF FuseInv
<1>5. CASE ~hides
  <2>1. fdo_rename(p, q) /\ pending' = pending
    BY <1>1, <1>5
  <2>2. NextPending(p)
    BY <1>1, <2>1, ChangeApart, AsksSame DEF FuseInv
  <2> QED
    BY <1>1, <1>2, <1>3, <2>1, <2>2, VisibleRenameOK, LocksLess DEF FuseInv
<1> QED
  BY <1>4, <1>5

LEMMA FinishRenameOK ==
  ASSUME TreeAssumption, FuseAssumption, FuseInv, FinishRename
  PROVE  FuseInv'
PROOF
<1>1. PICK r \in Waiting("rename") : fdo_rename(r.from, r.to) /\ pending' = pending \ {r}
  BY DEF FinishRename
<1>2. Attributes({}) /\ UNCHANGED <<open, dead, lost>>
  BY DEF FinishRename
<1>3. r.from \in Visible /\ r.to \in Visible /\ Apart(r.from, r.to)
  BY DEF FuseInv, PendingOK, Asks, Waiting
<1>4. AttrOK'
  BY <1>2, AttributesOK DEF FuseInv
<1>5. NextPending(r.from)
  <2>1. NextAsks
    BY <1>1, <1>2 DEF NextAsks, Owed, Releasing, Waiting, FuseInv, PendingOK
  <2>2. ps_last_file(r.from) \notin HiddenName
    BY <1>3, VisiblePath
  <2> QED
    BY <2>1, <2>2 DEF NextPending, FuseInv, LocksOK
<1>6. LocksOK'
  BY <1>1, LocksLess DEF FuseInv
<1> QED
  BY <1>1, <1>2, <1>3, <1>4, <1>5, <1>6, VisibleRenameOK DEF FuseInv

(* Whose last use goes is unlinked next, along the path libfuse has then.  *)
LEMMA ReleaseOK ==
  ASSUME TreeAssumption, FuseAssumption, FuseInv, Release
  PROVE  FuseInv'
PROOF
<1>1. PICK f \in DOMAIN open :
        LET x == open[f]
            last == f \notin dead /\ Using(x) = {f} /\ type[x] = "REG" /\ name[x] \in HiddenName
        IN  /\ f \notin dead => MayReach(PathTo(x))
            /\ open' = [g \in DOMAIN open \ {f} |-> open[g]]
            /\ dead' = dead \ {f}
            /\ IF last
               THEN pending' = pending \cup
                      {[op |-> "release", from |-> PathTo(x), to |-> <<>>, item |-> x]}
               ELSE UNCHANGED pending
            /\ UNCHANGED <<vars, attr, lost>>
  BY DEF Release
<1>2. PICK x \in Item : x = open[f]
  BY DEF FuseInv, OpenOK
<1> DEFINE last == f \notin dead /\ Using(x) = {f} /\ type[x] = "REG" /\ name[x] \in HiddenName
           new == [op |-> "release", from |-> PathTo(x), to |-> <<>>, item |-> x]
<1>3. /\ open' = [g \in DOMAIN open \ {f} |-> open[g]] /\ dead' = dead \ {f}
      /\ UNCHANGED vars /\ attr' = attr /\ lost' = lost /\ UNCHANGED <<type, name, items>>
      /\ f \notin dead => MayReach(PathTo(x))
  BY <1>1, <1>2 DEF vars
<1>4. last => pending' = pending \cup {new}
  BY <1>1, <1>2
<1>5. ~last => pending' = pending
  BY <1>1, <1>2
<1>6. IInv' /\ Rooted' /\ NoSockets' /\ AttrOK'
  BY <1>3, TreeSame DEF FuseInv, AttrOK
<1>7. OpenOK'
  <2>1. DOMAIN open' = DOMAIN open \ {f} /\ \A g \in DOMAIN open' : open'[g] = open[g]
    BY <1>3
  <2> QED
    BY <1>3, <2>1 DEF FuseInv, OpenOK, Live
<1>8. \A y : Using(y)' = Using(y) \ {f}
  BY <1>3 DEF Using
<1>9. \A y : f \in Using(y) => y = x /\ f \notin dead
  BY <1>2 DEF Using
<1>10. \A y : (Hidden(y)' <=> Hidden(y)) /\ \A q : Leads(q, y)' <=> Leads(q, y)
  BY <1>3, LeadsSame DEF Hidden, Live
<1>11. ASSUME NEW r \in pending
       PROVE  (Asks(r) /\ Kept(r))'
  <2>1. Asks(r) /\ Kept(r)
    BY DEF FuseInv, PendingOK
  <2> QED
    BY <1>8, <1>10, <2>1 DEF Asks, Kept
<1>12. \A y : Owed(y) => Owed(y)'
  BY <1>3, <1>4, <1>5 DEF Owed, Releasing, Waiting
<1>13. HiddenOK'
  <2> SUFFICES ASSUME NEW y \in Item, Hidden(y)'
               PROVE  type'[y] = "REG" /\ (Using(y)' # {} \/ Owed(y)')
    BY DEF HiddenOK
  <2>1. Hidden(y)
    BY <1>10
  <2>2. type[y] = "REG" /\ (Using(y) # {} \/ Owed(y))
    BY <2>1 DEF FuseInv, HiddenOK
  <2>3. CASE Using(y) = {f}
    <3>1. y = x /\ last
      BY <1>9, <2>1, <2>2, <2>3 DEF Hidden
    <3>2. new \in pending' /\ new.op = "release" /\ new.item = y
      BY <1>4, <3>1
    <3> HIDE DEF new
    <3>3. Owed(y)'
      BY <3>2 DEF Owed, Releasing, Waiting
    <3> QED
      BY <1>3, <2>2, <3>3
  <2>4. CASE Using(y) # {f}
    BY <1>3, <1>8, <1>12, <2>2, <2>4
  <2> QED
    BY <2>3, <2>4
<1>14. CASE last
  <2>1. Live(x) /\ Hidden(x) /\ TypeOK /\ Linked /\ RootIsDir
    BY <1>14 DEF Hidden, Live, FuseInv, IInv
  <2>2. PICK p \in Seq(Name) : Leads(p, x)
    BY <1>2, <2>1, LiveHasPath DEF FuseInv
  <2>3. PathTo(x) = p
    BY <2>1, <2>2, PathToIsPath DEF FuseAssumption
  <2>4. p # <<>>
    BY <1>14, <2>1, <2>2 DEF Leads, Chain, RootIsDir
  <2>5. PICK r : pending' = pending \cup {r} /\ r.op = "release" /\ r.from = p /\ r.item = x
    <3>1. pending' = pending \cup {new}
      BY <1>4, <1>14
    <3>2. new.op = "release" /\ new.from = p /\ new.item = x
      BY <2>3
    <3> HIDE DEF new
    <3> QED
      BY <3>1, <3>2
  <2>7. Using(x)' = {} /\ Leads(p, x)' /\ Hidden(x)'
    BY <1>8, <1>10, <1>14, <2>1, <2>2
  <2>8. (Asks(r) /\ Kept(r))'
    BY <1>2, <2>4, <2>5, <2>7 DEF Asks, Kept
  <2>9. PendingOK'
    BY <1>11, <2>5, <2>8 DEF PendingOK
  <2>10. LocksOK'
    <3>1. \A s \in Waiting("rename") : ~IsPrefixOf(s.from, p)
      BY <1>3, <1>14, <2>3 DEF MayReach, Exclusive
    <3>2. \A s \in Waiting("release") : s.item # x
      <4>1. Using(x) # {}
        BY <1>14
      <4> QED
        BY <4>1 DEF FuseInv, PendingOK, Kept, Waiting
    <3>3. Waiting("rename")' = Waiting("rename") /\ Waiting("release")' = Waiting("release") \cup {r}
      BY <2>5 DEF Waiting
    <3> QED
      BY <2>5, <3>1, <3>2, <3>3 DEF LocksOK, FuseInv
  <2> QED
    BY <1>6, <1>7, <1>13, <2>9, <2>10 DEF FuseInv
<1>15. CASE ~last
  <2>1. pending' = pending
    BY <1>5, <1>15
  <2>2. PendingOK'
    BY <1>11, <2>1 DEF PendingOK
  <2>3. LocksOK'
    BY <2>1, LocksLess DEF FuseInv
  <2> QED
    BY <1>6, <1>7, <1>13, <2>2, <2>3 DEF FuseInv
<1> QED
  BY <1>14, <1>15

LEMMA FinishReleaseOK ==
  ASSUME TreeAssumption, FuseAssumption, FuseInv, FinishRelease
  PROVE  FuseInv'
PROOF
<1>0. PICK r \in Waiting("release") : fdo_unlink(r.from) /\ pending' = pending \ {r}
  BY DEF FinishRelease
<1> DEFINE p == r.from
           x == r.item
<1>1. fdo_unlink(p) /\ Attributes({}) /\ open' = open /\ dead' = dead /\ lost' = lost
  BY <1>0 DEF FinishRelease
<1>2. /\ p \in Seq(Name) /\ p # <<>> /\ x \in Item /\ Hidden(x)
      /\ Leads(p, x) /\ Using(x) = {}
  BY DEF FuseInv, PendingOK, Asks, Kept, Waiting
<1>3. AttrOK'
  BY <1>1, AttributesOK DEF FuseInv
<1>4. \A s \in Waiting("release") : s \in pending' <=> s.item # x
  BY <1>0 DEF FuseInv, LocksOK, Waiting
<1> HIDE DEF p, x
<1>5. type[x] = "REG" /\ IInv /\ Linked
  BY <1>2 DEF FuseInv, IInv, HiddenOK
<1>6. /\ x # Root /\ Live(x) /\ name[x] = ps_last_file(p)
      /\ fs_get_item(p, 0) = Found(x)
  BY <1>2, <1>5, LastName, LeadsFound
<1>7. ps_last_file(p) \notin LongName
  BY <1>2, <1>6 DEF Hidden, FuseAssumption
<1>8. fs_get_file_item(p) = Found(x)
  BY <1>5, <1>6 DEF fs_get_file_item, fs_item_is_dir, Found
<1>9. DeleteItem(x) /\ Answer("unlink", "OK") /\ UNCHANGED status
  BY <1>1, <1>7, <1>8 DEF fdo_unlink, fs_file_delete, parse_path_string, Found
<1>10. items[x] = EmptyMap
  <2>1. \A n \in Name : items[x][n] = NoItem
    BY <1>2, <1>5 DEF Linked
  <2> QED
    BY <1>2, <1>5, <2>1 DEF IInv, TypeOK, EmptyMap
<1>11. IInv' /\ Rooted' /\ NoSockets'
  BY <1>2, <1>6, <1>9, <1>10, DeleteTree DEF Answer
<1>12. OpenOK' /\ HiddenOK' /\ PendingOK' /\ LocksOK'
  <2>1. dead' = dead \cup Using(x)
    BY <1>1, <1>2
  <2> QED
    BY <1>0, <1>1, <1>2, <1>4, <1>6, <1>9, <1>10, <1>11, <2>1, DeletedOK
<1> QED
  BY <1>3, <1>11, <1>12 DEF FuseInv

(* A call that meets another changes nothing, or ends the daemon.          *)
LEMMA FinishOvertakenOK ==
  ASSUME FuseInv, FinishOvertaken
  PROVE  FuseInv'
PROOF
<1>1. UNCHANGED <<attr, open, dead>> /\ pending' \subseteq pending
  BY DEF FinishOvertaken
<1>2. /\ UNCHANGED tree /\ reply'.ret \in {"ENOENT", "NONE"}
      /\ status' \in {status, "aborted", "corrupt"}
  BY DEF FinishOvertaken, OvertakenEnd, Undefined, Refuse, Answer
<1>3. IInv'
  BY <1>2, AnswerPreserves DEF FuseInv, IInv, TypeOK
<1>4. Rooted' /\ NoSockets' /\ AttrOK'
  BY <1>1, <1>2, RootedSame DEF FuseInv, NoSockets, AttrOK, tree
<1>5. NextAsks
  <2>1. \A x : Owed(x) => Owed(x)'
    BY DEF FinishOvertaken, Owed, Releasing, Waiting
  <2> QED
    BY <1>1, <2>1 DEF NextAsks, FuseInv, PendingOK
<1>6. OpenOK' /\ HiddenOK' /\ PendingOK'
  BY <1>1, <1>2, <1>5, SameOK
<1>7. LocksOK'
  BY <1>1, LocksLess DEF FuseInv
<1> QED
  BY <1>3, <1>4, <1>6, <1>7 DEF FuseInv

(* Attributes are nobody's business but AttrOK's.                          *)
LEMMA StillOK ==
  ASSUME FuseInv, UNCHANGED vars, UNCHANGED <<open, dead, pending, lost>>, AttrOK'
  PROVE  FuseInv'
PROOF
<1>1. UNCHANGED <<type, name, items>>
  BY DEF vars
<1>2. IInv' /\ Rooted' /\ NoSockets'
  BY TreeSame
<1>3. \A x : (Live(x)' <=> Live(x)) /\ (Hidden(x)' <=> Hidden(x)) /\ Using(x)' = Using(x)
  BY <1>1 DEF Live, Hidden, Using
<1>4. \A q, x : Leads(q, x)' <=> Leads(q, x)
  BY <1>1, LeadsSame
<1>5. OpenOK'
  BY <1>3 DEF FuseInv, OpenOK
<1>6. HiddenOK'
  BY <1>1, <1>3 DEF FuseInv, HiddenOK, Owed, Releasing, Waiting
<1>7. PendingOK'
  <2> SUFFICES ASSUME NEW r \in pending
               PROVE  (Asks(r) /\ Kept(r))'
    BY DEF PendingOK
  <2>1. Asks(r) /\ Kept(r)
    BY DEF FuseInv, PendingOK
  <2> QED
    BY <1>3, <1>4, <2>1, Zenon DEF Asks, Kept
<1>8. LocksOK'
  BY LocksLess DEF FuseInv
<1> QED
  BY <1>2, <1>5, <1>6, <1>7, <1>8 DEF FuseInv

LEMMA ChmodOK ==
  ASSUME FuseAssumption, FuseInv, Chmod
  PROVE  FuseInv'
PROOF
<1>1. PICK x \in Addressed, m \in Perm : _fs_chmod(x, type[x], m)
  BY DEF Chmod
<1>2. UNCHANGED <<name, parent, items, status, reply, open, dead, pending, lost>>
  BY DEF Chmod
<1>3. type' = type
  BY <1>1 DEF _fs_chmod, FuseInv, IInv, TypeOK
<1>4. UNCHANGED vars
  BY <1>2, <1>3 DEF vars
<1>5. AttrOK'
  <2>1. attr' = [attr EXCEPT ![x] = [attr[x] EXCEPT !.perm = m]] /\ m \in SUBSET {"r", "w"}
    BY <1>1 DEF _fs_chmod, FuseAssumption
  <2>2. x \in Item => [attr[x] EXCEPT !.perm = m] \in [perm : SUBSET {"r", "w"}, uid : Id, gid : Id]
    BY <2>1 DEF FuseInv, AttrOK
  <2> QED
    BY <2>1, <2>2 DEF FuseInv, AttrOK
<1> QED
  BY <1>2, <1>4, <1>5, StillOK

LEMMA ChownOK ==
  ASSUME FuseInv, Chown
  PROVE  FuseInv'
PROOF
<1>1. PICK x \in Addressed, ids \in ChownTo : _fs_chown(x, ids[1], ids[2])
  BY DEF Chown
<1>2. UNCHANGED vars /\ UNCHANGED <<open, dead, pending, lost>>
  BY DEF Chown
<1>3. AttrOK'
  <2> DEFINE u == ids[1]
             g == ids[2]
             A == [perm : SUBSET {"r", "w"}, uid : Id, gid : Id]
  <2>1. u \in Id /\ g \in Id
    BY DEF Id
  <2>2. attr' = [attr EXCEPT ![x].uid = u, ![x].gid = g]
    BY <1>1 DEF _fs_chown
  <2>3. attr \in [Item -> A]
    BY DEF FuseInv, AttrOK
  <2> HIDE DEF u, g
  <2>4. [attr EXCEPT ![x].uid = u] \in [Item -> A]
    BY <2>1, <2>3
  <2> DEFINE a1 == [attr EXCEPT ![x].uid = u]
  <2>5. attr' = [a1 EXCEPT ![x].gid = g]
    BY <2>2
  <2> HIDE DEF a1
  <2> QED
    BY <2>1, <2>4, <2>5 DEF AttrOK, a1
<1> QED
  BY <1>2, <1>3, StillOK

LEMMA FuseNextInv == TreeAssumption /\ FuseAssumption /\ FuseInv /\ [FuseNext]_fuseVars => FuseInv'
PROOF
<1> SUFFICES ASSUME TreeAssumption, FuseAssumption, FuseInv, [FuseNext]_fuseVars
             PROVE  FuseInv'
  OBVIOUS
<1>1. CASE Create
  BY <1>1, CreateOK
<1>2. CASE Open
  BY <1>2, OpenStepOK
<1>3. CASE FuseUnlink
  BY <1>3, FuseUnlinkOK
<1>4. CASE FuseRmdir
  BY <1>4, FuseRmdirOK
<1>5. CASE FuseRename
  BY <1>5, FuseRenameOK
<1>6. CASE FinishRename
  BY <1>6, FinishRenameOK
<1>7. CASE Release
  BY <1>7, ReleaseOK
<1>8. CASE FinishRelease
  BY <1>8, FinishReleaseOK
<1>9. CASE Chmod
  BY <1>9, ChmodOK
<1>10. CASE Chown
  BY <1>10, ChownOK
<1>11. CASE UNCHANGED fuseVars
  <2>1. UNCHANGED vars /\ UNCHANGED <<open, dead, pending, lost>> /\ attr' = attr
    BY <1>11 DEF fuseVars, vars
  <2>2. AttrOK'
    BY <2>1 DEF FuseInv, AttrOK
  <2> QED
    BY <2>1, <2>2, StillOK
<1>12. CASE FinishOvertaken
  BY <1>12, FinishOvertakenOK
<1> QED
  BY <1>1, <1>2, <1>3, <1>4, <1>5, <1>6, <1>7, <1>8, <1>9, <1>10, <1>11, <1>12 DEF FuseNext

LEMMA FuseInitInv == TreeAssumption /\ FuseAssumption /\ FuseInit => FuseInv
PROOF
<1> SUFFICES ASSUME TreeAssumption, FuseAssumption, FuseInit
             PROVE  FuseInv
  OBVIOUS
<1>1. Init /\ open = <<>> /\ dead = {} /\ pending = {}
  BY DEF FuseInit
<1>2. IInv /\ Rooted
  BY <1>1, InitIInv, InitRooted
<1>3. \A x \in Item : name[x] = NoName /\ type[x] \in {"DIR", "FREE"}
  BY <1>1 DEF Init
<1>4. NoSockets
  BY <1>3 DEF NoSockets
<1>5. AttrOK
  BY DEF FuseInit, AttrOK, Fresh, Blank, Id
<1>6. DOMAIN open = {}
  BY <1>1
<1>7. OpenOK
  BY <1>1, <1>6 DEF OpenOK
<1>8. HiddenOK
  BY <1>3 DEF HiddenOK, Hidden, TreeAssumption, FuseAssumption
<1>9. PendingOK /\ LocksOK
  BY <1>1 DEF PendingOK, LocksOK, Waiting
<1> QED
  BY <1>2, <1>4, <1>5, <1>7, <1>8, <1>9 DEF FuseInv

-----------------------------------------------------------------------------
THEOREM FuseInductiveInvariant == FuseSpec => []FuseInv
PROOF
<1> QED
  BY FuseInitInv, FuseNextInv, TreeAssumption, FuseAssumption, PTL DEF FuseSpec

(* The tree, the attributes and the open files are well typed.             *)
THEOREM FuseTypeCorrect == FuseSpec => []FuseTypeOK
PROOF
<1>1. FuseInv => FuseTypeOK
  <2> SUFFICES ASSUME FuseInv
               PROVE  FuseTypeOK
    OBVIOUS
  <2>1. \A x \in Item : attr[x].perm \subseteq {"r", "w"}
    BY DEF FuseInv, AttrOK
  <2> QED
    BY <2>1 DEF FuseInv, FuseTypeOK, IInv, OpenOK, PendingOK, Asks
<1> QED
  BY <1>1, FuseInductiveInvariant, PTL

(* Nothing in src/src counts the handles of an item, and no item is freed  *)
(* while one leads to it, for any number of files, handles and requests:   *)
(* hide_node and the locks on paths are enough.                            *)
THEOREM OpenFilesStayLive == FuseSpec => []OpenFilesLive
PROOF
<1>1. FuseInv => OpenFilesLive
  <2> SUFFICES ASSUME FuseInv, NEW f \in DOMAIN open \ dead
               PROVE  Answers(open[f]) \in {"file", "directory"}
    BY DEF OpenFilesLive
  <2>1. open[f] \in Item /\ Live(open[f])
    BY DEF FuseInv, OpenOK
  <2>2. type[open[f]] \in {"DIR", "REG"}
    BY <2>1 DEF FuseInv, NoSockets, Live
  <2> QED
    BY <2>1, <2>2 DEF Answers, fs_item_is_dir
<1> QED
  BY <1>1, FuseInductiveInvariant, PTL

(* And none is kept without need: a file that lost its last name stays for *)
(* as long as it is open and is unlinked after, unless that very unlink    *)
(* meets another call in a map.  Any number of requests may wait between   *)
(* their calls, and any number of them may have been lost.                 *)
THEOREM HiddenWhileInUse == FuseSpec => []HiddenInUse
PROOF
<1>1. FuseInv => HiddenInUse
  BY DEF FuseInv, HiddenOK, HiddenInUse, Hidden, Owed, Releasing
<1> QED
  BY <1>1, FuseInductiveInvariant, PTL

-----------------------------------------------------------------------------
(* What clients see, for ImplementsPosixFiles.  The paths they use, of any *)
(* length:                                                                 *)
Clients == Seq(Name \ HiddenName)

LEMMA IsClient ==
  ASSUME NEW n \in Nat, NEW p \in [1..n -> Name \ HiddenName]
  PROVE  p \in Clients
PROOF
<1> QED
  BY DEF Clients

LEMMA ClientsAre ==
  ASSUME NEW p \in Seq(Name)
  PROVE  Range(p) \cap HiddenName = {} <=> p \in Clients
PROOF
<1>1. Range(p) = {p[i] : i \in 1..Len(p)} /\ p \in [1..Len(p) -> Name] /\ Len(p) \in Nat
  BY DEF Range
<1>2. ASSUME Range(p) \cap HiddenName = {}
      PROVE  p \in Clients
  <2>1. \A i \in 1..Len(p) : p[i] \in Name \ HiddenName
    BY <1>1, <1>2
  <2>2. p \in [1..Len(p) -> Name \ HiddenName]
    BY <1>1, <2>1
  <2> QED
    BY <1>1, <2>2 DEF Clients
<1>3. ASSUME p \in Clients
      PROVE  Range(p) \cap HiddenName = {}
  <2>1. \A i \in 1..Len(p) : p[i] \in Name \ HiddenName
    BY <1>3 DEF Clients
  <2> QED
    BY <1>1, <2>1
<1> QED
  BY <1>2, <1>3

LEMMA ClientIsPath ==
  ASSUME NEW p \in Clients
  PROVE  p \in Seq(Name) /\ \A i \in 1..Len(p) : p[i] \in Name \ HiddenName
PROOF
<1>1. p \in [1..Len(p) -> Name \ HiddenName] /\ Len(p) \in Nat
  BY DEF Clients
<1> QED
  BY <1>1

LEMMA CutIsClient ==
  ASSUME NEW p \in Clients, NEW j \in 0..Len(p)
  PROVE  Cut(p, j) \in Clients
PROOF
<1> QED
  BY DEF Clients, Cut

LEMMA VisibleIsClient ==
  ASSUME TreeAssumption, FuseAssumption, NEW p \in Visible
  PROVE  /\ p \in Clients /\ p \in Seq(Name) /\ p # <<>>
         /\ Parent(p) \in Clients /\ Parent(p) \in Seq(Name) /\ IsPrefixOf(Parent(p), p)
         /\ ~IsPrefixOf(p, Parent(p))
PROOF
<1>1. PICK n \in 1..MaxPath : p \in [1..n -> Name \ HiddenName]
  BY DEF Visible
<1>2. p \in Clients /\ p # <<>>
  <2>1. n \in Nat \ {0}
    BY <1>1 DEF TreeAssumption
  <2> QED
    BY <1>1, <2>1 DEF Clients
<1>3. p \in Seq(Name)
  BY <1>2, ClientIsPath
<1>4. Len(p) - 1 \in 0..Len(p) /\ Parent(p) = Cut(p, Len(p) - 1)
  BY <1>2, <1>3, ParentIsCut
<1>5. Parent(p) \in Clients /\ Parent(p) \in Seq(Name) /\ Len(Parent(p)) = Len(p) - 1
  BY <1>2, <1>3, <1>4, CutIsClient, CutProps
<1>6. IsPrefixOf(Parent(p), p)
  BY <1>3, <1>4, <1>5, PrefixIsCut
<1>7. ~IsPrefixOf(p, Parent(p))
  BY <1>3, <1>5 DEF IsPrefixOf
<1> QED
  BY <1>2, <1>3, <1>5, <1>6, <1>7

LEMMA GraftIsClient ==
  ASSUME NEW p \in Clients, NEW q \in Clients, NEW r \in Seq(Name), IsPrefixOf(q, r)
  PROVE  Graft(p, q, r) \in Clients <=> r \in Clients
PROOF
<1>1. /\ p \in Seq(Name) /\ \A i \in 1..Len(p) : p[i] \in Name \ HiddenName
      /\ q \in Seq(Name) /\ \A i \in 1..Len(q) : q[i] \in Name \ HiddenName
  BY ClientIsPath
<1> DEFINE s == Graft(p, q, r)
           n == Len(p)
           m == Len(q)
           k == Len(r)
<1>2. /\ s \in Seq(Name) /\ Len(s) = n + (k - m)
      /\ \A i \in 1..n : s[i] = p[i]
      /\ \A i \in 1..(k - m) : s[n + i] = r[m + i]
      /\ n \in Nat /\ m \in Nat /\ k \in Nat /\ m <= k
  <2>1. n \in Nat /\ m \in Nat /\ k \in Nat /\ m <= k
    BY <1>1 DEF IsPrefixOf
  <2> QED
    <3>1. s \in Seq(Name) /\ Len(s) = n + (k - m)
      BY <1>1, GraftProps
    <3>2. \A i \in 1..n : s[i] = p[i]
      BY <1>1, GraftProps
    <3>3. \A i \in 1..(k - m) : s[n + i] = r[m + i]
      BY <1>1, GraftProps
    <3> HIDE DEF s, n, m, k
    <3> QED
      BY <2>1, <3>1, <3>2, <3>3
<1>3. \A i \in 1..m : r[i] = q[i]
  <2>1. Cut(r, m) = q /\ m \in 0..Len(r)
    BY <1>1, <1>2, PrefixIsCut
  <2> QED
    BY <2>1, CutProps
<1> HIDE DEF s
<1>4. ASSUME r \in Clients
      PROVE  s \in Clients
  <2>1. \A i \in 1..k : r[i] \in Name \ HiddenName
    BY <1>4, ClientIsPath
  <2>2. ASSUME NEW i \in 1..Len(s)
        PROVE  s[i] \in Name \ HiddenName
    <3>1. CASE i \in 1..n
      BY <1>1, <1>2, <3>1
    <3>2. CASE i \notin 1..n
      <4> DEFINE j == i - n
      <4>1. j \in 1..(k - m) /\ i = n + j /\ m + j \in 1..k
        BY <1>2, <3>2
      <4> HIDE DEF j
      <4> QED
        BY <1>2, <2>1, <4>1
    <3> QED
      BY <3>1, <3>2
  <2>3. s \in [1..Len(s) -> Name \ HiddenName] /\ Len(s) \in Nat
    BY <1>2, <2>2
  <2> QED
    BY <2>3, IsClient
<1>5. ASSUME s \in Clients
      PROVE  r \in Clients
  <2>1. \A i \in 1..Len(s) : s[i] \in Name \ HiddenName
    BY <1>5, ClientIsPath
  <2>2. ASSUME NEW i \in 1..k
        PROVE  r[i] \in Name \ HiddenName
    <3>1. CASE i \in 1..m
      BY <1>1, <1>3, <3>1
    <3>2. CASE i \notin 1..m
      <4> DEFINE j == i - m
      <4>1. j \in 1..(k - m) /\ i = m + j /\ n + j \in 1..Len(s)
        BY <1>2, <3>2
      <4> HIDE DEF j
      <4> QED
        BY <1>2, <2>1, <4>1
    <3> QED
      BY <3>1, <3>2
  <2>3. r \in [1..k -> Name \ HiddenName] /\ k \in Nat
    BY <1>2, <2>2
  <2> QED
    BY <2>3, IsClient
<1> QED
  BY <1>4, <1>5 DEF s

LEMMA PrefixSelf ==
  ASSUME NEW p \in Seq(Name)
  PROVE  IsPrefixOf(p, p)
PROOF
<1> QED
  BY PrefixIsCut, CutAll

(* What clients see of a path: the item it leads to, or the file that a    *)
(* rename is about to replace.                                             *)
Replaces(p, x) == \E r \in Waiting("rename") : p = r.to /\ x = r.item

Shown(p, x) == (p \in Clients /\ Leads(p, x)) \/ Replaces(p, x)

(* What a rename that waits finds when it goes on: the file it replaces,   *)
(* hidden and in use, a free name in a directory, and a file to move.      *)
Ready(r) ==
  /\ r.item \in Item /\ Hidden(r.item) /\ Using(r.item) # {}
  /\ ~There(r.to)
  /\ \E d \in Item : Leads(Parent(r.to), d) /\ type[d] = "DIR"
  /\ \E x \in Item : Leads(r.from, x) /\ type[x] = "REG"
  /\ ps_last_file(r.to) \notin LongName

RenameOK == \A r \in Waiting("rename") : Ready(r)

RefInv == FuseInv /\ NamesFit /\ RenameOK

(* The paths of different requests are different ones.                     *)
LEMMA ReplacesOne ==
  ASSUME PendingOK, LocksOK,
         NEW r \in Waiting("rename"), NEW s \in Waiting("rename"), r.to = s.to
  PROVE  r = s
PROOF
<1>1. r.to \in Visible
  BY DEF PendingOK, Asks, Waiting
<1>2. IsPrefixOf(r.to, s.to)
  BY <1>1, VisiblePath, PrefixSelf, TreeAssumption, FuseAssumption
<1> QED
  BY <1>2 DEF LocksOK

LEMMA LocksApart ==
  ASSUME LocksOK, NEW r \in Waiting("rename"), NEW s \in Waiting("rename"), r # s
  PROVE  /\ ~IsPrefixOf(r.from, s.from) /\ ~IsPrefixOf(r.from, s.to)
         /\ ~IsPrefixOf(r.to, s.from) /\ ~IsPrefixOf(r.to, s.to)
PROOF
<1>1. \A p \in {r.from, r.to}, q \in {s.from, s.to} : ~IsPrefixOf(p, q)
  BY DEF LocksOK
<1> QED
  BY <1>1

LEMMA RenameAsks ==
  ASSUME TreeAssumption, FuseAssumption, PendingOK, NEW r \in Waiting("rename")
  PROVE  /\ r \in pending /\ r.op = "rename"
         /\ r.from \in Visible /\ r.to \in Visible /\ Apart(r.from, r.to)
         /\ r.from \in Seq(Name) /\ r.to \in Seq(Name)
         /\ Parent(r.to) \in Seq(Name) /\ Parent(r.from) \in Seq(Name)
         /\ r.to \in Clients /\ r.from \in Clients /\ r.to # <<>> /\ r.from # <<>>
PROOF
<1>1. r \in pending /\ r.op = "rename" /\ r.from \in Visible /\ r.to \in Visible /\ Apart(r.from, r.to)
  BY DEF PendingOK, Asks, Waiting
<1> QED
  BY <1>1, VisibleIsClient

ViewIs ==
  /\ View = [p \in DOMAIN View |-> View[p]]
  /\ \A p : p \in DOMAIN View <=> \E x \in Item : Shown(p, x)
  /\ \A p, x : Shown(p, x) => View[p] = x

LEMMA LookupsAre == TreeAssumption /\ FuseAssumption /\ FuseInv => Lookups = {p \in Clients : There(p)}
PROOF
<1> SUFFICES ASSUME TreeAssumption, FuseAssumption, FuseInv
             PROVE  Lookups = {p \in Clients : There(p)}
  OBVIOUS
<1>1. IInv /\ Linked /\ TypeOK /\ Rooted
  BY DEF FuseInv, IInv
<1>2. ASSUME NEW x \in Item, Live(x)
      PROVE  PathTo(x) \in Seq(Name) /\ Leads(PathTo(x), x)
  <2>1. PICK p \in Seq(Name) : Leads(p, x)
    BY <1>1, <1>2, LiveHasPath
  <2>2. PathTo(x) = p
    BY <1>1, <2>1, PathToIsPath DEF FuseAssumption
  <2> QED
    BY <2>1, <2>2
<1>3. ASSUME NEW p \in Clients, NEW x \in Item, Leads(p, x)
      PROVE  Live(x) /\ PathTo(x) = p /\ p \in Seq(Name)
  <2>1. p \in Seq(Name)
    BY ClientIsPath
  <2> QED
    BY <1>1, <1>3, <2>1, LeadsLive, PathToIsPath DEF FuseAssumption
<1>4. \A p \in Lookups : p \in Clients /\ There(p)
  BY <1>2, ClientsAre DEF Lookups, There
<1>5. ASSUME NEW p \in Clients, There(p)
      PROVE  p \in Lookups
  <2>1. PICK x \in Item : Leads(p, x)
    BY <1>5 DEF There
  <2>2. Live(x) /\ PathTo(x) = p /\ p \in Seq(Name)
    BY <1>3, <2>1
  <2>3. Range(p) \cap HiddenName = {}
    BY <2>2, ClientsAre
  <2> QED
    BY <2>2, <2>3 DEF Lookups
<1> QED
  BY <1>4, <1>5

LEMMA ViewIsShown == TreeAssumption /\ FuseAssumption /\ FuseInv /\ RenameOK => ViewIs
PROOF
<1> SUFFICES ASSUME TreeAssumption, FuseAssumption, FuseInv, RenameOK
             PROVE  ViewIs
  OBVIOUS
<1>1. Lookups = {p \in Clients : There(p)}
  BY LookupsAre
<1>2. DOMAIN View = Lookups \cup Replacing
  BY DEF View
<1>3. View = [p \in DOMAIN View |-> View[p]]
  BY DEF View
<1>4. ASSUME NEW r \in Waiting("rename")
      PROVE  r.item \in Item /\ ~There(r.to) /\ r.to \in Replacing /\ View[r.to] = r.item
  <2>1. r.item \in Item /\ ~There(r.to)
    BY DEF RenameOK, Ready
  <2>2. r.to \in Replacing
    BY DEF Replacing
  <2>3. View[r.to] = (CHOOSE s \in Waiting("rename") : s.to = r.to).item
    BY <2>2 DEF View
  <2>4. \A s \in Waiting("rename") : s.to = r.to => s = r
    BY ReplacesOne DEF FuseInv
  <2>5. (CHOOSE s \in Waiting("rename") : s.to = r.to) = r
    BY <2>4
  <2> QED
    BY <2>1, <2>2, <2>3, <2>5
<1>5. \A p : p \in DOMAIN View <=> \E x \in Item : Shown(p, x)
  <2>1. \A p : p \in Replacing <=> \E x \in Item : Replaces(p, x)
    BY <1>4 DEF Replacing, Replaces
  <2> QED
    BY <1>1, <1>2, <2>1 DEF Shown, There
<1>6. ASSUME NEW p, NEW x, Shown(p, x)
      PROVE  View[p] = x
  <2>1. CASE Replaces(p, x)
    BY <1>4, <2>1 DEF Replaces
  <2>2. CASE p \in Clients /\ Leads(p, x)
    <3>1. p \in Seq(Name)
      BY <2>2, ClientIsPath
    <3>2. fs_get_item(p, 0) = Found(x) /\ x \in Item
      BY <2>2, <3>1, LeadsFound, LeadsItem DEF FuseInv, IInv
    <3>3. There(p)
      BY <2>2, <3>2 DEF There
    <3>4. p \in Lookups /\ p \notin Replacing
      BY <1>1, <1>4, <2>2, <3>3 DEF Replacing
    <3> QED
      BY <3>2, <3>4 DEF View, Found
  <2> QED
    BY <1>6, <2>1, <2>2 DEF Shown
<1> QED
  BY <1>3, <1>5, <1>6 DEF ViewIs

LEMMA ViewIsShownNext == (TreeAssumption /\ FuseAssumption /\ FuseInv /\ RenameOK => ViewIs)'
PROOF
<1> QED
  BY ViewIsShown, PTL

-----------------------------------------------------------------------------
(* PosixFiles's state: the names, the open files and their inodes.         *)
State == [ns |-> View, opened |-> Opened, inode |-> Inodes]
Held == Range(View) \cup Range(Opened)

LEMMA HeldLive == TreeAssumption /\ FuseAssumption /\ RefInv => \A x \in Held : x \in Item /\ Live(x)
PROOF
<1> SUFFICES ASSUME TreeAssumption, FuseAssumption, RefInv, NEW x \in Held
             PROVE  x \in Item /\ Live(x)
  OBVIOUS
<1>1. FuseInv /\ RenameOK /\ IInv /\ Linked /\ OpenOK
  BY DEF RefInv, FuseInv, IInv
<1>2. CASE x \in Range(View)
  <2>1. ViewIs
    BY <1>1, ViewIsShown
  <2>2. PICK p \in DOMAIN View : View[p] = x
    BY <1>2 DEF Range
  <2>3. PICK y \in Item : Shown(p, y)
    BY <2>1, <2>2 DEF ViewIs
  <2>4. x \in Item /\ Shown(p, x)
    BY <2>1, <2>2, <2>3 DEF ViewIs
  <2>5. CASE p \in Clients /\ Leads(p, x)
    <3>1. p \in Seq(Name)
      BY <2>5, ClientIsPath
    <3> QED
      BY <1>1, <2>5, <3>1, LeadsLive
  <2>6. CASE Replaces(p, x)
    BY <1>1, <2>4, <2>6 DEF Replaces, RenameOK, Ready, Hidden
  <2> QED
    BY <2>4, <2>5, <2>6 DEF Shown
<1>3. CASE x \in Range(Opened)
  <2>1. PICK f \in DOMAIN open \ dead : open[f] = x
    BY <1>3 DEF Range, Opened
  <2> QED
    BY <1>1, <2>1 DEF OpenOK
<1> QED
  BY <1>2, <1>3 DEF Held

LEMMA HeldLiveNext == (TreeAssumption /\ FuseAssumption /\ RefInv => \A x \in Held : x \in Item /\ Live(x))'
PROOF
<1> QED
  BY HeldLive, PTL

(* What stays allocated keeps its attributes.                              *)
AttrsKept == \A x \in Item : Live(x) /\ Live(x)' => type'[x] = type[x] /\ attr'[x] = attr[x]

LEMMA StateIs ==
  ASSUME NEW F, NEW G, NEW I, View' = F, Opened' = G,
         \A x \in Range(F) \cup Range(G) : I[x] = [type |-> type'[x], attr |-> attr'[x]]
  PROVE  State' = Abstract!Holding(F, G, I)
PROOF
<1> DEFINE H == Range(F) \cup Range(G)
<1>1. Inodes' = [x \in H |-> [type |-> type'[x], attr |-> attr'[x]]]
  BY DEF Inodes, Range
<1>2. \A x \in H : I[x] = [type |-> type'[x], attr |-> attr'[x]]
  OBVIOUS
<1>3. Abstract!Range(F) \cup Abstract!Range(G) = H
  BY DEF Abstract!Range, Range
<1> HIDE DEF H
<1>4. Inodes' = [x \in H |-> I[x]]
  BY <1>1, <1>2
<1>5. Abstract!Holding(F, G, I) = [ns |-> F, opened |-> G, inode |-> [x \in H |-> I[x]]]
  BY <1>3 DEF Abstract!Holding
<1> QED
  BY <1>4, <1>5 DEF State

LEMMA StateHolds ==
  ASSUME TreeAssumption, FuseAssumption, RefInv, RefInv', NEW F, NEW G, View' = F, Opened' = G,
         Range(F) \cup Range(G) \subseteq Held, AttrsKept
  PROVE  State' = Abstract!Holding(F, G, Inodes)
PROOF
<1> DEFINE H == Range(F) \cup Range(G)
<1>1. Held' = H
  BY DEF Held, Range
<1>2. \A x \in H : x \in Item /\ Live(x) /\ Live(x)' /\ x \in Held
  BY <1>1, HeldLive, HeldLiveNext
<1>3. Inodes = [x \in Held |-> [type |-> type[x], attr |-> attr[x]]]
  BY DEF Inodes, Held
<1>4. \A x \in H : Inodes[x] = [type |-> type'[x], attr |-> attr'[x]]
  BY <1>2, <1>3 DEF AttrsKept
<1> QED
  BY <1>4, StateIs

LEMMA StateSame ==
  ASSUME TreeAssumption, FuseAssumption, RefInv, RefInv', View' = View, Opened' = Opened, AttrsKept
  PROVE  State' = State
PROOF
<1>1. State' = Abstract!Holding(View, Opened, Inodes)
  BY StateHolds DEF Held
<1>2. Abstract!Range(View) \cup Abstract!Range(Opened) = Held
  BY DEF Abstract!Range, Range, Held
<1>3. Inodes = [x \in Held |-> Inodes[x]]
  BY DEF Inodes, Held
<1> QED
  BY <1>1, <1>2, <1>3 DEF Abstract!Holding, State

(* The view after a step.                                                  *)
Shows(F, p, x) == F[p] = x

LEMMA NewView ==
  ASSUME ViewIs', NEW F, F = [p \in DOMAIN F |-> F[p]],
         \A p : p \in DOMAIN F <=> \E x \in Item : Shown(p, x)',
         \A p, x : Shown(p, x)' => Shows(F, p, x)
  PROVE  View' = F
PROOF
<1>1. View' = [p \in DOMAIN View' |-> View'[p]]
  BY DEF ViewIs
<1>2. \A p : p \in DOMAIN View' <=> \E x \in Item : Shown(p, x)'
  BY DEF ViewIs
<1>3. DOMAIN View' = DOMAIN F
  BY <1>2
<1>4. ASSUME NEW p \in DOMAIN F
      PROVE  View'[p] = F[p]
  <2>1. PICK x \in Item : Shown(p, x)'
    BY <1>4
  <2>2. View'[p] = x
    BY <2>1 DEF ViewIs
  <2>3. F[p] = x
    BY <2>1 DEF Shows
  <2> QED
    BY <2>2, <2>3
<1> QED
  BY <1>1, <1>3, <1>4

LEMMA SameView ==
  ASSUME ViewIs, ViewIs', \A p, x : Shown(p, x)' <=> Shown(p, x)
  PROVE  View' = View
PROOF
<1>1. View = [p \in DOMAIN View |-> View[p]]
  BY DEF ViewIs
<1>2. \A p : p \in DOMAIN View <=> \E x \in Item : Shown(p, x)
  BY DEF ViewIs
<1>3. \A p : p \in DOMAIN View <=> \E x \in Item : Shown(p, x)'
  BY <1>2
<1>4. \A p, x : Shown(p, x)' => Shows(View, p, x)
  BY DEF ViewIs, Shows
<1> QED
  BY <1>1, <1>3, <1>4, NewView

-----------------------------------------------------------------------------
(* What the calls do to the paths.                                         *)
Adds(p, x) == \A q \in Seq(Name), y \in Item : Leads(q, y)' <=> Leads(q, y) \/ (q = p /\ y = x)
Drops(p) == \A q \in Seq(Name), y \in Item : Leads(q, y)' <=> Leads(q, y) /\ q # p
Grafts(p, q) ==
  \A r \in Seq(Name), y \in Item :
    Leads(r, y)' <=> \/ Leads(r, y) /\ ~IsPrefixOf(p, r)
                     \/ IsPrefixOf(q, r) /\ Leads(Graft(p, q, r), y)

TypesKept == \A x \in Item : Live(x) /\ Live(x)' => type'[x] = type[x]

LEMMA AttributesKept ==
  ASSUME TypesKept, NEW m, Attributes(m)
  PROVE  AttrsKept
PROOF
<1> QED
  BY DEF TypesKept, Attributes, AttrsKept, Live

LEMMA CreateIs ==
  ASSUME TreeAssumption, FuseAssumption, FuseInv, FuseInv', NamesFit,
         NEW p \in Visible, KernelCreates(p), NEW op, NEW t,
         IF parse_path_string(p) # "OK" THEN Refuse(op, parse_path_string(p))
         ELSE add_item(op, p, t), Effective
  PROVE  /\ NamesFit'
         /\ \E x \in Item, d \in Item :
              /\ ~Live(x) /\ type[d] = "DIR" /\ Leads(Parent(p), d) /\ ~There(p)
              /\ type' = [type EXCEPT ![x] = t] /\ name' = [name EXCEPT ![x] = ps_last_file(p)]
              /\ Adds(p, x)
PROOF
<1>1. parse_path_string(p) = "OK"
  <2> SUFFICES ASSUME parse_path_string(p) # "OK"
               PROVE  FALSE
    OBVIOUS
  <2>1. reply'.ret = "ENAMETOOLONG"
    BY DEF Refuse, Answer, parse_path_string
  <2> QED
    BY <2>1 DEF Effective
<1>2. IInv /\ IInv' /\ Linked /\ p \in ClientPaths /\ add_item(op, p, t)
  BY <1>1, AllClientPaths, VisiblePath DEF FuseInv, IInv
<1>3. p \in Seq(Name) /\ p # <<>> /\ Parent(p) \in Seq(Name) /\ ps_last_file(p) \in Name
  BY VisiblePath, VisibleIsClient
<1>4. PICK x \in Item, d \in Item :
        /\ ~Live(x) /\ type[d] = "DIR" /\ Leads(Parent(p), d)
        /\ items[d][ps_last_file(p)] = NoItem
        /\ AddItem(x, d, ps_last_file(p), t)
  BY <1>2, CreateEffect DEF Effective
<1>5. Adds(p, x)
  BY <1>2, <1>3, <1>4, PathsAfterAdd DEF Adds
<1>6. ~There(p)
  BY <1>2, <1>3, <1>4, NotThere
<1>7. NamesFit'
  BY <1>1, <1>4 DEF NamesFit, AddItem, parse_path_string
<1> QED
  BY <1>4, <1>5, <1>6, <1>7 DEF AddItem

LEMMA DeleteIs ==
  ASSUME TreeAssumption, FuseAssumption, FuseInv, FuseInv', NamesFit,
         NEW p \in Seq(Name), NEW x \in Item, x # Root, Live(x), Leads(p, x),
         items[x] = EmptyMap, DeleteItem(x)
  PROVE  NamesFit' /\ TypesKept /\ ~Live(x)' /\ Drops(p)
         /\ \A y \in Item : y # x => type'[y] = type[y] /\ name'[y] = name[y]
PROOF
<1>1. IInv /\ IInv'
  BY DEF FuseInv
<1>2. Drops(p)
  BY <1>1, PathsAfterDelete DEF Drops
<1>3. \A y \in Item : /\ type'[y] = IF y = x THEN "FREE" ELSE type[y]
                      /\ name'[y] = IF y = x THEN NoName ELSE name[y]
  BY DEF DeleteItem, FreeAll
<1>4. NamesFit'
  BY <1>3 DEF NamesFit, TreeAssumption
<1> QED
  BY <1>2, <1>3, <1>4 DEF TypesKept, Live

LEMMA MoveIs ==
  ASSUME TreeAssumption, FuseAssumption, FuseInv, FuseInv', NamesFit,
         NEW p \in Paths, NEW q \in Paths, ~IsPrefixOf(p, q), fdo_rename(p, q), Effective
  PROVE  /\ NamesFit' /\ type' = type
         /\ \/ UNCHANGED tree /\ reply'.ret = "NONE"
            \/ \E x \in Item, d \in Item :
                 /\ Leads(p, x) /\ type[d] = "DIR" /\ Leads(Parent(q), d) /\ ~There(q)
                 /\ name' = [name EXCEPT ![x] = ps_last_file(q)]
                 /\ Grafts(p, q)
                 /\ ps_last_file(q) \notin LongName
PROOF
<1>1. IInv /\ IInv' /\ Linked /\ p \in ClientPaths /\ q \in ClientPaths
  BY AllClientPaths DEF FuseInv, IInv
<1>2. p \in Seq(Name) /\ q \in Seq(Name) /\ q # <<>>
  BY PathIsSeq
<1>3. parse_path_string(q) = "OK"
  <2> SUFFICES ASSUME parse_path_string(q) # "OK"
               PROVE  FALSE
    OBVIOUS
  <2>1. reply'.ret = "ENAMETOOLONG"
    BY DEF fdo_rename, Refuse, Answer, parse_path_string
  <2> QED
    BY <2>1 DEF Effective
<1>4. ps_last_file(q) \notin LongName
  BY <1>3 DEF parse_path_string
<1>5. CASE UNCHANGED tree /\ reply'.ret = "NONE"
  BY <1>5 DEF tree, NamesFit
<1>6. ASSUME NEW x \in Item, NEW d \in Item,
             x # Root, Live(x), Leads(p, x), type[d] = "DIR", Leads(Parent(q), d),
             items[d][ps_last_file(q)] = NoItem, MoveItem(x, d, ps_last_file(q))
      PROVE  /\ NamesFit' /\ type' = type
             /\ Leads(p, x) /\ type[d] = "DIR" /\ Leads(Parent(q), d) /\ ~There(q)
             /\ name' = [name EXCEPT ![x] = ps_last_file(q)]
             /\ Grafts(p, q)
  <2>1. Grafts(p, q)
    BY <1>1, <1>2, <1>6, PathsAfterMove DEF Grafts
  <2>2. ~There(q)
    BY <1>1, <1>2, <1>6, NotThere
  <2>3. NamesFit'
    BY <1>4, <1>6 DEF MoveItem, NamesFit
  <2> QED
    BY <1>6, <2>1, <2>2, <2>3 DEF MoveItem
<1>7. \/ UNCHANGED tree /\ reply'.ret = "NONE"
      \/ \E x \in Item, d \in Item :
           /\ x # Root /\ Live(x) /\ Leads(p, x) /\ type[d] = "DIR" /\ Leads(Parent(q), d)
           /\ items[d][ps_last_file(q)] = NoItem
           /\ MoveItem(x, d, ps_last_file(q))
  BY <1>1, RenameEffect DEF Effective
<1> QED
  BY <1>4, <1>5, <1>6, <1>7

(* A rename to a free name in a directory that is there succeeds.          *)
LEMMA RenameGoes ==
  ASSUME TreeAssumption, IInv, NEW p \in Seq(Name), NEW x, Leads(p, x),
         NEW q \in Seq(Name), q # <<>>, NEW d \in Item, Leads(Parent(q), d), type[d] = "DIR",
         ~There(q), ps_last_file(p) \notin LongName, ps_last_file(q) \notin LongName,
         fdo_rename(p, q)
  PROVE  reply'.ret = "OK"
PROOF
<1>1. Linked /\ TypeOK
  BY DEF IInv
<1>2. fs_get_item(p, 0) = Found(x)
  BY <1>1, LeadsFound
<1> DEFINE k == Len(q) - 1
           r == Walk(q, k)[k]
<1>3. k \in 0..Len(q) /\ Cut(q, k) = Parent(q) /\ Parent(q) \in Seq(Name)
  BY ParentIsCut, CutProps
<1>4. fs_get_item(q, 1) = r
  BY DEF fs_get_item
<1> HIDE DEF k
<1>5. r = Found(r.item) /\ Leads(Parent(q), r.item)
  BY <1>3, WalkAnswers DEF There
<1>6. r = Found(d)
  BY <1>1, <1>3, <1>5, LeadsOnce
<1>7. fs_get_dir_item(q, 1) = Found(d)
  BY <1>4, <1>6 DEF fs_get_dir_item, fs_item_is_dir, Found
<1>8. items[d][ps_last_file(q)] = NoItem
  <2>1. ps_last_file(q) \in Name
    BY DEF ps_last_file
  <2>2. items[d][ps_last_file(q)] \in Item \cup {NoItem}
    BY <1>1, <2>1 DEF TypeOK
  <2> QED
    BY <2>2, LastStep DEF There
<1>9. MoveItem(x, d, ps_last_file(q))
  BY <1>2, <1>7, <1>8 DEF fdo_rename, fs_rename, parse_path_string, Found
<1> QED
  BY <1>9 DEF MoveItem, Answer

(* Below a file there is nothing.                                          *)
LEMMA NothingBelow ==
  ASSUME TreeAssumption, Linked, NEW p \in Seq(Name), NEW x, Leads(p, x), type[x] # "DIR",
         NEW r \in Seq(Name), NEW y, Leads(r, y), IsPrefixOf(p, r)
  PROVE  r = p
PROOF
<1>1. Len(p) \in 0..Len(r) /\ Cut(r, Len(p)) = p
  BY PrefixIsCut
<1>2. PICK z \in Item : Leads(p, z) /\ (Len(p) < Len(r) => type[z] = "DIR")
  BY <1>1, CutLeads
<1>3. z = x
  BY <1>2, LeadsOnce
<1>4. Len(p) = Len(r)
  BY <1>1, <1>2, <1>3
<1> QED
  BY <1>4, SamePath

(* Clients lose one path.                                                  *)
Loses(p) == \A q \in Clients, y \in Item : Leads(q, y)' <=> Leads(q, y) /\ q # p

(* A name of libfuse's is on no client's way.                              *)
LEMMA HiddenApart ==
  ASSUME TreeAssumption, FuseAssumption, NEW p \in Visible, NEW h \in HiddenName
  PROVE  LET q == Append(Parent(p), h)
         IN  /\ q \in Paths /\ q \in Seq(Name) /\ q # <<>> /\ Parent(q) = Parent(p)
             /\ ps_last_file(q) = h /\ ~IsPrefixOf(p, q)
             /\ \A r \in Clients : ~IsPrefixOf(q, r)
PROOF
<1> DEFINE q == Append(Parent(p), h)
           k == Len(Parent(p))
<1>1. Parent(p) \in Seq(Name) /\ h \in Name
  BY VisibleIsClient DEF FuseAssumption
<1>2. q \in Paths /\ ps_last_file(q) = h /\ ~IsPrefixOf(p, q)
  BY HiddenPath
<1>3. /\ q \in Seq(Name) /\ Len(q) = k + 1 /\ k \in Nat /\ q[k + 1] = h
      /\ \A i \in 1..k : q[i] = Parent(p)[i]
  BY <1>1
<1> HIDE DEF q
<1>4. q # <<>> /\ Parent(q) = Parent(p)
  <2>1. q # <<>>
    BY <1>3
  <2>2. Parent(q) = Cut(q, k) /\ k \in 0..Len(q)
    BY <1>3, <2>1, ParentIsCut
  <2>3. Cut(q, k) \in Seq(Name) /\ Len(Cut(q, k)) = k /\ \A i \in 1..k : Cut(q, k)[i] = q[i]
    BY <1>3, <2>2, CutProps
  <2> QED
    BY <1>1, <1>3, <2>1, <2>2, <2>3, SeqsEqual
<1>5. ASSUME NEW r \in Clients, IsPrefixOf(q, r)
      PROVE  FALSE
  <2>1. r \in Seq(Name) /\ \A i \in 1..Len(r) : r[i] \in Name \ HiddenName
    BY ClientIsPath
  <2>2. k + 1 \in 0..Len(r) /\ Cut(r, k + 1) = q
    BY <1>3, <1>5, <2>1, PrefixIsCut
  <2>3. q[k + 1] = r[k + 1]
    BY <1>3, <2>1, <2>2, CutProps
  <2> QED
    BY <1>3, <2>1, <2>2, <2>3
<1> QED
  BY <1>2, <1>3, <1>4, <1>5 DEF q

LEMMA HideIs ==
  ASSUME TreeAssumption, FuseAssumption, FuseInv, FuseInv', NamesFit, NEW p \in Visible,
         is_open(fs_get_item(p, 0).item), Hide(p), Effective
  PROVE  /\ NamesFit' /\ type' = type
         /\ \E x \in Item :
              /\ Leads(p, x) /\ x = fs_get_item(p, 0).item /\ type[x] = "REG" /\ Using(x) # {}
              /\ name'[x] \in HiddenName /\ \A y \in Item : y # x => name'[y] = name[y]
         /\ Loses(p)
PROOF
<1>1. IInv /\ Linked /\ TypeOK
  BY DEF FuseInv, IInv
<1>2. PICK h \in HiddenName :
        LET q == Append(Parent(p), h) IN fs_get_item(q, 0).ret = "ENOENT" /\ fdo_rename(p, q)
  BY DEF Hide
<1> DEFINE q == Append(Parent(p), h)
<1>3. /\ q \in Paths /\ q \in Seq(Name) /\ q # <<>> /\ Parent(q) = Parent(p)
      /\ ps_last_file(q) = h /\ ~IsPrefixOf(p, q)
      /\ \A r \in Clients : ~IsPrefixOf(q, r)
  BY HiddenApart
<1>4. fs_get_item(q, 0).ret = "ENOENT" /\ fdo_rename(p, q)
  BY <1>2
<1> HIDE DEF q
<1>5. /\ p \in Paths /\ p \in Seq(Name) /\ p # <<>> /\ Parent(p) \in Seq(Name)
  BY VisibleIsClient, VisiblePath
<1>6. fs_get_item(p, 0).ret = "OK"
  <2>1. \/ fs_get_item(p, 0).ret = "OK" \/ fs_get_item(p, 0) = Fail(fs_get_item(p, 0).ret)
    <3> DEFINE r == Walk(p, Len(p))[Len(p)]
    <3>1. fs_get_item(p, 0) = r /\ Len(p) \in 0..Len(p)
      BY <1>5 DEF fs_get_item
    <3>2. r = Found(r.item) \/ r = Fail("ENOTDIR") \/ r = Fail("ENOENT")
      BY <1>1, <1>5, <3>1, WalkAnswers
    <3> HIDE DEF r
    <3> QED
      BY <3>1, <3>2 DEF Found, Fail
  <2> QED
    BY <2>1 DEF is_open, Fail
<1>7. PICK x \in Item : Leads(p, x) /\ x = fs_get_item(p, 0).item /\ type[x] = "REG" /\ Using(x) # {}
  BY <1>1, <1>5, <1>6, FoundLeads, LeadsItem DEF is_open
<1>8. ~There(q)
  BY <1>1, <1>3, <1>4, LeadsFound DEF There, Found
<1>9. PICK d \in Item : Leads(Parent(p), d) /\ type[d] = "DIR"
  <2>1. Len(p) - 1 \in 0..Len(p) /\ Parent(p) = Cut(p, Len(p) - 1) /\ Len(p) - 1 < Len(p)
    BY <1>5, ParentIsCut
  <2> QED
    BY <1>1, <1>5, <1>7, <2>1, CutLeads
<1>10. ps_last_file(p) \notin LongName /\ ps_last_file(q) \notin LongName
  <2>1. name[x] = ps_last_file(p)
    BY <1>1, <1>5, <1>7, LastName
  <2> QED
    BY <1>3, <1>7, <2>1 DEF NamesFit, FuseAssumption
<1>11. reply'.ret = "OK"
  BY <1>1, <1>3, <1>4, <1>5, <1>7, <1>8, <1>9, <1>10, RenameGoes
<1>12. /\ NamesFit' /\ type' = type
       /\ \E z \in Item : /\ Leads(p, z) /\ name' = [name EXCEPT ![z] = h]
                         /\ Grafts(p, q)
  BY <1>3, <1>4, <1>5, <1>11, MoveIs
<1>13. name' = [name EXCEPT ![x] = h] /\ Grafts(p, q)
  BY <1>1, <1>5, <1>7, <1>12, LeadsOnce
<1>14. name'[x] \in HiddenName /\ \A y \in Item : y # x => name'[y] = name[y]
  BY <1>1, <1>7, <1>13 DEF TypeOK
<1>15. Loses(p)
  <2> SUFFICES ASSUME NEW r \in Clients, NEW y \in Item
               PROVE  Leads(r, y)' <=> Leads(r, y) /\ r # p
    BY DEF Loses
  <2>1. r \in Seq(Name)
    BY ClientIsPath
  <2>2. Leads(r, y)' <=> Leads(r, y) /\ ~IsPrefixOf(p, r)
    BY <1>3, <1>13, <2>1 DEF Grafts
  <2>3. Leads(r, y) /\ IsPrefixOf(p, r) => r = p
    BY <1>1, <1>5, <1>7, <2>1, NothingBelow
  <2>4. IsPrefixOf(p, p)
    BY <1>5, PrefixSelf
  <2> QED
    BY <2>2, <2>3, <2>4
<1> QED
  BY <1>7, <1>12, <1>14, <1>15

(* The locks of a rename that waits keep what it needs.                    *)
Survives(p) == \A y \in Item : Leads(p, y) => Leads(p, y)'

LEMMA RenameKept ==
  ASSUME TreeAssumption, FuseAssumption, FuseInv, FuseInv', RenameOK, TypesKept,
         NEW r \in Waiting("rename"),
         ~There(r.to) => ~There(r.to)',
         Survives(Parent(r.to)), Survives(r.from),
         Hidden(r.item)', Using(r.item)' # {}
  PROVE  Ready(r)'
PROOF
<1>1. IInv /\ IInv' /\ Ready(r)
  BY DEF FuseInv, RenameOK
<1>3. r.from \in Seq(Name) /\ Parent(r.to) \in Seq(Name)
  BY RenameAsks DEF FuseInv
<1>4. ASSUME NEW p \in Seq(Name), NEW y \in Item, Survives(p), Leads(p, y)
      PROVE  Leads(p, y)' /\ type'[y] = type[y]
  <2>1. Leads(p, y)'
    BY <1>4 DEF Survives
  <2>2. Live(y) /\ Live(y)'
    BY <1>1, <1>4, <2>1, LeadsLive, LeadsLiveNext, TreeAssumption
  <2> QED
    BY <2>1, <2>2 DEF TypesKept
<1>5. PICK d \in Item : Leads(Parent(r.to), d) /\ type[d] = "DIR"
  BY <1>1 DEF Ready
<1>6. Leads(Parent(r.to), d)' /\ type'[d] = "DIR"
  BY <1>3, <1>4, <1>5
<1>7. PICK x \in Item : Leads(r.from, x) /\ type[x] = "REG"
  BY <1>1 DEF Ready
<1>8. Leads(r.from, x)' /\ type'[x] = "REG"
  BY <1>3, <1>4, <1>7
<1>9. r.item \in Item /\ ~There(r.to)' /\ ps_last_file(r.to) \notin LongName
  BY <1>1 DEF Ready
<1> QED
  BY <1>6, <1>8, <1>9 DEF Ready

-----------------------------------------------------------------------------
(* PosixFiles's terms, said of the tree.                                   *)
LEMMA AbsIs ==
  ASSUME ViewIs, NEW p, NEW x \in Item, Shown(p, x)
  PROVE  /\ Abstract!Exists(State, p) /\ State.ns[p] = x /\ x \in Held
         /\ State.inode[x] = [type |-> type[x], attr |-> attr[x]]
         /\ Abstract!IsDir(State, p) <=> type[x] = "DIR"
         /\ Abstract!IsFile(State, p) <=> type[x] # "DIR"
PROOF
<1>1. p \in DOMAIN View /\ View[p] = x
  BY DEF ViewIs
<1>2. x \in Held
  BY <1>1 DEF Held, Range
<1>3. Inodes[x] = [type |-> type[x], attr |-> attr[x]]
  BY <1>2 DEF Inodes, Held
<1> QED
  BY <1>1, <1>2, <1>3 DEF State, Abstract!Exists, Abstract!IsDir, Abstract!IsFile

LEMMA AbsExists ==
  ASSUME ViewIs, NEW p
  PROVE  Abstract!Exists(State, p) <=> \E x \in Item : Shown(p, x)
PROOF
<1> QED
  BY DEF ViewIs, Abstract!Exists, State

LEMMA AbsExistsNext ==
  ASSUME ViewIs', NEW p
  PROVE  Abstract!Exists(State', p) <=> \E x \in Item : Shown(p, x)'
PROOF
<1> QED
  BY DEF ViewIs, Abstract!Exists, State

LEMMA SamePrefix ==
  ASSUME NEW p, NEW q
  PROVE  Abstract!Under(p, q) <=> IsPrefixOf(p, q)
PROOF
<1> QED
  BY DEF Abstract!Under, IsPrefixOf

LEMMA Views ==
  ASSUME TreeAssumption, FuseAssumption, RefInv, RefInv'
  PROVE  ViewIs /\ ViewIs'
PROOF
<1> QED
  BY ViewIsShown, ViewIsShownNext DEF RefInv

LEMMA NotReplacing ==
  ASSUME NEW p \in Seq(Name), MayReach(p)
  PROVE  p \notin Replacing
PROOF
<1> SUFFICES ASSUME NEW r \in Waiting("rename"), r.to = p
             PROVE  FALSE
  BY DEF Replacing
<1>1. ~IsPrefixOf(r.to, p)
  BY DEF MayReach, Exclusive
<1> QED
  BY <1>1, PrefixSelf

(* One lemma per call, or half of one: what clients see of it.  A new path *)
(* to a new item:                                                          *)
LEMMA CreateSeen ==
  ASSUME TreeAssumption, FuseAssumption, RefInv, Create
  PROVE  RefInv' /\ \E p \in Visible, t \in {"DIR", "REG"}, m \in Perm :
                      Abstract!Create(State, State', p, t, m)
PROOF
<1>0. FuseInv /\ NamesFit /\ RenameOK /\ FuseInv'
  BY CreateOK DEF RefInv
<1>1. PICK p \in Visible, m \in Perm :
        /\ MayReach(p) /\ KernelCreates(p)
        /\ fdo_mkdir(p) \/ fdo_mknod(p, "REG")
        /\ Effective
        /\ Attributes(m)
        /\ UNCHANGED <<open, dead, pending>>
  BY DEF Create
<1>2. PICK t \in {"DIR", "REG"} : \E op :
        IF parse_path_string(p) # "OK" THEN Refuse(op, parse_path_string(p))
        ELSE add_item(op, p, t)
  BY <1>1 DEF fdo_mkdir, fdo_mknod
<1>3. PICK x \in Item, d \in Item :
        /\ ~Live(x) /\ type[d] = "DIR" /\ Leads(Parent(p), d) /\ ~There(p)
        /\ type' = [type EXCEPT ![x] = t] /\ name' = [name EXCEPT ![x] = ps_last_file(p)]
        /\ Adds(p, x)
  BY <1>0, <1>1, <1>2, CreateIs
<1>4. NamesFit'
  BY <1>0, <1>1, <1>2, CreateIs
<1>5. /\ p \in Clients /\ p \in Seq(Name) /\ p # <<>> /\ Parent(p) \in Clients
      /\ Parent(p) \in Seq(Name) /\ IsPrefixOf(Parent(p), p)
  BY VisibleIsClient
<1>6. /\ type \in [Item -> ItemType \cup {"FREE"}] /\ name \in [Item -> Name \cup {NoName}]
      /\ pending' = pending /\ open' = open /\ dead' = dead
  BY <1>0, <1>1 DEF FuseInv, IInv, TypeOK
<1>7. /\ type'[x] = t /\ Live(x)'
      /\ \A y \in Item : y # x => type'[y] = type[y] /\ name'[y] = name[y]
  BY <1>2, <1>3, <1>6 DEF Live
<1>8. TypesKept /\ AttrsKept
  BY <1>1, <1>3, <1>7, AttributesKept DEF TypesKept
<1>9. attr'[x] = Fresh(m)
  BY <1>1, <1>3, <1>7 DEF Attributes, Live
<1>10. p \notin Replacing
  BY <1>1, <1>5, NotReplacing
<1>11. RenameOK'
  <2> SUFFICES ASSUME NEW r \in Waiting("rename")
               PROVE  Ready(r)'
    BY <1>6 DEF RenameOK, Waiting
  <2>1. /\ r.to \in Seq(Name) /\ r.from \in Seq(Name) /\ Parent(r.to) \in Seq(Name)
        /\ r.to # p
    BY <1>0, <1>10, RenameAsks DEF Replacing, FuseInv
  <2>2. ~There(r.to) => ~There(r.to)'
    BY <1>3, <2>1 DEF Adds, There
  <2>3. Survives(Parent(r.to)) /\ Survives(r.from)
    BY <1>3, <2>1 DEF Adds, Survives
  <2>4. r.item \in Item /\ Hidden(r.item) /\ Using(r.item) # {} /\ r.item # x
    BY <1>0, <1>3 DEF RenameOK, Ready, Hidden
  <2>5. Hidden(r.item)' /\ Using(r.item)' # {}
    BY <1>6, <1>7, <2>4 DEF Hidden, Using, Live
  <2> QED
    BY <1>0, <1>8, <2>2, <2>3, <2>5, RenameKept
<1>12. RefInv'
  BY <1>0, <1>4, <1>11 DEF RefInv
<1>13. ViewIs /\ ViewIs'
  BY <1>12, Views
<1>14. \A q, y : Shown(q, y)' <=> Shown(q, y) \/ (q = p /\ y = x)
  <2>1. \A q, y : q \in Clients => (Leads(q, y)' <=> Leads(q, y) \/ (q = p /\ y = x))
    <3> SUFFICES ASSUME NEW q \in Clients, NEW y
                 PROVE  Leads(q, y)' <=> Leads(q, y) \/ (q = p /\ y = x)
      OBVIOUS
    <3>1. q \in Seq(Name)
      BY ClientIsPath
    <3>2. (Leads(q, y) => y \in Item) /\ (Leads(q, y)' => y \in Item)
      BY <3>1 DEF Leads
    <3> QED
      BY <1>3, <3>1, <3>2 DEF Adds
  <2>2. \A q, y : Replaces(q, y)' <=> Replaces(q, y)
    BY <1>6 DEF Replaces, Waiting
  <2> QED
    BY <1>5, <2>1, <2>2 DEF Shown
<1>15. \A y : ~Shown(p, y)
  BY <1>3, <1>5, <1>10, LeadsItem DEF Shown, There, Replaces, Replacing
<1> DEFINE F == Abstract!With(View, p, x)
           I == Abstract!With(Inodes, x, [type |-> t, attr |-> Abstract!Owned(m)])
<1>16. /\ DOMAIN F = DOMAIN View \cup {p} /\ F = [q \in DOMAIN F |-> F[q]] /\ F[p] = x
       /\ \A q \in DOMAIN View : q # p => F[q] = View[q]
  BY DEF Abstract!With
<1>17. View' = F
  <2> HIDE DEF F
  <2>1. \A q : q \in DOMAIN F <=> \E y \in Item : Shown(q, y)'
    BY <1>13, <1>14, <1>16 DEF ViewIs
  <2>2. ASSUME NEW q, NEW y, Shown(q, y)'
        PROVE  Shows(F, q, y)
    <3>1. CASE q = p /\ y = x
      BY <1>16, <3>1 DEF Shows
    <3>2. CASE Shown(q, y)
      <4>1. q # p /\ View[q] = y
        BY <1>13, <1>15, <3>2 DEF ViewIs
      <4>2. q \in DOMAIN View
        <5>1. q \in Clients => q \in Seq(Name)
          BY ClientIsPath
        <5>2. y \in Item
          BY <1>0, <3>2, <5>1, LeadsItem DEF Shown, Replaces, RenameOK, Ready
        <5> QED
          BY <1>13, <3>2, <5>2 DEF ViewIs
      <4> QED
        BY <1>16, <4>1, <4>2 DEF Shows
    <3> QED
      BY <1>14, <2>2, <3>1, <3>2
  <2> QED
    BY <1>13, <1>16, <2>1, <2>2, NewView
<1>18. Opened' = Opened
  BY <1>6 DEF Opened
<1>19. x \notin Held /\ DOMAIN Inodes = Held
  BY <1>3, HeldLive DEF Inodes, Held
<1>20. \A y \in Range(F) \cup Range(Opened) : I[y] = [type |-> type'[y], attr |-> attr'[y]]
  <2> SUFFICES ASSUME NEW y \in Range(F) \cup Range(Opened)
               PROVE  I[y] = [type |-> type'[y], attr |-> attr'[y]]
    OBVIOUS
  <2>1. y \in Held'
    BY <1>17, <1>18 DEF Held, Range
  <2>2. y \in Item /\ Live(y)'
    BY <1>12, <2>1, HeldLiveNext, TreeAssumption, FuseAssumption
  <2>3. CASE y = x
    <3>1. Fresh(m) = Abstract!Owned(m)
      BY DEF Fresh, Abstract!Owned
    <3> QED
      BY <1>7, <1>9, <2>3, <3>1 DEF Abstract!With
  <2>4. CASE y # x
    <3>1. y \in Held
      BY <1>16, <2>4 DEF Range, Held
    <3>2. I[y] = Inodes[y]
      BY <1>19, <2>4, <3>1 DEF Abstract!With
    <3>3. Inodes[y] = [type |-> type[y], attr |-> attr[y]]
      BY <3>1 DEF Inodes, Held
    <3>4. Live(y)
      BY <3>1, HeldLive
    <3> QED
      BY <1>8, <2>2, <3>2, <3>3, <3>4 DEF AttrsKept
  <2> QED
    BY <2>3, <2>4
<1>21. State' = Abstract!Holding(F, Opened, I)
  <2> HIDE DEF F, I
  <2> QED
    BY <1>17, <1>18, <1>20, StateIs
<1>22. /\ ~Abstract!Exists(State, p) /\ Abstract!Exists(State', p)
       /\ Abstract!IsDir(State, Parent(p))
  <2>1. Shown(p, x)' /\ Shown(Parent(p), d)
    BY <1>3, <1>5, <1>14 DEF Shown
  <2> QED
    BY <1>3, <1>13, <1>15, <2>1, AbsIs, AbsExists, AbsExistsNext
<1>23. State.ns = View /\ State.opened = Opened /\ State.inode = Inodes /\ x \in Item \ DOMAIN State.inode
  BY <1>19 DEF State
<1>24. Abstract!Parent(p) = Parent(p)
  BY DEF Abstract!Parent, Parent
<1>25. Abstract!Create(State, State', p, t, m)
  BY <1>21, <1>22, <1>23, <1>24 DEF Abstract!Create
<1> QED
  BY <1>12, <1>25

LEMMA ReplacesApart ==
  ASSUME pending' = pending, NEW p \in Visible, MayReach(p), TreeAssumption, FuseAssumption
  PROVE  \A q, y : Replaces(q, y)' <=> Replaces(q, y) /\ q # p
PROOF
<1>1. p \notin Replacing
  BY VisibleIsClient, NotReplacing
<1> QED
  BY <1>1 DEF Replaces, Replacing, Waiting

LEMMA ReplacesSame ==
  ASSUME pending' = pending
  PROVE  \A q, y : Replaces(q, y)' <=> Replaces(q, y)
PROOF
<1> QED
  BY DEF Replaces, Waiting

(* A file or an empty directory loses its path, which no rename needs.     *)
LEMMA LostKept ==
  ASSUME TreeAssumption, FuseAssumption, FuseInv, FuseInv', RenameOK, TypesKept,
         NEW p \in Visible, MayChange(p), Loses(p),
         \A i \in Item : Hidden(i) /\ Using(i) # {} => Hidden(i)' /\ Using(i)' # {},
         NEW r \in Waiting("rename")
  PROVE  Ready(r)'
PROOF
<1>1. /\ r.to \in Clients /\ r.from \in Clients /\ Parent(r.to) \in Clients
      /\ r.to \in Seq(Name) /\ r.from \in Seq(Name) /\ Parent(r.to) \in Seq(Name)
      /\ p \in Seq(Name) /\ IsPrefixOf(Parent(r.to), r.to)
  BY RenameAsks, VisibleIsClient DEF FuseInv
<1>2. ~IsPrefixOf(p, r.from) /\ ~IsPrefixOf(p, r.to)
  BY DEF MayChange, Exclusive
<1>3. p # r.from /\ p # Parent(r.to)
  BY <1>1, <1>2, PrefixSelf
<1>4. (~There(r.to) => ~There(r.to)') /\ Survives(Parent(r.to)) /\ Survives(r.from)
  BY <1>1, <1>3 DEF Loses, There, Survives
<1>5. r.item \in Item /\ Hidden(r.item) /\ Using(r.item) # {}
  BY DEF RenameOK, Ready
<1> QED
  BY <1>4, <1>5, RenameKept

LEMMA LostSeen ==
  ASSUME TreeAssumption, FuseAssumption, RefInv, RefInv', AttrsKept,
         NEW p \in Visible, Loses(p), \A q, y : Replaces(q, y)' <=> Replaces(q, y) /\ q # p,
         NEW G, Opened' = G, Range(G) \subseteq Range(Opened)
  PROVE  State' = Abstract!Holding(Abstract!Without(View, {p}), G, Inodes)
PROOF
<1>1. ViewIs /\ ViewIs' /\ RenameOK
  BY Views DEF RefInv
<1>2. \A q, y : Shown(q, y)' <=> Shown(q, y) /\ q # p
  <2>1. \A q, y : q \in Clients => (Leads(q, y)' <=> Leads(q, y) /\ q # p)
    <3> SUFFICES ASSUME NEW q \in Clients, NEW y
                 PROVE  Leads(q, y)' <=> Leads(q, y) /\ q # p
      OBVIOUS
    <3>1. q \in Seq(Name)
      BY ClientIsPath
    <3>2. (Leads(q, y) => y \in Item) /\ (Leads(q, y)' => y \in Item)
      BY <3>1 DEF Leads
    <3> QED
      BY <3>2 DEF Loses
  <2> QED
    BY <2>1 DEF Shown
<1> DEFINE F == Abstract!Without(View, {p})
<1>3. /\ DOMAIN F = DOMAIN View \ {p} /\ F = [q \in DOMAIN F |-> F[q]]
      /\ \A q \in DOMAIN F : F[q] = View[q]
  BY DEF Abstract!Without
<1> HIDE DEF F
<1>4. \A q : q \in DOMAIN F <=> \E y \in Item : Shown(q, y)'
  BY <1>1, <1>2, <1>3 DEF ViewIs
<1>5. ASSUME NEW q, NEW y, Shown(q, y)'
      PROVE  Shows(F, q, y)
  <2>1. Shown(q, y) /\ q # p /\ View[q] = y
    BY <1>1, <1>2, <1>5 DEF ViewIs
  <2>2. q \in Clients => q \in Seq(Name)
    BY ClientIsPath
  <2>3. y \in Item
    BY <1>1, <2>1, <2>2, LeadsItem DEF Shown, Replaces, RenameOK, Ready
  <2>4. q \in DOMAIN F
    BY <1>4, <1>5, <2>3
  <2> QED
    BY <1>3, <2>1, <2>4 DEF Shows
<1>6. View' = F
  BY <1>1, <1>3, <1>4, <1>5, NewView
<1>7. Range(F) \cup Range(G) \subseteq Held
  <2>1. Range(F) \subseteq Range(View)
    BY <1>3 DEF Range
  <2> QED
    BY <2>1 DEF Held
<1>8. State' = Abstract!Holding(F, G, Inodes)
  BY <1>6, <1>7, StateHolds
<1> QED
  BY <1>8 DEF F

LEMMA UnlinkSeen ==
  ASSUME TreeAssumption, FuseAssumption, RefInv, FuseUnlink
  PROVE  RefInv' /\ \E p \in Visible : Abstract!Unlink(State, State', p)
PROOF
<1>0. FuseInv /\ NamesFit /\ RenameOK /\ FuseInv' /\ IInv /\ Linked
  BY FuseUnlinkOK DEF RefInv, FuseInv, IInv
<1>1. PICK p \in Visible :
        /\ MayChange(p)
        /\ IF is_open(fs_get_item(p, 0).item) THEN Hide(p) ELSE fdo_unlink(p)
        /\ Effective
        /\ Attributes({})
        /\ UNCHANGED <<open, dead, pending>>
  BY DEF FuseUnlink
<1>2. p \in Clients /\ p \in Seq(Name) /\ p # <<>> /\ MayReach(p) /\ ps_last_file(p) \notin HiddenName
  BY <1>1, VisibleIsClient, VisiblePath DEF MayChange
<1>3. pending' = pending /\ Opened' = Opened /\ \A i : Using(i)' = Using(i)
  BY <1>1 DEF Opened, Using
<1>4. /\ NamesFit' /\ TypesKept /\ Loses(p)
      /\ \E x \in Item : Leads(p, x) /\ type[x] # "DIR"
      /\ \A i \in Item : Hidden(i) /\ Using(i) # {} => Hidden(i)'
  <2>1. CASE is_open(fs_get_item(p, 0).item)
    <3>1. /\ NamesFit' /\ type' = type /\ Loses(p)
      BY <1>0, <1>1, <2>1, HideIs
    <3>2. PICK x \in Item :
            /\ Leads(p, x) /\ x = fs_get_item(p, 0).item /\ type[x] = "REG" /\ Using(x) # {}
            /\ name'[x] \in HiddenName /\ \A y \in Item : y # x => name'[y] = name[y]
      BY <1>0, <1>1, <2>1, HideIs
    <3>3. TypesKept /\ \A i \in Item : Hidden(i) => Hidden(i)'
      BY <3>1, <3>2 DEF TypesKept, Hidden, Live
    <3> QED
      BY <3>1, <3>2, <3>3
  <2>2. CASE ~is_open(fs_get_item(p, 0).item)
    <3>1. fdo_unlink(p)
      BY <1>1, <2>2
    <3>2. PICK x \in Item :
            /\ x # Root /\ Live(x) /\ type[x] # "DIR" /\ Leads(p, x)
            /\ items[x] = EmptyMap /\ DeleteItem(x)
      BY <1>0, <1>1, <1>2, <3>1, UnlinkEffect DEF Effective
    <3>3. /\ NamesFit' /\ TypesKept /\ Drops(p)
          /\ \A y \in Item : y # x => type'[y] = type[y] /\ name'[y] = name[y]
      BY <1>0, <1>2, <3>2, DeleteIs
    <3>4. Loses(p)
      BY <3>3, ClientIsPath DEF Drops, Loses
    <3>5. name[x] = ps_last_file(p)
      BY <1>0, <1>2, <3>2, LastName
    <3>6. \A i \in Item : Hidden(i) => Hidden(i)'
      BY <1>2, <3>3, <3>5 DEF Hidden, Live
    <3> QED
      BY <3>2, <3>3, <3>4, <3>6
  <2> QED
    BY <2>1, <2>2
<1>5. RenameOK'
  BY <1>0, <1>1, <1>3, <1>4, LostKept DEF RenameOK, Waiting
<1>6. RefInv'
  BY <1>0, <1>4, <1>5 DEF RefInv
<1>7. AttrsKept
  BY <1>1, <1>4, AttributesKept
<1>8. State' = Abstract!Holding(Abstract!Without(View, {p}), Opened, Inodes)
  BY <1>2, <1>3, <1>4, <1>6, <1>7, ReplacesApart, LostSeen
<1>9. Abstract!IsFile(State, p)
  <2>1. PICK x \in Item : Leads(p, x) /\ type[x] # "DIR"
    BY <1>4
  <2>2. Shown(p, x) /\ ViewIs
    BY <1>2, <1>6, <2>1, Views DEF Shown
  <2> QED
    BY <2>1, <2>2, AbsIs
<1> QED
  BY <1>6, <1>8, <1>9 DEF Abstract!Unlink, State

(* There is nothing below an empty directory.                              *)
LEMMA EmptyBelow ==
  ASSUME TreeAssumption, Linked, NEW p \in Seq(Name), NEW x, Leads(p, x), items[x] = EmptyMap,
         NEW r \in Seq(Name), NEW y, Leads(r, y), IsPrefixOf(p, r)
  PROVE  r = p
PROOF
<1>1. Len(p) \in 0..Len(r) /\ Cut(r, Len(p)) = p /\ Len(r) \in Nat /\ Len(p) \in Nat
  BY PrefixIsCut
<1> DEFINE k == Len(p)
<1>2. ASSUME k < Len(r)
      PROVE  FALSE
  <2>1. k \in 0..(Len(r) - 1) /\ k + 1 \in 0..Len(r) /\ k + 1 \in 1..Len(r)
    BY <1>1, <1>2
  <2>2. PICK z \in Item : Leads(Cut(r, k + 1), z)
    BY <2>1, CutLeads
  <2>3. PICK d \in Item : Leads(Cut(r, k), d) /\ items[d][r[k + 1]] = z
    BY <2>1, <2>2, CutStep
  <2>4. d = x
    BY <1>1, <2>3, LeadsOnce
  <2>5. r[k + 1] \in Name
    BY <2>1
  <2> QED
    BY <2>2, <2>3, <2>4, <2>5 DEF EmptyMap, TreeAssumption
<1>3. Len(p) = Len(r)
  BY <1>1, <1>2
<1> QED
  BY <1>3, SamePath

LEMMA RmdirOfDir ==
  ASSUME TreeAssumption, TypeOK, NEW p \in Seq(Name), fdo_rmdir(p), Effective
  PROVE  fs_item_is_dir(fs_get_item(p, 0).item)
PROOF
<1>1. fs_get_item(p, 0).ret \in {"OK", "ENOENT", "ENOTDIR"}
  BY FoundRet
<1>2. \A op, e : Refuse(op, e) => reply'.ret = e
  BY DEF Refuse, Answer
<1> QED
  BY <1>1, <1>2 DEF fdo_rmdir, fs_dir_delete, fs_get_dir_item, Effective, parse_path_string, Fail

LEMMA RmdirSeen ==
  ASSUME TreeAssumption, FuseAssumption, RefInv, FuseRmdir
  PROVE  RefInv' /\ \E p \in Visible : Abstract!Rmdir(State, State', p)
PROOF
<1>0. FuseInv /\ NamesFit /\ RenameOK /\ FuseInv' /\ IInv /\ Linked /\ TypeOK
  BY FuseRmdirOK DEF RefInv, FuseInv, IInv
<1>1. PICK p \in Visible :
        /\ MayChange(p)
        /\ fdo_rmdir(p)
        /\ Effective
        /\ dead' = dead \cup Using(fs_get_item(p, 0).item)
        /\ Attributes({})
        /\ UNCHANGED <<open, pending>>
  BY DEF FuseRmdir
<1>2. /\ p \in Clients /\ p \in Seq(Name) /\ p # <<>> /\ MayReach(p)
      /\ ps_last_file(p) \notin HiddenName /\ p \in ClientPaths
  BY <1>0, <1>1, VisibleIsClient, VisiblePath, AllClientPaths DEF MayChange, FuseInv
<1>3. PICK x \in Item :
        /\ x # Root /\ Live(x) /\ Leads(p, x)
        /\ items[x] = EmptyMap /\ fs_get_item(p, 0).item = x
        /\ DeleteItem(x)
  BY <1>0, <1>1, <1>2, RmdirEffect DEF Effective
<1>4. type[x] = "DIR"
  BY <1>0, <1>1, <1>2, <1>3, RmdirOfDir DEF fs_item_is_dir, FuseInv, NoSockets
<1>5. /\ NamesFit' /\ TypesKept /\ Drops(p)
      /\ \A y \in Item : y # x => type'[y] = type[y] /\ name'[y] = name[y]
  BY <1>0, <1>2, <1>3, DeleteIs
<1>6. Loses(p)
  BY <1>5, ClientIsPath DEF Drops, Loses
<1>7. pending' = pending /\ open' = open /\ dead' = dead \cup Using(x)
  BY <1>1, <1>3
<1>8. \A i \in Item : Hidden(i) /\ Using(i) # {} => Hidden(i)' /\ Using(i)' # {}
  <2> SUFFICES ASSUME NEW i \in Item, Hidden(i), Using(i) # {}
               PROVE  Hidden(i)' /\ Using(i)' # {}
    OBVIOUS
  <2>1. i # x
    BY <1>0, <1>4 DEF FuseInv, HiddenOK
  <2>2. Using(i)' = Using(i)
    BY <1>7, <2>1 DEF Using
  <2> QED
    BY <1>5, <2>1, <2>2 DEF Hidden, Live
<1>9. RefInv'
  <2>1. RenameOK'
    BY <1>0, <1>1, <1>5, <1>6, <1>7, <1>8, LostKept DEF RenameOK, Waiting
  <2> QED
    BY <1>0, <1>5, <2>1 DEF RefInv
<1> DEFINE G == Abstract!Without(Opened, {f \in DOMAIN Opened : Opened[f] = x})
<1>10. Opened' = G
  <2>1. DOMAIN open \ dead' = (DOMAIN open \ dead) \ {f \in DOMAIN open \ dead : open[f] = x}
    BY <1>7 DEF Using
  <2>2. Opened' = [f \in DOMAIN open \ dead' |-> open[f]]
    BY <1>7 DEF Opened
  <2> QED
    BY <2>1, <2>2 DEF Abstract!Without, Opened
<1>11. Range(G) \subseteq Range(Opened)
  BY DEF Abstract!Without, Range
<1>12. AttrsKept
  BY <1>1, <1>5, AttributesKept
<1>13. State' = Abstract!Holding(Abstract!Without(View, {p}), G, Inodes)
  <2> HIDE DEF G
  <2> QED
    BY <1>1, <1>2, <1>6, <1>7, <1>9, <1>10, <1>11, <1>12, ReplacesApart, LostSeen
<1>14. ViewIs /\ Shown(p, x)
  BY <1>2, <1>3, <1>9, Views DEF Shown
<1>15. Abstract!IsDir(State, p) /\ State.ns[p] = x
  BY <1>4, <1>14, AbsIs
<1>16. ASSUME NEW q \in DOMAIN View, IsPrefixOf(p, q)
       PROVE  p = q
  <2>1. PICK y \in Item : Shown(q, y)
    BY <1>14 DEF ViewIs
  <2>2. CASE Replaces(q, y)
    <3>1. PICK r \in Waiting("rename") : q = r.to
      BY <2>2 DEF Replaces
    <3> QED
      BY <1>1, <1>16, <3>1 DEF MayChange, Exclusive
  <2>3. CASE q \in Clients /\ Leads(q, y)
    <3>1. q \in Seq(Name)
      BY <2>3, ClientIsPath
    <3> QED
      BY <1>0, <1>2, <1>3, <1>16, <2>3, <3>1, EmptyBelow
  <2> QED
    BY <2>1, <2>2, <2>3 DEF Shown
<1>17. \A q \in DOMAIN State.ns : Abstract!Under(p, q) => p = q
  BY <1>16, SamePrefix DEF State
<1>18. State.ns = View /\ State.opened = Opened /\ State.inode = Inodes
  BY DEF State
<1>19. Abstract!Rmdir(State, State', p)
  BY <1>13, <1>15, <1>17, <1>18 DEF Abstract!Rmdir
<1> QED
  BY <1>9, <1>19

(* The names after a rename.                                               *)
Before(p, q, r) == IF IsPrefixOf(q, r) THEN Graft(p, q, r) ELSE r
Stay(p, q) == {r \in DOMAIN View : ~IsPrefixOf(p, r) /\ ~IsPrefixOf(q, r)}
Go(p, q) == {Graft(q, p, r) : r \in {r \in DOMAIN View : IsPrefixOf(p, r)}}
Renamed(p, q) == [r \in Stay(p, q) \cup Go(p, q) |-> View[Before(p, q, r)]]

ShownMoves(p, q) ==
  \A r \in Clients, y \in Item :
    Shown(r, y)' <=> \/ Shown(r, y) /\ ~IsPrefixOf(p, r) /\ ~IsPrefixOf(q, r)
                     \/ IsPrefixOf(q, r) /\ Shown(Graft(p, q, r), y)

LEMMA ShownIsClient ==
  ASSUME TreeAssumption, FuseAssumption, FuseInv, RenameOK, NEW r, NEW y, Shown(r, y)
  PROVE  r \in Clients /\ r \in Seq(Name) /\ y \in Item
PROOF
<1>1. CASE r \in Clients /\ Leads(r, y)
  BY <1>1, ClientIsPath, LeadsItem
<1>2. CASE Replaces(r, y)
  <2>1. PICK s \in Waiting("rename") : r = s.to /\ y = s.item
    BY <1>2 DEF Replaces
  <2>2. s.to \in Clients /\ s.to \in Seq(Name)
    BY RenameAsks DEF FuseInv
  <2> QED
    BY <2>1, <2>2 DEF RenameOK, Ready
<1> QED
  BY <1>1, <1>2 DEF Shown

LEMMA ShownIsClientNext ==
  (TreeAssumption /\ FuseAssumption /\ FuseInv /\ RenameOK =>
     \A r, y : Shown(r, y) => r \in Clients /\ r \in Seq(Name) /\ y \in Item)'
PROOF
<1>1. TreeAssumption /\ FuseAssumption /\ FuseInv /\ RenameOK =>
        \A r, y : Shown(r, y) => r \in Clients /\ r \in Seq(Name) /\ y \in Item
  BY ShownIsClient
<1> QED
  BY <1>1, PTL

LEMMA RenamedView ==
  ASSUME TreeAssumption, FuseAssumption, RefInv, RefInv', NEW p \in Clients, NEW q \in Clients,
         ShownMoves(p, q)
  PROVE  View' = Renamed(p, q) /\ Range(Renamed(p, q)) \subseteq Range(View)
PROOF
<1> DEFINE F == Renamed(p, q)
<1>1. ViewIs /\ ViewIs' /\ FuseInv /\ RenameOK
  BY Views DEF RefInv
<1>2. p \in Seq(Name) /\ q \in Seq(Name)
  BY ClientIsPath
<1>3. ASSUME NEW r \in DOMAIN View
      PROVE  r \in Clients /\ r \in Seq(Name) /\ \E y \in Item : Shown(r, y)
  BY <1>1, <1>3, ShownIsClient DEF ViewIs
<1>4. ASSUME NEW r \in Go(p, q)
      PROVE  /\ r \in Clients /\ IsPrefixOf(q, r) /\ Graft(p, q, r) \in DOMAIN View
             /\ \E y \in Item : Shown(Graft(p, q, r), y)
  <2>1. PICK s \in DOMAIN View : IsPrefixOf(p, s) /\ r = Graft(q, p, s)
    BY <1>4 DEF Go
  <2>2. s \in Clients /\ s \in Seq(Name) /\ \E y \in Item : Shown(s, y)
    BY <1>3
  <2>3. r \in Clients
    BY <2>1, <2>2, GraftIsClient
  <2>4. IsPrefixOf(q, r) /\ Graft(p, q, r) = s
    BY <1>2, <2>1, <2>2, GraftPrefix
  <2> QED
    BY <2>2, <2>3, <2>4
<1>5. ASSUME NEW r \in Clients, IsPrefixOf(q, r), NEW y, Shown(Graft(p, q, r), y)
      PROVE  r \in Go(p, q)
  <2>1. r \in Seq(Name)
    BY ClientIsPath
  <2>2. IsPrefixOf(p, Graft(p, q, r)) /\ Graft(q, p, Graft(p, q, r)) = r
    BY <1>2, <1>5, <2>1, GraftPrefix
  <2>3. Graft(p, q, r) \in DOMAIN View
    BY <1>1, <1>5, ShownIsClient DEF ViewIs
  <2> QED
    BY <2>2, <2>3 DEF Go
<1>6. DOMAIN F = Stay(p, q) \cup Go(p, q) /\ F = [r \in DOMAIN F |-> F[r]]
      /\ \A r \in DOMAIN F : F[r] = View[Before(p, q, r)]
  BY DEF Renamed
<1> HIDE DEF F
<1>7. ASSUME NEW r
      PROVE  r \in DOMAIN F <=> \E y \in Item : Shown(r, y)'
  <2>1. ASSUME r \in Stay(p, q)
        PROVE  \E y \in Item : Shown(r, y)'
    BY <1>3, <2>1 DEF Stay, ShownMoves
  <2>2. ASSUME r \in Go(p, q)
        PROVE  \E y \in Item : Shown(r, y)'
    BY <1>4, <2>2 DEF ShownMoves
  <2>3. ASSUME NEW y \in Item, Shown(r, y)'
        PROVE  r \in Stay(p, q) \cup Go(p, q)
    <3>1. r \in Clients
      BY <1>1, <2>3, ShownIsClientNext, TreeAssumption, FuseAssumption DEF RefInv
    <3>2. CASE Shown(r, y) /\ ~IsPrefixOf(p, r) /\ ~IsPrefixOf(q, r)
      BY <1>1, <3>2 DEF Stay, ViewIs
    <3>3. CASE IsPrefixOf(q, r) /\ Shown(Graft(p, q, r), y)
      BY <1>5, <3>1, <3>3
    <3> QED
      BY <2>3, <3>1, <3>2, <3>3 DEF ShownMoves
  <2> QED
    BY <1>6, <2>1, <2>2, <2>3
<1>8. ASSUME NEW r, NEW y, Shown(r, y)'
      PROVE  Shows(F, r, y)
  <2>1. r \in Clients /\ y \in Item
    BY <1>1, <1>8, ShownIsClientNext, TreeAssumption, FuseAssumption DEF RefInv
  <2>2. r \in DOMAIN F
    BY <1>7, <1>8, <2>1
  <2>3. CASE Shown(r, y) /\ ~IsPrefixOf(p, r) /\ ~IsPrefixOf(q, r)
    <3>1. F[r] = View[r]
      BY <1>6, <2>2, <2>3 DEF Before
    <3> QED
      BY <1>1, <2>3, <3>1 DEF ViewIs, Shows
  <2>4. CASE IsPrefixOf(q, r) /\ Shown(Graft(p, q, r), y)
    <3>1. F[r] = View[Graft(p, q, r)]
      BY <1>6, <2>2, <2>4 DEF Before
    <3> QED
      BY <1>1, <2>4, <3>1 DEF ViewIs, Shows
  <2> QED
    BY <1>8, <2>1, <2>3, <2>4 DEF ShownMoves
<1>9. View' = F
  BY <1>1, <1>6, <1>7, <1>8, NewView
<1>10. \A r \in DOMAIN F : Before(p, q, r) \in DOMAIN View
  <2>1. \A r \in Stay(p, q) : Before(p, q, r) = r /\ r \in DOMAIN View
    BY DEF Stay, Before
  <2>2. \A r \in Go(p, q) : Before(p, q, r) \in DOMAIN View
    BY <1>4 DEF Before
  <2> QED
    BY <1>6, <2>1, <2>2
<1>11. Range(F) \subseteq Range(View)
  BY <1>6, <1>10 DEF Range
<1> QED
  BY <1>9, <1>11 DEF F

LEMMA GraftSelf ==
  ASSUME NEW p \in Seq(Name), NEW q \in Seq(Name)
  PROVE  Graft(p, q, q) = p
PROOF
<1> DEFINE s == Graft(p, q, q)
<1>1. IsPrefixOf(q, q)
  BY PrefixSelf
<1>2. s \in Seq(Name) /\ Len(s) = Len(p) + (Len(q) - Len(q)) /\ \A i \in 1..Len(p) : s[i] = p[i]
  BY <1>1, GraftProps
<1> HIDE DEF s
<1>3. Len(s) = Len(p)
  BY <1>2
<1> QED
  BY <1>2, <1>3, SeqsEqual DEF s

LEMMA RenamedSeen ==
  ASSUME TreeAssumption, FuseAssumption, RefInv, RefInv', AttrsKept, Opened' = Opened,
         NEW p \in Visible, NEW q \in Visible, Apart(p, q), ShownMoves(p, q),
         NEW x \in Item, Shown(p, x), NEW d \in Item, Shown(Parent(q), d), type[d] = "DIR",
         \A z \in Item : Shown(q, z) => type[x] # "DIR" /\ type[z] # "DIR" /\ z \in Range(Opened)
  PROVE  Abstract!Rename(State, State', p, q)
PROOF
<1>1. ViewIs /\ ViewIs'
  BY Views
<1>2. p \in Clients /\ q \in Clients /\ p \in Seq(Name) /\ q \in Seq(Name)
  BY VisibleIsClient
<1>3. ~IsPrefixOf(p, q) /\ ~IsPrefixOf(q, p) /\ IsPrefixOf(p, p) /\ IsPrefixOf(q, q)
  BY <1>2, PrefixSelf DEF Apart
<1> DEFINE F == Renamed(p, q)
<1>4. View' = F /\ Range(F) \subseteq Range(View)
  BY <1>2, RenamedView
<1>5. State' = Abstract!Holding(F, Opened, Inodes)
  <2> HIDE DEF F
  <2>1. Range(F) \cup Range(Opened) \subseteq Held
    BY <1>4 DEF Held
  <2> QED
    BY <1>4, <2>1, StateHolds
<1>6. Abstract!Exists(State, p) /\ Abstract!IsDir(State, Abstract!Parent(q))
  <2>1. Abstract!Parent(q) = Parent(q)
    BY DEF Abstract!Parent, Parent
  <2>2. Abstract!Exists(State, p)
    BY <1>1, AbsIs
  <2>3. Abstract!IsDir(State, Parent(q))
    BY <1>1, AbsIs
  <2> QED
    BY <2>1, <2>2, <2>3
<1>7. ~Abstract!Exists(State', p)
  <2>1. \A y \in Item : ~Shown(p, y)'
    BY <1>2, <1>3 DEF ShownMoves
  <2> QED
    BY <1>1, <2>1, AbsExistsNext
<1>8. Abstract!Exists(State', q)
  <2>1. Shown(q, x)'
    BY <1>2, <1>3, GraftSelf DEF ShownMoves
  <2> QED
    BY <1>1, <2>1, AbsExistsNext
<1>9. Abstract!Exists(State, q) =>
        /\ Abstract!IsFile(State, p) /\ Abstract!IsFile(State, q)
        /\ State.ns[q] \in Abstract!Range(State.opened)
  <2> SUFFICES ASSUME Abstract!Exists(State, q)
               PROVE  /\ Abstract!IsFile(State, p) /\ Abstract!IsFile(State, q)
                      /\ State.ns[q] \in Abstract!Range(State.opened)
    OBVIOUS
  <2>1. PICK z \in Item : Shown(q, z)
    BY <1>1, AbsExists
  <2>2. type[x] # "DIR" /\ type[z] # "DIR" /\ z \in Range(Opened)
    BY <2>1
  <2>3. z \in Abstract!Range(State.opened)
    BY <2>2 DEF Range, Abstract!Range, State
  <2> QED
    BY <1>1, <2>1, <2>2, <2>3, AbsIs
<1>10. ~Abstract!Under(p, q) /\ ~Abstract!Under(q, p)
  BY <1>3, SamePrefix
<1>11. State.ns = View /\ State.opened = Opened /\ State.inode = Inodes
  BY DEF State
<1>12. F = LET tail(r, full) == SubSeq(full, Len(r) + 1, Len(full))
               before(r) == IF Abstract!Under(q, r) THEN p \o tail(q, r) ELSE r
               stay == {r \in DOMAIN View : ~Abstract!Under(p, r) /\ ~Abstract!Under(q, r)}
               moved == {q \o tail(p, r) : r \in {r \in DOMAIN View : Abstract!Under(p, r)}}
           IN  [r \in stay \cup moved |-> View[before(r)]]
  BY DEF Renamed, Stay, Go, Before, Graft, Abstract!Under, IsPrefixOf
<1> HIDE DEF F
<1> QED
  BY <1>5, <1>6, <1>7, <1>8, <1>9, <1>10, <1>11, <1>12 DEF Abstract!Rename

(* What waits to be replaced stays so, at a place that is not renamed to.  *)
StillReplacing(q) ==
  \A r, y :
    Shown(r, y)' <=> \/ r \in Clients /\ Leads(r, y)'
                     \/ Replaces(r, y) /\ ~IsPrefixOf(q, r)

LEMMA MoveShown ==
  ASSUME TreeAssumption, FuseAssumption, NEW p \in Visible, NEW q \in Visible,
         ~There(q), Grafts(p, q), StillReplacing(q), \A r \in Replacing : ~IsPrefixOf(p, r)
  PROVE  ShownMoves(p, q)
PROOF
<1> SUFFICES ASSUME NEW r \in Clients, NEW y \in Item
             PROVE  Shown(r, y)' <=> \/ Shown(r, y) /\ ~IsPrefixOf(p, r) /\ ~IsPrefixOf(q, r)
                                     \/ IsPrefixOf(q, r) /\ Shown(Graft(p, q, r), y)
  BY DEF ShownMoves
<1> DEFINE g == Graft(p, q, r)
<1>1. r \in Seq(Name) /\ p \in Clients /\ q \in Clients /\ p \in Seq(Name) /\ q \in Seq(Name)
  BY VisibleIsClient, ClientIsPath
<1>2. Leads(r, y)' <=> \/ Leads(r, y) /\ ~IsPrefixOf(p, r)
                       \/ IsPrefixOf(q, r) /\ Leads(g, y)
  BY <1>1 DEF Grafts
<1>3. IsPrefixOf(q, r) => ~Leads(r, y)
  BY <1>1, NotBelow DEF There
<1>4. IsPrefixOf(q, r) => g \in Clients /\ IsPrefixOf(p, g)
  BY <1>1, GraftIsClient, GraftPrefix
<1> HIDE DEF g
<1>5. IsPrefixOf(q, r) => (Shown(g, y) <=> Leads(g, y))
  BY <1>4 DEF Shown, Replaces, Replacing
<1>6. Shown(r, y)' <=> \/ Leads(r, y)'
                       \/ Replaces(r, y) /\ ~IsPrefixOf(q, r)
  BY DEF StillReplacing
<1>7. Shown(r, y) <=> Leads(r, y) \/ Replaces(r, y)
  BY DEF Shown
<1>8. Replaces(r, y) => ~IsPrefixOf(p, r)
  BY DEF Replaces, Replacing
<1> QED
  BY <1>2, <1>3, <1>5, <1>6, <1>7, <1>8 DEF g

LEMMA MoveSeen ==
  ASSUME TreeAssumption, FuseAssumption, RefInv, RefInv', AttrsKept, Opened' = Opened,
         NEW p \in Visible, NEW q \in Visible, Apart(p, q),
         ~There(q), Grafts(p, q), StillReplacing(q), \A r \in Replacing : ~IsPrefixOf(p, r),
         NEW x \in Item, Leads(p, x), NEW d \in Item, Leads(Parent(q), d), type[d] = "DIR",
         \A z : Replaces(q, z) => type[x] # "DIR" /\ type[z] # "DIR" /\ z \in Range(Opened)
  PROVE  Abstract!Rename(State, State', p, q)
PROOF
<1>1. p \in Clients /\ q \in Clients /\ Parent(q) \in Clients
  BY VisibleIsClient
<1>2. ShownMoves(p, q)
  BY MoveShown
<1>3. Shown(p, x) /\ Shown(Parent(q), d)
  BY <1>1 DEF Shown
<1>4. \A z \in Item : Shown(q, z) => type[x] # "DIR" /\ type[z] # "DIR" /\ z \in Range(Opened)
  BY DEF Shown, There
<1> QED
  BY <1>2, <1>3, <1>4, RenamedSeen

(* A rename that goes through while others wait.                           *)
LEMMA LocksHold ==
  ASSUME TreeAssumption, FuseAssumption, FuseInv, FuseInv', RenameOK,
         UNCHANGED <<open, dead>>, type' = type,
         NEW p \in Visible, NEW q \in Visible,
         NEW x \in Item, Leads(p, x), name' = [name EXCEPT ![x] = ps_last_file(q)], Grafts(p, q),
         NEW r \in Waiting("rename"),
         ~IsPrefixOf(p, r.from), ~IsPrefixOf(p, r.to), ~IsPrefixOf(q, r.to)
  PROVE  Ready(r)'
PROOF
<1>1. /\ p \in Seq(Name) /\ q \in Seq(Name) /\ p # <<>>
      /\ ps_last_file(p) \notin HiddenName /\ TypesKept /\ IInv /\ Linked /\ TypeOK
  BY VisiblePath DEF TypesKept, FuseInv, IInv
<1>2. /\ r.to \in Seq(Name) /\ r.from \in Seq(Name) /\ Parent(r.to) \in Seq(Name) /\ r.to # <<>>
  BY RenameAsks DEF FuseInv
<1>3. ~IsPrefixOf(p, Parent(r.to))
  BY <1>1, <1>2, ParentPrefix
<1>4. (~There(r.to) => ~There(r.to)')
  BY <1>2 DEF Grafts, There
<1>5. Survives(Parent(r.to)) /\ Survives(r.from)
  BY <1>2, <1>3 DEF Grafts, Survives
<1>6. r.item \in Item /\ Hidden(r.item) /\ Using(r.item) # {}
  BY DEF RenameOK, Ready
<1>7. r.item # x
  BY <1>1, <1>6, LastName DEF Hidden
<1>8. Hidden(r.item)' /\ Using(r.item)' # {}
  BY <1>1, <1>6, <1>7 DEF Hidden, Using, Live, TypeOK
<1> QED
  BY <1>1, <1>4, <1>5, <1>8, RenameKept

(* A file a waiting rename has hidden stays while somebody uses it.        *)
LEMMA TreeStays ==
  ASSUME TreeAssumption, FuseAssumption, FuseInv, FuseInv', RenameOK, UNCHANGED tree,
         NEW r \in Waiting("rename"), Using(r.item)' # {}
  PROVE  Ready(r)'
PROOF
<1>1. TypesKept
  BY DEF TypesKept, tree
<1>2. \A q, y : Leads(q, y)' <=> Leads(q, y)
  BY LeadsSame DEF tree
<1>3. Hidden(r.item)'
  BY DEF RenameOK, Ready, Hidden, Live, tree
<1>4. /\ ~There(r.to) => ~There(r.to)'
      /\ Survives(Parent(r.to)) /\ Survives(r.from)
  BY <1>2 DEF There, Survives
<1> QED
  BY <1>1, <1>3, <1>4, RenameKept

(* Neither the tree nor its users change, and nothing more waits.          *)
LEMMA AllStays ==
  ASSUME TreeAssumption, FuseAssumption, FuseInv, FuseInv', RenameOK, UNCHANGED tree,
         Waiting("rename")' \subseteq Waiting("rename"), \A y : Using(y) \subseteq Using(y)'
  PROVE  RenameOK'
PROOF
<1> SUFFICES ASSUME NEW r \in Waiting("rename")
             PROVE  Ready(r)'
  BY DEF RenameOK
<1>1. Using(r.item) # {}
  BY DEF RenameOK, Ready
<1>2. Using(r.item)' # {}
  BY <1>1
<1> QED
  BY <1>2, TreeStays

(* The first call of a rename that replaces a file in use: clients see     *)
(* nothing of it.                                                          *)
LEMMA HideSeen ==
  ASSUME TreeAssumption, FuseAssumption, RefInv, FuseInv',
         NEW p \in Visible, NEW q \in Visible, KernelRenames(p, q), MayChange(q),
         fs_get_item(p, 0).ret = "OK", is_open(fs_get_item(q, 0).item), Hide(q), Effective,
         pending' = pending \cup
           {[op |-> "rename", from |-> p, to |-> q, item |-> fs_get_item(q, 0).item]},
         Attributes({}), UNCHANGED <<open, dead>>
  PROVE  RefInv' /\ State' = State
PROOF
<1>0. FuseInv /\ NamesFit /\ RenameOK /\ IInv /\ Linked /\ TypeOK
  BY DEF RefInv, FuseInv, IInv
<1>1. NamesFit' /\ type' = type /\ Loses(q)
  BY <1>0, HideIs
<1>2. PICK x \in Item :
        /\ Leads(q, x) /\ x = fs_get_item(q, 0).item /\ type[x] = "REG" /\ Using(x) # {}
        /\ name'[x] \in HiddenName /\ \A y \in Item : y # x => name'[y] = name[y]
  BY <1>0, HideIs
<1>3. /\ p \in Clients /\ q \in Clients /\ Parent(q) \in Clients /\ q # <<>>
      /\ p \in Seq(Name) /\ q \in Seq(Name) /\ Parent(q) \in Seq(Name) /\ ~IsPrefixOf(q, Parent(q))
  BY VisibleIsClient
<1>4. p # q /\ Parent(q) # q
  BY <1>3, PrefixSelf DEF KernelRenames
<1>5. PICK n : /\ n.op = "rename" /\ n.from = p /\ n.to = q /\ n.item = x
               /\ pending' = pending \cup {n}
  BY <1>2
<1>6. PICK z \in Item : Leads(p, z) /\ type[z] = "REG"
  <2> DEFINE z == fs_get_item(p, 0).item
  <2>1. Leads(p, z)
    BY <1>0, <1>3, FoundLeads
  <2>2. fs_get_item(q, 0) = Found(x)
    BY <1>0, <1>2, <1>3, LeadsFound
  <2>3. type[z] # "DIR"
    BY <1>2, <2>2 DEF KernelRenames, Found
  <2> HIDE DEF z
  <2>4. z \in Item /\ Live(z)
    BY <1>0, <1>3, <2>1, LeadsLive
  <2>5. type[z] = "REG"
    BY <1>0, <2>3, <2>4 DEF FuseInv, NoSockets, Live
  <2> QED
    BY <2>1, <2>4, <2>5
<1>7. PICK d \in Item : Leads(Parent(q), d) /\ type[d] = "DIR"
  <2>1. Len(q) - 1 \in 0..Len(q) /\ Parent(q) = Cut(q, Len(q) - 1) /\ Len(q) - 1 < Len(q)
    BY <1>3, ParentIsCut
  <2> QED
    BY <1>0, <1>2, <1>3, <2>1, CutLeads
<1>8. Ready(n)'
  <2>1. Hidden(x)' /\ Using(x)' # {}
    BY <1>1, <1>2 DEF Hidden, Using, Live
  <2>2. ~There(q)'
    BY <1>1, <1>3 DEF Loses, There
  <2>3. Leads(Parent(q), d)' /\ type'[d] = "DIR"
    BY <1>1, <1>3, <1>4, <1>7 DEF Loses
  <2>4. Leads(p, z)' /\ type'[z] = "REG"
    BY <1>1, <1>3, <1>4, <1>6 DEF Loses
  <2>5. ps_last_file(q) \notin LongName
    <3>1. name[x] = ps_last_file(q)
      BY <1>0, <1>2, <1>3, LastName
    <3> QED
      BY <1>0, <1>2, <3>1 DEF NamesFit
  <2> QED
    BY <1>2, <1>5, <2>1, <2>2, <2>3, <2>4, <2>5 DEF Ready
<1>9. RefInv'
  <2>1. TypesKept /\ \A i \in Item : Hidden(i) /\ Using(i) # {} => Hidden(i)' /\ Using(i)' # {}
    BY <1>1, <1>2 DEF TypesKept, Hidden, Live, Using
  <2>2. \A r \in Waiting("rename") : Ready(r)'
    BY <1>0, <1>1, <2>1, LostKept
  <2>3. RenameOK'
    BY <1>5, <1>8, <2>2 DEF RenameOK, Waiting
  <2> QED
    BY <1>1, <2>3 DEF RefInv
<1>10. \A r, y : Shown(r, y)' <=> Shown(r, y)
  <2> SUFFICES ASSUME NEW r, NEW y
               PROVE  Shown(r, y)' <=> Shown(r, y)
    OBVIOUS
  <2>1. Replaces(r, y)' <=> Replaces(r, y) \/ (r = q /\ y = x)
    BY <1>5 DEF Replaces, Waiting
  <2>2. Replaces(r, y) => r # q
    BY <1>3, NotReplacing DEF MayChange, Replaces, Replacing
  <2>3. Leads(q, y) <=> y = x
    BY <1>0, <1>2, <1>3, LeadsOnce
  <2>4. r \in Clients => (Leads(r, y)' <=> Leads(r, y) /\ r # q)
    <3> SUFFICES ASSUME r \in Clients
                 PROVE  Leads(r, y)' <=> Leads(r, y) /\ r # q
      OBVIOUS
    <3>1. r \in Seq(Name)
      BY ClientIsPath
    <3>2. (Leads(r, y) => y \in Item) /\ (Leads(r, y)' => y \in Item)
      BY <3>1 DEF Leads
    <3> QED
      BY <1>1, <3>2 DEF Loses
  <2> QED
    BY <1>3, <2>1, <2>2, <2>3, <2>4 DEF Shown
<1>11. View' = View
  <2>1. ViewIs /\ ViewIs'
    BY <1>9, Views
  <2> QED
    BY <1>10, <2>1, SameView
<1>12. AttrsKept
  <2>1. TypesKept
    BY <1>1 DEF TypesKept
  <2> QED
    BY <2>1, AttributesKept
<1>13. Opened' = Opened
  BY DEF Opened
<1> QED
  BY <1>9, <1>11, <1>12, <1>13, StateSame

LEMMA RenameSeen ==
  ASSUME TreeAssumption, FuseAssumption, RefInv, FuseRename
  PROVE  RefInv' /\ (State' = State \/ \E p, q \in Visible : Abstract!Rename(State, State', p, q))
PROOF
<1>0. FuseInv /\ NamesFit /\ RenameOK /\ FuseInv'
  BY FuseRenameOK DEF RefInv
<1>1. PICK p \in Visible, q \in Visible :
        /\ MayChange(p) /\ MayChange(q) /\ KernelRenames(p, q)
        /\ LET target == fs_get_item(q, 0).item
           IN  IF fs_get_item(p, 0).ret = "OK" /\ is_open(target)
               THEN /\ Hide(q)
                    /\ pending' = pending \cup
                         {[op |-> "rename", from |-> p, to |-> q, item |-> target]}
               ELSE fdo_rename(p, q) /\ UNCHANGED pending
        /\ Effective
        /\ Attributes({})
        /\ UNCHANGED <<open, dead>>
  BY DEF FuseRename
<1>2. CASE fs_get_item(p, 0).ret = "OK" /\ is_open(fs_get_item(q, 0).item)
  BY <1>0, <1>1, <1>2, HideSeen
<1>3. CASE ~(fs_get_item(p, 0).ret = "OK" /\ is_open(fs_get_item(q, 0).item))
  <2>1. fdo_rename(p, q) /\ pending' = pending
    BY <1>1, <1>3
  <2>2. Apart(p, q) /\ ~IsPrefixOf(p, q)
    BY <1>1 DEF KernelRenames, Apart
  <2>3. p \in Paths /\ q \in Paths /\ p \in Seq(Name) /\ q \in Seq(Name)
    BY VisiblePath
  <2>4. /\ NamesFit' /\ type' = type
        /\ \/ UNCHANGED tree
           \/ \E x \in Item, d \in Item :
                /\ Leads(p, x) /\ type[d] = "DIR" /\ Leads(Parent(q), d) /\ ~There(q)
                /\ name' = [name EXCEPT ![x] = ps_last_file(q)]
                /\ Grafts(p, q)
    BY <1>0, <1>1, <2>1, <2>2, <2>3, MoveIs
  <2>5. /\ AttrsKept /\ Opened' = Opened /\ \A y : Using(y)' = Using(y)
        /\ Waiting("rename")' = Waiting("rename") /\ \A r, y : Replaces(r, y)' <=> Replaces(r, y)
    <3>1. TypesKept
      BY <2>4 DEF TypesKept
    <3>2. AttrsKept
      BY <1>1, <3>1, AttributesKept
    <3> QED
      BY <1>1, <2>1, <3>2, ReplacesSame DEF Opened, Using, Waiting
  <2>6. CASE UNCHANGED tree
    <3>1. RenameOK'
      BY <1>0, <2>5, <2>6, AllStays
    <3>2. RefInv'
      BY <1>0, <2>4, <3>1 DEF RefInv
    <3>3. \A r, y : Shown(r, y)' <=> Shown(r, y)
      BY <2>1, <2>5, <2>6, LeadsSame DEF Shown, tree
    <3>4. View' = View
      BY <3>2, <3>3, Views, SameView
    <3> QED
      BY <2>5, <3>2, <3>4, StateSame
  <2>7. CASE ~UNCHANGED tree
    <3>1. PICK x \in Item, d \in Item :
            /\ Leads(p, x) /\ type[d] = "DIR" /\ Leads(Parent(q), d) /\ ~There(q)
            /\ name' = [name EXCEPT ![x] = ps_last_file(q)]
            /\ Grafts(p, q)
      BY <2>4, <2>7
    <3>2. RenameOK'
      <4>1. \A r \in Waiting("rename") :
              ~IsPrefixOf(p, r.from) /\ ~IsPrefixOf(p, r.to) /\ ~IsPrefixOf(q, r.to)
        BY <1>1 DEF MayChange, Exclusive
      <4>2. \A r \in Waiting("rename") : Ready(r)'
        BY <1>0, <1>1, <2>4, <3>1, <4>1, LocksHold
      <4> QED
        BY <2>5, <4>2 DEF RenameOK
    <3>3. RefInv'
      BY <1>0, <2>4, <3>2 DEF RefInv
    <3>4. \A r \in Replacing : ~IsPrefixOf(p, r) /\ ~IsPrefixOf(q, r)
      BY <1>1 DEF Replacing, MayChange, Exclusive
    <3>5. StillReplacing(q)
      BY <2>5, <3>4 DEF StillReplacing, Shown, Replaces, Replacing
    <3>6. \A z : ~Replaces(q, z)
      BY <2>3, <3>4, PrefixSelf DEF Replaces, Replacing
    <3>7. Abstract!Rename(State, State', p, q)
      BY <2>2, <2>5, <3>1, <3>3, <3>4, <3>5, <3>6, MoveSeen
    <3> QED
      BY <3>3, <3>7
  <2> QED
    BY <2>6, <2>7
<1> QED
  BY <1>2, <1>3

(* The second call finds what it needs and succeeds.                       *)
LEMMA FinishFinds ==
  ASSUME TreeAssumption, FuseAssumption, RefInv, NEW r \in Waiting("rename")
  PROVE  /\ parse_path_string(r.from) = "OK" /\ fs_get_item(r.from, 0).ret = "OK"
         /\ parse_path_string(r.to) = "OK" /\ fs_get_item(r.to, 0).ret = "ENOENT"
         /\ fs_get_dir_item(r.to, 1).ret = "OK"
PROOF
<1>0. FuseInv /\ NamesFit /\ Ready(r) /\ IInv /\ Linked
  BY DEF RefInv, FuseInv, IInv, RenameOK
<1>1. PICK p, q : p = r.from /\ q = r.to
  OBVIOUS
<1>2. p \in Seq(Name) /\ q \in Seq(Name) /\ p # <<>> /\ q # <<>>
  BY <1>0, <1>1, RenameAsks DEF FuseInv
<1>3. ~There(q) /\ ps_last_file(q) \notin LongName
  BY <1>0, <1>1 DEF Ready
<1>4. PICK d \in Item : Leads(Parent(q), d) /\ type[d] = "DIR"
  BY <1>0, <1>1 DEF Ready
<1>5. PICK x \in Item : Leads(p, x)
  BY <1>0, <1>1 DEF Ready
<1>6. ps_last_file(p) \notin LongName
  <2>1. name[x] = ps_last_file(p)
    BY <1>0, <1>2, <1>5, LastName
  <2> QED
    BY <1>0, <1>5, <2>1 DEF NamesFit
<1>7. fs_get_item(p, 0) = Found(x)
  BY <1>0, <1>2, <1>5, LeadsFound
<1> DEFINE k == Len(q) - 1
           w == Walk(q, k)[k]
<1>8. /\ k \in 0..Len(q) /\ Cut(q, k) = Parent(q) /\ Parent(q) \in Seq(Name)
      /\ fs_get_item(q, 1) = w
  BY <1>2, ParentIsCut, CutProps DEF fs_get_item
<1> HIDE DEF k
<1>9. /\ w = Found(w.item) /\ Leads(Parent(q), w.item)
      /\ ~\E j \in 1..(k - 1) : Blocks(Cut(q, j))
  BY <1>0, <1>2, <1>4, <1>8, WalkAnswers DEF There
<1>10. w = Found(d)
  BY <1>0, <1>4, <1>8, <1>9, LeadsOnce
<1>11. fs_get_dir_item(q, 1).ret = "OK"
  BY <1>4, <1>8, <1>10 DEF fs_get_dir_item, fs_item_is_dir, Found
<1>12. fs_get_item(q, 0).ret = "ENOENT"
  <2>1. ~Blocks(Parent(q))
    BY <1>0, <1>4, <1>8, LeadsOnce DEF Blocks, fs_item_is_dir
  <2>2. ASSUME NEW j \in 1..(Len(q) - 1)
        PROVE  ~Blocks(Cut(q, j))
    <3>1. j \in 1..(k - 1) \/ j = k
      BY <1>2 DEF k
    <3> QED
      BY <1>8, <1>9, <2>1, <3>1
  <2>3. fs_get_item(q, 0) = Fail("ENOENT")
    BY <1>0, <1>2, <1>3, <2>2, GetAnswers
  <2> QED
    BY <2>3 DEF Fail
<1> QED
  BY <1>1, <1>3, <1>6, <1>7, <1>11, <1>12 DEF parse_path_string, Found

LEMMA FinishGoes ==
  ASSUME TreeAssumption, FuseAssumption, RefInv, NEW r \in Waiting("rename"),
         fdo_rename(r.from, r.to)
  PROVE  reply'.ret = "OK"
PROOF
<1>0. FuseInv /\ NamesFit /\ Ready(r) /\ IInv /\ Linked
  BY DEF RefInv, FuseInv, IInv, RenameOK
<1>1. PICK p, q : p = r.from /\ q = r.to
  OBVIOUS
<1>2. fdo_rename(p, q)
  BY <1>1
<1>3. p \in Seq(Name) /\ q \in Seq(Name) /\ p # <<>> /\ q # <<>>
  BY <1>0, <1>1, RenameAsks DEF FuseInv
<1>4. ~There(q) /\ ps_last_file(q) \notin LongName
  BY <1>0, <1>1 DEF Ready
<1>5. PICK d \in Item : Leads(Parent(q), d) /\ type[d] = "DIR"
  BY <1>0, <1>1 DEF Ready
<1>6. PICK x \in Item : Leads(p, x)
  BY <1>0, <1>1 DEF Ready
<1>7. ps_last_file(p) \notin LongName
  <2>1. name[x] = ps_last_file(p)
    BY <1>0, <1>3, <1>6, LastName
  <2> QED
    BY <1>0, <1>6, <2>1 DEF NamesFit
<1> QED
  BY <1>0, <1>2, <1>3, <1>4, <1>5, <1>6, <1>7, RenameGoes

(* The second call: now clients see the whole rename.                      *)
LEMMA FinishRenameSeen ==
  ASSUME TreeAssumption, FuseAssumption, RefInv, FinishRename
  PROVE  RefInv' /\ \E p, q \in Visible : Abstract!Rename(State, State', p, q)
PROOF
<1>0. FuseInv /\ NamesFit /\ RenameOK /\ FuseInv' /\ IInv /\ Linked
  BY FinishRenameOK DEF RefInv, FuseInv, IInv
<1>1. PICK n \in Waiting("rename") : fdo_rename(n.from, n.to) /\ pending' = pending \ {n}
  BY DEF FinishRename
<1>2. PICK p, q, i : p = n.from /\ q = n.to /\ i = n.item
  OBVIOUS
<1>3. fdo_rename(p, q) /\ Attributes({}) /\ open' = open /\ dead' = dead
  BY <1>1, <1>2 DEF FinishRename
<1>4. /\ p \in Visible /\ q \in Visible /\ Apart(p, q) /\ ~IsPrefixOf(p, q)
      /\ p \in Seq(Name) /\ q \in Seq(Name) /\ p # <<>> /\ q # <<>>
      /\ q \in Clients /\ p \in Paths /\ q \in Paths
  BY <1>0, <1>2, RenameAsks, VisiblePath DEF FuseInv, Apart
<1>5. \A r \in Waiting("rename") :
        r = n \/ /\ ~IsPrefixOf(p, r.from) /\ ~IsPrefixOf(p, r.to)
                 /\ ~IsPrefixOf(q, r.from) /\ ~IsPrefixOf(q, r.to)
  BY <1>0, <1>2, LocksApart DEF FuseInv
<1>6. Ready(n)
  BY <1>0 DEF RenameOK
<1>7. i \in Item /\ Hidden(i) /\ Using(i) # {} /\ ~There(q) /\ type[i] = "REG"
  BY <1>0, <1>2, <1>6 DEF Ready, FuseInv, HiddenOK
<1>8. PICK d \in Item : Leads(Parent(q), d) /\ type[d] = "DIR"
  BY <1>2, <1>6 DEF Ready
<1>9. PICK x \in Item : Leads(p, x) /\ type[x] = "REG"
  BY <1>2, <1>6 DEF Ready
<1>10. reply'.ret = "OK"
  BY <1>1, FinishGoes
<1>11. /\ NamesFit' /\ type' = type
       /\ \E z \in Item :
            /\ Leads(p, z) /\ name' = [name EXCEPT ![z] = ps_last_file(q)]
            /\ Grafts(p, q)
  BY <1>0, <1>3, <1>4, <1>10, MoveIs DEF Effective
<1>12. name' = [name EXCEPT ![x] = ps_last_file(q)] /\ Grafts(p, q)
  BY <1>0, <1>4, <1>9, <1>11, LeadsOnce
<1>13. RefInv'
  <2>1. \A r \in Waiting("rename") \ {n} : Ready(r)'
    BY <1>0, <1>3, <1>4, <1>5, <1>9, <1>11, <1>12, LocksHold
  <2>2. RenameOK'
    BY <1>1, <2>1 DEF RenameOK, Waiting
  <2> QED
    BY <1>0, <1>11, <2>2 DEF RefInv
<1>14. AttrsKept /\ Opened' = Opened
  <2>1. TypesKept
    BY <1>11 DEF TypesKept
  <2>2. AttrsKept
    BY <1>3, <2>1, AttributesKept
  <2> QED
    BY <1>3, <2>2 DEF Opened
<1>15. StillReplacing(q)
  <2>1. IsPrefixOf(q, n.to)
    BY <1>2, <1>4, PrefixSelf
  <2>2. \A r, y : Replaces(r, y)' <=> Replaces(r, y) /\ ~IsPrefixOf(q, r)
    BY <1>1, <1>5, <2>1 DEF Replaces, Waiting
  <2> QED
    BY <2>2 DEF StillReplacing, Shown
<1>16. \A z : Replaces(q, z) => type[x] # "DIR" /\ type[z] # "DIR" /\ z \in Range(Opened)
  <2> SUFFICES ASSUME NEW z, Replaces(q, z)
               PROVE  type[x] # "DIR" /\ type[z] # "DIR" /\ z \in Range(Opened)
    OBVIOUS
  <2>1. PICK r \in Waiting("rename") : r.to = q /\ z = r.item
    BY DEF Replaces
  <2>2. z = i
    BY <1>0, <1>2, <2>1, ReplacesOne DEF FuseInv
  <2> QED
    BY <1>7, <1>9, <2>2 DEF Using, Opened, Range
<1>17. Abstract!Rename(State, State', p, q)
  <2>1. \A r \in Replacing : ~IsPrefixOf(p, r)
    BY <1>2, <1>4, <1>5 DEF Replacing
  <2> QED
    BY <1>4, <1>7, <1>8, <1>9, <1>12, <1>13, <1>14, <1>15, <1>16, <2>1, MoveSeen
<1> QED
  BY <1>4, <1>13, <1>17

-----------------------------------------------------------------------------
(* The tree and its paths stay.                                            *)
LEMMA ViewStays ==
  ASSUME TreeAssumption, FuseAssumption, RefInv, RefInv', UNCHANGED items,
         Waiting("rename")' = Waiting("rename")
  PROVE  View' = View
PROOF
<1>1. \A r, y : Leads(r, y)' <=> Leads(r, y)
  BY LeadsSame
<1>2. \A r, y : Replaces(r, y)' <=> Replaces(r, y)
  BY DEF Replaces
<1>3. \A r, y : Shown(r, y)' <=> Shown(r, y)
  BY <1>1, <1>2 DEF Shown
<1> QED
  BY <1>3, Views, SameView

LEMMA OpenSeen ==
  ASSUME TreeAssumption, FuseAssumption, RefInv, Open
  PROVE  RefInv' /\ \E f \in File, p \in Visible : Abstract!Open(State, State', f, p)
PROOF
<1>0. FuseInv /\ NamesFit /\ RenameOK /\ FuseInv' /\ TypeOK /\ Linked
  BY OpenStepOK DEF RefInv, FuseInv, IInv
<1>1. PICK f \in File \ DOMAIN open, p \in Visible :
        LET r == fs_get_item(p, 0)
        IN  /\ MayReach(p)
            /\ r.ret = "OK"
            /\ open' = [g \in DOMAIN open \cup {f} |-> IF g = f THEN r.item ELSE open[g]]
            /\ UNCHANGED <<vars, attr, dead, pending>>
  BY DEF Open
<1> DEFINE x == fs_get_item(p, 0).item
<1>2. /\ MayReach(p) /\ attr' = attr /\ dead' = dead /\ pending' = pending
      /\ UNCHANGED <<type, name, items>> /\ UNCHANGED tree
      /\ open' = [g \in DOMAIN open \cup {f} |-> IF g = f THEN x ELSE open[g]]
  BY <1>1 DEF vars, tree
<1>3. p \in Clients /\ p \in Seq(Name)
  BY VisibleIsClient
<1>4. Leads(p, x)
  BY <1>0, <1>1, <1>3, FoundLeads
<1> HIDE DEF x
<1>5. x \in Item /\ Shown(p, x)
  BY <1>3, <1>4, LeadsItem DEF Shown
<1>6. f \notin dead /\ dead \subseteq DOMAIN open /\ DOMAIN open \subseteq File
  BY <1>0 DEF FuseInv, OpenOK
<1>7. RefInv'
  <2>1. \A y : Using(y) \subseteq Using(y)'
    BY <1>2, <1>6 DEF Using
  <2>2. RenameOK'
    BY <1>0, <1>2, <2>1, AllStays DEF Waiting
  <2> QED
    BY <1>0, <1>2, <2>2 DEF RefInv, NamesFit
<1>8. Waiting("rename")' = Waiting("rename")
  BY <1>2 DEF Waiting
<1>9. View' = View
  BY <1>2, <1>7, <1>8, ViewStays
<1> DEFINE G == Abstract!With(Opened, f, x)
<1>10. Opened' = G
  <2>1. DOMAIN open' \ dead' = (DOMAIN open \ dead) \cup {f}
    BY <1>2, <1>6
  <2>2. DOMAIN Opened = DOMAIN open \ dead
    BY DEF Opened
  <2>3. \A g \in DOMAIN open' \ dead' : open'[g] = IF g = f THEN x ELSE Opened[g]
    BY <1>2, <2>1 DEF Opened
  <2> QED
    BY <2>1, <2>2, <2>3 DEF Abstract!With, Opened
<1>11. ViewIs
  BY <1>7, Views
<1>12. x \in Range(View) /\ Abstract!Exists(State, p) /\ State.ns[p] = x
  <2>1. p \in DOMAIN View /\ View[p] = x
    BY <1>5, <1>11 DEF ViewIs
  <2> QED
    <3>1. x \in Range(View)
      BY <2>1 DEF Range
    <3>2. Abstract!Exists(State, p) /\ State.ns[p] = x
      BY <1>5, <1>11, AbsIs
    <3> QED
      BY <3>1, <3>2
<1>13. Range(View) \cup Range(G) = Range(View) \cup Range(Opened)
  <2>1. f \notin DOMAIN Opened
    BY <1>6 DEF Opened
  <2>2. Range(G) = Range(Opened) \cup {x}
    <3>1. DOMAIN G = DOMAIN Opened \cup {f} /\ G[f] = x /\ \A g \in DOMAIN Opened : G[g] = Opened[g]
      BY <2>1 DEF Abstract!With
    <3> HIDE DEF G
    <3> QED
      BY <3>1 DEF Range
  <2> QED
    BY <1>12, <2>2
<1> HIDE DEF G
<1>14. Inodes' = Inodes
  BY <1>2, <1>9, <1>10, <1>13 DEF Inodes, Range
<1>15. State' = [State EXCEPT !.opened = G]
  BY <1>9, <1>10, <1>14 DEF State
<1>16. f \notin DOMAIN State.opened /\ State.opened = Opened
  BY <1>6 DEF State, Opened
<1>17. Abstract!Open(State, State', f, p)
  BY <1>12, <1>15, <1>16 DEF Abstract!Open, G
<1> QED
  BY <1>7, <1>17

LEMMA ReleaseSeen ==
  ASSUME TreeAssumption, FuseAssumption, RefInv, Release
  PROVE  RefInv' /\ (State' = State \/ \E f \in File : Abstract!Close(State, State', f))
PROOF
<1>0. FuseInv /\ NamesFit /\ RenameOK /\ FuseInv'
  BY ReleaseOK DEF RefInv
<1>1. PICK f \in DOMAIN open :
        LET x == open[f]
            last == f \notin dead /\ Using(x) = {f} /\ type[x] = "REG" /\ name[x] \in HiddenName
        IN  /\ f \notin dead => MayReach(PathTo(x))
            /\ open' = [g \in DOMAIN open \ {f} |-> open[g]]
            /\ dead' = dead \ {f}
            /\ IF last
               THEN pending' = pending \cup
                      {[op |-> "release", from |-> PathTo(x), to |-> <<>>, item |-> x]}
               ELSE UNCHANGED pending
            /\ UNCHANGED <<vars, attr>>
  BY DEF Release
<1>2. /\ open' = [g \in DOMAIN open \ {f} |-> open[g]] /\ dead' = dead \ {f}
      /\ attr' = attr /\ UNCHANGED <<type, name, items>> /\ UNCHANGED tree
      /\ f \notin dead => MayReach(PathTo(open[f]))
      /\ Waiting("rename")' = Waiting("rename")
  BY <1>1 DEF vars, tree, Waiting
<1>3. /\ f \in File /\ dead \subseteq DOMAIN open
  BY <1>0 DEF FuseInv, OpenOK
<1>4. ASSUME NEW r \in Waiting("rename")
      PROVE  Ready(r)'
  <2>1. r.item \in Item /\ Live(r.item) /\ Using(r.item) # {} /\ IInv /\ Linked /\ TypeOK /\ Rooted
    BY <1>0 DEF RenameOK, Ready, Hidden, FuseInv, IInv
  <2>2. PICK p \in Seq(Name) : Leads(p, r.item)
    BY <2>1, LiveHasPath
  <2>3. PathTo(r.item) = p
    BY <2>1, <2>2, PathToIsPath DEF FuseAssumption
  <2>4. IsPrefixOf(PathTo(r.item), PathTo(r.item))
    BY <2>3, PrefixSelf
  <2>5. f \notin Using(r.item)
    BY <1>2, <2>4 DEF Using, MayReach, Exclusive
  <2>6. Using(r.item) \subseteq Using(r.item)'
    BY <1>2, <2>5 DEF Using
  <2> QED
    BY <1>0, <1>2, <2>1, <2>6, TreeStays
<1>5. RefInv'
  BY <1>0, <1>2, <1>4 DEF RefInv, NamesFit, RenameOK
<1>7. View' = View
  BY <1>2, <1>5, ViewStays
<1>8. AttrsKept
  BY <1>2 DEF AttrsKept
<1>9. CASE f \in dead
  <2>1. Opened' = Opened
    <3>1. DOMAIN open' \ dead' = DOMAIN open \ dead
      BY <1>2, <1>9
    <3>2. \A g \in DOMAIN open \ dead : open'[g] = open[g]
      BY <1>2, <1>9
    <3> QED
      BY <3>1, <3>2 DEF Opened
  <2> QED
    BY <1>5, <1>7, <1>8, <2>1, StateSame
<1>10. CASE f \notin dead
  <2> DEFINE G == Abstract!Without(Opened, {f})
  <2>1. Opened' = G
    <3>1. DOMAIN open' \ dead' = (DOMAIN open \ dead) \ {f}
      BY <1>2, <1>10
    <3>2. \A g \in (DOMAIN open \ dead) \ {f} : open'[g] = open[g]
      BY <1>2
    <3> QED
      BY <3>1, <3>2 DEF Opened, Abstract!Without
  <2>2. Range(G) \subseteq Range(Opened)
    BY DEF Range, Abstract!Without
  <2>3. State' = Abstract!Holding(View, G, Inodes)
    <3> HIDE DEF G
    <3>1. Range(View) \cup Range(G) \subseteq Held
      BY <2>2 DEF Held
    <3> QED
      BY <1>5, <1>7, <1>8, <2>1, <3>1, StateHolds
  <2>4. State.ns = View /\ State.opened = Opened /\ State.inode = Inodes /\ f \in DOMAIN Opened
    BY <1>10 DEF State, Opened
  <2>5. Abstract!Close(State, State', f)
    BY <2>3, <2>4 DEF Abstract!Close
  <2> QED
    BY <1>3, <1>5, <2>5
<1> QED
  BY <1>9, <1>10

(* What libfuse has hidden goes away unseen.                               *)
LEMMA FinishReleaseSeen ==
  ASSUME TreeAssumption, FuseAssumption, RefInv, FinishRelease
  PROVE  RefInv' /\ State' = State
PROOF
<1>0. FuseInv /\ NamesFit /\ RenameOK /\ FuseInv' /\ IInv /\ Linked
  BY FinishReleaseOK DEF RefInv, FuseInv, IInv
<1>1. PICK n \in Waiting("release") : fdo_unlink(n.from) /\ pending' = pending \ {n}
  BY DEF FinishRelease
<1> DEFINE p == n.from
           x == n.item
<1>2. /\ fdo_unlink(p) /\ Attributes({}) /\ open' = open /\ dead' = dead
      /\ Waiting("rename")' = Waiting("rename")
  BY <1>1 DEF FinishRelease, Waiting
<1>3. /\ p \in Seq(Name) /\ p # <<>> /\ x \in Item /\ Hidden(x)
      /\ Leads(p, x) /\ Using(x) = {}
  BY <1>0 DEF FuseInv, PendingOK, Asks, Kept, Waiting
<1> HIDE DEF p, x
<1>4. type[x] = "REG" /\ name[x] = ps_last_file(p)
  BY <1>0, <1>3, LastName DEF FuseInv, HiddenOK
<1>5. ps_last_file(p) \in HiddenName /\ ps_last_file(p) \notin LongName
  BY <1>3, <1>4 DEF Hidden, FuseAssumption
<1>6. reply'.ret = "OK"
  <2>1. fs_get_item(p, 0) = Found(x)
    BY <1>0, <1>3, LeadsFound
  <2>2. fs_get_file_item(p) = Found(x)
    BY <1>4, <2>1 DEF fs_get_file_item, fs_item_is_dir, Found
  <2> QED
    BY <1>2, <1>5, <2>2 DEF fdo_unlink, fs_file_delete, parse_path_string, Found, Answer
<1>7. x # Root /\ Live(x) /\ items[x] = EmptyMap /\ DeleteItem(x)
  <2>1. PICK y \in Item :
          /\ y # Root /\ Live(y) /\ Leads(p, y)
          /\ items[y] = EmptyMap /\ DeleteItem(y)
    BY <1>0, <1>2, <1>3, <1>6, UnlinkEffect
  <2>2. y = x
    BY <1>0, <1>3, <2>1, LeadsOnce
  <2> QED
    BY <2>1, <2>2
<1>8. /\ NamesFit' /\ TypesKept /\ Drops(p)
      /\ \A y \in Item : y # x => type'[y] = type[y] /\ name'[y] = name[y]
  BY <1>0, <1>3, <1>7, DeleteIs
<1>9. p \notin Clients
  <2>1. Len(p) \in 1..Len(p) /\ p[Len(p)] \in HiddenName
    BY <1>3, <1>5 DEF ps_last_file
  <2> QED
    BY <2>1, ClientIsPath
<1>10. RefInv'
  <2>1. ASSUME NEW r \in Waiting("rename")
        PROVE  Ready(r)'
    <3>1. /\ r.to \in Clients /\ r.from \in Clients /\ Parent(r.to) \in Clients
          /\ r.to \in Seq(Name) /\ r.from \in Seq(Name) /\ Parent(r.to) \in Seq(Name)
      BY <1>0, RenameAsks, VisibleIsClient DEF FuseInv
    <3>2. /\ ~There(r.to) => ~There(r.to)'
          /\ Survives(Parent(r.to)) /\ Survives(r.from)
      BY <1>8, <1>9, <3>1 DEF Drops, There, Survives
    <3>3. r.item \in Item /\ Hidden(r.item) /\ Using(r.item) # {} /\ r.item # x
      BY <1>0, <1>3 DEF RenameOK, Ready
    <3>4. Hidden(r.item)' /\ Using(r.item)' # {}
      BY <1>2, <1>8, <3>3 DEF Hidden, Using, Live
    <3> QED
      BY <1>0, <1>8, <3>2, <3>4, RenameKept
  <2>2. RenameOK'
    BY <1>2, <2>1 DEF RenameOK
  <2> QED
    BY <1>0, <1>8, <2>2 DEF RefInv
<1>11. \A r, y : Shown(r, y)' <=> Shown(r, y)
  <2> SUFFICES ASSUME NEW r, NEW y
               PROVE  Shown(r, y)' <=> Shown(r, y)
    OBVIOUS
  <2>1. Replaces(r, y)' <=> Replaces(r, y)
    BY <1>2 DEF Replaces
  <2>2. r \in Clients => (Leads(r, y)' <=> Leads(r, y))
    <3> SUFFICES ASSUME r \in Clients
                 PROVE  Leads(r, y)' <=> Leads(r, y)
      OBVIOUS
    <3>1. r \in Seq(Name) /\ r # p
      BY <1>9, ClientIsPath
    <3>2. (Leads(r, y) => y \in Item) /\ (Leads(r, y)' => y \in Item)
      BY <3>1 DEF Leads
    <3> QED
      BY <1>8, <3>1, <3>2 DEF Drops
  <2> QED
    BY <2>1, <2>2 DEF Shown
<1>12. View' = View
  BY <1>10, <1>11, Views, SameView
<1>13. AttrsKept /\ Opened' = Opened
  BY <1>2, <1>8, AttributesKept DEF Opened
<1> QED
  BY <1>10, <1>12, <1>13, StateSame

(* Attributes change, nothing else.                                        *)
LEMMA PlacesStay ==
  ASSUME TreeAssumption, FuseAssumption, RefInv, FuseInv', type' = type,
         UNCHANGED <<name, parent, items, open, dead, pending>>
  PROVE  RefInv' /\ View' = View /\ Opened' = Opened
PROOF
<1>0. FuseInv /\ NamesFit /\ RenameOK /\ OpenOK
  BY DEF RefInv, FuseInv
<1>1. RenameOK'
  <2>1. \A y : Using(y)' = Using(y)
    BY DEF Using
  <2>2. UNCHANGED tree /\ Waiting("rename")' = Waiting("rename")
    BY DEF tree, Waiting
  <2> QED
    BY <1>0, <2>1, <2>2, AllStays
<1>2. RefInv'
  BY <1>0, <1>1 DEF RefInv, NamesFit
<1>3. View' = View
  <2>1. Waiting("rename")' = Waiting("rename")
    BY DEF Waiting
  <2> QED
    BY <1>2, <2>1, ViewStays
<1> QED
  BY <1>2, <1>3 DEF Opened

LEMMA ChmodSeen ==
  ASSUME TreeAssumption, FuseAssumption, RefInv, Chmod
  PROVE  /\ RefInv'
         /\ \/ State' = State
            \/ \E x \in DOMAIN State.inode, m \in Perm : Abstract!Chmod(State, State', x, m)
PROOF
<1>0. FuseInv /\ TypeOK /\ AttrOK /\ FuseInv'
  BY ChmodOK DEF RefInv, FuseInv, IInv
<1>1. PICK x \in Addressed, m \in Perm : _fs_chmod(x, type[x], m)
  BY DEF Chmod
<1>2. type' = type /\ attr' = [attr EXCEPT ![x].perm = m]
      /\ UNCHANGED <<name, parent, items, open, dead, pending>>
  BY <1>0, <1>1 DEF Chmod, _fs_chmod, TypeOK
<1>3. RefInv' /\ View' = View /\ Opened' = Opened
  BY <1>0, <1>2, PlacesStay
<1>4. Inodes = [y \in Held |-> [type |-> type[y], attr |-> attr[y]]]
      /\ Inodes' = [y \in Held |-> [type |-> type[y], attr |-> attr'[y]]]
  BY <1>2, <1>3 DEF Inodes, Held, Range
<1>5. \A y \in Held : y \in Item
  BY HeldLive
<1>6. CASE x \in Held
  <2>1. Inodes' = [Inodes EXCEPT ![x].attr.perm = m]
    <3>1. \A y \in Held : attr'[y] = IF y = x THEN [attr[x] EXCEPT !.perm = m] ELSE attr[y]
      BY <1>0, <1>2, <1>5 DEF AttrOK
    <3> QED
      BY <1>4, <1>6, <3>1
  <2>2. State' = [State EXCEPT !.inode[x].attr.perm = m]
    BY <1>3, <2>1 DEF State
  <2>3. x \in DOMAIN State.inode
    BY <1>4, <1>6 DEF State
  <2> QED
    BY <1>3, <2>2, <2>3 DEF Abstract!Chmod
<1>7. CASE x \notin Held
  <2>1. \A y \in Held : attr'[y] = attr[y]
    BY <1>0, <1>2, <1>5, <1>7 DEF AttrOK
  <2>2. Inodes' = Inodes
    BY <1>4, <2>1
  <2> QED
    BY <1>3, <2>2 DEF State
<1> QED
  BY <1>6, <1>7

LEMMA ChownSeen ==
  ASSUME TreeAssumption, FuseAssumption, RefInv, Chown
  PROVE  /\ RefInv'
         /\ \/ State' = State
            \/ \E x \in DOMAIN State.inode, ids \in ChownTo : Abstract!Chown(State, State', x, ids)
PROOF
<1>0. FuseInv /\ AttrOK /\ FuseInv'
  BY ChownOK DEF RefInv, FuseInv
<1>1. PICK x \in Addressed, ids \in ChownTo : _fs_chown(x, ids[1], ids[2])
  BY DEF Chown
<1> DEFINE u == ids[1]
           g == ids[2]
<1>2. type' = type /\ attr' = [attr EXCEPT ![x].uid = u, ![x].gid = g]
      /\ UNCHANGED <<name, parent, items, open, dead, pending>>
  BY <1>1 DEF Chown, _fs_chown, vars
<1>3. RefInv' /\ View' = View /\ Opened' = Opened
  BY <1>0, <1>2, PlacesStay
<1>4. Inodes = [y \in Held |-> [type |-> type[y], attr |-> attr[y]]]
      /\ Inodes' = [y \in Held |-> [type |-> type[y], attr |-> attr'[y]]]
  BY <1>2, <1>3 DEF Inodes, Held, Range
<1>5. \A y \in Held : y \in Item
  BY HeldLive
<1>6. CASE x \in Held
  <2>1. Inodes' = [Inodes EXCEPT ![x].attr.uid = u, ![x].attr.gid = g]
    <3> HIDE DEF u, g
    <3>1. \A y \in Held : attr'[y] = IF y = x THEN [attr[x] EXCEPT !.uid = u, !.gid = g] ELSE attr[y]
      BY <1>0, <1>2, <1>5 DEF AttrOK
    <3> QED
      BY <1>4, <1>6, <3>1
  <2>2. State' = [State EXCEPT !.inode[x].attr.uid = ids[1], !.inode[x].attr.gid = ids[2]]
    <3> DEFINE I == [Inodes EXCEPT ![x].attr.uid = u]
               S == [State EXCEPT !.inode[x].attr.uid = u]
    <3> HIDE DEF u, g
    <3>1. Inodes' = [I EXCEPT ![x].attr.gid = g]
      BY <2>1
    <3>2. S = [ns |-> View, opened |-> Opened, inode |-> I]
      BY DEF State
    <3>3. State' = [ns |-> View, opened |-> Opened, inode |-> Inodes']
      BY <1>3 DEF State
    <3> HIDE DEF I, S
    <3>4. State' = [S EXCEPT !.inode[x].attr.gid = g]
      BY <3>1, <3>2, <3>3
    <3> QED
      BY <3>4 DEF S, u, g
  <2>3. x \in DOMAIN State.inode
    BY <1>4, <1>6 DEF State
  <2> QED
    BY <1>3, <2>2, <2>3 DEF Abstract!Chown
<1>7. CASE x \notin Held
  <2>1. \A y \in Held : attr'[y] = attr[y]
    BY <1>0, <1>2, <1>5, <1>7 DEF AttrOK
  <2>2. Inodes' = Inodes
    BY <1>4, <2>1
  <2> QED
    BY <1>3, <2>2 DEF State
<1> QED
  BY <1>6, <1>7

LEMMA StillSeen ==
  ASSUME TreeAssumption, FuseAssumption, RefInv, UNCHANGED fuseVars
  PROVE  RefInv' /\ State' = State
PROOF
<1>1. FuseInv /\ [FuseNext]_fuseVars
  BY DEF RefInv
<1>2. FuseInv'
  BY <1>1, FuseNextInv
<1>3. /\ type' = type /\ attr' = attr
      /\ UNCHANGED <<name, parent, items, open, dead, pending>>
  BY DEF fuseVars
<1>4. RefInv' /\ View' = View /\ Opened' = Opened
  BY <1>2, <1>3, PlacesStay
<1>5. AttrsKept
  BY <1>3 DEF AttrsKept
<1> QED
  BY <1>4, <1>5, StateSame

(* What a call that meets another leaves: less to wait for, and no file to *)
(* replace where a rename was on its way to.                               *)
LEMMA FinishOvertakenSeen ==
  ASSUME TreeAssumption, FuseAssumption, RefInv, FinishOvertaken
  PROVE  RefInv' /\ (State' = State \/ \E p \in Visible : Abstract!Unlink(State, State', p))
PROOF
<1>0. FuseInv /\ NamesFit /\ RenameOK /\ FuseInv'
  BY FinishOvertakenOK DEF RefInv
<1>1. /\ UNCHANGED <<attr, open, dead>> /\ pending' \subseteq pending
      /\ UNCHANGED tree
  BY DEF FinishOvertaken, OvertakenEnd, Undefined, Refuse, Answer
<1>2. Waiting("rename")' \subseteq Waiting("rename") /\ \A y : Using(y)' = Using(y)
  BY <1>1 DEF Waiting, Using
<1>3. RenameOK'
  BY <1>0, <1>1, <1>2, AllStays
<1>4. RefInv'
  BY <1>0, <1>1, <1>3 DEF RefInv, NamesFit, tree
<1>5. AttrsKept /\ Opened' = Opened /\ items' = items
  BY <1>1 DEF AttrsKept, Opened, tree
<1>6. CASE Waiting("rename")' = Waiting("rename")
  BY <1>4, <1>5, <1>6, ViewStays, StateSame
<1>7. ASSUME NEW r \in Waiting("rename"), pending' = pending \ {r}
      PROVE  \E p \in Visible : Abstract!Unlink(State, State', p)
  <2>1. PICK p, x : p = r.to /\ x = r.item
    OBVIOUS
  <2>2. p \in Visible
    BY <1>0, <2>1, RenameAsks DEF FuseInv
  <2>3. Ready(r)
    BY <1>0 DEF RenameOK
  <2>4. x \in Item /\ type[x] = "REG" /\ ~There(p)
    BY <1>0, <2>1, <2>3 DEF Ready, FuseInv, HiddenOK
  <2>5. Loses(p)
    <3>1. \A q, y : Leads(q, y)' <=> Leads(q, y)
      BY <1>5, LeadsSame
    <3> QED
      BY <2>4, <3>1 DEF Loses, There
  <2>6. \A q, y : Replaces(q, y)' <=> Replaces(q, y) /\ q # p
    <3>1. \A n \in Waiting("rename") : n # r => n.to # p
      BY <1>0, <2>1, ReplacesOne DEF FuseInv
    <3> QED
      BY <1>7, <2>1, <3>1 DEF Replaces, Waiting
  <2>7. State' = Abstract!Holding(Abstract!Without(View, {p}), Opened, Inodes)
    BY <1>4, <1>5, <2>2, <2>5, <2>6, LostSeen
  <2>8. Abstract!IsFile(State, p)
    <3>1. Shown(p, x) /\ ViewIs
      BY <1>4, <2>1, Views DEF Shown, Replaces
    <3> QED
      BY <2>4, <3>1, AbsIs
  <2> QED
    BY <2>2, <2>7, <2>8 DEF Abstract!Unlink, State
<1>8. \/ Waiting("rename")' = Waiting("rename")
      \/ \E r \in Waiting("rename") : pending' = pending \ {r}
  BY DEF FinishOvertaken, Waiting
<1> QED
  BY <1>4, <1>6, <1>7, <1>8

-----------------------------------------------------------------------------
LEMMA FuseStep ==
  ASSUME TreeAssumption, FuseAssumption, RefInv, [FuseNext]_fuseVars
  PROVE  RefInv' /\ (State' = State \/ Abstract!Step(State, State'))
PROOF
<1>1. Abstract!Paths = Visible
  BY DEF Abstract!Paths, Visible
<1>2. CASE Create
  BY <1>1, <1>2, CreateSeen DEF Abstract!Step
<1>3. CASE Open
  BY <1>1, <1>3, OpenSeen DEF Abstract!Step
<1>4. CASE FuseUnlink
  BY <1>1, <1>4, UnlinkSeen DEF Abstract!Step
<1>5. CASE FuseRmdir
  BY <1>1, <1>5, RmdirSeen DEF Abstract!Step
<1>6. CASE FuseRename
  BY <1>1, <1>6, RenameSeen DEF Abstract!Step
<1>7. CASE FinishRename
  BY <1>1, <1>7, FinishRenameSeen DEF Abstract!Step
<1>8. CASE Release
  BY <1>8, ReleaseSeen DEF Abstract!Step
<1>9. CASE FinishRelease
  BY <1>9, FinishReleaseSeen
<1>10. CASE Chmod
  BY <1>10, ChmodSeen DEF Abstract!Step
<1>11. CASE Chown
  BY <1>11, ChownSeen DEF Abstract!Step
<1>12. CASE UNCHANGED fuseVars
  BY <1>12, StillSeen
<1>13. CASE FinishOvertaken
  BY <1>1, <1>13, FinishOvertakenSeen DEF Abstract!Step
<1> QED
  BY <1>2, <1>3, <1>4, <1>5, <1>6, <1>7, <1>8, <1>9, <1>10, <1>11, <1>12, <1>13 DEF FuseNext

LEMMA FuseStart ==
  ASSUME TreeAssumption, FuseAssumption, FuseInit
  PROVE  RefInv /\ Abstract!Init
PROOF
<1>1. /\ type = [x \in Item |-> IF x = Root THEN "DIR" ELSE "FREE"]
      /\ name = [x \in Item |-> NoName]
      /\ attr = [x \in Item |-> IF x = Root THEN Fresh({"r", "w"}) ELSE Blank]
      /\ open = <<>> /\ dead = {} /\ pending = {}
  BY DEF FuseInit, Init
<1>2. FuseInv /\ IInv /\ Linked
  BY FuseInitInv DEF FuseInv, IInv
<1>3. RefInv
  <2>1. NamesFit
    BY <1>1 DEF NamesFit, TreeAssumption
  <2>2. RenameOK
    BY <1>1 DEF RenameOK, Waiting
  <2> QED
    BY <1>2, <2>1, <2>2 DEF RefInv
<1>4. \A p, x : ~Replaces(p, x)
  BY <1>1 DEF Replaces, Waiting
<1>5. \A p, x : Shown(p, x) <=> p = <<>> /\ x = Root
  <2>1. <<>> \in Clients
    BY DEF Clients
  <2>2. Leads(<<>>, Root)
    BY RootLeads
  <2>3. ASSUME NEW p \in Clients, NEW x, Leads(p, x)
        PROVE  p = <<>> /\ x = Root
    <3>1. p \in Seq(Name)
      BY ClientIsPath
    <3>2. x \in Item /\ Live(x)
      BY <1>2, <2>3, <3>1, LeadsLive
    <3>3. x = Root
      BY <1>1, <3>2 DEF Live
    <3>4. p = <<>>
      BY <1>2, <2>3, <3>1, <3>3, LastName
    <3> QED
      BY <3>3, <3>4
  <2> QED
    BY <1>4, <2>1, <2>2, <2>3 DEF Shown
<1>6. ViewIs
  BY <1>2, <1>3, ViewIsShown DEF RefInv
<1>7. Root \in Item
  BY DEF TreeAssumption
<1>8. View = [p \in {<<>>} |-> Root]
  <2>1. DOMAIN View = {<<>>}
    <3>1. \A p : p \in DOMAIN View <=> \E x \in Item : Shown(p, x)
      BY <1>6 DEF ViewIs
    <3> QED
      BY <1>5, <1>7, <3>1
  <2>2. View[<<>>] = Root
    BY <1>5, <1>6 DEF ViewIs
  <2>3. View = [p \in DOMAIN View |-> View[p]]
    BY <1>6 DEF ViewIs
  <2> QED
    BY <2>1, <2>2, <2>3
<1>9. Opened = <<>>
  <2>1. DOMAIN open \ dead = {}
    BY <1>1
  <2>2. Opened = [f \in {} |-> open[f]]
    BY <2>1 DEF Opened
  <2> QED
    BY <2>2
<1>10. Inodes = [i \in {Root} |-> [type |-> "DIR", attr |-> Abstract!Owned({"r", "w"})]]
  <2>1. Range(View) \cup Range(Opened) = {Root}
    BY <1>8, <1>9 DEF Range
  <2>2. type[Root] = "DIR" /\ attr[Root] = Abstract!Owned({"r", "w"})
    BY <1>1, <1>7 DEF Fresh, Abstract!Owned
  <2> QED
    BY <2>1, <2>2 DEF Inodes
<1> QED
  BY <1>3, <1>8, <1>9, <1>10 DEF Abstract!Init

THEOREM RefInductiveInvariant == FuseSpec => []RefInv
PROOF
<1>1. FuseInit => RefInv
  BY FuseStart, TreeAssumption, FuseAssumption
<1>2. RefInv /\ [FuseNext]_fuseVars => RefInv'
  BY FuseStep, TreeAssumption, FuseAssumption
<1> QED
  BY <1>1, <1>2, PTL DEF FuseSpec

(* A rename that has hidden the file it replaces can go on to replace it:  *)
(* nothing other clients do in between, however many of them wait too and  *)
(* whatever calls of theirs are lost, takes away what the second call      *)
(* looks for or puts something in its place.  All that is left to make it  *)
(* fail is a call it meets while it looks.                                 *)
THEOREM RenamesAlwaysFinish == FuseSpec => []RenamesFinish
PROOF
<1>1. RefInv => RenamesFinish
  <2> SUFFICES ASSUME RefInv, NEW r \in Waiting("rename")
               PROVE  /\ parse_path_string(r.from) = "OK" /\ fs_get_item(r.from, 0).ret = "OK"
                      /\ parse_path_string(r.to) = "OK" /\ fs_get_item(r.to, 0).ret = "ENOENT"
                      /\ fs_get_dir_item(r.to, 1).ret = "OK"
    BY DEF RenamesFinish
  <2> QED
    BY FinishFinds, TreeAssumption, FuseAssumption
<1> QED
  BY <1>1, RefInductiveInvariant, PTL

(* Every step is, for clients, one of PosixFiles or none, however many     *)
(* requests wait and whether calls meet or not: the first call of a rename *)
(* and the removal of a hidden file are none, what comes between two calls *)
(* cannot make the second one look different, and a second call that is    *)
(* lost in a map leaves what an unlink of the replaced file leaves.        *)
THEOREM FuseImplementsPosixFiles == FuseSpec => ImplementsPosixFiles
PROOF
<1>1. FuseInit => Abstract!Init
  BY FuseStart, TreeAssumption, FuseAssumption
<1>2. RefInv /\ [FuseNext]_fuseVars => [Abstract!Next]_(Abstract!vars)
  <2> SUFFICES ASSUME RefInv, [FuseNext]_fuseVars
               PROVE  [Abstract!Next]_(Abstract!vars)
    OBVIOUS
  <2>1. State' = State \/ Abstract!Step(State, State')
    BY FuseStep, TreeAssumption, FuseAssumption
  <2>2. Abstract!Now = State /\ Abstract!Now' = State'
    BY DEF Abstract!Now, State
  <2>3. State' = State => UNCHANGED Abstract!vars
    BY DEF State, Abstract!vars
  <2> QED
    BY <2>1, <2>2, <2>3 DEF Abstract!Next
<1> QED
  BY <1>1, <1>2, RefInductiveInvariant, PTL DEF FuseSpec, ImplementsPosixFiles, Abstract!Spec

=============================================================================
