--------------------------- MODULE NamespaceProofs ---------------------------
(***************************************************************************)
(* FsTree implements Namespace, step by step, for any number of items and  *)
(* names.  The argument is about which paths lead where: a walk fails just *)
(* where Namespace says it does, a new item adds the one path to it, a     *)
(* deletion takes one path away, and a rename grafts the paths below the   *)
(* item it moves onto its new path.                                        *)
(*                                                                         *)
(* Two bounds are needed: paths of the length that MaxPath allows have to  *)
(* reach every item (Namespace has no room for a path a rename has made    *)
(* too long), and mknod is not asked for sockets, which unlink takes for   *)
(* directories (the README lists that among what was met).                 *)
(***************************************************************************)
EXTENDS FsTreeProofs, FsTreeRefinement

PathsReach ==
  /\ IsFiniteSet(Item)
  /\ Cardinality(Item) <= MaxPath + 1
  /\ "SOCK" \notin MknodType

-----------------------------------------------------------------------------
(* No item is twice on one way: a path is shorter than the items are many. *)
LEMMA PathsFit ==
  ASSUME TreeAssumption, PathsReach, Linked, NEW p \in Seq(Name), NEW x, Leads(p, x)
  PROVE  p \in {<<>>} \cup Paths
PROOF
<1>1. PICK c \in [0..Len(p) -> Item] : Chain(p, c) /\ c[Len(p)] = x
  BY DEF Leads
<1>2. \A i, j \in 0..Len(p) : c[i] = c[j] => i = j
  BY <1>1, ChainsMeetOnce
<1>3. Len(p) \in Nat /\ MaxPath \in Nat
  BY DEF TreeAssumption
<1>4. IsFiniteSet(0..Len(p)) /\ Cardinality(0..Len(p)) = Len(p) + 1
  BY <1>3, FS_Interval
<1>5. IsFiniteSet(Item) /\ Cardinality(Item) \in Nat /\ Cardinality(Item) <= MaxPath + 1
  BY FS_CardinalityType DEF PathsReach
<1>6. ~(Cardinality(Item) < Len(p) + 1)
  BY <1>2, <1>4, <1>5, FS_PigeonHole
<1>7. Len(p) <= MaxPath
  BY <1>3, <1>5, <1>6
<1>8. p \in [1..Len(p) -> Name]
  OBVIOUS
<1>9. CASE Len(p) = 0
  BY <1>9
<1>10. CASE Len(p) # 0
  <2>1. Len(p) \in 1..MaxPath
    BY <1>3, <1>7, <1>10
  <2> QED
    BY <1>8, <2>1 DEF Paths
<1> QED
  BY <1>9, <1>10

-----------------------------------------------------------------------------
(* What clients see of the tree.                                           *)
Made == \A x \in Item : type[x] \in {"FREE", "DIR"} \cup MknodType

NInv == IInv /\ Made

ViewIs ==
  /\ View = [p \in DOMAIN View |-> View[p]]
  /\ \A p : p \in DOMAIN View <=> p \in Seq(Name) /\ There(p)
  /\ \A p \in Seq(Name), x \in Item : Leads(p, x) => View[p] = type[x]

LEMMA ViewIsPaths == TreeAssumption /\ PathsReach /\ IInv => ViewIs
PROOF
<1> SUFFICES ASSUME TreeAssumption, PathsReach, IInv
             PROVE  ViewIs
  OBVIOUS
<1>0. Linked /\ TypeOK /\ type[Root] = "DIR" /\ Root \in Item
  BY DEF IInv, RootIsDir, TreeAssumption
<1>1. View = [p \in {<<>>} \cup Named |->
                IF p = <<>> THEN "DIR" ELSE type[fs_get_item(p, 0).item]]
  BY DEF View
<1>2. <<>> \in Seq(Name) /\ There(<<>>)
  BY <1>0, RootLeads DEF There
<1>3. ASSUME NEW p \in Named
      PROVE  p \in Seq(Name) /\ There(p)
  <2>1. p \in Seq(Name) /\ fs_get_item(p, 0).ret = "OK"
    BY PathIsSeq DEF Named
  <2>2. Leads(p, fs_get_item(p, 0).item)
    BY <1>0, <2>1, FoundLeads
  <2> QED
    BY <2>1, <2>2, LeadsItem DEF There
<1>4. ASSUME NEW p \in Seq(Name), NEW x \in Item, Leads(p, x)
      PROVE  p \in {<<>>} \cup Named /\ (p # <<>> => fs_get_item(p, 0).item = x)
  <2>1. p \in {<<>>} \cup Paths
    BY <1>0, <1>4, PathsFit
  <2>2. fs_get_item(p, 0) = Found(x)
    BY <1>0, <1>4, LeadsFound
  <2> QED
    BY <2>1, <2>2 DEF Named, Found
<1>5. \A p : p \in DOMAIN View <=> p \in Seq(Name) /\ There(p)
  BY <1>1, <1>2, <1>3, <1>4 DEF There
<1>6. ASSUME NEW p \in Seq(Name), NEW x \in Item, Leads(p, x)
      PROVE  View[p] = type[x]
  <2>1. p \in {<<>>} \cup Named /\ (p # <<>> => fs_get_item(p, 0).item = x)
    BY <1>4, <1>6
  <2>2. CASE p = <<>>
    <3>1. x = Root
      BY <1>0, <1>2, <1>6, <2>2, RootLeads, LeadsOnce
    <3> QED
      BY <1>0, <1>1, <2>2, <3>1
  <2>3. CASE p # <<>>
    BY <1>1, <2>1, <2>3
  <2> QED
    BY <2>2, <2>3
<1>7. View = [p \in DOMAIN View |-> View[p]]
  BY <1>1
<1> QED
  BY <1>5, <1>6, <1>7 DEF ViewIs

LEMMA ViewIsPathsNext == (TreeAssumption /\ PathsReach /\ IInv => ViewIs)'
PROOF
<1> QED
  BY ViewIsPaths, PTL

(* What there is after a step is V.                                        *)
Shows(V, p, x) == V[p] = x

LEMMA NewView ==
  ASSUME ViewIs', NEW V, V = [p \in DOMAIN V |-> V[p]],
         \A p : p \in DOMAIN V <=> p \in Seq(Name) /\ There(p)',
         \A p \in Seq(Name), x \in Item : Leads(p, x)' => Shows(V, p, type'[x])
  PROVE  View' = V
PROOF
<1>1. DOMAIN View' = DOMAIN V
  BY DEF ViewIs
<1>2. ASSUME NEW p \in DOMAIN V
      PROVE  View'[p] = V[p]
  <2>1. p \in Seq(Name) /\ There(p)'
    OBVIOUS
  <2>2. PICK x \in Item : Leads(p, x)'
    BY <2>1 DEF There
  <2> QED
    BY <2>1, <2>2 DEF ViewIs, Shows
<1>3. View' = [p \in DOMAIN V |-> View'[p]]
  BY <1>1 DEF ViewIs
<1> QED
  BY <1>2, <1>3

(* The same entries: clients see no change.                                *)
LEMMA SameView ==
  ASSUME ViewIs, ViewIs', UNCHANGED tree
  PROVE  View' = View
PROOF
<1>1. items' = items /\ type' = type
  BY DEF tree
<1>2. \A p, x : Leads(p, x)' <=> Leads(p, x)
  BY <1>1 DEF Leads, Chain
<1>3. \A p : p \in DOMAIN View <=> p \in Seq(Name) /\ There(p)'
  BY <1>2 DEF ViewIs, There
<1>4. \A p \in Seq(Name), x \in Item : Leads(p, x)' => Shows(View, p, type'[x])
  BY <1>1, <1>2 DEF ViewIs, Shows
<1>5. View = [p \in DOMAIN View |-> View[p]]
  BY DEF ViewIs
<1> QED
  BY <1>3, <1>4, <1>5, NewView

-----------------------------------------------------------------------------
(* Namespace's terms, said of the tree.                                    *)
LEMMA AbsExists ==
  ASSUME ViewIs, Running, NEW p \in Seq(Name)
  PROVE  Abstract!Exists(p) <=> There(p)
PROOF
<1> QED
  BY DEF Abstract!Exists, ViewIs

LEMMA DirsOnly ==
  ASSUME TreeAssumption, PathsReach, Made, NEW x \in Item
  PROVE  fs_item_is_dir(x) <=> type[x] = "DIR"
PROOF
<1> QED
  BY DEF PathsReach, Made, fs_item_is_dir, TreeAssumption

LEMMA AbsBlocked ==
  ASSUME TreeAssumption, PathsReach, NInv, ViewIs, Running, NEW p \in Seq(Name)
  PROVE  Abstract!Blocked(p) <=> \E j \in 1..(Len(p) - 1) : Blocks(Cut(p, j))
PROOF
<1>1. ASSUME NEW j \in 1..(Len(p) - 1)
      PROVE  Blocks(Cut(p, j)) <=>
               Abstract!Exists(SubSeq(p, 1, j))
                 /\ (IF Running THEN View ELSE <<>>)[SubSeq(p, 1, j)] # "DIR"
  <2>1. j \in 0..Len(p)
    OBVIOUS
  <2>2. Cut(p, j) \in Seq(Name) /\ Cut(p, j) = SubSeq(p, 1, j)
    BY <2>1, CutProps DEF Cut
  <2>3. Abstract!Exists(Cut(p, j)) <=> There(Cut(p, j))
    BY <2>2, AbsExists
  <2>4. \A x \in Item : Leads(Cut(p, j), x) => View[Cut(p, j)] = type[x]
    BY <2>2 DEF ViewIs
  <2>5. \A x \in Item : fs_item_is_dir(x) <=> type[x] = "DIR"
    BY DirsOnly DEF NInv
  <2>6. Blocks(Cut(p, j)) <=> There(Cut(p, j)) /\ View[Cut(p, j)] # "DIR"
    BY <2>4, <2>5 DEF Blocks, There
  <2> QED
    BY <2>2, <2>3, <2>6
<1> QED
  BY <1>1 DEF Abstract!Blocked

LEMMA AbsError ==
  ASSUME TreeAssumption, PathsReach, NInv, ViewIs, Running, NEW p \in Seq(Name)
  PROVE  Abstract!Error(p) = IF parse_path_string(p) # "OK" THEN parse_path_string(p)
                             ELSE IF \E j \in 1..(Len(p) - 1) : Blocks(Cut(p, j)) THEN "ENOTDIR"
                             ELSE "OK"
PROOF
<1>1. Abstract!Last(p) = ps_last_file(p)
  BY DEF Abstract!Last, ps_last_file
<1>2. Abstract!Blocked(p) <=> \E j \in 1..(Len(p) - 1) : Blocks(Cut(p, j))
  BY AbsBlocked
<1> QED
  BY <1>1, <1>2 DEF Abstract!Error, parse_path_string

LEMMA AbsMissing ==
  ASSUME TreeAssumption, PathsReach, NInv, ViewIs, Running, NEW p \in Seq(Name)
  PROVE  Abstract!Missing(p) = IF parse_path_string(p) # "OK" THEN parse_path_string(p)
                               ELSE fs_get_item(p, 0).ret
PROOF
<1> DEFINE r == fs_get_item(p, 0)
           blocked == \E j \in 1..(Len(p) - 1) : Blocks(Cut(p, j))
<1>1. \/ r = Found(r.item) /\ There(p) /\ ~blocked
      \/ r = Fail("ENOTDIR") /\ ~There(p) /\ blocked
      \/ r = Fail("ENOENT") /\ ~There(p) /\ ~blocked
  BY GetAnswers DEF NInv
<1>2. Abstract!Error(p) = IF parse_path_string(p) # "OK" THEN parse_path_string(p)
                          ELSE IF blocked THEN "ENOTDIR" ELSE "OK"
  BY AbsError
<1>3. Abstract!Exists(p) <=> There(p)
  BY AbsExists
<1>4. \A x, e : Found(x).ret = "OK" /\ Fail(e).ret = e
  BY DEF Found, Fail
<1> HIDE DEF r, blocked
<1>5. Abstract!Missing(p) = IF parse_path_string(p) # "OK" THEN parse_path_string(p) ELSE r.ret
  BY <1>1, <1>2, <1>3, <1>4 DEF Abstract!Missing
<1> QED
  BY <1>5 DEF r

(* The directory a handler is to change.                                   *)
LEMMA DirAnswers ==
  ASSUME TreeAssumption, PathsReach, NInv, NEW p \in Seq(Name), p # <<>>
  PROVE  LET r == fs_get_dir_item(p, 1)
             blocked == \E j \in 1..(Len(p) - 1) : Blocks(Cut(p, j))
         IN  \/ r = Found(r.item) /\ Leads(Parent(p), r.item) /\ There(Parent(p)) /\ ~blocked
             \/ r = Fail("ENOTDIR") /\ blocked
             \/ r = Fail("ENOENT") /\ ~There(Parent(p)) /\ ~blocked
PROOF
<1> DEFINE k == Len(p) - 1
           g == fs_get_item(p, 1)
           r == fs_get_dir_item(p, 1)
           B(n) == \E j \in 1..n : Blocks(Cut(p, j))
<1>1. k \in 0..Len(p) /\ k \in Nat /\ g = Walk(p, k)[k] /\ Cut(p, k) = Parent(p)
      /\ Parent(p) \in Seq(Name)
  BY ParentIsCut, CutProps DEF fs_get_item
<1>2. r = IF g.ret = "OK" /\ ~fs_item_is_dir(g.item) THEN Fail("ENOTDIR") ELSE g
  BY DEF fs_get_dir_item
<1>3. k = Len(p) - 1
  OBVIOUS
<1> HIDE DEF k
<1>4. \/ g = Found(g.item) /\ Leads(Parent(p), g.item) /\ ~B(k - 1)
      \/ g = Fail("ENOTDIR") /\ ~There(Parent(p)) /\ B(k - 1)
      \/ g = Fail("ENOENT") /\ ~There(Parent(p)) /\ ~B(k - 1)
  BY <1>1, WalkAnswers DEF NInv
<1>5. Blocks(Parent(p)) => There(Parent(p)) /\ \A x : Leads(Parent(p), x) => ~fs_item_is_dir(x)
  BY <1>1, LeadsOnce DEF Blocks, There, NInv, IInv
<1>6. \A x : Leads(Parent(p), x) => There(Parent(p))
        /\ (~fs_item_is_dir(x) => Blocks(Parent(p)))
  BY <1>1, LeadsItem DEF Blocks, There
<1>7. k = 0 => ~Blocks(Parent(p))
  <2> SUFFICES ASSUME k = 0, Blocks(Parent(p))
               PROVE  FALSE
    OBVIOUS
  <2>1. Parent(p) = <<>>
    BY <1>1, CutProps
  <2>2. Leads(Parent(p), Root) /\ fs_item_is_dir(Root)
    BY <2>1, RootLeads DEF NInv, IInv, RootIsDir, fs_item_is_dir
  <2> QED
    BY <1>5, <2>2
<1>8. B(k) <=> B(k - 1) \/ Blocks(Parent(p))
  <2>1. ASSUME NEW j \in 1..k
        PROVE  j \in 1..(k - 1) \/ j = k
    BY <1>1
  <2>2. k # 0 => k \in 1..k
    BY <1>1
  <2>3. \A j \in 1..(k - 1) : j \in 1..k
    BY <1>1
  <2>4. ASSUME B(k)
        PROVE  B(k - 1) \/ Blocks(Parent(p))
    BY <1>1, <2>1, <2>4
  <2>5. ASSUME B(k - 1)
        PROVE  B(k)
    BY <2>3, <2>5
  <2>6. ASSUME Blocks(Parent(p))
        PROVE  B(k)
    BY <1>1, <1>7, <2>2, <2>6
  <2> QED
    BY <2>4, <2>5, <2>6
<1> HIDE DEF g, r, B
<1>9. \A x, e : Found(x).ret = "OK" /\ Fail(e).ret = e /\ Found(x).item = x
  BY DEF Found, Fail
<1>10. \/ r = Found(r.item) /\ Leads(Parent(p), r.item) /\ There(Parent(p)) /\ ~B(k)
       \/ r = Fail("ENOTDIR") /\ B(k)
       \/ r = Fail("ENOENT") /\ ~There(Parent(p)) /\ ~B(k)
  <2>1. CASE g = Found(g.item) /\ Leads(Parent(p), g.item) /\ ~B(k - 1)
    <3>1. CASE fs_item_is_dir(g.item)
      BY <1>2, <1>5, <1>6, <1>8, <2>1, <3>1
    <3>2. CASE ~fs_item_is_dir(g.item)
      BY <1>2, <1>6, <1>8, <1>9, <2>1, <3>2
    <3> QED
      BY <3>1, <3>2
  <2>2. CASE g = Fail("ENOTDIR") /\ ~There(Parent(p)) /\ B(k - 1)
    BY <1>2, <1>8, <1>9, <2>2
  <2>3. CASE g = Fail("ENOENT") /\ ~There(Parent(p)) /\ ~B(k - 1)
    BY <1>2, <1>5, <1>8, <1>9, <2>3
  <2> QED
    BY <1>4, <2>1, <2>2, <2>3
<1> QED
  BY <1>3, <1>10 DEF r, B

LEMMA AbsNoParent ==
  ASSUME TreeAssumption, PathsReach, NInv, ViewIs, Running, NEW p \in Seq(Name), p # <<>>
  PROVE  Abstract!NoParent(p) = IF parse_path_string(p) # "OK" THEN parse_path_string(p)
                                ELSE fs_get_dir_item(p, 1).ret
PROOF
<1> DEFINE r == fs_get_dir_item(p, 1)
           blocked == \E j \in 1..(Len(p) - 1) : Blocks(Cut(p, j))
<1>1. \/ r = Found(r.item) /\ There(Parent(p)) /\ ~blocked
      \/ r = Fail("ENOTDIR") /\ blocked
      \/ r = Fail("ENOENT") /\ ~There(Parent(p)) /\ ~blocked
  BY DirAnswers
<1>2. Abstract!Error(p) = IF parse_path_string(p) # "OK" THEN parse_path_string(p)
                          ELSE IF blocked THEN "ENOTDIR" ELSE "OK"
  BY AbsError
<1>3. Parent(p) \in Seq(Name) /\ Abstract!Parent(p) = Parent(p)
  BY ParentIsCut, CutProps DEF Parent, Abstract!Parent
<1>4. Abstract!Exists(Parent(p)) <=> There(Parent(p))
  BY <1>3, AbsExists
<1>5. \A x, e : Found(x).ret = "OK" /\ Fail(e).ret = e
  BY DEF Found, Fail
<1> HIDE DEF r, blocked
<1>6. Abstract!NoParent(p) = IF parse_path_string(p) # "OK" THEN parse_path_string(p) ELSE r.ret
  BY <1>1, <1>2, <1>3, <1>4, <1>5 DEF Abstract!NoParent
<1> QED
  BY <1>6 DEF r

LEMMA AbsChildren ==
  ASSUME TreeAssumption, IInv, ViewIs, Running, NEW p \in Seq(Name), NEW x \in Item, Leads(p, x)
  PROVE  Abstract!Children(p) = {n \in Name : items[x][n] # NoItem}
PROOF
<1>1. ASSUME NEW n \in Name
      PROVE  Abstract!Exists(Append(p, n)) <=> items[x][n] # NoItem
  <2> DEFINE q == Append(p, n)
             i == Len(p)
  <2>1. q \in Seq(Name) /\ Len(q) = i + 1 /\ i \in 0..(Len(q) - 1) /\ i \in 0..Len(q)
        /\ q[i + 1] = n /\ \A j \in 1..i : q[j] = p[j]
    OBVIOUS
  <2>2. i = Len(p)
    OBVIOUS
  <2> HIDE DEF q, i
  <2>3. Cut(q, i) \in Seq(Name) /\ Len(Cut(q, i)) = i /\ \A j \in 1..i : Cut(q, i)[j] = q[j]
    BY <2>1, CutProps
  <2>4. Cut(q, i) = p
    BY <2>1, <2>2, <2>3, SeqsEqual
  <2>5. Cut(q, i + 1) = q
    BY <2>1, CutAll
  <2>6. \A y : Leads(q, y) <=> y \in Item /\ \E d \in Item : Leads(p, d) /\ items[d][n] = y
    <3>1. \A y : Leads(Cut(q, i + 1), y) <=>
                  y \in Item /\ \E d \in Item : Leads(Cut(q, i), d) /\ items[d][q[i + 1]] = y
      BY <2>1, CutStep
    <3>2. q[i + 1] = n
      BY <2>1
    <3> QED
      BY <2>4, <2>5, <3>1, <3>2
  <2>7. \A d : Leads(p, d) => d = x
    BY LeadsOnce DEF IInv
  <2>8. items[x][n] \in Item \cup {NoItem} /\ NoItem \notin Item
    BY DEF IInv, TypeOK, TreeAssumption
  <2>9. There(q) <=> items[x][n] # NoItem
    BY <2>6, <2>7, <2>8 DEF There
  <2>10. Abstract!Exists(q) <=> There(q)
    BY <2>1, AbsExists
  <2> QED
    BY <2>9, <2>10 DEF q
<1> QED
  BY <1>1 DEF Abstract!Children

LEMMA AbsType ==
  ASSUME ViewIs, Running, NEW p \in Seq(Name), NEW x \in Item, Leads(p, x)
  PROVE  /\ Abstract!Exists(p)
         /\ (IF Running THEN View ELSE <<>>)[p] = type[x]
PROOF
<1> QED
  BY AbsExists DEF ViewIs, There

-----------------------------------------------------------------------------
(* One step of the daemon is one step of Namespace.                        *)
LEMMA SameNamespace ==
  ASSUME ViewIs, ViewIs', UNCHANGED <<tree, status>>
  PROVE  /\ (IF Running THEN View ELSE <<>>)' = IF Running THEN View ELSE <<>>
         /\ Running' = Running
PROOF
<1>1. View' = View
  BY SameView
<1> QED
  BY <1>1 DEF Running

LEMMA RefuseStep ==
  ASSUME ViewIs, ViewIs', NEW op, NEW e \in Abstract!Errno, Refuse(op, e)
  PROVE  Abstract!Refuse(op, e)
PROOF
<1>1. UNCHANGED <<tree, status>> /\ Abstract!Answer(op, e)
  BY DEF Refuse, Answer, Abstract!Answer
<1>2. UNCHANGED <<IF Running THEN View ELSE <<>>, Running>>
  BY <1>1, SameNamespace
<1> QED
  BY <1>1, <1>2 DEF Abstract!Refuse

LEMMA ClientPathIs ==
  ASSUME NEW p \in ClientPaths
  PROVE  p \in Paths /\ p \in Seq(Name) /\ p # <<>> /\ ps_last_file(p) \in Name
         /\ Parent(p) \in Seq(Name)
PROOF
<1>1. p \in Paths
  BY DEF ClientPaths
<1>2. p \in Seq(Name) /\ p # <<>>
  BY <1>1, PathIsSeq
<1> QED
  BY <1>1, <1>2, PathIsSeq, ParentIsCut, CutProps DEF ps_last_file

(* Every path and every type is one of Namespace's.                        *)
LEMMA SamePaths == Abstract!Paths = Paths
PROOF
<1> QED
  BY DEF Paths, Abstract!Paths

LEMMA ParseIs ==
  ASSUME NEW p
  PROVE  /\ parse_path_string(p) \in {"OK", "ENAMETOOLONG"}
         /\ parse_path_string(p) # "OK" <=> Abstract!Last(p) \in LongName
PROOF
<1> QED
  BY DEF parse_path_string, ps_last_file, Abstract!Last

LEMMA GetattrStep ==
  ASSUME TreeAssumption, PathsReach, NInv, ViewIs, ViewIs', Running,
         NEW p \in ClientPaths, fdo_getattr(p)
  PROVE  Abstract!Getattr(p)
PROOF
<1> DEFINE r == fs_get_item(p, 0)
<1>1. p \in Seq(Name)
  BY ClientPathIs
<1>2. \/ r = Found(r.item) /\ Leads(p, r.item)
      \/ r = Fail("ENOTDIR")
      \/ r = Fail("ENOENT")
  BY <1>1, GetAnswers DEF NInv
<1>3. Abstract!Missing(p) = IF parse_path_string(p) # "OK" THEN parse_path_string(p) ELSE r.ret
  BY <1>1, AbsMissing
<1>4. \/ parse_path_string(p) # "OK" /\ Refuse("getattr", parse_path_string(p))
      \/ parse_path_string(p) = "OK" /\ r.ret # "OK" /\ Refuse("getattr", r.ret)
      \/ /\ parse_path_string(p) = "OK" /\ r.ret = "OK"
         /\ reply' = [op |-> "getattr", ret |-> "OK", mode |-> type[r.item], names |-> {}]
         /\ UNCHANGED <<tree, status>>
  BY DEF fdo_getattr
<1> HIDE DEF r
<1>5. CASE parse_path_string(p) # "OK" /\ Refuse("getattr", parse_path_string(p))
  <2>1. Abstract!Missing(p) \in Abstract!Errno /\ Refuse("getattr", Abstract!Missing(p))
    BY <1>3, <1>5, ParseIs DEF Abstract!Errno
  <2>2. Abstract!Refuse("getattr", Abstract!Missing(p))
    BY <2>1, RefuseStep
  <2> QED
    BY <2>2 DEF Abstract!Getattr
<1>6. CASE parse_path_string(p) = "OK" /\ r.ret # "OK" /\ Refuse("getattr", r.ret)
  <2>1. Abstract!Missing(p) \in Abstract!Errno /\ Refuse("getattr", Abstract!Missing(p))
    BY <1>2, <1>3, <1>6 DEF Abstract!Errno, Found, Fail
  <2>2. Abstract!Refuse("getattr", Abstract!Missing(p))
    BY <2>1, RefuseStep
  <2> QED
    BY <2>2 DEF Abstract!Getattr
<1>7. CASE /\ parse_path_string(p) = "OK" /\ r.ret = "OK"
           /\ reply' = [op |-> "getattr", ret |-> "OK", mode |-> type[r.item], names |-> {}]
           /\ UNCHANGED <<tree, status>>
  <2>1. Leads(p, r.item)
    BY <1>2, <1>7 DEF Fail
  <2>2. r.item \in Item /\ Live(r.item)
    BY <1>1, <2>1, LeadsLive DEF NInv
  <2>3. type[r.item] \in {"DIR"} \cup MknodType
    BY <2>2 DEF Live, NInv, Made
  <2>4. (IF Running THEN View ELSE <<>>)[p] = type[r.item]
    BY <1>1, <2>1, <2>2, AbsType
  <2>5. UNCHANGED <<IF Running THEN View ELSE <<>>, Running>>
    BY <1>7, SameNamespace
  <2>6. Abstract!Missing(p) = "OK"
    BY <1>3, <1>7
  <2> QED
    BY <1>7, <2>3, <2>4, <2>5, <2>6 DEF Abstract!Getattr
<1> QED
  BY <1>4, <1>5, <1>6, <1>7

LEMMA ReaddirStep ==
  ASSUME TreeAssumption, PathsReach, NInv, ViewIs, ViewIs', Running,
         NEW p \in ClientPaths, fdo_readdir(p)
  PROVE  Abstract!Readdir(p)
PROOF
<1> DEFINE r == fs_get_item(p, 0)
<1>1. p \in Seq(Name)
  BY ClientPathIs
<1>2. \/ r = Found(r.item) /\ Leads(p, r.item)
      \/ r = Fail("ENOTDIR")
      \/ r = Fail("ENOENT")
  BY <1>1, GetAnswers DEF NInv
<1>3. /\ r.ret = "OK" /\ type[r.item] = "DIR"
      /\ reply' = [op |-> "readdir", ret |-> "OK", mode |-> "NONE",
                   names |-> {n \in Name : items[r.item][n] # NoItem}]
      /\ UNCHANGED <<tree, status>>
  BY DEF fdo_readdir, KernelOpensDir
<1> HIDE DEF r
<1>4. Leads(p, r.item)
  BY <1>2, <1>3 DEF Fail
<1>5. r.item \in Item
  BY <1>1, <1>4, LeadsItem
<1>6. Abstract!Children(p) = {n \in Name : items[r.item][n] # NoItem}
  BY <1>1, <1>4, <1>5, AbsChildren DEF NInv
<1>7. Abstract!Exists(p) /\ (IF Running THEN View ELSE <<>>)[p] = "DIR"
  BY <1>1, <1>3, <1>4, <1>5, AbsType
<1>8. UNCHANGED <<IF Running THEN View ELSE <<>>, Running>>
  BY <1>3, SameNamespace
<1>9. Abstract!Children(p) \in SUBSET Name
  BY <1>6
<1> QED
  BY <1>3, <1>6, <1>7, <1>8, <1>9 DEF Abstract!Readdir

(* A new item adds its path.                                               *)
LEMMA AddStep ==
  ASSUME TreeAssumption, PathsReach, NInv, NInv', ViewIs, ViewIs', Running,
         NEW x \in Item, ~Live(x), NEW d \in Item, type[d] = "DIR",
         NEW p \in Seq(Name), p # <<>>, Leads(Parent(p), d), NEW t,
         items[d][ps_last_file(p)] = NoItem, AddItem(x, d, ps_last_file(p), t)
  PROVE  Abstract!Add(p, t) /\ UNCHANGED Running
PROOF
<1> DEFINE V == [q \in DOMAIN View \cup {p} |-> IF q = p THEN t ELSE View[q]]
<1>1. IInv /\ IInv' /\ type' = [type EXCEPT ![x] = t] /\ type \in [Item -> ItemType \cup {"FREE"}]
  BY DEF NInv, AddItem, IInv, TypeOK
<1>2. UNCHANGED Running
  BY DEF AddItem, Running
<1>3. \A q \in Seq(Name), y \in Item : Leads(q, y)' <=> Leads(q, y) \/ (q = p /\ y = x)
  BY <1>1, PathsAfterAdd
<1>4. \A q \in Seq(Name), y \in Item : Leads(q, y) => y # x
  BY <1>1, LeadsLive
<1>5. ~There(p)
  <2> SUFFICES ASSUME NEW y \in Item, Leads(p, y)
               PROVE  FALSE
    BY DEF There
  <2>1. Leads(p, y)' /\ Leads(p, x)'
    BY <1>3
  <2>2. \A q \in Seq(Name), z \in Item, w \in Item : Leads(q, z)' /\ Leads(q, w)' => z = w
    BY <1>1, LeadsOnceNext DEF TreeAssumption, IInv
  <2> QED
    BY <1>4, <2>1, <2>2
<1>6. \A q : q \in DOMAIN V <=> q \in Seq(Name) /\ There(q)'
  BY <1>3 DEF ViewIs, There
<1>7. \A q \in Seq(Name), y \in Item : Leads(q, y)' => Shows(V, q, type'[y])
  <2> SUFFICES ASSUME NEW q \in Seq(Name), NEW y \in Item, Leads(q, y)'
               PROVE  V[q] = type'[y]
    BY DEF Shows
  <2>1. CASE q = p /\ y = x
    BY <1>1, <2>1
  <2>2. CASE Leads(q, y)
    <3>1. q \in DOMAIN View /\ q # p /\ View[q] = type[y]
      BY <1>5, <2>2 DEF ViewIs, There
    <3>2. type'[y] = type[y]
      BY <1>1, <1>4, <2>2
    <3> QED
      BY <3>1, <3>2
  <2> QED
    BY <1>3, <2>1, <2>2
<1>8. V = [q \in DOMAIN V |-> V[q]]
  OBVIOUS
<1> HIDE DEF V
<1>9. View' = V
  BY <1>6, <1>7, <1>8, NewView
<1> QED
  BY <1>2, <1>9 DEF Abstract!Add, V

LEMMA CreateStep ==
  ASSUME TreeAssumption, PathsReach, NInv, NInv', ViewIs, ViewIs', Running,
         NEW p \in ClientPaths, KernelCreates(p), NEW op, NEW t,
         IF parse_path_string(p) # "OK" THEN Refuse(op, parse_path_string(p))
         ELSE add_item(op, p, t)
  PROVE  Abstract!Create(op, p, t)
PROOF
<1> DEFINE r == fs_get_dir_item(p, 1)
<1>1. p \in Seq(Name) /\ p # <<>>
  BY ClientPathIs
<1>2. ~Abstract!Exists(p)
  <2>1. ~There(p)
    BY <1>1, GetAnswers DEF KernelCreates, NInv, Found
  <2> QED
    BY <1>1, <2>1, AbsExists
<1>3. Abstract!NoParent(p) = IF parse_path_string(p) # "OK" THEN parse_path_string(p) ELSE r.ret
  BY <1>1, AbsNoParent
<1>4. \/ r = Found(r.item) \/ r = Fail("ENOTDIR") \/ r = Fail("ENOENT")
  BY <1>1, DirAnswers
<1>5. CASE parse_path_string(p) # "OK"
  <2>1. Abstract!NoParent(p) \in Abstract!Errno /\ Refuse(op, Abstract!NoParent(p))
    BY <1>3, <1>5, ParseIs DEF Abstract!Errno
  <2>2. Abstract!Refuse(op, Abstract!NoParent(p))
    BY <2>1, RefuseStep
  <2> QED
    BY <1>2, <2>2 DEF Abstract!Create
<1>6. CASE parse_path_string(p) = "OK" /\ r.ret # "OK"
  <2>1. Refuse(op, r.ret)
    BY <1>6 DEF add_item
  <2> HIDE DEF r
  <2>2. Abstract!NoParent(p) \in Abstract!Errno /\ Refuse(op, Abstract!NoParent(p))
    BY <1>3, <1>4, <1>6, <2>1 DEF Abstract!Errno, Found, Fail
  <2>3. Abstract!Refuse(op, Abstract!NoParent(p))
    BY <2>2, RefuseStep
  <2> QED
    BY <1>2, <2>3 DEF Abstract!Create
<1>7. CASE parse_path_string(p) = "OK" /\ r.ret = "OK"
  <2>1. add_item(op, p, t) /\ Answer(op, "OK")
    BY <1>7 DEF add_item
  <2>2. Abstract!NoParent(p) = "OK" /\ Abstract!Answer(op, "OK") /\ reply'.ret = "OK"
    BY <1>3, <1>7, <2>1 DEF Answer, Abstract!Answer
  <2>3. IInv
    BY DEF NInv
  <2>4. PICK x \in Item, d \in Item :
          /\ ~Live(x) /\ type[d] = "DIR" /\ Leads(Parent(p), d)
          /\ items[d][ps_last_file(p)] = NoItem
          /\ AddItem(x, d, ps_last_file(p), t)
    BY <2>1, <2>2, <2>3, CreateEffect
  <2>5. Abstract!Add(p, t) /\ UNCHANGED Running
    BY <1>1, <2>4, AddStep
  <2> QED
    BY <1>2, <2>2, <2>5 DEF Abstract!Create
<1> QED
  BY <1>5, <1>6, <1>7

(* An item that is freed takes its path away.                              *)
LEMMA RemoveStep ==
  ASSUME TreeAssumption, PathsReach, NInv, NInv', ViewIs, ViewIs', Running,
         NEW x \in Item, x # Root, Live(x), items[x] = EmptyMap,
         NEW p \in Seq(Name), Leads(p, x), DeleteItem(x), UNCHANGED status
  PROVE  Abstract!Remove(p) /\ UNCHANGED Running
PROOF
<1> DEFINE V == [q \in DOMAIN View \ {p} |-> View[q]]
<1>1. IInv /\ IInv' /\ \A y \in Item : y # x => type'[y] = type[y]
  BY DEF NInv, DeleteItem, FreeAll
<1>2. \A q \in Seq(Name), y \in Item : Leads(q, y)' <=> Leads(q, y) /\ q # p
  BY <1>1, PathsAfterDelete
<1>3. \A q : q \in DOMAIN V <=> q \in Seq(Name) /\ There(q)'
  BY <1>2 DEF ViewIs, There
<1>4. \A q \in Seq(Name), y \in Item : Leads(q, y)' => Shows(V, q, type'[y])
  <2> SUFFICES ASSUME NEW q \in Seq(Name), NEW y \in Item, Leads(q, y)'
               PROVE  V[q] = type'[y]
    BY DEF Shows
  <2>1. Leads(q, y) /\ q # p
    BY <1>2
  <2>2. q \in DOMAIN View /\ View[q] = type[y]
    BY <2>1 DEF ViewIs, There
  <2>3. y # x
    <3>1. Live(y)'
      BY <1>1, LeadsLiveNext DEF TreeAssumption
    <3>2. ~Live(x)'
      BY DEF DeleteItem, FreeAll, Live
    <3> QED
      BY <3>1, <3>2
  <2> QED
    BY <1>1, <2>1, <2>2, <2>3
<1>5. V = [q \in DOMAIN V |-> V[q]]
  OBVIOUS
<1> HIDE DEF V
<1>6. View' = V
  BY <1>3, <1>4, <1>5, NewView
<1> QED
  BY <1>6 DEF Abstract!Remove, V, Running

LEMMA UnlinkStep ==
  ASSUME TreeAssumption, PathsReach, NInv, NInv', ViewIs, ViewIs', Running,
         NEW p \in ClientPaths, fdo_unlink(p)
  PROVE  Abstract!Unlink(p)
PROOF
<1> DEFINE r == fs_get_item(p, 0)
           ns == IF Running THEN View ELSE <<>>
           err == IF Abstract!Missing(p) = "OK" /\ ns[p] = "DIR" THEN "EISDIR"
                  ELSE Abstract!Missing(p)
<1>1. p \in Seq(Name) /\ p # <<>>
  BY ClientPathIs
<1>2. \/ r = Found(r.item) /\ Leads(p, r.item)
      \/ r = Fail("ENOTDIR")
      \/ r = Fail("ENOENT")
  BY <1>1, GetAnswers DEF NInv
<1>3. Abstract!Missing(p) = IF parse_path_string(p) # "OK" THEN parse_path_string(p) ELSE r.ret
  BY <1>1, AbsMissing
<1>4. r.ret = "OK" => r.item \in Item /\ Leads(p, r.item) /\ ns[p] = type[r.item]
                        /\ (fs_item_is_dir(r.item) <=> type[r.item] = "DIR")
  <2> HIDE DEF r
  <2> SUFFICES ASSUME r.ret = "OK"
               PROVE  r.item \in Item /\ Leads(p, r.item) /\ ns[p] = type[r.item]
                        /\ (fs_item_is_dir(r.item) <=> type[r.item] = "DIR")
    OBVIOUS
  <2>1. Leads(p, r.item)
    BY <1>2 DEF Fail
  <2>2. r.item \in Item
    BY <1>1, <2>1, LeadsItem
  <2> QED
    BY <1>1, <2>1, <2>2, AbsType, DirsOnly DEF NInv
<1>5. \/ parse_path_string(p) # "OK" /\ Refuse("unlink", parse_path_string(p))
      \/ parse_path_string(p) = "OK" /\ r.ret # "OK" /\ Refuse("unlink", r.ret)
      \/ parse_path_string(p) = "OK" /\ r.ret = "OK" /\ fs_item_is_dir(r.item)
         /\ Refuse("unlink", "EISDIR")
      \/ parse_path_string(p) = "OK" /\ r.ret = "OK" /\ ~fs_item_is_dir(r.item)
         /\ Answer("unlink", "OK")
  BY DEF fdo_unlink, fs_file_delete, fs_get_file_item, Fail
<1>6. Abstract!Unlink(p) <=> \/ Abstract!Refuse("unlink", err)
                             \/ /\ Abstract!Answer("unlink", "OK") /\ err = "OK"
                                /\ Abstract!Remove(p) /\ UNCHANGED Running
  BY DEF Abstract!Unlink
<1>7. r = fs_get_item(p, 0)
  OBVIOUS
<1> HIDE DEF r, ns
<1>8. ASSUME err \in Abstract!Errno, Refuse("unlink", err)
      PROVE  Abstract!Unlink(p)
  <2> HIDE DEF err
  <2>1. Abstract!Refuse("unlink", err)
    BY <1>8, RefuseStep
  <2> QED
    BY <1>6, <2>1
<1>9. CASE parse_path_string(p) # "OK" /\ Refuse("unlink", parse_path_string(p))
  <2>1. err = "ENAMETOOLONG" /\ parse_path_string(p) = "ENAMETOOLONG"
    BY <1>3, <1>9, ParseIs
  <2> QED
    BY <1>8, <1>9, <2>1 DEF Abstract!Errno
<1>10. CASE parse_path_string(p) = "OK" /\ r.ret # "OK" /\ Refuse("unlink", r.ret)
  <2>1. err = r.ret /\ r.ret \in Abstract!Errno
    BY <1>2, <1>3, <1>10 DEF Abstract!Errno, Found, Fail
  <2> QED
    BY <1>8, <1>10, <2>1
<1>11. CASE parse_path_string(p) = "OK" /\ r.ret = "OK" /\ fs_item_is_dir(r.item)
            /\ Refuse("unlink", "EISDIR")
  <2>1. err = "EISDIR"
    BY <1>3, <1>4, <1>11
  <2> QED
    BY <1>8, <1>11, <2>1 DEF Abstract!Errno
<1>12. CASE parse_path_string(p) = "OK" /\ r.ret = "OK" /\ ~fs_item_is_dir(r.item)
            /\ Answer("unlink", "OK")
  <2>1. err = "OK"
    BY <1>3, <1>4, <1>12
  <2>2. reply'.ret = "OK" /\ Abstract!Answer("unlink", "OK") /\ IInv
    BY <1>12 DEF Answer, Abstract!Answer, NInv
  <2>3. PICK x \in Item : /\ x # Root /\ Live(x) /\ Leads(p, x) /\ items[x] = EmptyMap
                          /\ DeleteItem(x) /\ UNCHANGED status
    BY <1>1, <2>2, UnlinkEffect
  <2>4. Abstract!Remove(p) /\ UNCHANGED Running
    BY <1>1, <2>3, RemoveStep
  <2> QED
    BY <1>6, <2>1, <2>2, <2>4
<1> QED
  BY <1>5, <1>9, <1>10, <1>11, <1>12

(* No entries are no children.                                             *)
LEMMA NoChildren ==
  ASSUME TreeAssumption, NInv, ViewIs, Running,
         NEW p \in Seq(Name), NEW x \in Item, Leads(p, x)
  PROVE  items[x] = EmptyMap <=> Abstract!Children(p) = {}
PROOF
<1>1. Abstract!Children(p) = {n \in Name : items[x][n] # NoItem}
  BY AbsChildren DEF NInv
<1>2. items[x] = EmptyMap <=> \A n \in Name : items[x][n] = NoItem
  <2>1. items[x] \in [Name -> Item \cup {NoItem}]
    BY DEF NInv, IInv, TypeOK
  <2> QED
    BY <2>1 DEF EmptyMap
<1> QED
  BY <1>1, <1>2

LEMMA RmdirStep ==
  ASSUME TreeAssumption, PathsReach, NInv, NInv', ViewIs, ViewIs', Running,
         NEW p \in ClientPaths, fdo_rmdir(p)
  PROVE  Abstract!Rmdir(p)
PROOF
<1> DEFINE r == fs_get_item(p, 0)
           ns == IF Running THEN View ELSE <<>>
           err == IF Abstract!Missing(p) # "OK" THEN Abstract!Missing(p)
                  ELSE IF ns[p] # "DIR" THEN "ENOTDIR"
                  ELSE IF Abstract!Children(p) # {} THEN "ENOTEMPTY" ELSE "OK"
<1>1. p \in Seq(Name) /\ p # <<>>
  BY ClientPathIs
<1>2. \/ r = Found(r.item) /\ Leads(p, r.item)
      \/ r = Fail("ENOTDIR")
      \/ r = Fail("ENOENT")
  BY <1>1, GetAnswers DEF NInv
<1>3. Abstract!Missing(p) = IF parse_path_string(p) # "OK" THEN parse_path_string(p) ELSE r.ret
  BY <1>1, AbsMissing
<1>4. r.ret = "OK" => r.item \in Item /\ Leads(p, r.item) /\ ns[p] = type[r.item]
                        /\ (fs_item_is_dir(r.item) <=> type[r.item] = "DIR")
                        /\ (items[r.item] = EmptyMap <=> Abstract!Children(p) = {})
  <2> HIDE DEF r
  <2> SUFFICES ASSUME r.ret = "OK"
               PROVE  r.item \in Item /\ Leads(p, r.item) /\ ns[p] = type[r.item]
                        /\ (fs_item_is_dir(r.item) <=> type[r.item] = "DIR")
                        /\ (items[r.item] = EmptyMap <=> Abstract!Children(p) = {})
    OBVIOUS
  <2>1. Leads(p, r.item)
    BY <1>2 DEF Fail
  <2>2. r.item \in Item
    BY <1>1, <2>1, LeadsItem
  <2>3. items[r.item] = EmptyMap <=> Abstract!Children(p) = {}
    BY <1>1, <2>1, <2>2, NoChildren
  <2> QED
    BY <1>1, <2>1, <2>2, <2>3, AbsType, DirsOnly DEF NInv
<1>5. \/ parse_path_string(p) # "OK" /\ Refuse("rmdir", parse_path_string(p))
      \/ parse_path_string(p) = "OK" /\ r.ret # "OK" /\ Refuse("rmdir", r.ret)
      \/ parse_path_string(p) = "OK" /\ r.ret = "OK" /\ ~fs_item_is_dir(r.item)
         /\ Refuse("rmdir", "ENOTDIR")
      \/ parse_path_string(p) = "OK" /\ r.ret = "OK" /\ fs_item_is_dir(r.item)
         /\ items[r.item] # EmptyMap /\ Refuse("rmdir", "ENOTEMPTY")
      \/ parse_path_string(p) = "OK" /\ r.ret = "OK" /\ fs_item_is_dir(r.item)
         /\ items[r.item] = EmptyMap /\ Answer("rmdir", "OK")
  BY DEF fdo_rmdir, fs_dir_delete, fs_get_dir_item, Fail
<1>6. Abstract!Rmdir(p) <=> \/ Abstract!Refuse("rmdir", err)
                            \/ /\ Abstract!Answer("rmdir", "OK") /\ err = "OK"
                               /\ Abstract!Remove(p) /\ UNCHANGED Running
  BY DEF Abstract!Rmdir
<1> HIDE DEF r, ns
<1>7. ASSUME err \in Abstract!Errno, Refuse("rmdir", err)
      PROVE  Abstract!Rmdir(p)
  <2> HIDE DEF err
  <2>1. Abstract!Refuse("rmdir", err)
    BY <1>7, RefuseStep
  <2> QED
    BY <1>6, <2>1
<1>8. CASE parse_path_string(p) # "OK" /\ Refuse("rmdir", parse_path_string(p))
  <2>1. err = "ENAMETOOLONG" /\ parse_path_string(p) = "ENAMETOOLONG"
    BY <1>3, <1>8, ParseIs
  <2> QED
    BY <1>7, <1>8, <2>1 DEF Abstract!Errno
<1>9. CASE parse_path_string(p) = "OK" /\ r.ret # "OK" /\ Refuse("rmdir", r.ret)
  <2>1. err = r.ret /\ r.ret \in Abstract!Errno
    BY <1>2, <1>3, <1>9 DEF Abstract!Errno, Found, Fail
  <2> QED
    BY <1>7, <1>9, <2>1
<1>10. CASE parse_path_string(p) = "OK" /\ r.ret = "OK" /\ ~fs_item_is_dir(r.item)
            /\ Refuse("rmdir", "ENOTDIR")
  <2>1. err = "ENOTDIR"
    BY <1>3, <1>4, <1>10
  <2> QED
    BY <1>7, <1>10, <2>1 DEF Abstract!Errno
<1>11. CASE parse_path_string(p) = "OK" /\ r.ret = "OK" /\ fs_item_is_dir(r.item)
            /\ items[r.item] # EmptyMap /\ Refuse("rmdir", "ENOTEMPTY")
  <2>1. err = "ENOTEMPTY"
    BY <1>3, <1>4, <1>11
  <2> QED
    BY <1>7, <1>11, <2>1 DEF Abstract!Errno
<1>12. CASE parse_path_string(p) = "OK" /\ r.ret = "OK" /\ fs_item_is_dir(r.item)
            /\ items[r.item] = EmptyMap /\ Answer("rmdir", "OK")
  <2>1. err = "OK"
    BY <1>3, <1>4, <1>12
  <2>2. reply'.ret = "OK" /\ Abstract!Answer("rmdir", "OK") /\ IInv
    BY <1>12 DEF Answer, Abstract!Answer, NInv
  <2>3. PICK x \in Item : /\ x # Root /\ Live(x) /\ Leads(p, x) /\ items[x] = EmptyMap
                          /\ DeleteItem(x) /\ UNCHANGED status
    BY <2>2, RmdirEffect
  <2>4. Abstract!Remove(p) /\ UNCHANGED Running
    BY <1>1, <2>3, RemoveStep
  <2> QED
    BY <1>6, <2>1, <2>2, <2>4
<1> QED
  BY <1>5, <1>8, <1>9, <1>10, <1>11, <1>12

(* A rename takes every path below the old name to the new one.            *)
LEMMA MoveStep ==
  ASSUME TreeAssumption, PathsReach, NInv, NInv', ViewIs, ViewIs', Running,
         NEW x \in Item, x # Root, Live(x), NEW d \in Item,
         NEW p \in Seq(Name), Leads(p, x),
         NEW q \in Seq(Name), q # <<>>, Leads(Parent(q), d), ~IsPrefixOf(p, q),
         items[d][ps_last_file(q)] = NoItem, MoveItem(x, d, ps_last_file(q))
  PROVE  ~Abstract!Exists(q) /\ Abstract!Move(p, q) /\ UNCHANGED Running
PROOF
<1> DEFINE before(r) == IF IsPrefixOf(q, r) THEN Graft(p, q, r) ELSE r
           stay == {r \in DOMAIN View : ~IsPrefixOf(p, r)}
           moved == {Graft(q, p, r) : r \in {s \in DOMAIN View : IsPrefixOf(p, s)}}
           V == [r \in stay \cup moved |-> View[before(r)]]
<1>1. IInv /\ IInv' /\ type' = type /\ UNCHANGED status
  BY DEF NInv, MoveItem
<1>2. \A r \in Seq(Name), y \in Item :
        Leads(r, y)' <=> \/ Leads(r, y) /\ ~IsPrefixOf(p, r)
                         \/ IsPrefixOf(q, r) /\ Leads(Graft(p, q, r), y)
  BY <1>1, PathsAfterMove
<1>3. ~There(q)
  BY <1>1, NotThere
<1>4. \A r \in Seq(Name) : IsPrefixOf(q, r) => ~There(r)
  BY <1>3, NotBelow
<1>5. \A r \in Seq(Name) : IsPrefixOf(q, r) =>
        Graft(p, q, r) \in Seq(Name) /\ IsPrefixOf(p, Graft(p, q, r))
        /\ Graft(q, p, Graft(p, q, r)) = r
  BY GraftProps, GraftPrefix
<1>6. \A r \in Seq(Name) : IsPrefixOf(p, r) =>
        Graft(q, p, r) \in Seq(Name) /\ IsPrefixOf(q, Graft(q, p, r))
        /\ Graft(p, q, Graft(q, p, r)) = r
  BY GraftProps, GraftPrefix
<1>7. \A r : r \in DOMAIN View <=> r \in Seq(Name) /\ There(r)
  BY DEF ViewIs
<1>8. \A r : r \in stay <=> r \in Seq(Name) /\ There(r) /\ ~IsPrefixOf(p, r)
  BY <1>7
<1>9. \A r : r \in moved <=> r \in Seq(Name) /\ IsPrefixOf(q, r) /\ There(Graft(p, q, r))
  <2>1. ASSUME NEW r \in moved
        PROVE  r \in Seq(Name) /\ IsPrefixOf(q, r) /\ There(Graft(p, q, r))
    BY <1>6, <1>7
  <2>2. ASSUME NEW r \in Seq(Name), IsPrefixOf(q, r), There(Graft(p, q, r))
        PROVE  r \in moved
    <3>1. Graft(p, q, r) \in DOMAIN View /\ IsPrefixOf(p, Graft(p, q, r))
          /\ Graft(q, p, Graft(p, q, r)) = r
      BY <1>5, <1>7, <2>2
    <3> QED
      BY <3>1
  <2> QED
    BY <2>1, <2>2
<1>10. DOMAIN V = stay \cup moved /\ V = [r \in DOMAIN V |-> V[r]]
  OBVIOUS
<1>11. \A r \in stay \cup moved : V[r] = View[before(r)]
  OBVIOUS
<1> HIDE DEF stay, moved, V
<1>12. \A r : r \in DOMAIN V <=> r \in Seq(Name) /\ There(r)'
  <2>1. \A r \in Seq(Name) : There(r)' <=> \/ There(r) /\ ~IsPrefixOf(p, r)
                                           \/ IsPrefixOf(q, r) /\ There(Graft(p, q, r))
    BY <1>2 DEF There
  <2> QED
    BY <1>8, <1>9, <1>10, <2>1
<1>13. ASSUME NEW r \in Seq(Name), NEW y \in Item, Leads(r, y)'
       PROVE  Shows(V, r, type'[y])
  <2>1. r \in stay \cup moved
    BY <1>10, <1>12, <1>13 DEF There
  <2>2. CASE Leads(r, y) /\ ~IsPrefixOf(p, r)
    <3>1. ~IsPrefixOf(q, r) /\ View[r] = type[y]
      BY <1>4, <2>2 DEF There, ViewIs
    <3> QED
      BY <1>1, <1>11, <2>1, <3>1 DEF Shows
  <2>3. CASE IsPrefixOf(q, r) /\ Leads(Graft(p, q, r), y)
    <3>1. View[Graft(p, q, r)] = type[y]
      BY <1>5, <2>3 DEF ViewIs
    <3> QED
      BY <1>1, <1>11, <2>1, <2>3, <3>1 DEF Shows
  <2> QED
    BY <1>2, <1>13, <2>2, <2>3
<1>14. View' = V
  BY <1>10, <1>12, <1>13, NewView
<1>15. Running' /\ ~Abstract!Exists(q)
  BY <1>1, <1>3, AbsExists DEF Running
<1>16. \A r, s : Abstract!Under(r, s) <=> IsPrefixOf(r, s)
  BY DEF Abstract!Under, IsPrefixOf
<1>17. Abstract!Move(p, q)
  BY <1>14, <1>15, <1>16 DEF Abstract!Move, V, stay, moved, Graft
<1> QED
  BY <1>15, <1>17

(* The end of a rename onto a path that exists.                            *)
LEMMA ReplaceStep ==
  ASSUME TreeAssumption, PathsReach, NInv, ViewIs, Running,
         NEW p \in Seq(Name), NEW x \in Item, Leads(p, x),
         NEW q \in Seq(Name), NEW y \in Item, Leads(q, y), ~IsPrefixOf(p, q),
         type[x] = "DIR" <=> type[y] = "DIR", items[y] = EmptyMap, ReplaceItem
  PROVE  Abstract!Stop
PROOF
<1> DEFINE ns == IF Running THEN View ELSE <<>>
<1>1. p \in DOMAIN ns /\ q \in DOMAIN ns
  BY DEF ViewIs, There
<1>2. ns[p] = type[x] /\ ns[q] = type[y]
  BY AbsType
<1>3. Abstract!Children(q) = {}
  BY NoChildren
<1>4. p # q
  BY CutAll, PrefixIsCut
<1>5. ~Running' /\ Abstract!Answer("rename", "NONE")
  BY DEF ReplaceItem, Undefined, Running, Answer, Abstract!Answer
<1> HIDE DEF ns
<1>6. ns' = <<>>
  BY <1>5 DEF ns
<1>7. \E r, s \in DOMAIN ns : /\ r # s /\ (ns[r] = "DIR" <=> ns[s] = "DIR")
                              /\ Abstract!Children(s) = {}
  BY <1>1, <1>2, <1>3, <1>4
<1> QED
  BY <1>5, <1>6, <1>7 DEF Abstract!Stop, ns

(* What stands at the new path.                                            *)
LEMMA NewIs ==
  ASSUME TreeAssumption, PathsReach, NInv, NEW q \in Seq(Name), q # <<>>,
         NEW d \in Item, Leads(Parent(q), d), items[d][ps_last_file(q)] # NoItem
  PROVE  LET new == items[d][ps_last_file(q)]
         IN  /\ new \in Item /\ Leads(q, new) /\ fs_get_item(q, 0) = Found(new)
             /\ fs_item_is_dir(new) <=> type[new] = "DIR"
             /\ ~fs_item_is_dir(new) => items[new] = EmptyMap
             /\ LooksEmpty(new) = {items[new] = EmptyMap}
PROOF
<1> DEFINE new == items[d][ps_last_file(q)]
<1>1. Linked /\ TypeOK
  BY DEF NInv, IInv
<1>2. new \in Item
  <2>1. ps_last_file(q) \in Name
    BY DEF ps_last_file
  <2> QED
    BY <1>1, <2>1 DEF TypeOK
<1> HIDE DEF new
<1>3. Leads(q, new)
  BY <1>2, LastStep DEF new
<1>4. fs_get_item(q, 0) = Found(new)
  BY <1>1, <1>3, LeadsFound
<1>5. fs_item_is_dir(new) <=> type[new] = "DIR"
  BY <1>2, DirsOnly DEF NInv
<1>6. type[new] # "DIR" => items[new] = EmptyMap
  BY <1>1, <1>2 DEF Linked, TypeOK, EmptyMap
<1>7. type[new] # "SOCK"
  BY <1>2 DEF NInv, Made, PathsReach
<1> QED
  BY <1>2, <1>3, <1>4, <1>5, <1>6, <1>7 DEF LooksEmpty, new

LEMMA RenameStep ==
  ASSUME TreeAssumption, PathsReach, NInv, NInv', ViewIs, ViewIs', Running,
         NEW p \in ClientPaths, NEW q \in ClientPaths, KernelRenames(p, q), fdo_rename(p, q)
  PROVE  Abstract!Rename(p, q) \/ Abstract!Stop
PROOF
<1> DEFINE old == fs_get_item(p, 0)
           at == fs_get_item(q, 0)
           dir == fs_get_dir_item(q, 1)
           new == items[dir.item][ps_last_file(q)]
           err == IF Abstract!Last(p) \in LongName \/ Abstract!Last(q) \in LongName
                  THEN "ENAMETOOLONG"
                  ELSE IF Abstract!Missing(p) # "OK" THEN Abstract!Missing(p)
                  ELSE IF Abstract!NoParent(q) # "OK" THEN Abstract!NoParent(q)
                  ELSE IF Abstract!Exists(q) /\ Abstract!Children(q) # {} THEN "ENOTEMPTY"
                  ELSE "OK"
           short == parse_path_string(p) = "OK" /\ parse_path_string(q) = "OK"
<1>1. p \in Seq(Name) /\ q \in Seq(Name) /\ p # <<>> /\ q # <<>>
  BY ClientPathIs
<1>2. \/ old = Found(old.item) /\ Leads(p, old.item)
      \/ old = Fail("ENOTDIR")
      \/ old = Fail("ENOENT")
  BY <1>1, GetAnswers DEF NInv
<1>3. \/ dir = Found(dir.item) /\ Leads(Parent(q), dir.item)
      \/ dir = Fail("ENOTDIR")
      \/ dir = Fail("ENOENT")
  BY <1>1, DirAnswers
<1>4. short => Abstract!Missing(p) = old.ret /\ Abstract!NoParent(q) = dir.ret
  BY <1>1, AbsMissing, AbsNoParent
<1>5. short <=> ~(Abstract!Last(p) \in LongName \/ Abstract!Last(q) \in LongName)
  BY ParseIs
<1>6. ~IsPrefixOf(p, q) /\ ~IsPrefixOf(q, p)
      /\ (old.ret = "OK" /\ at.ret = "OK" => (type[old.item] = "DIR" <=> type[at.item] = "DIR"))
  BY DEF KernelRenames
<1>7. \/ ~short /\ Refuse("rename", "ENAMETOOLONG")
      \/ short /\ old.ret # "OK" /\ Refuse("rename", old.ret)
      \/ short /\ old.ret = "OK" /\ dir.ret # "OK" /\ Refuse("rename", dir.ret)
      \/ /\ short /\ old.ret = "OK" /\ dir.ret = "OK" /\ new = NoItem
         /\ MoveItem(old.item, dir.item, ps_last_file(q))
      \/ /\ short /\ old.ret = "OK" /\ dir.ret = "OK" /\ new # NoItem
         /\ \/ ~fs_item_is_dir(old.item) /\ ReplaceItem
            \/ fs_item_is_dir(old.item) /\ ~fs_item_is_dir(new)
            \/ /\ fs_item_is_dir(old.item) /\ fs_item_is_dir(new)
               /\ \E empty \in LooksEmpty(new) :
                    IF empty THEN ReplaceItem ELSE Refuse("rename", "ENOTEMPTY")
  BY ParseIs DEF fdo_rename, fs_rename
<1>8. Abstract!Rename(p, q) <=>
        /\ ~IsPrefixOf(p, q) /\ ~IsPrefixOf(q, p)
        /\ \/ Abstract!Refuse("rename", err)
           \/ /\ Abstract!Answer("rename", "OK") /\ err = "OK" /\ ~Abstract!Exists(q)
              /\ Abstract!Move(p, q) /\ UNCHANGED Running
  BY DEF Abstract!Rename, Abstract!Under, IsPrefixOf
<1> HIDE DEF short, old, at, dir
<1>9. ASSUME err \in Abstract!Errno, Refuse("rename", err)
      PROVE  Abstract!Rename(p, q)
  <2> HIDE DEF err
  <2>1. Abstract!Refuse("rename", err)
    BY <1>9, RefuseStep
  <2> QED
    BY <1>6, <1>8, <2>1
<1>10. CASE ~short /\ Refuse("rename", "ENAMETOOLONG")
  <2>1. err = "ENAMETOOLONG"
    BY <1>5, <1>10
  <2> QED
    BY <1>9, <1>10, <2>1 DEF Abstract!Errno
<1>11. CASE short /\ old.ret # "OK" /\ Refuse("rename", old.ret)
  <2>1. err = old.ret /\ old.ret \in Abstract!Errno
    BY <1>2, <1>4, <1>5, <1>11 DEF Abstract!Errno, Found, Fail
  <2> QED
    BY <1>9, <1>11, <2>1
<1>12. CASE short /\ old.ret = "OK" /\ dir.ret # "OK" /\ Refuse("rename", dir.ret)
  <2>1. err = dir.ret /\ dir.ret \in Abstract!Errno
    BY <1>3, <1>4, <1>5, <1>12 DEF Abstract!Errno, Found, Fail
  <2> QED
    BY <1>9, <1>12, <2>1
<1>13. ASSUME old.ret = "OK", dir.ret = "OK"
       PROVE  /\ Leads(p, old.item) /\ old.item \in Item /\ Live(old.item)
              /\ fs_item_is_dir(old.item) <=> type[old.item] = "DIR"
              /\ Leads(Parent(q), dir.item) /\ dir.item \in Item
  <2>1. Leads(p, old.item) /\ Leads(Parent(q), dir.item)
    BY <1>2, <1>3, <1>13 DEF Fail
  <2>2. old.item \in Item /\ Live(old.item)
    BY <1>1, <2>1, LeadsLive DEF NInv
  <2>3. dir.item \in Item
    BY <2>1, ClientPathIs, LeadsItem
  <2> QED
    BY <2>1, <2>2, <2>3, DirsOnly DEF NInv
<1>14. CASE /\ short /\ old.ret = "OK" /\ dir.ret = "OK" /\ new = NoItem
            /\ MoveItem(old.item, dir.item, ps_last_file(q))
  <2>1. /\ Leads(p, old.item) /\ old.item \in Item /\ Live(old.item)
        /\ Leads(Parent(q), dir.item) /\ dir.item \in Item
    BY <1>13, <1>14
  <2>2. old.item # Root
    <3>1. IInv /\ old = fs_get_item(p, 0)
      BY DEF NInv, old
    <3>2. p \in Paths /\ 0 \in 0..Len(p) /\ 0 # Len(p)
      BY PathIsSeq, ClientPathIs
    <3> QED
      BY <1>14, <3>1, <3>2, GetItem
  <2>3. /\ ~Abstract!Exists(q) /\ Abstract!Move(p, q) /\ UNCHANGED Running
    BY <1>1, <1>6, <1>14, <2>1, <2>2, MoveStep
  <2>4. Abstract!Answer("rename", "OK")
    BY <1>14 DEF MoveItem, Answer, Abstract!Answer
  <2>5. err = "OK"
    BY <1>4, <1>5, <1>14, <2>3
  <2> QED
    BY <1>6, <1>8, <2>3, <2>4, <2>5
<1>15. CASE /\ short /\ old.ret = "OK" /\ dir.ret = "OK" /\ new # NoItem
            /\ \/ ~fs_item_is_dir(old.item) /\ ReplaceItem
               \/ fs_item_is_dir(old.item) /\ ~fs_item_is_dir(new)
               \/ /\ fs_item_is_dir(old.item) /\ fs_item_is_dir(new)
                  /\ \E empty \in LooksEmpty(new) :
                       IF empty THEN ReplaceItem ELSE Refuse("rename", "ENOTEMPTY")
  <2>1. /\ Leads(p, old.item) /\ old.item \in Item
        /\ fs_item_is_dir(old.item) <=> type[old.item] = "DIR"
        /\ Leads(Parent(q), dir.item) /\ dir.item \in Item
    BY <1>13, <1>15
  <2>2. /\ new \in Item /\ Leads(q, new) /\ at = Found(new)
        /\ fs_item_is_dir(new) <=> type[new] = "DIR"
        /\ ~fs_item_is_dir(new) => items[new] = EmptyMap
        /\ LooksEmpty(new) = {items[new] = EmptyMap}
    BY <1>1, <1>15, <2>1, NewIs DEF at
  <2> HIDE DEF new
  <2>3. type[old.item] = "DIR" <=> type[new] = "DIR"
    BY <1>6, <1>15, <2>2 DEF Found
  <2>4. CASE items[new] = EmptyMap /\ ReplaceItem
    <3>1. Abstract!Stop
      BY <1>1, <1>6, <2>1, <2>2, <2>3, <2>4, ReplaceStep
    <3> QED
      BY <3>1
  <2>5. CASE items[new] # EmptyMap /\ Refuse("rename", "ENOTEMPTY")
    <3>1. Abstract!Exists(q)
      BY <1>1, <2>2, AbsType
    <3>2. Abstract!Children(q) # {}
      BY <1>1, <2>2, <2>5, NoChildren
    <3>3. err = "ENOTEMPTY"
      BY <1>4, <1>5, <1>15, <3>1, <3>2
    <3> QED
      BY <1>9, <2>5, <3>3 DEF Abstract!Errno
  <2> QED
    BY <1>15, <2>1, <2>2, <2>3, <2>4, <2>5
<1> QED
  BY <1>7, <1>10, <1>11, <1>12, <1>14, <1>15

LEMMA MountPointStep ==
  ASSUME TreeAssumption, NInv, ViewIs, ViewIs', GetattrMountPoint
  PROVE  Abstract!MountPoint \/ Abstract!Stop
PROOF
<1>1. type[Root] = "DIR"
  BY DEF NInv, IInv, RootIsDir
<1>2. \/ /\ UNCHANGED <<tree, status>>
         /\ \/ reply' = [op |-> "getattr", ret |-> "OK", mode |-> "DIR", names |-> {}]
            \/ reply' = [op |-> "getattr", ret |-> "ENAMETOOLONG", mode |-> "NONE", names |-> {}]
      \/ status' = "aborted" /\ Abstract!Answer("getattr", "NONE")
  BY <1>1 DEF GetattrMountPoint, Refuse, Answer, Abstract!Answer
<1>3. CASE UNCHANGED <<tree, status>>
           /\ \/ reply' = [op |-> "getattr", ret |-> "OK", mode |-> "DIR", names |-> {}]
              \/ reply' = [op |-> "getattr", ret |-> "ENAMETOOLONG", mode |-> "NONE", names |-> {}]
  <2>1. UNCHANGED <<IF Running THEN View ELSE <<>>, Running>>
    BY <1>3, SameNamespace
  <2> QED
    BY <1>3, <2>1 DEF Abstract!MountPoint
<1>4. CASE status' = "aborted" /\ Abstract!Answer("getattr", "NONE")
  BY <1>4 DEF Running, Abstract!Stop
<1> QED
  BY <1>2, <1>3, <1>4

(* No item is a socket: the daemon ends as it should.                      *)
LEMMA UnmountStep ==
  ASSUME TreeAssumption, PathsReach, NInv, free_fs
  PROVE  Abstract!Stop
PROOF
<1>1. ~\E x \in Subtree(Root) : type[x] = "SOCK"
  BY DEF Subtree, NInv, Made, PathsReach
<1>2. status' = "unmounted" /\ Abstract!Answer("unmount", "OK")
  BY <1>1 DEF free_fs, Answer, Abstract!Answer
<1> QED
  BY <1>2 DEF Running, Abstract!Stop

(* Calls that meet answer as Namespace says, or ENOENT, or never.          *)
LEMMA MissStep ==
  ASSUME ViewIs, ViewIs', Overlap, NEW op, NEW ret, ret # "ENAMETOOLONG", Refuse(op, "ENOENT")
  PROVE  Abstract!Refuse(op, ret)
PROOF
<1>1. UNCHANGED <<tree, status>> /\ Abstract!Answer(op, "ENOENT")
  BY DEF Refuse, Answer, Abstract!Answer
<1>2. UNCHANGED <<IF Running THEN View ELSE <<>>, Running>>
  BY <1>1, SameNamespace
<1>3. "ENOENT" \in Abstract!Errno
  BY DEF Abstract!Errno
<1> QED
  BY <1>1, <1>2, <1>3 DEF Abstract!Refuse

LEMMA OvertakenStep ==
  ASSUME TreeAssumption, PathsReach, NInv, ViewIs, ViewIs', Overtaken
  PROVE  Abstract!Next
PROOF
<1>1. Running /\ Overlap
  BY DEF Overtaken
<1>2. CASE OvertakenEnd
  <2>1. ~Running' /\ Abstract!Answer("none", "NONE")
    BY <1>2 DEF OvertakenEnd, Undefined, Running, Answer, Abstract!Answer
  <2> QED
    BY <1>1, <2>1 DEF Abstract!Next, Abstract!Stop
<1>3. ASSUME NEW p \in ClientPaths, parse_path_string(p) = "OK", OvertakenAnswer(p)
      PROVE  Abstract!Next
  <2>1. p \in Abstract!Paths /\ p \in Seq(Name) /\ p # <<>>
    BY SamePaths, ClientPathIs DEF ClientPaths
  <2>2. Abstract!Last(p) \notin LongName
    BY <1>3, ParseIs
  <2>3. Abstract!Missing(p) # "ENAMETOOLONG" /\ Abstract!NoParent(p) # "ENAMETOOLONG"
    BY <2>2 DEF Abstract!Missing, Abstract!NoParent, Abstract!Error
  <2>4. CASE Refuse("getattr", "ENOENT")
    BY <1>1, <2>1, <2>3, <2>4, MissStep DEF Abstract!Next, Abstract!Getattr
  <2>5. CASE Refuse("unlink", "ENOENT")
    <3> DEFINE err == IF Abstract!Missing(p) = "OK"
                         /\ (IF Running THEN View ELSE <<>>)[p] = "DIR"
                      THEN "EISDIR" ELSE Abstract!Missing(p)
    <3>1. err # "ENAMETOOLONG"
      BY <2>3
    <3>2. Abstract!Refuse("unlink", err) => Abstract!Unlink(p)
      BY DEF Abstract!Unlink
    <3> HIDE DEF err
    <3> QED
      BY <1>1, <2>1, <2>5, <3>1, <3>2, MissStep DEF Abstract!Next
  <2>6. CASE Refuse("rmdir", "ENOENT")
    <3> DEFINE err == IF Abstract!Missing(p) # "OK" THEN Abstract!Missing(p)
                      ELSE IF (IF Running THEN View ELSE <<>>)[p] # "DIR" THEN "ENOTDIR"
                      ELSE IF Abstract!Children(p) # {} THEN "ENOTEMPTY" ELSE "OK"
    <3>1. err # "ENAMETOOLONG"
      BY <2>3
    <3>2. Abstract!Refuse("rmdir", err) => Abstract!Rmdir(p)
      BY DEF Abstract!Rmdir
    <3> HIDE DEF err
    <3> QED
      BY <1>1, <2>1, <2>6, <3>1, <3>2, MissStep DEF Abstract!Next
  <2>7. CASE /\ KernelCreates(p)
             /\ Refuse("mkdir", "ENOENT") \/ (MknodType # {} /\ Refuse("mknod", "ENOENT"))
    <3>1. ~Abstract!Exists(p)
      <4>1. ~There(p)
        BY <2>1, <2>7, GetAnswers DEF KernelCreates, NInv, Found
      <4> QED
        BY <1>1, <2>1, <4>1, AbsExists
    <3>2. ASSUME NEW op, NEW t, Refuse(op, "ENOENT")
          PROVE  Abstract!Create(op, p, t)
      BY <1>1, <2>3, <3>1, <3>2, MissStep DEF Abstract!Create
    <3> QED
      BY <1>1, <2>1, <2>7, <3>2 DEF Abstract!Next
  <2>8. CASE /\ \E q \in ClientPaths : KernelRenames(p, q) /\ parse_path_string(q) = "OK"
             /\ Refuse("rename", "ENOENT")
    <3>1. PICK q \in ClientPaths : KernelRenames(p, q) /\ parse_path_string(q) = "OK"
      BY <2>8
    <3>2. q \in Abstract!Paths /\ q \in Seq(Name) /\ q # <<>>
      BY SamePaths, ClientPathIs DEF ClientPaths
    <3>3. Abstract!Last(q) \notin LongName
      BY <3>1, ParseIs
    <3>4. Abstract!NoParent(q) # "ENAMETOOLONG"
      BY <3>3 DEF Abstract!NoParent, Abstract!Error
    <3> DEFINE err == IF Abstract!Last(p) \in LongName \/ Abstract!Last(q) \in LongName
                      THEN "ENAMETOOLONG"
                      ELSE IF Abstract!Missing(p) # "OK" THEN Abstract!Missing(p)
                      ELSE IF Abstract!NoParent(q) # "OK" THEN Abstract!NoParent(q)
                      ELSE IF Abstract!Exists(q) /\ Abstract!Children(q) # {} THEN "ENOTEMPTY"
                      ELSE "OK"
    <3>5. err # "ENAMETOOLONG"
      BY <2>2, <2>3, <3>3, <3>4
    <3>6. ~Abstract!Under(p, q) /\ ~Abstract!Under(q, p)
      BY <3>1 DEF KernelRenames, Abstract!Under, IsPrefixOf
    <3>7. Abstract!Refuse("rename", err) => Abstract!Rename(p, q)
      BY <3>6 DEF Abstract!Rename
    <3> HIDE DEF err
    <3> QED
      BY <1>1, <2>1, <2>8, <3>2, <3>5, <3>7, MissStep DEF Abstract!Next
  <2> QED
    BY <1>3, <2>4, <2>5, <2>6, <2>7, <2>8 DEF OvertakenAnswer
<1> QED
  BY <1>2, <1>3 DEF Overtaken

LEMMA NextStep ==
  ASSUME TreeAssumption, PathsReach, NInv, NInv', ViewIs, ViewIs', Next
  PROVE  Abstract!Next
PROOF
<1>1. Running
  BY DEF Next, Getattr, Readdir, Mkdir, Mknod, Unlink, Rmdir, Rename, Unmount, Overtaken
<1>2. ClientPaths \subseteq Abstract!Paths
  BY SamePaths DEF ClientPaths
<1>3. CASE Getattr
  BY <1>1, <1>2, <1>3, GetattrStep, MountPointStep DEF Getattr, Abstract!Next
<1>4. CASE Readdir
  BY <1>1, <1>2, <1>4, ReaddirStep DEF Readdir, Abstract!Next
<1>5. CASE Mkdir
  <2>1. PICK p \in ClientPaths : KernelCreates(p) /\ fdo_mkdir(p)
    BY <1>5 DEF Mkdir
  <2>2. Abstract!Create("mkdir", p, "DIR")
    BY <1>1, <2>1, CreateStep DEF fdo_mkdir
  <2> QED
    BY <1>1, <1>2, <2>2 DEF Abstract!Next
<1>6. CASE Mknod
  <2>1. PICK p \in ClientPaths, t \in MknodType : KernelCreates(p) /\ fdo_mknod(p, t)
    BY <1>6 DEF Mknod
  <2>2. Abstract!Create("mknod", p, t)
    BY <1>1, <2>1, CreateStep DEF fdo_mknod
  <2> QED
    BY <1>1, <1>2, <2>2 DEF Abstract!Next
<1>7. CASE Unlink
  BY <1>1, <1>2, <1>7, UnlinkStep DEF Unlink, Abstract!Next
<1>8. CASE Rmdir
  BY <1>1, <1>2, <1>8, RmdirStep DEF Rmdir, Abstract!Next
<1>9. CASE Rename
  BY <1>1, <1>2, <1>9, RenameStep DEF Rename, Abstract!Next
<1>10. CASE Unmount
  BY <1>1, <1>10, UnmountStep DEF Unmount, Abstract!Next
<1>11. CASE Overtaken
  BY <1>11, OvertakenStep
<1> QED
  BY <1>3, <1>4, <1>5, <1>6, <1>7, <1>8, <1>9, <1>10, <1>11 DEF Next

-----------------------------------------------------------------------------
LEMMA AddMade ==
  ASSUME IInv, Made, NEW op, NEW p, NEW t \in {"DIR"} \cup MknodType,
         IF parse_path_string(p) # "OK" THEN Refuse(op, parse_path_string(p))
         ELSE add_item(op, p, t)
  PROVE  Made'
PROOF
<1>1. UNCHANGED type \/ \E x \in Item : type' = [type EXCEPT ![x] = t]
  BY DEF add_item, Refuse, tree
<1> QED
  BY <1>1 DEF IInv, TypeOK, Made

LEMMA NextMade == TreeAssumption /\ IInv /\ Made /\ [Next]_vars => Made'
PROOF
<1> SUFFICES ASSUME TreeAssumption, IInv, Made, [Next]_vars
             PROVE  Made'
  OBVIOUS
<1>1. \A S : FreeAll(S) => Made'
  BY DEF FreeAll, Made
<1>2. UNCHANGED tree => Made'
  BY DEF tree, Made
<1>3. CASE Getattr \/ Readdir
  BY <1>2, <1>3 DEF Getattr, Readdir, GetattrMountPoint, fdo_getattr, fdo_readdir, Refuse
<1>4. CASE Mkdir
  BY <1>4, AddMade DEF Mkdir, fdo_mkdir
<1>5. CASE Mknod
  BY <1>5, AddMade DEF Mknod, fdo_mknod
<1>6. CASE Unlink
  BY <1>1, <1>2, <1>6 DEF Unlink, fdo_unlink, fs_file_delete, DeleteItem, Refuse
<1>7. CASE Rmdir
  BY <1>1, <1>2, <1>7 DEF Rmdir, fdo_rmdir, fs_dir_delete, DeleteItem, Refuse
<1>8. CASE Rename
  <2>1. PICK p \in ClientPaths, q \in ClientPaths : fdo_rename(p, q)
    BY <1>8 DEF Rename
  <2>2. UNCHANGED tree \/ UNCHANGED type
    BY <2>1, RenameEffect DEF MoveItem
  <2> QED
    BY <1>2, <2>2 DEF Made
<1>9. CASE Unmount
  BY <1>1, <1>2, <1>9 DEF Unmount, free_fs
<1>10. CASE UNCHANGED vars
  BY <1>2, <1>10 DEF vars, tree
<1>11. CASE Overtaken
  BY <1>2, <1>11, OvertakenEffect
<1> QED
  BY <1>3, <1>4, <1>5, <1>6, <1>7, <1>8, <1>9, <1>10, <1>11 DEF Next

LEMMA InitMade == Init => Made
PROOF
<1> QED
  BY DEF Init, Made

LEMMA NamespaceInvariant == Spec => []NInv
PROOF
<1> QED
  BY InitIInv, NextIInv, InitMade, NextMade, TreeAssumption, PTL DEF Spec, NInv

(* At first there is the mount point.                                      *)
LEMMA InitNamespace ==
  ASSUME TreeAssumption, PathsReach, Init
  PROVE  Abstract!Init
PROOF
<1>1. IInv /\ Linked /\ type[Root] = "DIR" /\ Root \in Item /\ Running
  BY InitIInv DEF Init, IInv, TreeAssumption, Running
<1>2. ViewIs
  BY <1>1, ViewIsPaths
<1>3. <<>> \in Seq(Name) /\ Leads(<<>>, Root)
  BY <1>1, RootLeads
<1>4. ASSUME NEW p \in Seq(Name), NEW x \in Item, Leads(p, x), p # <<>>
      PROVE  FALSE
  <2>1. PICK c \in [0..Len(p) -> Item] : Chain(p, c) /\ c[Len(p)] = x
    BY <1>4 DEF Leads
  <2>2. 1 \in 1..Len(p) /\ Len(p) \in Nat
    BY <1>4
  <2>3. c[0] \in Item /\ p[1] \in Name /\ items[c[0]][p[1]] = c[1] /\ c[1] \in Item
    BY <2>1, <2>2 DEF Chain
  <2> QED
    BY <2>3 DEF Init, EmptyMap, TreeAssumption
<1>5. DOMAIN View = {<<>>} /\ View[<<>>] = "DIR"
  <2>1. \A p \in Seq(Name) : There(p) <=> p = <<>>
    BY <1>1, <1>3, <1>4 DEF There
  <2>2. \A p : p \in DOMAIN View <=> p \in Seq(Name) /\ There(p)
    BY <1>2 DEF ViewIs
  <2>3. View[<<>>] = type[Root]
    BY <1>1, <1>2, <1>3 DEF ViewIs
  <2> QED
    BY <1>1, <1>3, <2>1, <2>2, <2>3
<1>6. View = [p \in {<<>>} |-> "DIR"]
  BY <1>2, <1>5 DEF ViewIs
<1> QED
  BY <1>1, <1>6 DEF Abstract!Init, Init

(* For any number of items, of names and of levels: each call answers as   *)
(* Namespace says, and what clients see of the tree changes as it says.    *)
(* It rests on the handlers of main.c and on fs_get_item, fs_rename,       *)
(* add_item and the two deletions of fs.c.                                 *)
THEOREM TreeImplementsNamespace == PathsReach => (Spec => ImplementsNamespace)
PROOF
<1> SUFFICES ASSUME PathsReach
             PROVE  Spec => ImplementsNamespace
  OBVIOUS
<1>1. Init => Abstract!Init
  BY InitNamespace, TreeAssumption
<1>2. NInv => ViewIs
  BY ViewIsPaths, TreeAssumption DEF NInv
<1>3. ASSUME NInv, NInv', ViewIs, ViewIs', [Next]_vars
      PROVE  [Abstract!Next]_(Abstract!vars)
  <2>1. CASE Next
    BY <1>3, <2>1, NextStep, TreeAssumption
  <2>2. CASE UNCHANGED vars
    <3>1. UNCHANGED <<tree, status>> /\ UNCHANGED reply
      BY <2>2 DEF vars, tree
    <3>2. UNCHANGED <<IF Running THEN View ELSE <<>>, Running>>
      BY <1>3, <3>1, SameNamespace
    <3> QED
      BY <3>1, <3>2 DEF Abstract!vars
  <2> QED
    BY <1>3, <2>1, <2>2
<1> QED
  BY <1>1, <1>2, <1>3, NamespaceInvariant, PTL DEF Spec, ImplementsNamespace, Abstract!Spec

=============================================================================
