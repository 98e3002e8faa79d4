---------------------------- MODULE FsTreeProofs ----------------------------
(***************************************************************************)
(* Proofs about FsTree for every set of items and names: the pointers that *)
(* hold the tree together first, the paths through it after.               *)
(***************************************************************************)
EXTENDS FsTree, TLAPS, NaturalSets, FiniteSetTheorems, SequenceTheorems

-----------------------------------------------------------------------------
Turn(p, k, f, i) ==
  IF i = 0 THEN Found(Root)
  ELSE IF f[i - 1].ret # "OK" THEN f[i - 1]
  ELSE Lookup(f[i - 1].item, p[i], i, k)

(* The recursive function Walk(p, k) exists and satisfies its definition.  *)
LEMMA WalkDef ==
  ASSUME NEW p, NEW k \in Nat
  PROVE  Walk(p, k) = [i \in 0..k |-> Turn(p, k, Walk(p, k), i)]
PROOF
<1> DEFINE T == {m \in Nat : m <= k => \E f : f = [i \in 0..m |-> Turn(p, k, f, i)]}
<1>1. 0 \in T
  <2> DEFINE f == [i \in 0..0 |-> Found(Root)]
  <2>1. f = [i \in 0..0 |-> Turn(p, k, f, i)]
    BY DEF Turn
  <2> HIDE DEF f
  <2> QED
    BY <2>1
<1>2. ASSUME NEW m \in Nat, m \in T
      PROVE  m + 1 \in T
  <2> SUFFICES ASSUME m + 1 <= k
               PROVE  \E f : f = [i \in 0..(m + 1) |-> Turn(p, k, f, i)]
    OBVIOUS
  <2>1. PICK g : g = [i \in 0..m |-> Turn(p, k, g, i)]
    BY <1>2
  <2> DEFINE f == [i \in 0..(m + 1) |-> IF i = m + 1 THEN Turn(p, k, g, i) ELSE g[i]]
  <2>2. ASSUME NEW i \in 0..(m + 1)
        PROVE  f[i] = Turn(p, k, f, i)
    <3>1. i # 0 => f[i - 1] = g[i - 1]
      OBVIOUS
    <3>2. Turn(p, k, f, i) = Turn(p, k, g, i)
      BY <3>1 DEF Turn
    <3>3. CASE i = m + 1
      BY <3>2, <3>3
    <3>4. CASE i # m + 1
      <4>1. i \in 0..m /\ f[i] = g[i]
        BY <3>4
      <4> QED
        BY <2>1, <3>2, <4>1
    <3> QED
      BY <3>3, <3>4
  <2>3. f = [i \in 0..(m + 1) |-> f[i]]
    OBVIOUS
  <2> HIDE DEF f
  <2>4. f = [i \in 0..(m + 1) |-> Turn(p, k, f, i)]
    BY <2>2, <2>3
  <2> QED
    BY <2>4
<1> HIDE DEF T
<1>3. k \in T
  BY <1>1, <1>2, SetInduction
<1>4. \E f : f = [i \in 0..k |-> Turn(p, k, f, i)]
  BY <1>3 DEF T
<1>5. Walk(p, k) = CHOOSE f : f = [i \in 0..k |-> Turn(p, k, f, i)]
  BY DEF Walk, Turn
<1> QED
  BY <1>4, <1>5

-----------------------------------------------------------------------------
RootIsDir == type[Root] = "DIR"

(* Linked and NoLeak are inductive together: an operation deletes through  *)
(* the parent and the name an item claims (Linked), and what it claims has *)
(* to be the entry that holds it (NoLeak).                                 *)
IInv == TypeOK /\ RootIsDir /\ Linked /\ NoLeak

(* What the walk is at after i components: an error, the root or an entry  *)
(* of some directory.                                                      *)
Reached(p, i, r) ==
  /\ r.ret \in {"OK", "ENOENT", "ENOTDIR"}
  /\ r.ret = "OK" =>
       /\ r.item \in Item
       /\ i = 0 => r.item = Root
       /\ i # 0 => \E d \in Item, n \in Name : items[d][n] = r.item

LEMMA WalkReaches ==
  ASSUME TreeAssumption, TypeOK, NEW p \in Seq(Name), NEW k \in 0..Len(p)
  PROVE  \A i \in 0..k : Reached(p, i, Walk(p, k)[i])
PROOF
<1> DEFINE w == Walk(p, k)
           T == {i \in Nat : i <= k => Reached(p, i, w[i])}
<1>1. \A i \in 0..k : w[i] = Turn(p, k, w, i)
  <2>1. w = [i \in 0..k |-> Turn(p, k, w, i)]
    BY WalkDef
  <2> HIDE DEF w
  <2> QED
    BY <2>1
<1> HIDE DEF w
<1>2. 0 \in T
  <2>1. w[0] = Found(Root)
    BY <1>1 DEF Turn
  <2> QED
    BY <2>1 DEF Reached, Found, TreeAssumption
<1>3. ASSUME NEW i \in Nat, i \in T
      PROVE  i + 1 \in T
  <2> SUFFICES ASSUME i + 1 <= k
               PROVE  Reached(p, i + 1, w[i + 1])
    OBVIOUS
  <2>1. Reached(p, i, w[i])
    BY <1>3
  <2>2. w[i + 1] = IF w[i].ret # "OK" THEN w[i] ELSE Lookup(w[i].item, p[i + 1], i + 1, k)
    BY <1>1 DEF Turn
  <2>3. CASE w[i].ret # "OK"
    BY <2>1, <2>2, <2>3 DEF Reached
  <2>4. CASE w[i].ret = "OK"
    <3>1. w[i].item \in Item /\ p[i + 1] \in Name
      BY <2>1, <2>4 DEF Reached
    <3>2. items[w[i].item][p[i + 1]] \in Item \cup {NoItem}
      BY <3>1 DEF TypeOK
    <3> QED
      BY <2>2, <2>4, <3>1, <3>2 DEF Lookup, Found, Fail, Reached
  <2> QED
    BY <2>3, <2>4
<1> HIDE DEF T
<1>4. Nat \subseteq T
  BY <1>2, <1>3, SetInduction
<1> QED
  BY <1>4 DEF T, w

LEMMA PathIsSeq ==
  ASSUME NEW p \in Paths
  PROVE  p \in Seq(Name) /\ Len(p) \in Nat \ {0} /\ p[Len(p)] \in Name
PROOF
<1>1. PICK n \in 1..MaxPath : p \in [1..n -> Name]
  BY DEF Paths
<1>2. MaxPath \in Nat => n \in Nat \ {0}
  OBVIOUS
<1> QED
  BY <1>1 DEF Paths

(* What the path functions answer: an allocated item, the root only for    *)
(* the path without components.                                            *)
LEMMA GetItem ==
  ASSUME TreeAssumption, IInv, NEW p \in Paths, NEW o \in 0..Len(p)
  PROVE  /\ fs_get_item(p, o).ret \in {"OK", "ENOENT", "ENOTDIR"}
         /\ fs_get_item(p, o).ret = "OK" =>
              /\ fs_get_item(p, o).item \in Item
              /\ Live(fs_get_item(p, o).item)
              /\ o = Len(p) => fs_get_item(p, o).item = Root
              /\ o # Len(p) => fs_get_item(p, o).item # Root
PROOF
<1> DEFINE k == Len(p) - o
           r == fs_get_item(p, o)
<1>1. p \in Seq(Name) /\ k \in 0..Len(p) /\ (k = 0 <=> o = Len(p))
  BY PathIsSeq
<1>2. r = Walk(p, k)[k]
  BY DEF fs_get_item
<1>3. Reached(p, k, r)
  BY <1>1, <1>2, WalkReaches DEF IInv
<1> HIDE DEF k, r
<1>4. r.ret = "OK" => Live(r.item) /\ (k # 0 => r.item # Root)
  BY <1>3, <1>1 DEF Reached, IInv, Linked, RootIsDir, Live, TreeAssumption
<1> QED
  BY <1>1, <1>3, <1>4 DEF Reached, r

LEMMA GetDirItem ==
  ASSUME TreeAssumption, IInv, NEW p \in ClientPaths, fs_get_dir_item(p, 1).ret = "OK"
  PROVE  /\ fs_get_dir_item(p, 1).item \in Item
         /\ type[fs_get_dir_item(p, 1).item] = "DIR"
PROOF
<1> DEFINE r == fs_get_item(p, 1)
<1>1. p \in Paths /\ KernelPath(p)
  BY DEF ClientPaths
<1>2. Len(p) \in Nat \ {0} /\ 1 \in 0..Len(p)
  BY <1>1, PathIsSeq
<1>3. r.ret = "OK" /\ fs_item_is_dir(r.item) /\ fs_get_dir_item(p, 1) = r
  BY DEF fs_get_dir_item, Fail
<1>4. r.item \in Item /\ (1 = Len(p) => r.item = Root)
  BY <1>1, <1>2, <1>3, GetItem
<1>5. type[r.item] # "SOCK"
  <2>1. CASE Len(p) = 1
    BY <1>4, <2>1 DEF IInv, RootIsDir
  <2>2. CASE Len(p) # 1
    <3>1. 1 \in 1..(Len(p) - 1)
      <4>1. \A n \in Nat \ {0} : n # 1 => 1 \in 1..(n - 1)
        OBVIOUS
      <4> QED
        BY <1>2, <2>2, <4>1
    <3> QED
      BY <1>1, <1>3, <3>1 DEF KernelPath
  <2> QED
    BY <2>1, <2>2
<1> QED
  BY <1>3, <1>4, <1>5 DEF fs_item_is_dir

LEMMA GetDirItemRet ==
  ASSUME TreeAssumption, IInv, NEW p \in Paths, NEW o \in 0..Len(p)
  PROVE  /\ fs_get_dir_item(p, o).ret \in {"OK", "ENOENT", "ENOTDIR"}
         /\ fs_get_dir_item(p, o).ret = "OK" =>
              fs_get_dir_item(p, o) = fs_get_item(p, o) /\ fs_item_is_dir(fs_get_item(p, o).item)
PROOF
<1> QED
  BY GetItem DEF fs_get_dir_item, Fail

-----------------------------------------------------------------------------
(* sc_map_del and free of an item that has no entries.                     *)
LEMMA DeletePreserves ==
  ASSUME TreeAssumption, IInv, NEW x \in Item, x # Root, Live(x), items[x] = EmptyMap,
         DeleteItem(x), UNCHANGED status, reply'.ret = "OK"
  PROVE  IInv'
PROOF
<1>1. parent[x] \in Item /\ name[x] \in Name /\ items[parent[x]][name[x]] = x
  BY DEF IInv, NoLeak
<1>2. /\ items' = [items EXCEPT ![parent[x]][name[x]] = NoItem]
      /\ \A y \in Item : /\ type'[y] = IF y = x THEN "FREE" ELSE type[y]
                         /\ name'[y] = IF y = x THEN NoName ELSE name[y]
                         /\ parent'[y] = IF y = x THEN NoItem ELSE parent[y]
  BY DEF DeleteItem, FreeAll
<1>3. TypeOK'
  BY <1>1 DEF DeleteItem, FreeAll, IInv, TypeOK
<1>4. \A d \in Item, n \in Name :
        items'[d][n] = IF d = parent[x] /\ n = name[x] THEN NoItem ELSE items[d][n]
  BY <1>1, <1>2 DEF IInv, TypeOK
<1>5. RootIsDir'
  BY <1>2 DEF IInv, RootIsDir, TreeAssumption
<1>6. Linked'
  <2> SUFFICES ASSUME NEW d \in Item, NEW n \in Name, items'[d][n] # NoItem
               PROVE  /\ type'[d] = "DIR"
                      /\ items'[d][n] # Root
                      /\ type'[items'[d][n]] # "FREE"
                      /\ name'[items'[d][n]] = n
                      /\ parent'[items'[d][n]] = d
    BY DEF Linked, Live
  <2>1. items'[d][n] = items[d][n] /\ ~(d = parent[x] /\ n = name[x])
    BY <1>4
  <2>2. /\ type[d] = "DIR" /\ items[d][n] # Root /\ Live(items[d][n])
        /\ name[items[d][n]] = n /\ parent[items[d][n]] = d
    BY <2>1 DEF IInv, Linked
  <2>3. items[d][n] \in Item /\ items[d][n] # x /\ d # x
    BY <2>1, <2>2 DEF IInv, TypeOK, EmptyMap
  <2> QED
    BY <1>2, <2>1, <2>2, <2>3 DEF Live
<1>7. NoLeak'
  <2> SUFFICES ASSUME NEW y \in Item \ {Root}, type'[y] # "FREE"
               PROVE  /\ parent'[y] \in Item
                      /\ name'[y] \in Name
                      /\ items'[parent'[y]][name'[y]] = y
    BY DEF NoLeak, Live
  <2>1. y # x /\ Live(y) /\ parent'[y] = parent[y] /\ name'[y] = name[y]
    BY <1>2 DEF Live
  <2>2. parent[y] \in Item /\ name[y] \in Name /\ items[parent[y]][name[y]] = y
    BY <2>1 DEF IInv, NoLeak
  <2> QED
    BY <1>1, <1>4, <2>1, <2>2
<1> QED
  BY <1>3, <1>5, <1>6, <1>7 DEF IInv

(* A handler that only answers.                                            *)
LEMMA AnswerPreserves ==
  ASSUME IInv, UNCHANGED tree,
         status' \in {"up", "unmounted", "aborted", "corrupt"},
         reply'.ret \in {"OK", "NONE", "ENOENT", "ENOTDIR", "EISDIR", "ENOTEMPTY", "EPERM",
                         "ENAMETOOLONG"}
  PROVE  IInv'
PROOF
<1>1. TypeOK'
  BY DEF IInv, TypeOK, tree
<1> QED
  BY <1>1 DEF IInv, RootIsDir, Linked, NoLeak, Live, tree

LEMMA RefusePreserves ==
  ASSUME IInv, NEW op, NEW ret, Refuse(op, ret),
         ret \in {"ENOENT", "ENOTDIR", "EISDIR", "ENOTEMPTY", "EPERM", "ENAMETOOLONG"}
  PROVE  IInv'
PROOF
<1>1. reply'.ret = ret /\ UNCHANGED tree /\ status' = status
  BY DEF Refuse, Answer
<1>2. status \in {"up", "unmounted", "aborted", "corrupt"}
  BY DEF IInv, TypeOK
<1> QED
  BY <1>1, <1>2, AnswerPreserves

(* The entry add_item puts is not there yet: the walk over the whole path  *)
(* and the walk over its parents go the same way.                          *)
LEMMA WalksAgree ==
  ASSUME NEW p, NEW k \in Nat
  PROVE  \A i \in 0..k : i < k => Walk(p, k + 1)[i] = Walk(p, k)[i]
PROOF
<1> DEFINE v == Walk(p, k)
           w == Walk(p, k + 1)
           T == {i \in Nat : i < k => w[i] = v[i]}
<1>1. \A i \in 0..k : v[i] = Turn(p, k, v, i)
  <2>1. v = [i \in 0..k |-> Turn(p, k, v, i)]
    BY WalkDef
  <2> HIDE DEF v
  <2> QED
    BY <2>1
<1>2. \A i \in 0..(k + 1) : w[i] = Turn(p, k + 1, w, i)
  <2>1. w = [i \in 0..(k + 1) |-> Turn(p, k + 1, w, i)]
    BY WalkDef
  <2> HIDE DEF w
  <2> QED
    BY <2>1
<1> HIDE DEF v, w
<1>3. 0 \in T
  BY <1>1, <1>2 DEF Turn
<1>4. ASSUME NEW i \in Nat, i \in T
      PROVE  i + 1 \in T
  <2> SUFFICES ASSUME i + 1 < k
               PROVE  w[i + 1] = v[i + 1]
    OBVIOUS
  <2>1. w[i] = v[i]
    BY <1>4
  <2>2. w[i + 1] = IF w[i].ret # "OK" THEN w[i] ELSE Lookup(w[i].item, p[i + 1], i + 1, k + 1)
    BY <1>2 DEF Turn
  <2>3. v[i + 1] = IF v[i].ret # "OK" THEN v[i] ELSE Lookup(v[i].item, p[i + 1], i + 1, k)
    BY <1>1 DEF Turn
  <2> QED
    BY <2>1, <2>2, <2>3 DEF Lookup
<1> HIDE DEF T
<1>5. Nat \subseteq T
  BY <1>3, <1>4, SetInduction
<1> QED
  BY <1>5 DEF T, v, w

LEMMA NewEntry ==
  ASSUME TreeAssumption, IInv, NEW p \in Paths, KernelCreates(p),
         fs_get_dir_item(p, 1).ret = "OK"
  PROVE  items[fs_get_dir_item(p, 1).item][ps_last_file(p)] = NoItem
PROOF
<1> DEFINE k == Len(p) - 1
           d == fs_get_item(p, 1)
           v == Walk(p, k)
           w == Walk(p, k + 1)
<1>1. k \in Nat /\ k + 1 = Len(p) /\ p \in Seq(Name) /\ 1 \in 0..Len(p)
  BY PathIsSeq
<1>2. d.ret = "OK" /\ fs_item_is_dir(d.item) /\ fs_get_dir_item(p, 1) = d /\ d = v[k]
  BY <1>1 DEF fs_get_dir_item, Fail, fs_get_item
<1>3. fs_get_item(p, 0) = w[k + 1]
  BY <1>1 DEF fs_get_item
<1>4. \A i \in 0..k : v[i] = Turn(p, k, v, i)
  <2>1. v = [i \in 0..k |-> Turn(p, k, v, i)]
    BY <1>1, WalkDef
  <2> HIDE DEF v
  <2> QED
    BY <2>1
<1>5. \A i \in 0..(k + 1) : w[i] = Turn(p, k + 1, w, i)
  <2>1. w = [i \in 0..(k + 1) |-> Turn(p, k + 1, w, i)]
    BY <1>1, WalkDef
  <2> HIDE DEF w
  <2> QED
    BY <2>1
<1>6. \A i \in 0..k : i < k => w[i] = v[i]
  BY <1>1, WalksAgree
<1> HIDE DEF k, v, w, d
<1>7. w[k] = d
  <2>1. CASE k = 0
    BY <1>1, <1>2, <1>4, <1>5, <2>1 DEF Turn
  <2>2. CASE k # 0
    <3>1. k \in 0..k /\ k \in 0..(k + 1) /\ k - 1 \in 0..k /\ k - 1 < k /\ k # k + 1
      BY <1>1, <2>2
    <3>2. w[k - 1] = v[k - 1]
      BY <1>6, <3>1
    <3>3. v[k] = IF v[k - 1].ret # "OK" THEN v[k - 1] ELSE Lookup(v[k - 1].item, p[k], k, k)
      BY <1>4, <2>2, <3>1 DEF Turn
    <3>4. w[k] = IF w[k - 1].ret # "OK" THEN w[k - 1] ELSE Lookup(w[k - 1].item, p[k], k, k + 1)
      BY <1>5, <2>2, <3>1 DEF Turn
    <3>5. v[k - 1].ret = "OK"
      BY <1>2, <3>3
    <3>6. items[v[k - 1].item][p[k]] # NoItem /\ v[k] = Found(items[v[k - 1].item][p[k]])
      <4> DEFINE L == Lookup(v[k - 1].item, p[k], k, k)
      <4>1. v[k] = L /\ L.ret = "OK"
        BY <1>2, <3>3, <3>5
      <4>2. L.ret = "OK" => /\ items[v[k - 1].item][p[k]] # NoItem
                           /\ L = Found(items[v[k - 1].item][p[k]])
        BY DEF Lookup, Fail
      <4> QED
        BY <4>1, <4>2
    <3>7. fs_item_is_dir(items[v[k - 1].item][p[k]])
      BY <1>2, <3>6 DEF Found
    <3>8. w[k] = Lookup(v[k - 1].item, p[k], k, k + 1)
      BY <3>2, <3>4, <3>5
    <3>9. Lookup(v[k - 1].item, p[k], k, k + 1) = Found(items[v[k - 1].item][p[k]])
      BY <3>6, <3>7 DEF Lookup
    <3> QED
      BY <1>2, <3>6, <3>8, <3>9
  <2> QED
    BY <2>1, <2>2
<1>8. w[k + 1] = Lookup(d.item, p[k + 1], k + 1, k + 1)
  BY <1>1, <1>2, <1>5, <1>7 DEF Turn
<1>9. items[d.item][p[k + 1]] = NoItem
  BY <1>1, <1>3, <1>8 DEF KernelCreates, Lookup, Found
<1> QED
  BY <1>1, <1>2, <1>9 DEF ps_last_file

LEMMA AddPreserves ==
  ASSUME TreeAssumption, IInv, NEW p \in ClientPaths, KernelCreates(p),
         NEW op, NEW t \in ItemType, add_item(op, p, t)
  PROVE  IInv'
PROOF
<1> DEFINE r == fs_get_dir_item(p, 1)
           d == r.item
           n == ps_last_file(p)
<1>1. p \in Paths /\ 1 \in 0..Len(p) /\ n \in Name
  BY PathIsSeq DEF ClientPaths, ps_last_file
<1>2. CASE r.ret # "OK"
  <2>1. r.ret \in {"ENOENT", "ENOTDIR"}
    BY <1>1, <1>2, GetDirItemRet
  <2>2. Refuse(op, r.ret)
    BY <1>2 DEF add_item
  <2> QED
    BY <2>1, <2>2, RefusePreserves
<1>3. CASE r.ret = "OK"
  <2>1. d \in Item /\ type[d] = "DIR"
    BY <1>3, GetDirItem
  <2>2. items[d][n] = NoItem
    BY <1>1, <1>3, NewEntry
  <2>3. PICK x \in Item :
          /\ ~Live(x)
          /\ type' = [type EXCEPT ![x] = t]
          /\ name' = [name EXCEPT ![x] = n]
          /\ parent' = [parent EXCEPT ![x] = d]
          /\ items' = [items EXCEPT ![d][n] = x, ![x] = EmptyMap]
          /\ Answer(op, "OK")
          /\ UNCHANGED status
    BY <1>3 DEF add_item
  <2> HIDE DEF r, d, n
  <2>4. x # d /\ x # Root /\ x # NoItem
    BY <2>1, <2>3 DEF Live, IInv, RootIsDir, TreeAssumption
  <2>5. \A y \in Item : /\ type'[y] = IF y = x THEN t ELSE type[y]
                        /\ name'[y] = IF y = x THEN n ELSE name[y]
                        /\ parent'[y] = IF y = x THEN d ELSE parent[y]
    BY <2>3 DEF IInv, TypeOK
  <2>6. EmptyMap \in [Name -> Item \cup {NoItem}] /\ \A m \in Name : EmptyMap[m] = NoItem
    BY DEF EmptyMap
  <2>7. \A e \in Item, m \in Name :
          items'[e][m] = IF e = x THEN NoItem
                         ELSE IF e = d /\ m = n THEN x ELSE items[e][m]
    BY <2>1, <2>3, <2>4, <2>6, <1>1 DEF IInv, TypeOK
  <2>8. TypeOK'
    <3>1. items' \in [Item -> [Name -> Item \cup {NoItem}]]
      BY <2>1, <2>3, <2>6, <1>1 DEF IInv, TypeOK
    <3> QED
      BY <2>1, <2>3, <3>1, <1>1 DEF IInv, TypeOK, Answer
  <2>9. RootIsDir'
    BY <2>4, <2>5 DEF IInv, RootIsDir, TreeAssumption
  <2>10. Linked'
    <3> SUFFICES ASSUME NEW e \in Item, NEW m \in Name, items'[e][m] # NoItem
                 PROVE  /\ type'[e] = "DIR"
                        /\ items'[e][m] # Root
                        /\ type'[items'[e][m]] # "FREE"
                        /\ name'[items'[e][m]] = m
                        /\ parent'[items'[e][m]] = e
      BY DEF Linked, Live
    <3>1. e # x
      BY <2>7
    <3>2. CASE e = d /\ m = n
      BY <2>1, <2>4, <2>5, <2>7, <3>2 DEF ItemType
    <3>3. CASE ~(e = d /\ m = n)
      <4>1. items'[e][m] = items[e][m] /\ items[e][m] \in Item
        BY <2>7, <3>1, <3>3 DEF IInv, TypeOK
      <4>2. /\ type[e] = "DIR" /\ items[e][m] # Root /\ Live(items[e][m])
            /\ name[items[e][m]] = m /\ parent[items[e][m]] = e
        BY <4>1 DEF IInv, Linked
      <4>3. items[e][m] # x
        BY <2>3, <4>2
      <4> QED
        BY <2>5, <3>1, <4>1, <4>2, <4>3 DEF Live
    <3> QED
      BY <3>2, <3>3
  <2>11. NoLeak'
    <3> SUFFICES ASSUME NEW y \in Item \ {Root}, type'[y] # "FREE"
                 PROVE  /\ parent'[y] \in Item
                        /\ name'[y] \in Name
                        /\ items'[parent'[y]][name'[y]] = y
      BY DEF NoLeak, Live
    <3>1. CASE y = x
      BY <1>1, <2>1, <2>4, <2>5, <2>7, <3>1 DEF n
    <3>2. CASE y # x
      <4>1. Live(y) /\ parent'[y] = parent[y] /\ name'[y] = name[y]
        BY <2>5, <3>2 DEF Live
      <4>2. parent[y] \in Item /\ name[y] \in Name /\ items[parent[y]][name[y]] = y
        BY <4>1 DEF IInv, NoLeak
      <4>3. parent[y] # x
        BY <2>3, <4>2 DEF IInv, Linked, Live, TreeAssumption
      <4>4. ~(parent[y] = d /\ name[y] = n)
        BY <2>2, <4>2 DEF TreeAssumption
      <4> QED
        BY <2>7, <4>1, <4>2, <4>3, <4>4
    <3> QED
      BY <3>1, <3>2
  <2> QED
    BY <2>8, <2>9, <2>10, <2>11 DEF IInv
<1> QED
  BY <1>2, <1>3

LEMMA MovePreserves ==
  ASSUME TreeAssumption, IInv, NEW x \in Item, x # Root, Live(x),
         NEW d \in Item, type[d] = "DIR", NEW n \in Name, items[d][n] = NoItem,
         MoveItem(x, d, n)
  PROVE  IInv'
PROOF
<1>1. parent[x] \in Item /\ name[x] \in Name /\ items[parent[x]][name[x]] = x
  BY DEF IInv, NoLeak
<1>2. /\ type' = type
      /\ \A y \in Item : /\ name'[y] = IF y = x THEN n ELSE name[y]
                         /\ parent'[y] = IF y = x THEN d ELSE parent[y]
  BY DEF MoveItem, IInv, TypeOK
<1>3. items' = [items EXCEPT ![parent[x]][name[x]] = NoItem, ![d][n] = x]
  BY DEF MoveItem
<1>4. x # NoItem /\ ~(d = parent[x] /\ n = name[x])
  BY <1>1 DEF TreeAssumption
<1>5. \A e \in Item, m \in Name :
        items'[e][m] = IF e = d /\ m = n THEN x
                       ELSE IF e = parent[x] /\ m = name[x] THEN NoItem ELSE items[e][m]
  BY <1>1, <1>3, <1>4 DEF IInv, TypeOK
<1>6. TypeOK'
  <2>1. items' \in [Item -> [Name -> Item \cup {NoItem}]]
    BY <1>1, <1>3 DEF IInv, TypeOK
  <2> QED
    BY <2>1 DEF MoveItem, Answer, IInv, TypeOK
<1>7. RootIsDir'
  BY <1>2 DEF IInv, RootIsDir
<1>8. Linked'
  <2> SUFFICES ASSUME NEW e \in Item, NEW m \in Name, items'[e][m] # NoItem
               PROVE  /\ type'[e] = "DIR"
                      /\ items'[e][m] # Root
                      /\ type'[items'[e][m]] # "FREE"
                      /\ name'[items'[e][m]] = m
                      /\ parent'[items'[e][m]] = e
    BY DEF Linked, Live
  <2>1. CASE e = d /\ m = n
    BY <1>2, <1>5, <2>1 DEF Live
  <2>2. CASE ~(e = d /\ m = n)
    <3>1. items'[e][m] = items[e][m] /\ ~(e = parent[x] /\ m = name[x])
      BY <1>5, <2>2
    <3>2. /\ type[e] = "DIR" /\ items[e][m] # Root /\ Live(items[e][m])
          /\ name[items[e][m]] = m /\ parent[items[e][m]] = e /\ items[e][m] \in Item
      BY <3>1 DEF IInv, Linked, TypeOK
    <3>3. items[e][m] # x
      BY <3>1, <3>2
    <3> QED
      BY <1>2, <3>1, <3>2, <3>3 DEF Live
  <2> QED
    BY <2>1, <2>2
<1>9. NoLeak'
  <2> SUFFICES ASSUME NEW y \in Item \ {Root}, type'[y] # "FREE"
               PROVE  /\ parent'[y] \in Item
                      /\ name'[y] \in Name
                      /\ items'[parent'[y]][name'[y]] = y
    BY DEF NoLeak, Live
  <2>1. CASE y = x
    BY <1>2, <1>5, <2>1
  <2>2. CASE y # x
    <3>1. Live(y) /\ parent'[y] = parent[y] /\ name'[y] = name[y]
      BY <1>2, <2>2 DEF Live
    <3>2. parent[y] \in Item /\ name[y] \in Name /\ items[parent[y]][name[y]] = y
      BY <3>1 DEF IInv, NoLeak
    <3>3. ~(parent[y] = d /\ name[y] = n) /\ ~(parent[y] = parent[x] /\ name[y] = name[x])
      BY <1>1, <2>2, <3>2 DEF TreeAssumption
    <3> QED
      BY <1>5, <3>1, <3>2, <3>3
  <2> QED
    BY <2>1, <2>2
<1> QED
  BY <1>6, <1>7, <1>8, <1>9 DEF IInv

-----------------------------------------------------------------------------
(* Subtree(Root) holds the root and is closed, and it is the least such    *)
(* set.                                                                    *)
LEMMA SubtreeClosed ==
  ASSUME TreeAssumption, TypeOK
  PROVE  Root \in Subtree(Root) /\ Closed(Subtree(Root)) /\ Subtree(Root) \subseteq Item
PROOF
<1>1. Root \in Subtree(Root) /\ Subtree(Root) \subseteq Item
  BY DEF Subtree, TreeAssumption
<1>2. ASSUME NEW d \in Subtree(Root), NEW n \in Name, items[d][n] # NoItem
      PROVE  items[d][n] \in Subtree(Root)
  <2>1. items[d][n] \in Item
    BY <1>1, <1>2 DEF TypeOK
  <2>2. ASSUME NEW S \in SUBSET Item, Root \in S, Closed(S)
        PROVE  items[d][n] \in S
    <3>1. d \in S
      BY <2>2 DEF Subtree
    <3> QED
      BY <3>1, <2>2, <1>2 DEF Closed
  <2> QED
    BY <2>1, <2>2 DEF Subtree
<1> QED
  BY <1>1, <1>2 DEF Closed

LEMMA SubtreeLeast ==
  ASSUME NEW S \in SUBSET Item, Root \in S, Closed(S)
  PROVE  Subtree(Root) \subseteq S
PROOF
<1> QED
  BY DEF Subtree

(* Nothing outside the subtree holds an entry of it.                       *)
LEMMA SubtreeOwnsEntries ==
  ASSUME TreeAssumption, IInv, NEW d \in Item, NEW n \in Name,
         items[d][n] # NoItem, items[d][n] \in Subtree(Root)
  PROVE  d \in Subtree(Root)
PROOF
<1> DEFINE y == items[d][n]
           S == Subtree(Root) \ {y}
<1>1. TypeOK
  BY DEF IInv
<1>2. Root \in Subtree(Root) /\ Closed(Subtree(Root)) /\ Subtree(Root) \subseteq Item
  BY <1>1, SubtreeClosed
<1>3. y # Root /\ parent[y] = d
  BY DEF IInv, Linked
<1> SUFFICES ASSUME d \notin Subtree(Root)
             PROVE  FALSE
  OBVIOUS
<1> HIDE DEF y
<1>4. Closed(S)
  <2> SUFFICES ASSUME NEW e \in S, NEW m \in Name, items[e][m] # NoItem
               PROVE  items[e][m] \in S
    BY DEF Closed
  <2>1. items[e][m] \in Subtree(Root) /\ e \in Item
    BY <1>2 DEF Closed
  <2>2. parent[items[e][m]] = e
    BY <2>1 DEF IInv, Linked
  <2>3. items[e][m] # y
    BY <1>3, <2>2
  <2> QED
    BY <2>1, <2>3
<1>5. Subtree(Root) \subseteq S
  BY <1>2, <1>3, <1>4, SubtreeLeast
<1> QED
  BY <1>5 DEF y

LEMMA FreePreserves ==
  ASSUME TreeAssumption, IInv, FreeAll(Subtree(Root) \ {Root}),
         items' = [x \in Item |-> IF x \in Subtree(Root) THEN EmptyMap ELSE items[x]],
         status' = "unmounted", reply'.ret = "OK"
  PROVE  IInv'
PROOF
<1> DEFINE S == Subtree(Root)
<1>1. TypeOK
  BY DEF IInv
<1>2. Root \in S /\ Closed(S) /\ S \subseteq Item
  BY <1>1, SubtreeClosed
<1>3. \A d \in Item, n \in Name : items[d][n] # NoItem /\ items[d][n] \in S => d \in S
  BY SubtreeOwnsEntries
<1>4. /\ type' = [x \in Item |-> IF x \in S \ {Root} THEN "FREE" ELSE type[x]]
      /\ name' = [x \in Item |-> IF x \in S \ {Root} THEN NoName ELSE name[x]]
      /\ parent' = [x \in Item |-> IF x \in S \ {Root} THEN NoItem ELSE parent[x]]
      /\ items' = [x \in Item |-> IF x \in S THEN EmptyMap ELSE items[x]]
  BY DEF FreeAll
<1> HIDE DEF S
<1>5. EmptyMap \in [Name -> Item \cup {NoItem}] /\ \A m \in Name : EmptyMap[m] = NoItem
  BY DEF EmptyMap
<1>6. TypeOK'
  BY <1>1, <1>4, <1>5 DEF TypeOK
<1>7. RootIsDir'
  BY <1>4 DEF IInv, RootIsDir, TreeAssumption
<1>8. Linked'
  <2> SUFFICES ASSUME NEW e \in Item, NEW m \in Name, items'[e][m] # NoItem
               PROVE  /\ type'[e] = "DIR"
                      /\ items'[e][m] # Root
                      /\ type'[items'[e][m]] # "FREE"
                      /\ name'[items'[e][m]] = m
                      /\ parent'[items'[e][m]] = e
    BY DEF Linked, Live
  <2>1. e \notin S /\ items'[e][m] = items[e][m]
    BY <1>4, <1>5
  <2>2. /\ type[e] = "DIR" /\ items[e][m] # Root /\ Live(items[e][m])
        /\ name[items[e][m]] = m /\ parent[items[e][m]] = e /\ items[e][m] \in Item
    BY <1>1, <2>1 DEF IInv, Linked, TypeOK
  <2>3. items[e][m] \notin S
    BY <1>3, <2>1
  <2> QED
    BY <1>4, <2>1, <2>2, <2>3 DEF Live
<1>9. NoLeak'
  <2> SUFFICES ASSUME NEW y \in Item \ {Root}, type'[y] # "FREE"
               PROVE  /\ parent'[y] \in Item
                      /\ name'[y] \in Name
                      /\ items'[parent'[y]][name'[y]] = y
    BY DEF NoLeak, Live
  <2>1. y \notin S /\ Live(y) /\ parent'[y] = parent[y] /\ name'[y] = name[y]
    BY <1>4 DEF Live
  <2>2. parent[y] \in Item /\ name[y] \in Name /\ items[parent[y]][name[y]] = y
    BY <2>1 DEF IInv, NoLeak
  <2>3. parent[y] \notin S
    BY <1>2, <2>1, <2>2 DEF Closed, TreeAssumption
  <2> QED
    BY <1>4, <2>1, <2>2, <2>3
<1> QED
  BY <1>6, <1>7, <1>8, <1>9 DEF IInv

-----------------------------------------------------------------------------
LEMMA InitIInv == TreeAssumption /\ Init => IInv
PROOF
<1> SUFFICES ASSUME TreeAssumption, Init
             PROVE  IInv
  OBVIOUS
<1>1. TypeOK
  BY DEF Init, TypeOK, EmptyMap, ItemType
<1> QED
  BY <1>1 DEF Init, IInv, RootIsDir, Linked, NoLeak, Live, EmptyMap, TreeAssumption

LEMMA ParseRet ==
  ASSUME NEW p
  PROVE  parse_path_string(p) \in {"OK", "ENAMETOOLONG"}
PROOF
<1> QED
  BY DEF parse_path_string

LEMMA RenamePreserves ==
  ASSUME TreeAssumption, IInv, NEW p \in ClientPaths, NEW q \in ClientPaths, fdo_rename(p, q)
  PROVE  IInv'
PROOF
<1> DEFINE old == fs_get_item(p, 0)
           dir == fs_get_dir_item(q, 1)
           new == items[dir.item][ps_last_file(q)]
<1>1. /\ p \in Paths /\ q \in Paths /\ ps_last_file(q) \in Name
      /\ 0 \in 0..Len(p) /\ 0 # Len(p) /\ 1 \in 0..Len(q)
  BY PathIsSeq DEF ClientPaths, ps_last_file
<1>2. /\ old.ret \in {"OK", "ENOENT", "ENOTDIR"}
      /\ old.ret = "OK" => old.item \in Item /\ Live(old.item) /\ old.item # Root
  BY <1>1, GetItem
<1>3. dir.ret \in {"OK", "ENOENT", "ENOTDIR"}
  BY <1>1, GetDirItemRet
<1>4. dir.ret = "OK" => dir.item \in Item /\ type[dir.item] = "DIR"
  BY GetDirItem
<1>5. CASE Refuse("rename", "ENAMETOOLONG")
  BY <1>5, RefusePreserves
<1>6. CASE fs_rename(p, q)
  <2>1. \/ old.ret # "OK" /\ Refuse("rename", old.ret)
        \/ dir.ret # "OK" /\ Refuse("rename", dir.ret)
        \/ old.ret = "OK" /\ dir.ret = "OK" /\ new = NoItem
           /\ MoveItem(old.item, dir.item, ps_last_file(q))
        \/ ReplaceItem
        \/ Refuse("rename", "EPERM")
        \/ Refuse("rename", "ENOTEMPTY")
    BY <1>6 DEF fs_rename
  <2> HIDE DEF old, dir
  <2>2. CASE old.ret # "OK" /\ Refuse("rename", old.ret)
    <3>1. old.ret \in {"ENOENT", "ENOTDIR", "EISDIR", "ENOTEMPTY", "EPERM", "ENAMETOOLONG"}
      BY <1>2, <2>2
    <3> QED
      BY <2>2, <3>1, RefusePreserves
  <2>3. CASE dir.ret # "OK" /\ Refuse("rename", dir.ret)
    <3>1. dir.ret \in {"ENOENT", "ENOTDIR", "EISDIR", "ENOTEMPTY", "EPERM", "ENAMETOOLONG"}
      BY <1>3, <2>3
    <3> QED
      BY <2>3, <3>1, RefusePreserves
  <2>4. CASE old.ret = "OK" /\ dir.ret = "OK" /\ new = NoItem
             /\ MoveItem(old.item, dir.item, ps_last_file(q))
    BY <1>1, <1>2, <1>4, <2>4, MovePreserves
  <2>5. CASE ReplaceItem
    <3>1. UNCHANGED tree /\ status' \in {"aborted", "corrupt"} /\ reply'.ret = "NONE"
      BY <2>5 DEF ReplaceItem, Undefined, Answer
    <3> QED
      BY <3>1, AnswerPreserves
  <2>6. CASE Refuse("rename", "EPERM") \/ Refuse("rename", "ENOTEMPTY")
    BY <2>6, RefusePreserves
  <2> QED
    BY <2>1, <2>2, <2>3, <2>4, <2>5, <2>6
<1> QED
  BY <1>5, <1>6, ParseRet DEF fdo_rename

LEMMA UnlinkPreserves ==
  ASSUME TreeAssumption, IInv, NEW p \in ClientPaths, fdo_unlink(p)
  PROVE  IInv'
PROOF
<1> DEFINE r == fs_get_item(p, 0)
           f == fs_get_file_item(p)
<1>1. 0 \in 0..Len(p) /\ 0 # Len(p) /\ p \in Paths
  BY PathIsSeq DEF ClientPaths
<1>2. /\ r.ret \in {"OK", "ENOENT", "ENOTDIR"}
      /\ r.ret = "OK" => r.item \in Item /\ Live(r.item) /\ r.item # Root
  BY <1>1, GetItem
<1>3. /\ f.ret \in {"OK", "ENOENT", "ENOTDIR", "EISDIR"}
      /\ f.ret = "OK" => f = r /\ ~fs_item_is_dir(r.item)
  BY <1>2 DEF fs_get_file_item, Fail
<1>4. CASE Refuse("unlink", "ENAMETOOLONG")
  BY <1>4, RefusePreserves
<1>5. CASE fs_file_delete(p) /\ f.ret # "OK"
  <2>1. Refuse("unlink", f.ret)
    BY <1>5 DEF fs_file_delete
  <2> HIDE DEF f
  <2> QED
    BY <1>3, <1>5, <2>1, RefusePreserves
<1>6. CASE fs_file_delete(p) /\ f.ret = "OK"
  <2>1. DeleteItem(f.item) /\ Answer("unlink", "OK") /\ UNCHANGED status
    BY <1>6 DEF fs_file_delete
  <2> HIDE DEF f, r
  <2>2. f.item \in Item /\ f.item # Root /\ Live(f.item) /\ type[f.item] # "DIR"
    BY <1>2, <1>3, <1>6 DEF fs_item_is_dir
  <2>3. \A n \in Name : items[f.item][n] = NoItem
    BY <2>2 DEF IInv, Linked
  <2>4. items[f.item] = EmptyMap
    BY <2>2, <2>3 DEF IInv, TypeOK, EmptyMap
  <2> QED
    BY <2>1, <2>2, <2>4, DeletePreserves DEF Answer
<1> QED
  BY <1>4, <1>5, <1>6, ParseRet DEF fdo_unlink

LEMMA RmdirPreserves ==
  ASSUME TreeAssumption, IInv, NEW p \in ClientPaths, fdo_rmdir(p)
  PROVE  IInv'
PROOF
<1> DEFINE r == fs_get_item(p, 0)
           d == fs_get_dir_item(p, 0)
<1>1. 0 \in 0..Len(p) /\ 0 # Len(p) /\ p \in Paths
  BY PathIsSeq DEF ClientPaths
<1>2. r.ret = "OK" => r.item \in Item /\ Live(r.item) /\ r.item # Root
  BY <1>1, GetItem
<1>3. /\ d.ret \in {"OK", "ENOENT", "ENOTDIR"}
      /\ d.ret = "OK" => d = r
  BY <1>1, GetDirItemRet
<1>4. \/ Refuse("rmdir", "ENAMETOOLONG")
      \/ d.ret # "OK" /\ Refuse("rmdir", d.ret)
      \/ Refuse("rmdir", "ENOTEMPTY")
      \/ /\ d.ret = "OK" /\ items[d.item] = EmptyMap
         /\ DeleteItem(d.item) /\ Answer("rmdir", "OK") /\ UNCHANGED status
  BY ParseRet DEF fdo_rmdir, fs_dir_delete
<1> HIDE DEF r, d
<1>5. CASE Refuse("rmdir", "ENAMETOOLONG") \/ Refuse("rmdir", "ENOTEMPTY")
  BY <1>5, RefusePreserves
<1>6. CASE d.ret # "OK" /\ Refuse("rmdir", d.ret)
  BY <1>3, <1>6, RefusePreserves
<1>7. CASE /\ d.ret = "OK" /\ items[d.item] = EmptyMap
           /\ DeleteItem(d.item) /\ Answer("rmdir", "OK") /\ UNCHANGED status
  BY <1>2, <1>3, <1>7, DeletePreserves DEF Answer
<1> QED
  BY <1>4, <1>5, <1>6, <1>7

LEMMA ReadPreserves ==
  ASSUME TreeAssumption, IInv, NEW p \in ClientPaths, fdo_getattr(p) \/ fdo_readdir(p)
  PROVE  IInv'
PROOF
<1> DEFINE r == fs_get_item(p, 0)
<1>1. 0 \in 0..Len(p) /\ p \in Paths
  BY PathIsSeq DEF ClientPaths
<1>2. r.ret \in {"OK", "ENOENT", "ENOTDIR"}
  BY <1>1, GetItem
<1>3. UNCHANGED tree /\ status' = status
  BY DEF fdo_getattr, fdo_readdir, Refuse
<1>4. reply'.ret \in {"OK", "ENOENT", "ENOTDIR", "ENAMETOOLONG"}
  BY <1>2, ParseRet DEF fdo_getattr, fdo_readdir, Refuse, Answer
<1>5. status \in {"up", "unmounted", "aborted", "corrupt"}
  BY DEF IInv, TypeOK
<1> QED
  BY <1>3, <1>4, <1>5, AnswerPreserves

LEMMA MountPointPreserves ==
  ASSUME IInv, GetattrMountPoint
  PROVE  IInv'
PROOF
<1>1. UNCHANGED tree /\ status' \in {status, "aborted"}
  BY DEF GetattrMountPoint, Refuse
<1>2. reply'.ret \in {"OK", "NONE", "ENAMETOOLONG"}
  BY DEF GetattrMountPoint, Refuse, Answer
<1>3. status \in {"up", "unmounted", "aborted", "corrupt"}
  BY DEF IInv, TypeOK
<1> QED
  BY <1>1, <1>2, <1>3, AnswerPreserves

LEMMA OvertakenEffect ==
  ASSUME Overtaken
  PROVE  /\ UNCHANGED tree /\ status = "up" /\ status' \in {"up", "aborted", "corrupt"}
         /\ reply'.ret \in {"ENOENT", "NONE"}
PROOF
<1>1. status = "up"
  BY DEF Overtaken, Running
<1>2. CASE OvertakenEnd
  BY <1>1, <1>2 DEF OvertakenEnd, Undefined, Answer
<1>3. CASE \E p \in ClientPaths : OvertakenAnswer(p)
  BY <1>1, <1>3 DEF OvertakenAnswer, Refuse, Answer
<1> QED
  BY <1>1, <1>2, <1>3 DEF Overtaken

LEMMA NextIInv == TreeAssumption /\ IInv /\ [Next]_vars => IInv'
PROOF
<1> SUFFICES ASSUME TreeAssumption, IInv, [Next]_vars
             PROVE  IInv'
  OBVIOUS
<1>1. CASE Getattr
  <2>1. CASE GetattrMountPoint
    BY <2>1, MountPointPreserves
  <2>2. CASE \E p \in ClientPaths : fdo_getattr(p)
    BY <2>2, ReadPreserves
  <2> QED
    BY <1>1, <2>1, <2>2 DEF Getattr
<1>2. CASE Readdir
  BY <1>2, ReadPreserves DEF Readdir
<1>3. CASE Mkdir
  <2>1. PICK p \in ClientPaths : KernelCreates(p) /\ fdo_mkdir(p)
    BY <1>3 DEF Mkdir
  <2>2. Refuse("mkdir", "ENAMETOOLONG") \/ add_item("mkdir", p, "DIR")
    BY <2>1, ParseRet DEF fdo_mkdir
  <2>3. "DIR" \in ItemType
    BY DEF ItemType
  <2> QED
    BY <2>1, <2>2, <2>3, RefusePreserves, AddPreserves
<1>4. CASE Mknod
  <2>1. PICK p \in ClientPaths, t \in MknodType : KernelCreates(p) /\ fdo_mknod(p, t)
    BY <1>4 DEF Mknod
  <2>2. Refuse("mknod", "ENAMETOOLONG") \/ add_item("mknod", p, t)
    BY <2>1, ParseRet DEF fdo_mknod
  <2>3. t \in ItemType
    BY DEF TreeAssumption
  <2> QED
    BY <2>1, <2>2, <2>3, RefusePreserves, AddPreserves
<1>5. CASE Unlink
  BY <1>5, UnlinkPreserves DEF Unlink
<1>6. CASE Rmdir
  BY <1>6, RmdirPreserves DEF Rmdir
<1>7. CASE Rename
  BY <1>7, RenamePreserves DEF Rename
<1>8. CASE Unmount
  <2>1. CASE UNCHANGED tree /\ status' = "aborted" /\ Answer("unmount", "NONE")
    BY <2>1, AnswerPreserves DEF Answer
  <2>2. CASE ~ (UNCHANGED tree /\ status' = "aborted" /\ Answer("unmount", "NONE"))
    BY <1>8, <2>2, FreePreserves DEF Unmount, free_fs, Answer
  <2> QED
    BY <2>1, <2>2
<1>9. CASE UNCHANGED vars
  <2>1. UNCHANGED tree /\ status' = status /\ reply' = reply
    BY <1>9 DEF vars, tree
  <2> QED
    BY <2>1, AnswerPreserves DEF IInv, TypeOK
<1>10. CASE Overtaken
  BY <1>10, OvertakenEffect, AnswerPreserves
<1> QED
  BY <1>1, <1>2, <1>3, <1>4, <1>5, <1>6, <1>7, <1>8, <1>9, <1>10 DEF Next

THEOREM InductiveInvariant == Spec => []IInv
PROOF
<1> QED
  BY InitIInv, NextIInv, TreeAssumption, PTL DEF Spec

(* The tree is well typed, whatever the clients do.                        *)
THEOREM TypeCorrect == Spec => []TypeOK
PROOF
<1>1. IInv => TypeOK
  BY DEF IInv
<1> QED
  BY <1>1, InductiveInvariant, PTL

(* For any number of items and names and paths of any length, every entry  *)
(* of every directory is an allocated item that names that directory and   *)
(* that entry.                                                             *)
THEOREM AlwaysLinked == Spec => []Linked
PROOF
<1>1. IInv => Linked
  BY DEF IInv
<1> QED
  BY <1>1, InductiveInvariant, PTL

(* And every allocated item is some directory's entry.                     *)
THEOREM NeverLeaks == Spec => []NoLeak
PROOF
<1>1. IInv => NoLeak
  BY DEF IInv
<1> QED
  BY <1>1, InductiveInvariant, PTL

(* No item's name overflows the array it is copied into, although only the *)
(* last component of a path is measured.                                   *)
THEOREM NamesAlwaysFit == Spec => []NamesFit
PROOF
<1>1. ASSUME TreeAssumption, Init
      PROVE  NamesFit
  BY <1>1 DEF TreeAssumption, Init, NamesFit
<1>2. ASSUME TreeAssumption, NamesFit, [Next]_vars
      PROVE  NamesFit'
  <2> USE <1>2
  <2>1. ASSUME NEW S, FreeAll(S)
        PROVE  NamesFit'
    BY <2>1 DEF FreeAll, NamesFit, TreeAssumption
  <2>2. ASSUME NEW op, NEW ret, Refuse(op, ret)
        PROVE  NamesFit'
    BY <2>2 DEF Refuse, tree, NamesFit
  <2>3. ASSUME NEW op, NEW p, NEW t, parse_path_string(p) = "OK", add_item(op, p, t)
        PROVE  NamesFit'
    <3>1. CASE fs_get_dir_item(p, 1).ret # "OK"
      BY <2>2, <2>3, <3>1 DEF add_item
    <3>2. CASE fs_get_dir_item(p, 1).ret = "OK"
      <4>1. PICK x \in Item : name' = [name EXCEPT ![x] = ps_last_file(p)]
        BY <2>3, <3>2 DEF add_item
      <4> QED
        BY <2>3, <4>1 DEF NamesFit, parse_path_string
    <3> QED
      BY <3>1, <3>2
  <2>4. CASE Getattr
    <3>1. UNCHANGED tree
      BY <2>4 DEF Getattr, GetattrMountPoint, fdo_getattr, Refuse
    <3> QED
      BY <3>1 DEF tree, NamesFit
  <2>5. CASE Readdir
    BY <2>5 DEF Readdir, fdo_readdir, tree, NamesFit
  <2>6. CASE Mkdir
    BY <2>2, <2>3, <2>6 DEF Mkdir, fdo_mkdir
  <2>7. CASE Mknod
    BY <2>2, <2>3, <2>7 DEF Mknod, fdo_mknod
  <2>8. CASE Unlink
    BY <2>1, <2>2, <2>8 DEF Unlink, fdo_unlink, fs_file_delete, DeleteItem
  <2>9. CASE Rmdir
    BY <2>1, <2>2, <2>9 DEF Rmdir, fdo_rmdir, fs_dir_delete, DeleteItem
  <2>10. CASE Rename
    <3>1. PICK p, q \in ClientPaths : fdo_rename(p, q)
      BY <2>10 DEF Rename
    <3>2. CASE parse_path_string(p) = "OK" /\ parse_path_string(q) = "OK"
      <4>1. ASSUME NEW x, NEW d, MoveItem(x, d, ps_last_file(q))
            PROVE  NamesFit'
        BY <3>2, <4>1 DEF MoveItem, NamesFit, parse_path_string
      <4>2. ASSUME ReplaceItem
            PROVE  NamesFit'
        BY <4>2 DEF ReplaceItem, Undefined, tree, NamesFit
      <4> QED
        BY <2>2, <3>1, <3>2, <4>1, <4>2 DEF fdo_rename, fs_rename
    <3> QED
      BY <2>2, <3>1, <3>2 DEF fdo_rename
  <2>11. CASE Unmount
    BY <2>1, <2>11 DEF Unmount, free_fs, tree, NamesFit
  <2>12. CASE UNCHANGED vars
    BY <2>12 DEF vars, NamesFit
  <2>13. CASE Overtaken
    BY <2>13, OvertakenEffect DEF tree, NamesFit
  <2> QED
    BY <2>4, <2>5, <2>6, <2>7, <2>8, <2>9, <2>10, <2>11, <2>12, <2>13 DEF Next
<1> QED
  BY <1>1, <1>2, TreeAssumption, PTL DEF Spec

(* A handler that answers an error leaves the whole tree as it was.        *)
THEOREM ErrorsLeaveTree == Spec => ErrorsChangeNothing
PROOF
<1> DEFINE A == reply'.ret # "OK" => UNCHANGED tree
<1>1. ASSUME NEW op, NEW ret, Refuse(op, ret)
      PROVE  A
  BY <1>1 DEF Refuse
<1>2. ASSUME NEW op, NEW ret, Answer(op, ret)
      PROVE  reply'.ret = ret
  BY <1>2 DEF Answer
<1>3. ASSUME NEW op, NEW p, NEW t, add_item(op, p, t)
      PROVE  A
  BY <1>1, <1>2, <1>3 DEF add_item
<1>4. [Next]_vars => [A]_vars
  <2> SUFFICES ASSUME Next
               PROVE  A
    OBVIOUS
  <2>1. CASE Getattr
    BY <2>1 DEF Getattr, GetattrMountPoint, fdo_getattr, Refuse
  <2>2. CASE Readdir
    BY <2>2 DEF Readdir, fdo_readdir
  <2>3. CASE Mkdir
    BY <1>1, <1>3, <2>3 DEF Mkdir, fdo_mkdir
  <2>4. CASE Mknod
    BY <1>1, <1>3, <2>4 DEF Mknod, fdo_mknod
  <2>5. CASE Unlink
    BY <1>1, <1>2, <2>5 DEF Unlink, fdo_unlink, fs_file_delete
  <2>6. CASE Rmdir
    BY <1>1, <1>2, <2>6 DEF Rmdir, fdo_rmdir, fs_dir_delete
  <2>7. CASE Rename
    <3>1. PICK p, q \in ClientPaths : fdo_rename(p, q)
      BY <2>7 DEF Rename
    <3>2. ASSUME NEW x, NEW d, NEW n, MoveItem(x, d, n)
          PROVE  A
      BY <1>2, <3>2 DEF MoveItem
    <3>3. CASE fs_rename(p, q)
      BY <1>1, <3>2, <3>3 DEF fs_rename, ReplaceItem, Undefined
    <3> QED
      BY <1>1, <3>1, <3>3 DEF fdo_rename
  <2>8. CASE Unmount
    BY <1>2, <2>8 DEF Unmount, free_fs
  <2>9. CASE Overtaken
    BY <2>9, OvertakenEffect
  <2> QED
    BY <2>1, <2>2, <2>3, <2>4, <2>5, <2>6, <2>7, <2>8, <2>9 DEF Next
<1> QED
  BY <1>4, PTL DEF Spec, ErrorsChangeNothing

-----------------------------------------------------------------------------
(* Paths: each item has one, an operation moves only the paths that go     *)
(* through what it moves, and every item is below the root until unmount   *)
(* frees it.                                                               *)

(* The items on the way along p, from the root.                            *)
Chain(p, c) ==
  /\ c \in [0..Len(p) -> Item]
  /\ c[0] = Root
  /\ \A i \in 1..Len(p) : items[c[i - 1]][p[i]] = c[i]

Leads(p, x) == \E c \in [0..Len(p) -> Item] : Chain(p, c) /\ c[Len(p)] = x

(* An entry on the way is that of one directory, under one name.           *)
LEMMA ChainEntry ==
  ASSUME TreeAssumption, Linked, NEW p \in Seq(Name), NEW c, Chain(p, c), NEW i \in 1..Len(p)
  PROVE  /\ c[i] \in Item /\ c[i - 1] \in Item /\ p[i] \in Name
         /\ items[c[i - 1]][p[i]] = c[i] /\ items[c[i - 1]][p[i]] # NoItem
         /\ c[i] # Root /\ Live(c[i]) /\ type[c[i - 1]] = "DIR"
         /\ name[c[i]] = p[i] /\ parent[c[i]] = c[i - 1]
PROOF
<1>1. c[i] \in Item /\ c[i - 1] \in Item /\ p[i] \in Name /\ items[c[i - 1]][p[i]] = c[i]
  <2>1. i \in 0..Len(p) /\ i - 1 \in 0..Len(p)
    OBVIOUS
  <2> QED
    BY <2>1 DEF Chain
<1> QED
  BY <1>1 DEF Linked, TreeAssumption

(* Two ways to the same item are the same way: the path to it up to there. *)
LEMMA ChainsMeetOnce ==
  ASSUME TreeAssumption, Linked,
         NEW p \in Seq(Name), NEW c, Chain(p, c), NEW q \in Seq(Name), NEW e, Chain(q, e)
  PROVE  \A i \in 0..Len(p), j \in 0..Len(q) :
           c[i] = e[j] => i = j /\ \A k \in 1..i : p[k] = q[k]
PROOF
<1> DEFINE Same(i, j) == i = j /\ \A k \in 1..i : p[k] = q[k]
           T == {i \in 0..Len(p) : \A j \in 0..Len(q) : c[i] = e[j] => Same(i, j)}
<1>1. c[0] = Root /\ e[0] = Root
  BY DEF Chain
<1>2. 0 \in T
  <2>1. \A j \in 0..Len(q) : c[0] = e[j] => j = 0
    BY <1>1, ChainEntry
  <2> QED
    BY <2>1
<1>3. ASSUME NEW i \in 0..(Len(p) - 1), i \in T
      PROVE  i + 1 \in T
  <2> SUFFICES ASSUME NEW j \in 0..Len(q), c[i + 1] = e[j]
               PROVE  Same(i + 1, j)
    OBVIOUS
  <2>1. i + 1 \in 1..Len(p) /\ (i + 1) - 1 = i
    OBVIOUS
  <2>2. c[i + 1] # Root /\ name[c[i + 1]] = p[i + 1] /\ parent[c[i + 1]] = c[i]
    BY <2>1, ChainEntry
  <2>3. j \in 1..Len(q)
    BY <1>1, <2>2
  <2>4. name[e[j]] = q[j] /\ parent[e[j]] = e[j - 1]
    BY <2>3, ChainEntry
  <2>5. c[i] = e[j - 1] /\ j - 1 \in 0..Len(q) /\ p[i + 1] = q[j]
    BY <2>2, <2>3, <2>4
  <2>6. Same(i, j - 1)
    BY <1>3, <2>5
  <2> QED
    BY <2>3, <2>5, <2>6
<1>4. Len(p) \in Nat
  OBVIOUS
<1> HIDE DEF T
<1>5. 0..Len(p) \subseteq T
  BY <1>2, <1>3, <1>4, BoundedInduction
<1> QED
  BY <1>5 DEF T

(* A path whose item is on the way along another is its prefix.            *)
LEMMA OnTheWay ==
  ASSUME TreeAssumption, Linked, NEW p \in Seq(Name), NEW x, Leads(p, x),
         NEW q \in Seq(Name), NEW e, Chain(q, e), NEW j \in 0..Len(q), e[j] = x
  PROVE  IsPrefixOf(p, q) /\ j = Len(p)
PROOF
<1>1. PICK c \in [0..Len(p) -> Item] : Chain(p, c) /\ c[Len(p)] = x
  BY DEF Leads
<1>2. Len(p) = j /\ \A k \in 1..Len(p) : p[k] = q[k]
  BY <1>1, ChainsMeetOnce
<1>3. SubSeq(q, 1, Len(p)) = p
  BY <1>2
<1> QED
  BY <1>2, <1>3 DEF IsPrefixOf

-----------------------------------------------------------------------------
(* fs_get_item finds exactly the items that paths lead to.                 *)
LEMMA WalkTurns ==
  ASSUME NEW p, NEW k \in Nat
  PROVE  \A i \in 0..k : Walk(p, k)[i] = Turn(p, k, Walk(p, k), i)
PROOF
<1> DEFINE w == Walk(p, k)
<1>1. w = [i \in 0..k |-> Turn(p, k, w, i)]
  BY WalkDef
<1> HIDE DEF w
<1>2. \A i \in 0..k : w[i] = Turn(p, k, w, i)
  BY <1>1
<1> QED
  BY <1>2 DEF w

(* A walk that ends well went well all the way.                            *)
LEMMA WalkIsChain ==
  ASSUME TreeAssumption, TypeOK, NEW p \in Seq(Name), NEW k \in 0..Len(p),
         Walk(p, k)[k].ret = "OK"
  PROVE  \E c \in [0..k -> Item] :
           /\ c[0] = Root /\ c[k] = Walk(p, k)[k].item
           /\ \A i \in 1..k : items[c[i - 1]][p[i]] = c[i]
PROOF
<1> DEFINE w == Walk(p, k)
           T == {m \in 0..k : w[k - m].ret = "OK"}
<1>1. \A i \in 0..k : w[i] = Turn(p, k, w, i)
  BY WalkTurns
<1>2. \A i \in 0..k : Reached(p, i, w[i])
  BY WalkReaches
<1>3. w[k].ret = "OK"
  OBVIOUS
<1> HIDE DEF w
<1>4. 0..k \subseteq T
  <2>1. 0 \in T
    BY <1>3
  <2>2. ASSUME NEW m \in 0..(k - 1), m \in T
        PROVE  m + 1 \in T
    <3> DEFINE i == k - m
    <3>1. i \in 1..k /\ i \in 0..k /\ k - (m + 1) = i - 1 /\ m + 1 \in 0..k
      OBVIOUS
    <3>2. w[i].ret = "OK" /\ w[i] = Turn(p, k, w, i)
      BY <1>1, <2>2, <3>1
    <3> HIDE DEF i
    <3>3. w[i - 1].ret = "OK"
      BY <3>1, <3>2 DEF Turn
    <3> QED
      BY <3>1, <3>3
  <2>3. k \in Nat
    OBVIOUS
  <2> HIDE DEF T
  <2> QED
    BY <2>1, <2>2, <2>3, BoundedInduction
<1>5. \A i \in 0..k : w[i].ret = "OK" /\ w[i].item \in Item
  <2>1. ASSUME NEW i \in 0..k
        PROVE  w[i].ret = "OK"
    <3>1. k - i \in 0..k /\ k - (k - i) = i
      OBVIOUS
    <3> QED
      BY <1>4, <3>1
  <2> QED
    BY <1>2, <2>1 DEF Reached
<1> DEFINE c == [i \in 0..k |-> w[i].item]
<1>6. c \in [0..k -> Item]
  BY <1>5
<1>7. c[0] = Root
  BY <1>1 DEF Turn, Found
<1>8. ASSUME NEW i \in 1..k
      PROVE  items[c[i - 1]][p[i]] = c[i]
  <2>1. i \in 0..k /\ i - 1 \in 0..k /\ i # 0
    OBVIOUS
  <2>2. w[i] = Lookup(w[i - 1].item, p[i], i, k) /\ w[i].ret = "OK"
    BY <1>1, <1>5, <2>1 DEF Turn
  <2>3. \A d, n : Lookup(d, n, i, k).ret = "OK" => Lookup(d, n, i, k).item = items[d][n]
    BY DEF Lookup, Found, Fail
  <2> QED
    BY <2>1, <2>2, <2>3
<1>9. c[k] = w[k].item
  OBVIOUS
<1> HIDE DEF c
<1>10. \E f \in [0..k -> Item] :
         /\ f[0] = Root /\ f[k] = w[k].item
         /\ \A i \in 1..k : items[f[i - 1]][p[i]] = f[i]
  BY <1>6, <1>7, <1>8, <1>9
<1> QED
  BY <1>10 DEF w

(* Whatever is an entry's directory is a directory, so that no step along  *)
(* a chain fails.                                                          *)
LEMMA ChainIsWalk ==
  ASSUME TreeAssumption, Linked, NEW p \in Seq(Name), NEW c, Chain(p, c)
  PROVE  fs_get_item(p, 0) = Found(c[Len(p)])
PROOF
<1> DEFINE k == Len(p)
           w == Walk(p, k)
           T == {i \in 0..k : w[i] = Found(c[i])}
<1>1. \A i \in 0..k : w[i] = Turn(p, k, w, i)
  BY WalkTurns
<1>2. fs_get_item(p, 0) = w[k] /\ k \in Nat
  BY DEF fs_get_item
<1>3. \A i \in 1..k : /\ c[i] # NoItem /\ items[c[i - 1]][p[i]] = c[i]
                       /\ type[c[i - 1]] = "DIR"
  BY ChainEntry
<1>4. c[0] = Root
  BY DEF Chain
<1> HIDE DEF w, k
<1>5. 0 \in T
  BY <1>1, <1>2, <1>4 DEF Turn
<1>6. ASSUME NEW i \in 0..(k - 1), i \in T
      PROVE  i + 1 \in T
  <2>1. i + 1 \in 0..k /\ i + 1 \in 1..k /\ (i + 1) - 1 = i /\ i + 1 # 0
    BY <1>2
  <2>2. w[i].ret = "OK" /\ w[i].item = c[i]
    BY <1>6 DEF Found
  <2>3. w[i + 1] = Lookup(c[i], p[i + 1], i + 1, k)
    BY <1>1, <2>1, <2>2 DEF Turn
  <2>4. items[c[i]][p[i + 1]] = c[i + 1] /\ c[i + 1] # NoItem
    BY <1>3, <2>1
  <2>5. i + 1 < k => fs_item_is_dir(c[i + 1])
    <3> SUFFICES ASSUME i + 1 < k
                 PROVE  type[c[i + 1]] = "DIR"
      BY DEF fs_item_is_dir
    <3>1. (i + 1) + 1 \in 1..k /\ ((i + 1) + 1) - 1 = i + 1
      BY <1>2
    <3> QED
      BY <1>3, <3>1
  <2> QED
    BY <2>1, <2>3, <2>4, <2>5 DEF Lookup
<1> HIDE DEF T
<1>7. 0..k \subseteq T
  BY <1>2, <1>5, <1>6, BoundedInduction
<1> QED
  BY <1>2, <1>7 DEF T, k

LEMMA FoundLeads ==
  ASSUME TreeAssumption, TypeOK, NEW p \in Seq(Name), fs_get_item(p, 0).ret = "OK"
  PROVE  Leads(p, fs_get_item(p, 0).item)
PROOF
<1> DEFINE k == Len(p)
<1>1. k \in 0..Len(p) /\ k = Len(p) /\ fs_get_item(p, 0) = Walk(p, k)[k]
  BY DEF fs_get_item
<1> HIDE DEF k
<1>2. Walk(p, k)[k].ret = "OK"
  BY <1>1
<1>3. PICK c \in [0..k -> Item] :
        /\ c[0] = Root /\ c[k] = Walk(p, k)[k].item
        /\ \A i \in 1..k : items[c[i - 1]][p[i]] = c[i]
  BY <1>1, <1>2, WalkIsChain
<1> QED
  BY <1>1, <1>3 DEF Leads, Chain

LEMMA FoundRet ==
  ASSUME TreeAssumption, TypeOK, NEW p \in Seq(Name)
  PROVE  fs_get_item(p, 0).ret \in {"OK", "ENOENT", "ENOTDIR"}
PROOF
<1> DEFINE k == Len(p)
<1>1. k \in 0..Len(p) /\ k \in 0..k /\ fs_get_item(p, 0) = Walk(p, k)[k]
  BY DEF fs_get_item
<1> HIDE DEF k
<1> QED
  BY <1>1, WalkReaches DEF Reached

LEMMA LeadsFound ==
  ASSUME TreeAssumption, Linked, NEW p \in Seq(Name), NEW x, Leads(p, x)
  PROVE  fs_get_item(p, 0) = Found(x)
PROOF
<1> QED
  BY ChainIsWalk DEF Leads

(* The directory a handler changes is the one its parent path leads to.    *)
LEMMA ParentLeads ==
  ASSUME TreeAssumption, TypeOK, NEW p \in Seq(Name), p # <<>>, fs_get_item(p, 1).ret = "OK"
  PROVE  Parent(p) \in Seq(Name) /\ Leads(Parent(p), fs_get_item(p, 1).item)
PROOF
<1> DEFINE k == Len(p) - 1
           q == Parent(p)
<1>1. /\ k \in 0..Len(p) /\ fs_get_item(p, 1) = Walk(p, k)[k]
      /\ Walk(p, k)[k].ret = "OK"
  BY DEF fs_get_item
<1>2. q \in Seq(Name) /\ Len(q) = k /\ \A i \in 1..k : q[i] = p[i]
  <2>1. Len(p) \in Nat \ {0}
    OBVIOUS
  <2>2. q = SubSeq(p, 1, k) /\ k \in Nat /\ k <= Len(p)
    BY <2>1 DEF Parent
  <2> HIDE DEF k, q
  <2> QED
    BY <2>2
<1>3. PICK c \in [0..k -> Item] :
        /\ c[0] = Root /\ c[k] = Walk(p, k)[k].item
        /\ \A i \in 1..k : items[c[i - 1]][p[i]] = c[i]
  <2> HIDE DEF k, q
  <2> QED
    BY <1>1, WalkIsChain
<1> HIDE DEF k, q
<1> QED
  BY <1>1, <1>2, <1>3 DEF Leads, Chain, q

-----------------------------------------------------------------------------
(* A closed set that holds the root holds whatever a path leads to.        *)
LEMMA ChainStays ==
  ASSUME NEW p \in Seq(Name), NEW c, Chain(p, c), NEW S, Root \in S,
         \A i \in 1..Len(p) : c[i - 1] \in S => c[i] \in S
  PROVE  c[Len(p)] \in S
PROOF
<1> DEFINE k == Len(p)
           T == {i \in 0..k : c[i] \in S}
<1>1. k \in Nat
  OBVIOUS
<1>2. 0 \in T
  BY DEF Chain
<1>3. ASSUME NEW i \in 0..(k - 1), i \in T
      PROVE  i + 1 \in T
  <2>1. i + 1 \in 1..k /\ (i + 1) - 1 = i /\ i + 1 \in 0..k
    OBVIOUS
  <2> QED
    BY <1>3, <2>1
<1> HIDE DEF T, k
<1>4. 0..k \subseteq T
  BY <1>1, <1>2, <1>3, BoundedInduction
<1> QED
  BY <1>1, <1>4 DEF T, k

(* A removal takes one entry out; a set that is closed without it is       *)
(* closed with it if it holds the item that was removed.                   *)
LEMMA RootedAdd ==
  ASSUME TreeAssumption, IInv, Rooted, NEW x \in Item, ~Live(x),
         NEW d \in Item, type[d] = "DIR", NEW n \in Name, items[d][n] = NoItem,
         NEW t, type' = [type EXCEPT ![x] = t],
         items' = [items EXCEPT ![d][n] = x, ![x] = EmptyMap]
  PROVE  Rooted'
PROOF
<1>1. x # d /\ x # NoItem /\ Live(d)
  BY DEF Live, TreeAssumption
<1>2. \A e \in Item, m \in Name :
        items'[e][m] = IF e = x THEN NoItem
                       ELSE IF e = d /\ m = n THEN x ELSE items[e][m]
  BY <1>1 DEF IInv, TypeOK, EmptyMap
<1>3. \A m \in Name : items[x][m] = NoItem
  BY DEF IInv, Linked, Live
<1>4. \A e \in Item, m \in Name : items[e][m] # NoItem => items'[e][m] = items[e][m]
  <2> SUFFICES ASSUME NEW e \in Item, NEW m \in Name, items[e][m] # NoItem
               PROVE  items'[e][m] = items[e][m]
    OBVIOUS
  <2>1. e # x
    BY <1>3
  <2>2. ~(e = d /\ m = n)
    OBVIOUS
  <2>3. items'[e][m] = IF e = x THEN NoItem
                       ELSE IF e = d /\ m = n THEN x ELSE items[e][m]
    BY <1>2, Zenon
  <2> QED
    BY <2>1, <2>2, <2>3, Zenon
<1>5. \A y \in Item : y # x => (Live(y)' <=> Live(y))
  BY DEF Live, IInv, TypeOK
<1> SUFFICES ASSUME NEW S \in SUBSET Item, Root \in S, Closed(S)',
                    NEW y \in Item, Live(y)'
             PROVE  y \in S
  BY DEF Rooted, Subtree
<1>6. Closed(S)
  <2> SUFFICES ASSUME NEW e \in S, NEW m \in Name, items[e][m] # NoItem
               PROVE  items[e][m] \in S
    BY DEF Closed
  <2>1. items'[e][m] = items[e][m]
    BY <1>4
  <2>2. items'[e][m] # NoItem => items'[e][m] \in S
    BY Zenon DEF Closed
  <2> QED
    BY <2>1, <2>2
<1>7. \A z \in Item : Live(z) => z \in S
  BY <1>6 DEF Rooted, Subtree
<1>8. x \in S
  <2>1. d \in S /\ items'[d][n] = x
    BY <1>1, <1>2, <1>7
  <2>2. items'[d][n] # NoItem => items'[d][n] \in S
    BY <2>1, Zenon DEF Closed
  <2> QED
    BY <1>1, <2>1, <2>2
<1> QED
  BY <1>5, <1>7, <1>8

LEMMA RootedDelete ==
  ASSUME TreeAssumption, IInv, Rooted, NEW x \in Item, x # Root, Live(x),
         items[x] = EmptyMap, DeleteItem(x)
  PROVE  Rooted'
PROOF
<1>1. parent[x] \in Item /\ name[x] \in Name /\ items[parent[x]][name[x]] = x
  BY DEF IInv, NoLeak
<1>2. \A e \in Item, m \in Name :
        items'[e][m] = IF e = parent[x] /\ m = name[x] THEN NoItem ELSE items[e][m]
  BY <1>1 DEF DeleteItem, IInv, TypeOK
<1>3. \A y \in Item : Live(y)' => y # x /\ Live(y)
  BY DEF DeleteItem, FreeAll, Live
<1> SUFFICES ASSUME NEW S \in SUBSET Item, Root \in S, Closed(S)',
                    NEW y \in Item, Live(y)'
             PROVE  y \in S
  BY DEF Rooted, Subtree
<1>4. Closed(S \cup {x})
  <2> SUFFICES ASSUME NEW e \in S \cup {x}, NEW m \in Name, items[e][m] # NoItem
               PROVE  items[e][m] \in S \cup {x}
    BY DEF Closed
  <2>1. e \in S /\ e \in Item
    BY DEF EmptyMap
  <2> QED
    BY <1>1, <1>2, <2>1 DEF Closed
<1>5. y \in S \cup {x}
  BY <1>3, <1>4 DEF Rooted, Subtree
<1> QED
  BY <1>3, <1>5

(* A directory is moved with all that is below it; it must not be moved    *)
(* below itself, onto a path that goes through it.                         *)
LEMMA RootedMove ==
  ASSUME TreeAssumption, IInv, Rooted, NEW x \in Item, x # Root, Live(x),
         NEW d \in Item, NEW n \in Name, items[d][n] = NoItem, MoveItem(x, d, n),
         NEW p \in Seq(Name), Leads(p, x), NEW q \in Seq(Name), Leads(q, d),
         ~IsPrefixOf(p, q)
  PROVE  Rooted'
PROOF
<1>1. parent[x] \in Item /\ name[x] \in Name /\ items[parent[x]][name[x]] = x
  BY DEF IInv, NoLeak
<1>2. x # NoItem /\ ~(d = parent[x] /\ n = name[x])
  BY <1>1 DEF TreeAssumption
<1>3. \A e \in Item, m \in Name :
        items'[e][m] = IF e = d /\ m = n THEN x
                       ELSE IF e = parent[x] /\ m = name[x] THEN NoItem ELSE items[e][m]
  BY <1>1, <1>2 DEF MoveItem, IInv, TypeOK
<1>4. type' = type
  BY DEF MoveItem
<1>5. PICK c \in [0..Len(q) -> Item] : Chain(q, c) /\ c[Len(q)] = d
  BY DEF Leads
<1> SUFFICES ASSUME NEW S \in SUBSET Item, Root \in S, Closed(S)',
                    NEW y \in Item, Live(y)
             PROVE  y \in S
  BY <1>4 DEF Rooted, Subtree, Live
<1>6. Linked
  BY DEF IInv
<1>7. \A j \in 0..Len(q) : c[j] # x
  BY <1>5, <1>6, OnTheWay
<1>8. ASSUME NEW i \in 1..Len(q), c[i - 1] \in S
      PROVE  c[i] \in S
  <2>1. /\ c[i - 1] \in Item /\ q[i] \in Name /\ items[c[i - 1]][q[i]] = c[i]
        /\ c[i] # NoItem /\ i \in 0..Len(q)
    BY <1>5, <1>6, ChainEntry
  <2>2. c[i] # x
    BY <1>7, <2>1
  <2>3. items'[c[i - 1]][q[i]] = c[i]
    BY <1>1, <1>3, <2>1, <2>2
  <2> QED
    BY <1>8, <2>1, <2>3 DEF Closed
<1>9. d \in S
  BY <1>5, <1>8, ChainStays
<1>10. x \in S
  BY <1>2, <1>3, <1>9 DEF Closed
<1>11. Closed(S)
  <2> SUFFICES ASSUME NEW e \in S, NEW m \in Name, items[e][m] # NoItem
               PROVE  items[e][m] \in S
    BY DEF Closed
  <2>1. e \in Item
    OBVIOUS
  <2> QED
    BY <1>1, <1>3, <1>10, <2>1 DEF Closed
<1> QED
  BY <1>11 DEF Rooted, Subtree

-----------------------------------------------------------------------------
(* What the handlers do to the tree, in terms of paths.                    *)

(* What add_item does once it has found the directory.                     *)
AddItem(x, d, n, t) ==
  /\ type' = [type EXCEPT ![x] = t]
  /\ name' = [name EXCEPT ![x] = n]
  /\ parent' = [parent EXCEPT ![x] = d]
  /\ items' = [items EXCEPT ![d][n] = x, ![x] = EmptyMap]
  /\ UNCHANGED status

LEMMA CreateEffect ==
  ASSUME TreeAssumption, IInv, NEW p \in ClientPaths, KernelCreates(p), NEW op, NEW t,
         add_item(op, p, t)
  PROVE  \/ UNCHANGED <<tree, status>> /\ reply'.ret \notin {"OK", "NONE"}
         \/ \E x \in Item, d \in Item :
              /\ ~Live(x) /\ type[d] = "DIR" /\ Leads(Parent(p), d)
              /\ items[d][ps_last_file(p)] = NoItem
              /\ AddItem(x, d, ps_last_file(p), t) /\ reply'.ret = "OK"
PROOF
<1> DEFINE r == fs_get_dir_item(p, 1)
           n == ps_last_file(p)
<1>1. p \in Paths /\ p \in Seq(Name) /\ p # <<>> /\ 1 \in 0..Len(p)
  BY PathIsSeq DEF ClientPaths
<1>2. CASE r.ret # "OK"
  <2>1. r.ret \in {"OK", "ENOENT", "ENOTDIR"}
    BY <1>1, GetDirItemRet
  <2>2. Refuse(op, r.ret)
    BY <1>2 DEF add_item
  <2> HIDE DEF r
  <2> QED
    BY <1>2, <2>1, <2>2 DEF Refuse, Answer
<1>3. CASE r.ret = "OK"
  <2>1. r.item \in Item /\ type[r.item] = "DIR"
    BY <1>3, GetDirItem
  <2>2. items[r.item][n] = NoItem
    BY <1>1, <1>3, NewEntry
  <2>3. Leads(Parent(p), r.item)
    <3>1. r = fs_get_item(p, 1)
      BY <1>1, <1>3, GetDirItemRet
    <3> HIDE DEF r
    <3>2. fs_get_item(p, 1).ret = "OK" /\ TypeOK
      BY <1>3, <3>1 DEF IInv
    <3> QED
      BY <1>1, <3>1, <3>2, ParentLeads
  <2>4. PICK x \in Item :
          ~Live(x) /\ AddItem(x, r.item, n, t) /\ Answer(op, "OK")
    BY <1>3 DEF add_item, AddItem
  <2>5. reply'.ret = "OK"
    BY <2>4 DEF Answer
  <2> HIDE DEF r
  <2> QED
    BY <2>1, <2>2, <2>3, <2>4, <2>5, Zenon
<1> QED
  BY <1>2, <1>3

LEMMA UnlinkEffect ==
  ASSUME TreeAssumption, IInv, NEW p \in Seq(Name), p # <<>>, fdo_unlink(p)
  PROVE  \/ UNCHANGED <<tree, status>> /\ reply'.ret \notin {"OK", "NONE"}
         \/ \E x \in Item :
              /\ x # Root /\ Live(x) /\ type[x] # "DIR" /\ Leads(p, x)
              /\ items[x] = EmptyMap /\ fs_get_item(p, 0) = Found(x)
              /\ DeleteItem(x) /\ UNCHANGED status /\ reply'.ret = "OK"
PROOF
<1> DEFINE r == fs_get_item(p, 0)
           f == fs_get_file_item(p)
<1>1. CASE Refuse("unlink", "ENAMETOOLONG")
  BY <1>1 DEF Refuse, Answer
<1>2. CASE fs_file_delete(p) /\ f.ret # "OK"
  <2>1. r.ret \in {"OK", "ENOENT", "ENOTDIR"}
    BY FoundRet DEF IInv
  <2>2. f.ret \in {"OK", "ENOENT", "ENOTDIR", "EISDIR"}
    BY <2>1 DEF fs_get_file_item, Fail
  <2>3. Refuse("unlink", f.ret)
    BY <1>2 DEF fs_file_delete
  <2> HIDE DEF f
  <2> QED
    BY <1>2, <2>2, <2>3 DEF Refuse, Answer
<1>3. CASE fs_file_delete(p) /\ f.ret = "OK"
  <2>1. f = r /\ ~fs_item_is_dir(r.item)
    BY <1>3 DEF fs_get_file_item, Fail
  <2>2. DeleteItem(f.item) /\ Answer("unlink", "OK") /\ UNCHANGED status
    BY <1>3 DEF fs_file_delete
  <2> HIDE DEF f
  <2>3. TypeOK /\ Linked /\ r.ret = "OK"
    BY <1>3, <2>1 DEF IInv
  <2>4. PICK c \in [0..Len(p) -> Item] : Chain(p, c) /\ c[Len(p)] = r.item
    BY <2>3, FoundLeads DEF Leads
  <2>5. Len(p) \in 1..Len(p)
    OBVIOUS
  <2>6. r.item \in Item /\ r.item # Root /\ Live(r.item) /\ Leads(p, r.item)
    BY <2>3, <2>4, <2>5, ChainEntry DEF Leads
  <2>7. r = Found(r.item)
    BY <2>3, <2>6, LeadsFound
  <2> HIDE DEF r
  <2>8. type[r.item] # "DIR"
    BY <2>1 DEF fs_item_is_dir
  <2>9. \A n \in Name : items[r.item][n] = NoItem
    BY <2>6, <2>8 DEF IInv, Linked
  <2>10. items[r.item] = EmptyMap
    BY <2>6, <2>9 DEF IInv, TypeOK, EmptyMap
  <2>11. DeleteItem(r.item) /\ UNCHANGED status /\ reply'.ret = "OK"
    BY <2>1, <2>2 DEF Answer
  <2>12. fs_get_item(p, 0) = Found(r.item)
    BY <2>7 DEF r
  <2> QED
    BY <2>6, <2>8, <2>10, <2>11, <2>12
<1> QED
  BY <1>1, <1>2, <1>3, ParseRet DEF fdo_unlink

LEMMA RmdirEffect ==
  ASSUME TreeAssumption, IInv, NEW p \in ClientPaths, fdo_rmdir(p)
  PROVE  \/ UNCHANGED <<tree, status>> /\ reply'.ret \notin {"OK", "NONE"}
         \/ \E x \in Item :
              /\ x # Root /\ Live(x) /\ Leads(p, x)
              /\ items[x] = EmptyMap /\ fs_get_item(p, 0).item = x
              /\ DeleteItem(x) /\ UNCHANGED status /\ reply'.ret = "OK"
PROOF
<1> DEFINE r == fs_get_item(p, 0)
           d == fs_get_dir_item(p, 0)
<1>1. 0 \in 0..Len(p) /\ 0 # Len(p) /\ p \in Paths /\ p \in Seq(Name)
  BY PathIsSeq DEF ClientPaths
<1>2. r.ret = "OK" => r.item \in Item /\ Live(r.item) /\ r.item # Root
  BY <1>1, GetItem
<1>3. d.ret \in {"OK", "ENOENT", "ENOTDIR"} /\ (d.ret = "OK" => d = r)
  BY <1>1, GetDirItemRet
<1>4. r.ret = "OK" => Leads(p, r.item)
  BY <1>1, FoundLeads DEF IInv
<1>5. \/ Refuse("rmdir", "ENAMETOOLONG")
      \/ d.ret # "OK" /\ Refuse("rmdir", d.ret)
      \/ Refuse("rmdir", "ENOTEMPTY")
      \/ /\ d.ret = "OK" /\ items[d.item] = EmptyMap
         /\ DeleteItem(d.item) /\ Answer("rmdir", "OK") /\ UNCHANGED status
  BY ParseRet DEF fdo_rmdir, fs_dir_delete
<1>6. r.item = fs_get_item(p, 0).item
  OBVIOUS
<1> HIDE DEF r, d
<1>7. ASSUME NEW ret, ret \notin {"OK", "NONE"}, Refuse("rmdir", ret)
      PROVE  UNCHANGED <<tree, status>> /\ reply'.ret \notin {"OK", "NONE"}
  BY <1>7 DEF Refuse, Answer
<1>8. CASE /\ d.ret = "OK" /\ items[d.item] = EmptyMap
           /\ DeleteItem(d.item) /\ Answer("rmdir", "OK") /\ UNCHANGED status
  BY <1>2, <1>3, <1>4, <1>6, <1>8 DEF Answer
<1>9. CASE d.ret # "OK" /\ Refuse("rmdir", d.ret)
  <2>1. d.ret \notin {"OK", "NONE"}
    BY <1>3, <1>9
  <2> QED
    BY <1>7, <1>9, <2>1
<1> QED
  BY <1>5, <1>7, <1>8, <1>9

LEMMA RenameEffect ==
  ASSUME TreeAssumption, IInv, NEW p \in ClientPaths, NEW q \in ClientPaths, fdo_rename(p, q)
  PROVE  \/ UNCHANGED <<tree, status>> /\ reply'.ret \notin {"OK", "NONE"}
         \/ UNCHANGED tree /\ status' \in {"aborted", "corrupt"} /\ reply'.ret = "NONE"
         \/ \E x \in Item, d \in Item :
              /\ x # Root /\ Live(x) /\ Leads(p, x) /\ fs_get_item(p, 0) = Found(x)
              /\ type[d] = "DIR" /\ Leads(Parent(q), d)
              /\ items[d][ps_last_file(q)] = NoItem
              /\ MoveItem(x, d, ps_last_file(q))
PROOF
<1> DEFINE old == fs_get_item(p, 0)
           dir == fs_get_dir_item(q, 1)
           new == items[dir.item][ps_last_file(q)]
<1>1. /\ p \in Paths /\ q \in Paths /\ p \in Seq(Name) /\ q \in Seq(Name) /\ q # <<>>
      /\ 0 \in 0..Len(p) /\ 0 # Len(p) /\ 1 \in 0..Len(q) /\ TypeOK /\ Linked
  BY PathIsSeq DEF ClientPaths, IInv
<1>2. /\ old.ret \in {"OK", "ENOENT", "ENOTDIR"}
      /\ old.ret = "OK" => old.item \in Item /\ Live(old.item) /\ old.item # Root
  BY <1>1, GetItem
<1>3. old.ret = "OK" => Leads(p, old.item)
  BY <1>1, FoundLeads
<1>4. old.ret = "OK" => old = Found(old.item)
  BY <1>1, <1>3, LeadsFound
<1>5. dir.ret = "OK" => dir.item \in Item /\ type[dir.item] = "DIR"
  BY GetDirItem
<1>6. dir.ret \in {"OK", "ENOENT", "ENOTDIR"} /\ (dir.ret = "OK" => dir = fs_get_item(q, 1))
  BY <1>1, GetDirItemRet
<1>7. dir.ret = "OK" => Leads(Parent(q), dir.item)
  <2> HIDE DEF dir
  <2> QED
    BY <1>1, <1>6, ParentLeads
<1>8. \/ Refuse("rename", "ENAMETOOLONG")
      \/ old.ret # "OK" /\ Refuse("rename", old.ret)
      \/ dir.ret # "OK" /\ Refuse("rename", dir.ret)
      \/ old.ret = "OK" /\ dir.ret = "OK" /\ new = NoItem
         /\ MoveItem(old.item, dir.item, ps_last_file(q))
      \/ ReplaceItem
      \/ Refuse("rename", "EPERM")
      \/ Refuse("rename", "ENOTEMPTY")
  BY ParseRet DEF fdo_rename, fs_rename
<1>9. fs_get_item(p, 0) = old
  OBVIOUS
<1> HIDE DEF old, dir
<1>10. ASSUME NEW ret, ret \notin {"OK", "NONE"}, Refuse("rename", ret)
       PROVE  UNCHANGED <<tree, status>> /\ reply'.ret \notin {"OK", "NONE"}
  BY <1>10 DEF Refuse, Answer
<1>11. CASE ReplaceItem
  BY <1>11 DEF ReplaceItem, Undefined, Answer
<1>12. CASE old.ret = "OK" /\ dir.ret = "OK" /\ new = NoItem
            /\ MoveItem(old.item, dir.item, ps_last_file(q))
  BY <1>2, <1>3, <1>4, <1>5, <1>7, <1>9, <1>12
<1>13. CASE old.ret # "OK" /\ Refuse("rename", old.ret)
  <2>1. old.ret \notin {"OK", "NONE"}
    BY <1>2, <1>13
  <2> QED
    BY <1>10, <1>13, <2>1
<1>14. CASE dir.ret # "OK" /\ Refuse("rename", dir.ret)
  <2>1. dir.ret \notin {"OK", "NONE"}
    BY <1>6, <1>14
  <2> QED
    BY <1>10, <1>14, <2>1
<1> QED
  BY <1>8, <1>10, <1>11, <1>12, <1>13, <1>14

-----------------------------------------------------------------------------
(* A path leads to the item of its last component.                         *)
LEMMA LastName ==
  ASSUME TreeAssumption, Linked, NEW p \in Seq(Name), p # <<>>, NEW x, Leads(p, x)
  PROVE  /\ x \in Item /\ x # Root /\ Live(x) /\ name[x] = ps_last_file(p)
         /\ ps_last_file(p) \in Name
PROOF
<1>1. PICK c \in [0..Len(p) -> Item] : Chain(p, c) /\ c[Len(p)] = x
  BY DEF Leads
<1>2. Len(p) \in 1..Len(p)
  OBVIOUS
<1> QED
  BY <1>1, <1>2, ChainEntry DEF ps_last_file

(* A change that takes no entry of the path away leaves the path.          *)
LEMMA LeadsKept ==
  ASSUME NEW p \in Seq(Name), NEW c \in [0..Len(p) -> Item], Chain(p, c),
         \A i \in 1..Len(p) : items'[c[i - 1]][p[i]] = items[c[i - 1]][p[i]]
  PROVE  Leads(p, c[Len(p)])'
PROOF
<1>1. \A i \in 1..Len(p) : items'[c[i - 1]][p[i]] = c[i]
  BY DEF Chain
<1>2. c[0] = Root
  BY DEF Chain
<1>3. Chain(p, c)'
  BY <1>1, <1>2 DEF Chain
<1> QED
  BY <1>3 DEF Leads

(* Where p leads to x, a path without p in front does not go through x.    *)
LEMMA PathAvoids ==
  ASSUME TreeAssumption, Linked, NEW p \in Seq(Name), NEW x, Leads(p, x),
         NEW q \in Seq(Name), ~IsPrefixOf(p, q), NEW y, Leads(q, y)
  PROVE  /\ y # x
         /\ \E c \in [0..Len(q) -> Item] :
              /\ Chain(q, c) /\ c[Len(q)] = y
              /\ \A i \in 1..Len(q) :
                   items[c[i - 1]][q[i]] # NoItem /\ items[c[i - 1]][q[i]] # x
PROOF
<1>1. PICK c \in [0..Len(q) -> Item] : Chain(q, c) /\ c[Len(q)] = y
  BY DEF Leads
<1>2. \A j \in 0..Len(q) : c[j] # x
  BY <1>1, OnTheWay
<1>3. \A i \in 1..Len(q) : items[c[i - 1]][q[i]] # NoItem /\ items[c[i - 1]][q[i]] # x
  <2> SUFFICES ASSUME NEW i \in 1..Len(q)
               PROVE  items[c[i - 1]][q[i]] # NoItem /\ items[c[i - 1]][q[i]] # x
    OBVIOUS
  <2>1. items[c[i - 1]][q[i]] = c[i] /\ items[c[i - 1]][q[i]] # NoItem
    BY <1>1, ChainEntry
  <2>2. i \in 0..Len(q)
    OBVIOUS
  <2> QED
    BY <1>2, <2>1, <2>2
<1>4. Len(q) \in 0..Len(q)
  OBVIOUS
<1> QED
  BY <1>1, <1>2, <1>3, <1>4

(* A new item is put where there was none: no path changes.                *)
LEMMA LeadsAfterAdd ==
  ASSUME TreeAssumption, IInv, NEW x \in Item, ~Live(x),
         NEW d \in Item, NEW n \in Name, items[d][n] = NoItem, NEW t, AddItem(x, d, n, t),
         NEW q \in Seq(Name), NEW y, Leads(q, y)
  PROVE  Leads(q, y)'
PROOF
<1>1. PICK c \in [0..Len(q) -> Item] : Chain(q, c) /\ c[Len(q)] = y
  BY DEF Leads
<1>2. ASSUME NEW i \in 1..Len(q)
      PROVE  items'[c[i - 1]][q[i]] = items[c[i - 1]][q[i]]
  <2> DEFINE e == c[i - 1]
             m == q[i]
  <2>1. e \in Item /\ m \in Name /\ items[e][m] # NoItem /\ type[e] = "DIR"
    BY <1>1, ChainEntry DEF IInv
  <2>2. e # x /\ ~(e = d /\ m = n)
    BY <2>1 DEF Live
  <2>3. items' = [items EXCEPT ![d][n] = x, ![x] = EmptyMap]
    BY DEF AddItem
  <2>4. items \in [Item -> [Name -> Item \cup {NoItem}]]
    BY DEF IInv, TypeOK
  <2> HIDE DEF e, m
  <2>5. items'[e][m] = items[e][m]
    BY <2>1, <2>2, <2>3, <2>4
  <2> QED
    BY <2>5 DEF e, m
<1> QED
  BY <1>1, <1>2, LeadsKept

(* An item that leaves its directory takes the paths through it along.     *)
LEMMA LeadsAfterDelete ==
  ASSUME TreeAssumption, IInv, NEW p \in Seq(Name), NEW x \in Item, Leads(p, x),
         x # Root, Live(x), DeleteItem(x),
         NEW q \in Seq(Name), ~IsPrefixOf(p, q), NEW y, Leads(q, y)
  PROVE  y # x /\ Leads(q, y)'
PROOF
<1>1. Linked
  BY DEF IInv
<1>2. PICK c \in [0..Len(q) -> Item] :
        /\ Chain(q, c) /\ c[Len(q)] = y
        /\ \A i \in 1..Len(q) : items[c[i - 1]][q[i]] # NoItem /\ items[c[i - 1]][q[i]] # x
  BY <1>1, PathAvoids
<1>3. ASSUME NEW i \in 1..Len(q)
      PROVE  items'[c[i - 1]][q[i]] = items[c[i - 1]][q[i]]
  <2> DEFINE e == c[i - 1]
             m == q[i]
  <2>1. e \in Item /\ m \in Name /\ items[e][m] # x
    BY <1>1, <1>2, ChainEntry
  <2>2. /\ items' = [items EXCEPT ![parent[x]][name[x]] = NoItem]
        /\ items \in [Item -> [Name -> Item \cup {NoItem}]]
        /\ items[parent[x]][name[x]] = x
    BY DEF DeleteItem, IInv, TypeOK, NoLeak
  <2> HIDE DEF e, m
  <2>3. items'[e][m] = items[e][m]
    BY <2>1, <2>2
  <2> QED
    BY <2>3 DEF e, m
<1>4. y # x
  BY <1>1, PathAvoids
<1> QED
  BY <1>2, <1>3, <1>4, LeadsKept

LEMMA LeadsAfterMove ==
  ASSUME TreeAssumption, IInv, NEW p \in Seq(Name), NEW x \in Item, Leads(p, x),
         x # Root, Live(x), NEW d \in Item, NEW n \in Name, items[d][n] = NoItem,
         MoveItem(x, d, n),
         NEW q \in Seq(Name), ~IsPrefixOf(p, q), NEW y, Leads(q, y)
  PROVE  y # x /\ Leads(q, y)'
PROOF
<1>1. Linked
  BY DEF IInv
<1>2. PICK c \in [0..Len(q) -> Item] :
        /\ Chain(q, c) /\ c[Len(q)] = y
        /\ \A i \in 1..Len(q) : items[c[i - 1]][q[i]] # NoItem /\ items[c[i - 1]][q[i]] # x
  BY <1>1, PathAvoids
<1>3. ASSUME NEW i \in 1..Len(q)
      PROVE  items'[c[i - 1]][q[i]] = items[c[i - 1]][q[i]]
  <2> DEFINE e == c[i - 1]
             m == q[i]
  <2>1. e \in Item /\ m \in Name /\ items[e][m] # x /\ ~(e = d /\ m = n)
    BY <1>1, <1>2, ChainEntry
  <2>2. /\ items' = [items EXCEPT ![parent[x]][name[x]] = NoItem, ![d][n] = x]
        /\ items \in [Item -> [Name -> Item \cup {NoItem}]]
        /\ items[parent[x]][name[x]] = x
    BY DEF MoveItem, IInv, TypeOK, NoLeak
  <2> HIDE DEF e, m
  <2>3. items'[e][m] = [items EXCEPT ![parent[x]][name[x]] = NoItem][e][m]
    BY <2>1, <2>2
  <2>4. [items EXCEPT ![parent[x]][name[x]] = NoItem][e][m] = items[e][m]
    BY <2>1, <2>2
  <2> QED
    BY <2>3, <2>4 DEF e, m
<1>4. y # x
  BY <1>1, PathAvoids
<1> QED
  BY <1>2, <1>3, <1>4, LeadsKept

(* Every item below the root has a path.                                   *)
LEMMA LiveHasPath ==
  ASSUME TreeAssumption, TypeOK, Rooted, NEW x \in Item, Live(x)
  PROVE  \E p \in Seq(Name) : Leads(p, x)
PROOF
<1> DEFINE S == {y \in Item : \E p \in Seq(Name) : Leads(p, y)}
<1>1. Root \in S
  <2> DEFINE c == [i \in 0..0 |-> Root]
  <2>1. c \in [0..Len(<<>>) -> Item] /\ Chain(<<>>, c) /\ c[Len(<<>>)] = Root
    BY DEF Chain, TreeAssumption
  <2> QED
    BY <2>1 DEF Leads, TreeAssumption
<1>2. ASSUME NEW d \in S, NEW n \in Name, items[d][n] # NoItem
      PROVE  items[d][n] \in S
  <2>1. PICK p \in Seq(Name) : Leads(p, d)
    OBVIOUS
  <2>2. PICK c \in [0..Len(p) -> Item] : Chain(p, c) /\ c[Len(p)] = d
    BY <2>1 DEF Leads
  <2> DEFINE q == Append(p, n)
             k == Len(p)
             y == items[d][n]
             e == [i \in 0..(k + 1) |-> IF i = k + 1 THEN y ELSE c[i]]
  <2>3. k \in Nat /\ q \in Seq(Name) /\ Len(q) = k + 1 /\ q[k + 1] = n
    OBVIOUS
  <2>4. \A i \in 1..k : q[i] = p[i]
    OBVIOUS
  <2>5. y \in Item
    BY <1>2 DEF TypeOK
  <2>6. c \in [0..k -> Item] /\ c[0] = Root /\ c[k] = d /\ \A i \in 1..k : items[c[i - 1]][p[i]] = c[i]
    BY <2>2 DEF Chain
  <2> HIDE DEF q, k
  <2>7. e \in [0..(k + 1) -> Item] /\ e[0] = Root /\ e[k + 1] = y
    BY <2>3, <2>5, <2>6
  <2>8. ASSUME NEW i \in 1..(k + 1)
        PROVE  items[e[i - 1]][q[i]] = e[i]
    <3>1. CASE i = k + 1
      BY <2>3, <2>6, <3>1
    <3>2. CASE i \in 1..k
      <4>1. e[i - 1] = c[i - 1] /\ e[i] = c[i] /\ q[i] = p[i]
        BY <2>3, <2>4, <3>2
      <4> QED
        BY <2>6, <3>2, <4>1
    <3> QED
      BY <2>3, <3>1, <3>2
  <2> HIDE DEF e
  <2>9. Leads(q, y)
    BY <2>3, <2>7, <2>8 DEF Leads, Chain
  <2> QED
    BY <2>3, <2>5, <2>9
<1>3. Closed(S) /\ S \in SUBSET Item
  BY <1>2 DEF Closed
<1> HIDE DEF S
<1>4. x \in S
  BY <1>1, <1>3 DEF Rooted, Subtree
<1> QED
  BY <1>4 DEF S

(* PathTo's way up from x, one turn of it.                                 *)
Climb(x, f, i) ==
  IF i = 0 THEN x ELSE IF f[i - 1] = Root THEN Root ELSE parent[f[i - 1]]

(* The way up from where p leads to is p backwards, and short enough for   *)
(* PathTo to find its end.                                                 *)
LEMMA PathToIsPath ==
  ASSUME TreeAssumption, Linked, IsFiniteSet(Item),
         NEW p \in Seq(Name), NEW x, Leads(p, x)
  PROVE  PathTo(x) = p
PROOF
<1> DEFINE k == Len(p)
           N == Cardinality(Item)
<1>1. PICK c \in [0..k -> Item] : Chain(p, c) /\ c[k] = x
  BY DEF Leads
<1>2. k \in Nat /\ c[0] = Root
  BY <1>1 DEF Chain
<1>3. \A i \in 0..k, j \in 0..k : c[i] = c[j] => i = j
  BY <1>1, ChainsMeetOnce
<1>4. \A i \in 1..k : c[i] # Root /\ name[c[i]] = p[i] /\ parent[c[i]] = c[i - 1]
  BY <1>1, ChainEntry
<1>5. N \in Nat /\ k \in 0..N
  <2>1. IsFiniteSet(0..k) /\ Cardinality(0..k) = k + 1
    BY <1>2, FS_Interval
  <2>2. c \in Injection(0..k, Item)
    BY <1>3 DEF Injection, IsInjective
  <2>3. Cardinality(0..k) <= N
    BY <2>1, <2>2, FS_Injection
  <2>4. N \in Nat
    BY FS_CardinalityType
  <2> QED
    BY <1>2, <2>1, <2>3, <2>4
<1> HIDE DEF k, N
<1> DEFINE f == [i \in 0..N |-> IF i <= k THEN c[k - i] ELSE Root]
           up == CHOOSE g : g = [i \in 0..N |-> Climb(x, g, i)]
           depth == CHOOSE d \in 0..N : up[d] = Root /\ \A e \in 0..(d - 1) : up[e] # Root
<1>6. f = [i \in 0..N |-> Climb(x, f, i)]
  <2> SUFFICES ASSUME NEW i \in 0..N
               PROVE  f[i] = Climb(x, f, i)
    OBVIOUS
  <2>1. CASE i = 0
    BY <1>1, <1>2, <2>1 DEF Climb
  <2>2. CASE i # 0 /\ i <= k
    <3>1. PICK m \in 1..k : m = k - (i - 1) /\ m - 1 = k - i
      BY <1>2, <1>5, <2>2
    <3>2. i - 1 \in 0..N /\ i - 1 <= k
      BY <1>2, <1>5, <2>2
    <3>3. f[i - 1] = c[m] /\ f[i] = c[m - 1]
      BY <2>2, <3>1, <3>2
    <3>4. c[m] # Root /\ parent[c[m]] = c[m - 1]
      BY <1>4
    <3> QED
      BY <2>2, <3>3, <3>4 DEF Climb
  <2>3. CASE i > k
    <3>1. i - 1 \in 0..N /\ i # 0
      BY <1>2, <1>5, <2>3
    <3>2. f[i - 1] = Root /\ f[i] = Root
      BY <1>2, <2>3, <3>1
    <3> QED
      BY <3>1, <3>2 DEF Climb
  <2> QED
    BY <1>2, <1>5, <2>1, <2>2, <2>3
<1>7. up = [i \in 0..N |-> Climb(x, up, i)]
  <2> HIDE DEF f
  <2> QED
    BY <1>6
<1>8. \A i \in 0..k : f[i] = c[k - i]
  BY <1>2, <1>5
<1> HIDE DEF f, up
<1>9. 0..N \subseteq {i \in 0..N : up[i] = f[i]}
  <2> DEFINE T == {i \in 0..N : up[i] = f[i]}
  <2>1. \A i \in 0..N : up[i] = Climb(x, up, i)
    BY <1>7, Zenon
  <2>2. \A i \in 0..N : f[i] = Climb(x, f, i)
    BY <1>6, Zenon
  <2>3. 0 \in T
    <3>1. 0 \in 0..N
      BY <1>5
    <3> QED
      BY <2>1, <2>2, <3>1 DEF Climb
  <2>4. ASSUME NEW i \in 0..(N - 1), i \in T
        PROVE  i + 1 \in T
    <3>1. i + 1 \in 0..N /\ i + 1 # 0 /\ i + 1 - 1 = i /\ up[i] = f[i]
      BY <1>5, <2>4
    <3> QED
      BY <2>1, <2>2, <3>1 DEF Climb
  <2> HIDE DEF T
  <2>5. 0..N \subseteq T
    BY <1>5, <2>3, <2>4, BoundedInduction
  <2> QED
    BY <2>5 DEF T
<1>10. \A i \in 0..k : up[i] = c[k - i]
  BY <1>2, <1>5, <1>8, <1>9
<1>11. up[k] = Root /\ \A e \in 0..(k - 1) : up[e] # Root
  <2>1. up[k] = Root
    BY <1>2, <1>10
  <2>2. ASSUME NEW e \in 0..(k - 1)
        PROVE  up[e] # Root
    <3>1. e \in 0..k /\ k - e \in 1..k
      BY <1>2
    <3> QED
      BY <1>4, <1>10, <3>1
  <2> QED
    BY <2>1, <2>2
<1>12. depth = k
  <2>1. \A d \in 0..N : up[d] = Root /\ (\A e \in 0..(d - 1) : up[e] # Root) => d = k
    <3> SUFFICES ASSUME NEW d \in 0..N, up[d] = Root, \A e \in 0..(d - 1) : up[e] # Root
                 PROVE  d = k
      OBVIOUS
    <3>1. ~(d < k)
      BY <1>2, <1>11
    <3>2. ~(k < d)
      BY <1>2, <1>11
    <3> QED
      BY <1>2, <1>5, <3>1, <3>2
  <2>2. k \in 0..N /\ up[k] = Root /\ \A e \in 0..(k - 1) : up[e] # Root
    BY <1>5, <1>11
  <2> QED
    BY <2>1, <2>2
<1>13. PathTo(x) = [j \in 1..depth |-> name[up[depth - j]]]
  BY DEF PathTo, Climb, N, up
<1> HIDE DEF depth
<1>14. ASSUME NEW j \in 1..k
       PROVE  name[up[k - j]] = p[j]
  <2>1. k - j \in 0..k /\ k - (k - j) = j
    BY <1>2
  <2> QED
    BY <1>4, <1>10, <2>1
<1>15. p = [j \in 1..k |-> p[j]]
  BY DEF k
<1> QED
  BY <1>12, <1>13, <1>14, <1>15

-----------------------------------------------------------------------------
(* The first j components of a path.                                       *)
Cut(p, j) == SubSeq(p, 1, j)

LEMMA CutProps ==
  ASSUME NEW p \in Seq(Name), NEW j \in 0..Len(p)
  PROVE  Cut(p, j) \in Seq(Name) /\ Len(Cut(p, j)) = j /\ \A i \in 1..j : Cut(p, j)[i] = p[i]
PROOF
<1> QED
  BY DEF Cut

LEMMA CutAll ==
  ASSUME NEW p \in Seq(Name)
  PROVE  Cut(p, Len(p)) = p
PROOF
<1> QED
  BY DEF Cut

LEMMA SeqsEqual ==
  ASSUME NEW p \in Seq(Name), NEW q \in Seq(Name), Len(p) = Len(q),
         \A i \in 1..Len(p) : p[i] = q[i]
  PROVE  p = q
PROOF
<1> QED
  OBVIOUS

LEMMA CutCut ==
  ASSUME NEW p \in Seq(Name), NEW m \in 0..Len(p), NEW j \in 0..m
  PROVE  Cut(Cut(p, m), j) = Cut(p, j)
PROOF
<1> DEFINE q == Cut(p, m)
           r == Cut(q, j)
           s == Cut(p, j)
<1>1. Len(p) \in Nat /\ j \in 0..Len(p)
  OBVIOUS
<1>2. q \in Seq(Name) /\ Len(q) = m /\ \A i \in 1..m : q[i] = p[i]
  BY CutProps
<1>3. s \in Seq(Name) /\ Len(s) = j /\ \A i \in 1..j : s[i] = p[i]
  BY <1>1, CutProps
<1> HIDE DEF q, s
<1>4. r \in Seq(Name) /\ Len(r) = j /\ \A i \in 1..j : r[i] = q[i]
  BY <1>2, CutProps
<1> HIDE DEF r
<1>5. \A i \in 1..j : r[i] = s[i]
  BY <1>1, <1>2, <1>3, <1>4
<1>6. r = s
  BY <1>3, <1>4, <1>5, SeqsEqual
<1> QED
  BY <1>6 DEF q, r, s

LEMMA PrefixIsCut ==
  ASSUME NEW p \in Seq(Name), NEW q \in Seq(Name)
  PROVE  IsPrefixOf(p, q) <=> Len(p) <= Len(q) /\ Cut(q, Len(p)) = p
PROOF
<1> QED
  BY DEF IsPrefixOf, Cut

LEMMA ParentIsCut ==
  ASSUME NEW p \in Seq(Name), p # <<>>
  PROVE  Len(p) - 1 \in 0..Len(p) /\ Parent(p) = Cut(p, Len(p) - 1) /\ ps_last_file(p) = p[Len(p)]
PROOF
<1> QED
  BY DEF Parent, Cut, ps_last_file

-----------------------------------------------------------------------------
There(p) == \E x \in Item : Leads(p, x)
Blocks(p) == \E x \in Item : Leads(p, x) /\ ~fs_item_is_dir(x)

LEMMA LeadsOnce ==
  ASSUME TreeAssumption, Linked, NEW p \in Seq(Name), NEW x, NEW y, Leads(p, x), Leads(p, y)
  PROVE  x = y
PROOF
<1>1. Found(x) = Found(y)
  BY LeadsFound
<1> QED
  BY <1>1 DEF Found

LEMMA LeadsItem ==
  ASSUME NEW p \in Seq(Name), NEW x, Leads(p, x)
  PROVE  x \in Item
PROOF
<1>1. Len(p) \in 0..Len(p)
  OBVIOUS
<1> QED
  BY <1>1 DEF Leads

LEMMA RootLeads ==
  ASSUME TreeAssumption
  PROVE  Leads(<<>>, Root)
PROOF
<1> DEFINE c == [i \in 0..0 |-> Root]
<1>1. c \in [0..Len(<<>>) -> Item] /\ Chain(<<>>, c) /\ c[Len(<<>>)] = Root
  BY DEF Chain, TreeAssumption
<1> HIDE DEF c
<1> QED
  BY <1>1 DEF Leads

LEMMA LeadsLive ==
  ASSUME TreeAssumption, IInv, NEW p \in Seq(Name), NEW x, Leads(p, x)
  PROVE  x \in Item /\ Live(x)
PROOF
<1>1. CASE p = <<>>
  <2>1. x = Root
    BY <1>1, RootLeads, LeadsOnce DEF IInv
  <2> QED
    BY <2>1 DEF IInv, RootIsDir, Live, TreeAssumption
<1>2. CASE p # <<>>
  BY <1>2, LastName DEF IInv
<1> QED
  BY <1>1, <1>2

(* What lies on the way to something is a directory.                       *)
LEMMA CutLeads ==
  ASSUME TreeAssumption, Linked, NEW p \in Seq(Name), NEW x, Leads(p, x), NEW j \in 0..Len(p)
  PROVE  \E z \in Item : Leads(Cut(p, j), z) /\ (j < Len(p) => type[z] = "DIR")
PROOF
<1>1. PICK c \in [0..Len(p) -> Item] : Chain(p, c) /\ c[Len(p)] = x
  BY DEF Leads
<1> DEFINE q == Cut(p, j)
           e == [i \in 0..j |-> c[i]]
<1>2. q \in Seq(Name) /\ Len(q) = j /\ \A i \in 1..j : q[i] = p[i]
  BY CutProps
<1>3. Len(p) \in Nat /\ j \in Nat /\ j <= Len(p) /\ c[j] \in Item
  OBVIOUS
<1>4. e \in [0..j -> Item] /\ e[0] = Root /\ e[j] = c[j]
  BY <1>1, <1>3 DEF Chain
<1>5. \A i \in 1..j : items[e[i - 1]][q[i]] = e[i]
  <2> SUFFICES ASSUME NEW i \in 1..j
               PROVE  items[e[i - 1]][q[i]] = e[i]
    OBVIOUS
  <2>1. i \in 1..Len(p) /\ i \in 0..j /\ i - 1 \in 0..j
    BY <1>3
  <2>2. items[c[i - 1]][p[i]] = c[i]
    BY <1>1, <2>1 DEF Chain
  <2> QED
    BY <1>2, <2>1, <2>2
<1> HIDE DEF e, q
<1>6. Leads(q, c[j])
  BY <1>2, <1>4, <1>5 DEF Leads, Chain
<1>7. j < Len(p) => type[c[j]] = "DIR"
  <2> SUFFICES ASSUME j < Len(p)
               PROVE  type[c[j]] = "DIR"
    OBVIOUS
  <2>1. j + 1 \in 1..Len(p) /\ (j + 1) - 1 = j
    BY <1>3
  <2> QED
    BY <1>1, <2>1, ChainEntry
<1> QED
  BY <1>3, <1>6, <1>7 DEF q

(* One more component is one more entry.                                   *)
LEMMA CutStep ==
  ASSUME NEW p \in Seq(Name), NEW i \in 0..(Len(p) - 1), NEW y
  PROVE  Leads(Cut(p, i + 1), y) <=>
           y \in Item /\ \E d \in Item : Leads(Cut(p, i), d) /\ items[d][p[i + 1]] = y
PROOF
<1> DEFINE q == Cut(p, i)
           r == Cut(p, i + 1)
<1>1. i \in Nat /\ i \in 0..Len(p) /\ i + 1 \in 0..Len(p)
  OBVIOUS
<1>2. /\ q \in Seq(Name) /\ Len(q) = i /\ \A j \in 1..i : q[j] = p[j]
      /\ r \in Seq(Name) /\ Len(r) = i + 1 /\ \A j \in 1..(i + 1) : r[j] = p[j]
  BY <1>1, CutProps
<1> HIDE DEF q, r
<1>3. ASSUME Leads(r, y)
      PROVE  y \in Item /\ \E d \in Item : Leads(q, d) /\ items[d][p[i + 1]] = y
  <2>1. PICK c \in [0..(i + 1) -> Item] : Chain(r, c) /\ c[i + 1] = y
    BY <1>2, <1>3 DEF Leads
  <2> DEFINE e == [j \in 0..i |-> c[j]]
  <2>2. \A j \in 1..(i + 1) : items[c[j - 1]][p[j]] = c[j]
    BY <1>2, <2>1 DEF Chain
  <2>3. e \in [0..i -> Item] /\ e[0] = Root /\ e[i] = c[i] /\ c[i] \in Item
    BY <1>1, <2>1 DEF Chain
  <2>4. \A j \in 1..i : items[e[j - 1]][q[j]] = e[j]
    <3> SUFFICES ASSUME NEW j \in 1..i
                 PROVE  items[e[j - 1]][q[j]] = e[j]
      OBVIOUS
    <3>1. j \in 1..(i + 1) /\ j \in 0..i /\ j - 1 \in 0..i /\ q[j] = p[j]
      BY <1>1, <1>2
    <3> QED
      BY <2>2, <3>1
  <2> HIDE DEF e
  <2>5. Leads(q, c[i])
    BY <1>2, <2>3, <2>4 DEF Leads, Chain
  <2>6. items[c[i]][p[i + 1]] = y /\ y \in Item
    <3>1. i + 1 \in 1..(i + 1) /\ (i + 1) - 1 = i /\ i + 1 \in 0..(i + 1)
      BY <1>1
    <3> QED
      BY <2>1, <2>2, <3>1
  <2> QED
    BY <2>3, <2>5, <2>6
<1>4. ASSUME y \in Item, NEW d \in Item, Leads(q, d), items[d][p[i + 1]] = y
      PROVE  Leads(r, y)
  <2>1. PICK c \in [0..i -> Item] : Chain(q, c) /\ c[i] = d
    BY <1>2, <1>4 DEF Leads
  <2> DEFINE e == [j \in 0..(i + 1) |-> IF j = i + 1 THEN y ELSE c[j]]
  <2>2. \A j \in 1..i : items[c[j - 1]][p[j]] = c[j]
    BY <1>2, <2>1 DEF Chain
  <2>3. e \in [0..(i + 1) -> Item] /\ e[0] = Root /\ e[i + 1] = y
    BY <1>1, <1>4, <2>1 DEF Chain
  <2>4. \A j \in 1..(i + 1) : items[e[j - 1]][r[j]] = e[j]
    <3> SUFFICES ASSUME NEW j \in 1..(i + 1)
                 PROVE  items[e[j - 1]][r[j]] = e[j]
      OBVIOUS
    <3>1. j \in 0..(i + 1) /\ j - 1 \in 0..(i + 1) /\ j - 1 # i + 1 /\ r[j] = p[j]
          /\ e[j - 1] = c[j - 1]
      BY <1>1, <1>2
    <3>2. CASE j = i + 1
      <4>1. j - 1 = i /\ e[j] = y
        BY <1>1, <3>2
      <4> QED
        BY <1>4, <2>1, <3>1, <3>2, <4>1
    <3>3. CASE j # i + 1
      <4>1. j \in 1..i /\ e[j] = c[j]
        BY <1>1, <3>3
      <4> QED
        BY <2>2, <3>1, <4>1
    <3> QED
      BY <3>2, <3>3
  <2> HIDE DEF e
  <2> QED
    BY <1>2, <2>3, <2>4 DEF Leads, Chain
<1> QED
  BY <1>3, <1>4 DEF q, r

(* Neither path of a rename is inside the other: the directory the item    *)
(* goes to is not below it.                                                *)
LEMMA ParentPrefix ==
  ASSUME NEW p \in Seq(Name), NEW q \in Seq(Name), q # <<>>, IsPrefixOf(p, Parent(q))
  PROVE  IsPrefixOf(p, q)
PROOF
<1> DEFINE k == Len(q) - 1
<1>1. k \in Nat /\ Parent(q) = SubSeq(q, 1, k) /\ Len(q) \in Nat /\ k < Len(q)
  BY DEF Parent
<1> HIDE DEF k
<1>2. Len(Parent(q)) = k /\ Parent(q) \in Seq(Name) /\ \A i \in 1..k : Parent(q)[i] = q[i]
  BY <1>1
<1>3. Len(p) <= k /\ SubSeq(Parent(q), 1, Len(p)) = p /\ Len(p) \in Nat
  BY <1>2 DEF IsPrefixOf
<1>4. \A i \in 1..Len(p) : p[i] = q[i]
  <2> SUFFICES ASSUME NEW i \in 1..Len(p)
               PROVE  p[i] = q[i]
    OBVIOUS
  <2>1. SubSeq(Parent(q), 1, Len(p))[i] = Parent(q)[i]
    BY <1>2, <1>3
  <2> QED
    BY <1>2, <1>3, <2>1
<1>5. SubSeq(q, 1, Len(p)) = p
  BY <1>1, <1>3, <1>4
<1> QED
  BY <1>1, <1>3, <1>5 DEF IsPrefixOf

-----------------------------------------------------------------------------
(* The state after a step.                                                 *)
LEMMA OnTheWayNext ==
  (TreeAssumption /\ Linked =>
     \A p \in Seq(Name), x \in Item, q \in Seq(Name) :
       \A e \in [0..Len(q) -> Item], j \in 0..Len(q) :
         Leads(p, x) /\ Chain(q, e) /\ e[j] = x => IsPrefixOf(p, q) /\ j = Len(p))'
PROOF
<1>1. TreeAssumption /\ Linked =>
        \A p \in Seq(Name), x \in Item, q \in Seq(Name) :
          \A e \in [0..Len(q) -> Item], j \in 0..Len(q) :
            Leads(p, x) /\ Chain(q, e) /\ e[j] = x => IsPrefixOf(p, q) /\ j = Len(p)
  BY OnTheWay
<1> QED
  BY <1>1, PTL

LEMMA LeadsOnceNext ==
  (TreeAssumption /\ Linked =>
     \A p \in Seq(Name), x \in Item, y \in Item : Leads(p, x) /\ Leads(p, y) => x = y)'
PROOF
<1>1. TreeAssumption /\ Linked =>
        \A p \in Seq(Name), x \in Item, y \in Item : Leads(p, x) /\ Leads(p, y) => x = y
  BY LeadsOnce
<1> QED
  BY <1>1, PTL

LEMMA LeadsLiveNext ==
  (TreeAssumption /\ IInv => \A p \in Seq(Name), x \in Item : Leads(p, x) => Live(x))'
PROOF
<1>1. TreeAssumption /\ IInv => \A p \in Seq(Name), x \in Item : Leads(p, x) => Live(x)
  BY LeadsLive
<1> QED
  BY <1>1, PTL

LEMMA CutStepNext ==
  (\A p \in Seq(Name) : \A i \in 0..(Len(p) - 1), y \in Item :
     (\E d \in Item : Leads(Cut(p, i), d) /\ items[d][p[i + 1]] = y) => Leads(Cut(p, i + 1), y))'
PROOF
<1>1. \A p \in Seq(Name) : \A i \in 0..(Len(p) - 1), y \in Item :
        (\E d \in Item : Leads(Cut(p, i), d) /\ items[d][p[i + 1]] = y) => Leads(Cut(p, i + 1), y)
  BY CutStep
<1> QED
  BY <1>1, PTL

(* A path leads to an entry of what the path without its last name leads   *)
(* to.                                                                     *)
LEMMA LastStepNext ==
  ASSUME NEW p \in Seq(Name), p # <<>>, NEW d \in Item, Leads(Parent(p), d)', NEW x \in Item,
         items'[d][ps_last_file(p)] = x
  PROVE  Leads(p, x)'
PROOF
<1> DEFINE i == Len(p) - 1
<1>1. i \in 0..(Len(p) - 1) /\ i + 1 = Len(p) /\ Parent(p) = Cut(p, i) /\ ps_last_file(p) = p[i + 1]
  BY ParentIsCut
<1> HIDE DEF i
<1>2. Leads(Cut(p, i + 1), x)'
  BY <1>1, CutStepNext
<1>3. Cut(p, i + 1) = p
  BY <1>1, CutAll
<1> QED
  BY <1>2, <1>3

LEMMA SamePath ==
  ASSUME NEW p \in Seq(Name), NEW q \in Seq(Name), IsPrefixOf(p, q), Len(p) = Len(q)
  PROVE  p = q
PROOF
<1> QED
  BY PrefixIsCut, CutAll

LEMMA EntryNext ==
  ASSUME TreeAssumption, TypeOK', NEW q \in Seq(Name), NEW c \in [0..Len(q) -> Item], Chain(q, c)',
         NEW i \in 1..Len(q)
  PROVE  /\ c[i] \in Item /\ c[i - 1] \in Item /\ q[i] \in Name
         /\ items'[c[i - 1]][q[i]] = c[i] /\ c[i] # NoItem
PROOF
<1>1. i \in 0..Len(q) /\ i - 1 \in 0..Len(q)
  OBVIOUS
<1> QED
  BY <1>1 DEF Chain, TreeAssumption

(* The way back: a chain of the new state whose entries were there.        *)
LEMMA LeadsBefore ==
  ASSUME NEW q \in Seq(Name), NEW c \in [0..Len(q) -> Item], Chain(q, c)',
         \A i \in 1..Len(q) : items[c[i - 1]][q[i]] = items'[c[i - 1]][q[i]]
  PROVE  Leads(q, c[Len(q)])
PROOF
<1>1. \A i \in 1..Len(q) : items[c[i - 1]][q[i]] = c[i]
  BY DEF Chain
<1>2. c[0] = Root
  BY DEF Chain
<1> QED
  BY <1>1, <1>2 DEF Leads, Chain

-----------------------------------------------------------------------------
(* Creating an item adds the path to it and nothing else.                  *)
LEMMA PathsAfterAdd ==
  ASSUME TreeAssumption, IInv, IInv', NEW x \in Item, ~Live(x), NEW d \in Item, type[d] = "DIR",
         NEW p \in Seq(Name), p # <<>>, Leads(Parent(p), d), NEW t,
         items[d][ps_last_file(p)] = NoItem, AddItem(x, d, ps_last_file(p), t),
         NEW q \in Seq(Name), NEW y \in Item
  PROVE  Leads(q, y)' <=> Leads(q, y) \/ (q = p /\ y = x)
PROOF
<1> DEFINE n == ps_last_file(p)
<1>1. n \in Name /\ Parent(p) \in Seq(Name) /\ Linked' /\ TypeOK'
  BY DEF ps_last_file, Parent, IInv
<1>2. x # d /\ x # NoItem /\ Live(d)
  BY DEF Live, TreeAssumption
<1>0. items' = [items EXCEPT ![d][n] = x, ![x] = EmptyMap]
  BY DEF AddItem
<1> HIDE DEF n
<1>3. \A e \in Item, m \in Name :
        items'[e][m] = IF e = x THEN NoItem ELSE IF e = d /\ m = n THEN x ELSE items[e][m]
  <2>1. items \in [Item -> [Name -> Item \cup {NoItem}]]
    BY DEF IInv, TypeOK
  <2>2. \A m \in Name : EmptyMap[m] = NoItem
    BY DEF EmptyMap
  <2>3. items'[x] = EmptyMap
    BY <1>0, <2>1
  <2>4. \A e \in Item : e # x => items'[e] = IF e = d THEN [items[d] EXCEPT ![n] = x] ELSE items[e]
    BY <1>0, <1>2, <2>1
  <2>5. \A m \in Name : items'[d][m] = IF m = n THEN x ELSE items[d][m]
    BY <1>1, <1>2, <2>1, <2>4
  <2> QED
    BY <2>2, <2>3, <2>4, <2>5
<1>4. Leads(p, x)'
  <2>1. Leads(Parent(p), d)'
    BY <1>1, LeadsAfterAdd DEF n
  <2>2. items'[d][ps_last_file(p)] = x
    BY <1>1, <1>2, <1>3 DEF n
  <2> QED
    BY <2>1, <2>2, LastStepNext
<1>5. ASSUME Leads(q, y)
      PROVE  Leads(q, y)'
  BY <1>1, <1>5, LeadsAfterAdd DEF n
<1>6. ASSUME Leads(q, y)'
      PROVE  Leads(q, y) \/ (q = p /\ y = x)
  <2>1. PICK c \in [0..Len(q) -> Item] : Chain(q, c)' /\ c[Len(q)] = y
    BY <1>6 DEF Leads
  <2>2. \A i \in 1..Len(q) :
          /\ c[i - 1] \in Item /\ q[i] \in Name
          /\ items'[c[i - 1]][q[i]] = c[i] /\ c[i] # NoItem
    <3>1. TypeOK' /\ Chain(q, c)'
      BY <1>1, <2>1
    <3> QED
      BY <3>1, EntryNext
  <2>3. CASE \E j \in 0..Len(q) : c[j] = x
    <3>1. PICK j \in 0..Len(q) : c[j] = x
      BY <2>3
    <3>2. IsPrefixOf(p, q) /\ j = Len(p)
      BY <1>1, <1>4, <2>1, <3>1, OnTheWayNext DEF TreeAssumption
    <3>3. j = Len(q)
      <4> SUFFICES ASSUME j # Len(q)
                   PROVE  FALSE
        OBVIOUS
      <4>1. j + 1 \in 1..Len(q) /\ (j + 1) - 1 = j
        OBVIOUS
      <4>2. items'[x][q[j + 1]] # NoItem /\ q[j + 1] \in Name
        BY <2>2, <3>1, <4>1
      <4> QED
        BY <1>3, <4>2
    <3> QED
      BY <2>1, <3>1, <3>2, <3>3, SamePath
  <2>4. CASE \A j \in 0..Len(q) : c[j] # x
    <3>1. ASSUME NEW i \in 1..Len(q)
          PROVE  items[c[i - 1]][q[i]] = items'[c[i - 1]][q[i]]
      <4>1. i \in 0..Len(q)
        OBVIOUS
      <4>2. c[i] # x
        BY <2>4, <4>1
      <4> QED
        BY <1>3, <2>2, <4>2
    <3> QED
      BY <2>1, <3>1, LeadsBefore
  <2> QED
    BY <2>3, <2>4
<1> QED
  BY <1>4, <1>5, <1>6

(* Deleting an item that holds nothing takes the path to it away.          *)
LEMMA PathsAfterDelete ==
  ASSUME TreeAssumption, IInv, IInv', NEW x \in Item, x # Root, Live(x), items[x] = EmptyMap,
         NEW p \in Seq(Name), Leads(p, x), DeleteItem(x),
         NEW q \in Seq(Name), NEW y \in Item
  PROVE  Leads(q, y)' <=> Leads(q, y) /\ q # p
PROOF
<1>1. Linked /\ TypeOK' /\ x # NoItem
  BY DEF IInv, TreeAssumption
<1>2. parent[x] \in Item /\ name[x] \in Name /\ items[parent[x]][name[x]] = x
  BY DEF IInv, NoLeak
<1>3. \A e \in Item, m \in Name :
        items'[e][m] = IF e = parent[x] /\ m = name[x] THEN NoItem ELSE items[e][m]
  BY <1>2 DEF DeleteItem, IInv, TypeOK
<1>4. ASSUME Leads(q, y), q # p
      PROVE  Leads(q, y)'
  <2>1. ~IsPrefixOf(p, q)
    <3> SUFFICES ASSUME IsPrefixOf(p, q)
                 PROVE  FALSE
      OBVIOUS
    <3>1. Len(p) <= Len(q) /\ Cut(q, Len(p)) = p /\ Len(p) \in Nat /\ Len(q) \in Nat
      BY PrefixIsCut
    <3>2. Len(p) < Len(q)
      BY <1>4, <3>1, SamePath
    <3> DEFINE i == Len(p)
    <3>3. i \in 0..(Len(q) - 1) /\ i + 1 \in 0..Len(q) /\ q[i + 1] \in Name /\ Cut(q, i) = p
      BY <3>1, <3>2
    <3> HIDE DEF i
    <3>4. PICK z \in Item : Leads(Cut(q, i + 1), z)
      BY <1>1, <1>4, <3>3, CutLeads
    <3>5. PICK e \in Item : Leads(p, e) /\ items[e][q[i + 1]] = z
      BY <3>3, <3>4, CutStep
    <3>6. e = x
      BY <1>1, <3>5, LeadsOnce
    <3> QED
      BY <3>3, <3>5, <3>6 DEF EmptyMap, TreeAssumption
  <2> QED
    BY <1>4, <2>1, LeadsAfterDelete
<1>5. ASSUME Leads(q, y)'
      PROVE  Leads(q, y) /\ q # p
  <2>1. PICK c \in [0..Len(q) -> Item] : Chain(q, c)' /\ c[Len(q)] = y
    BY <1>5 DEF Leads
  <2>2. ASSUME NEW i \in 1..Len(q)
        PROVE  items[c[i - 1]][q[i]] = items'[c[i - 1]][q[i]]
    <3>1. /\ c[i - 1] \in Item /\ q[i] \in Name
          /\ items'[c[i - 1]][q[i]] = c[i] /\ c[i] # NoItem
      BY <1>1, <2>1, EntryNext
    <3> QED
      BY <1>3, <3>1
  <2>3. Leads(q, y)
    BY <2>1, <2>2, LeadsBefore
  <2>4. q # p
    <3> SUFFICES ASSUME q = p
                 PROVE  FALSE
      OBVIOUS
    <3>1. p # <<>> /\ y = x
      <4>1. y = x
        BY <1>1, <2>3, LeadsOnce
      <4>2. p # <<>>
        BY <1>1, RootLeads, LeadsOnce
      <4> QED
        BY <4>1, <4>2
    <3>2. Len(p) \in 1..Len(p) /\ Len(p) \in 0..Len(p) /\ Len(p) - 1 \in 0..Len(p)
      BY <3>1
    <3>3. /\ c[Len(p) - 1] \in Item /\ p[Len(p)] \in Name
          /\ items'[c[Len(p) - 1]][p[Len(p)]] = x
      BY <1>1, <2>1, <3>1, <3>2, EntryNext
    <3>4. items[c[Len(p) - 1]][p[Len(p)]] = x
      BY <2>2, <3>2, <3>3
    <3>5. c[Len(p) - 1] = parent[x] /\ p[Len(p)] = name[x]
      BY <1>1, <3>3, <3>4 DEF Linked
    <3> QED
      BY <1>1, <1>3, <3>3, <3>5
  <2> QED
    BY <2>3, <2>4
<1> QED
  BY <1>4, <1>5

-----------------------------------------------------------------------------
(* r with its front q replaced by p.                                       *)
Graft(p, q, r) == p \o SubSeq(r, Len(q) + 1, Len(r))

LEMMA GraftProps ==
  ASSUME NEW p \in Seq(Name), NEW q \in Seq(Name), NEW r \in Seq(Name), IsPrefixOf(q, r)
  PROVE  LET s == Graft(p, q, r)
         IN  /\ s \in Seq(Name) /\ Len(s) = Len(p) + (Len(r) - Len(q))
             /\ \A i \in 1..Len(p) : s[i] = p[i]
             /\ \A i \in 1..(Len(r) - Len(q)) : s[Len(p) + i] = r[Len(q) + i]
PROOF
<1> DEFINE m == Len(q) + 1
           t == SubSeq(r, m, Len(r))
<1>1. Len(q) \in Nat /\ Len(r) \in Nat /\ Len(p) \in Nat /\ Len(q) <= Len(r)
  BY DEF IsPrefixOf
<1>2. t \in Seq(Name) /\ Len(t) = Len(r) - Len(q) /\ \A i \in 1..Len(t) : t[i] = r[Len(q) + i]
  <2>1. m \in Nat \ {0} /\ m <= Len(r) + 1
    BY <1>1
  <2> HIDE DEF m
  <2>2. t \in Seq(Name) /\ Len(t) = (Len(r) - m) + 1 /\ \A i \in 1..Len(t) : t[i] = r[(m + i) - 1]
    BY <1>1, <2>1
  <2>3. \A i \in 1..Len(t) : (m + i) - 1 = Len(q) + i
    BY <1>1 DEF m
  <2> QED
    BY <1>1, <2>2, <2>3 DEF m
<1> HIDE DEF t
<1>3. /\ p \o t \in Seq(Name) /\ Len(p \o t) = Len(p) + Len(t)
      /\ \A i \in 1..Len(p) : (p \o t)[i] = p[i]
      /\ \A i \in 1..Len(t) : (p \o t)[Len(p) + i] = t[i]
  <2>1. /\ p \o t \in Seq(Name) /\ Len(p \o t) = Len(p) + Len(t)
        /\ \A i \in 1..(Len(p) + Len(t)) :
             (p \o t)[i] = IF i <= Len(p) THEN p[i] ELSE t[i - Len(p)]
    BY <1>2, ConcatProperties
  <2>2. \A i \in 1..Len(t) : /\ Len(p) + i \in 1..(Len(p) + Len(t)) /\ ~(Len(p) + i <= Len(p))
                             /\ (Len(p) + i) - Len(p) = i
    BY <1>1, <1>2
  <2> QED
    BY <1>1, <1>2, <2>1, <2>2
<1>4. Graft(p, q, r) = p \o t
  BY DEF Graft, t, m
<1> QED
  BY <1>1, <1>2, <1>3, <1>4

LEMMA GraftPrefix ==
  ASSUME NEW p \in Seq(Name), NEW q \in Seq(Name), NEW r \in Seq(Name), IsPrefixOf(q, r)
  PROVE  IsPrefixOf(p, Graft(p, q, r)) /\ Graft(q, p, Graft(p, q, r)) = r
PROOF
<1> DEFINE s == Graft(p, q, r)
           u == Graft(q, p, s)
<1>1. Len(q) \in Nat /\ Len(r) \in Nat /\ Len(p) \in Nat /\ Len(q) <= Len(r)
      /\ \A i \in 1..Len(q) : q[i] = r[i]
  <2>1. Len(q) \in Nat /\ Len(r) \in Nat /\ Len(p) \in Nat /\ Len(q) <= Len(r)
        /\ Cut(r, Len(q)) = q
    BY PrefixIsCut
  <2>2. Len(q) \in 0..Len(r)
    BY <2>1
  <2> QED
    BY <2>1, <2>2, CutProps
<1>2. /\ s \in Seq(Name) /\ Len(s) = Len(p) + (Len(r) - Len(q))
      /\ \A i \in 1..Len(p) : s[i] = p[i]
      /\ \A i \in 1..(Len(r) - Len(q)) : s[Len(p) + i] = r[Len(q) + i]
  BY GraftProps
<1> HIDE DEF s
<1>3. IsPrefixOf(p, s)
  <2>1. Len(p) \in 0..Len(s)
    BY <1>1, <1>2
  <2>2. /\ Cut(s, Len(p)) \in Seq(Name) /\ Len(Cut(s, Len(p))) = Len(p)
        /\ \A i \in 1..Len(p) : Cut(s, Len(p))[i] = s[i]
    BY <1>2, <2>1, CutProps
  <2>3. Cut(s, Len(p)) = p
    BY <1>2, <2>2, SeqsEqual
  <2> QED
    BY <1>2, <2>1, <2>3, PrefixIsCut
<1>4. /\ u \in Seq(Name) /\ Len(u) = Len(q) + (Len(s) - Len(p))
      /\ \A i \in 1..Len(q) : u[i] = q[i]
      /\ \A i \in 1..(Len(s) - Len(p)) : u[Len(q) + i] = s[Len(p) + i]
  BY <1>2, <1>3, GraftProps
<1> HIDE DEF u
<1>5. Len(u) = Len(r)
  BY <1>1, <1>2, <1>4
<1>6. ASSUME NEW i \in 1..Len(u)
      PROVE  u[i] = r[i]
  <2>1. CASE i <= Len(q)
    <3>1. i \in 1..Len(q)
      BY <2>1
    <3> QED
      BY <1>1, <1>4, <3>1
  <2>2. CASE i > Len(q)
    <3>1. PICK j \in 1..(Len(r) - Len(q)) : i = Len(q) + j
      <4>1. i - Len(q) \in 1..(Len(r) - Len(q)) /\ i = Len(q) + (i - Len(q))
        BY <1>1, <1>5, <2>2
      <4> QED
        BY <4>1
    <3>2. j \in 1..(Len(s) - Len(p))
      BY <1>1, <1>2
    <3>3. u[Len(q) + j] = s[Len(p) + j]
      BY <1>4, <3>2
    <3>4. s[Len(p) + j] = r[Len(q) + j]
      BY <1>2
    <3> QED
      BY <3>1, <3>3, <3>4
  <2> QED
    BY <1>1, <2>1, <2>2
<1>7. u = r
  BY <1>4, <1>5, <1>6, SeqsEqual
<1> QED
  BY <1>3, <1>7 DEF s, u

(* A way through the maps I.                                               *)
Way(I, p, c) ==
  /\ c \in [0..Len(p) -> Item]
  /\ c[0] = Root
  /\ \A i \in 1..Len(p) : I[c[i - 1]][p[i]] = c[i]

WayTo(I, p, x) == \E c \in [0..Len(p) -> Item] : Way(I, p, c) /\ c[Len(p)] = x

(* What follows the front q of r is on a way.                              *)
Follows(I, q, r, c) == \A i \in 1..Len(r) : i > Len(q) => I[c[i - 1]][r[i]] = c[i]

(* A way along p to x and what follows x on a way along r make a way.      *)
LEMMA WayGraft ==
  ASSUME NEW I, NEW p \in Seq(Name), NEW a, Way(I, p, a),
         NEW q \in Seq(Name), NEW r \in Seq(Name), IsPrefixOf(q, r),
         NEW c \in [0..Len(r) -> Item], c[Len(q)] = a[Len(p)], Follows(I, q, r, c)
  PROVE  WayTo(I, Graft(p, q, r), c[Len(r)])
PROOF
<1> DEFINE s == Graft(p, q, r)
<1>1. Len(q) \in Nat /\ Len(r) \in Nat /\ Len(p) \in Nat /\ Len(q) <= Len(r)
  BY DEF IsPrefixOf
<1>2. /\ s \in Seq(Name) /\ Len(s) = Len(p) + (Len(r) - Len(q))
      /\ \A i \in 1..Len(p) : s[i] = p[i]
      /\ \A i \in 1..(Len(r) - Len(q)) : s[Len(p) + i] = r[Len(q) + i]
  BY GraftProps
<1> HIDE DEF s
<1> DEFINE e == [i \in 0..Len(s) |-> IF i <= Len(p) THEN a[i] ELSE c[(i - Len(p)) + Len(q)]]
<1>3. e \in [0..Len(s) -> Item] /\ e[0] = Root
  <2>1. ASSUME NEW i \in 0..Len(s)
        PROVE  e[i] \in Item
    <3>1. CASE i <= Len(p)
      <4>1. i \in 0..Len(p)
        BY <3>1
      <4> QED
        BY <3>1, <4>1 DEF Way
    <3>2. CASE i > Len(p)
      <4>1. (i - Len(p)) + Len(q) \in 0..Len(r) /\ ~(i <= Len(p))
        BY <1>1, <1>2, <3>2
      <4> QED
        BY <4>1
    <3> QED
      BY <1>1, <3>1, <3>2
  <2>2. 0 \in 0..Len(s) /\ 0 <= Len(p)
    BY <1>1, <1>2
  <2>3. e[0] = a[0]
    BY <2>2
  <2> QED
    BY <2>1, <2>3 DEF Way
<1>4. ASSUME NEW i \in 1..Len(s)
      PROVE  I[e[i - 1]][s[i]] = e[i]
  <2>0. i \in 0..Len(s) /\ i - 1 \in 0..Len(s)
    BY <1>2
  <2>1. CASE i <= Len(p)
    <3>1. i \in 1..Len(p) /\ i - 1 <= Len(p)
      BY <2>1
    <3>2. e[i] = a[i] /\ e[i - 1] = a[i - 1] /\ s[i] = p[i]
      BY <1>2, <2>0, <2>1, <3>1
    <3>3. I[a[i - 1]][p[i]] = a[i]
      BY <3>1 DEF Way
    <3> QED
      BY <3>2, <3>3, Zenon
  <2>2. CASE i > Len(p)
    <3>1. PICK j \in 1..Len(r) : j = (i - Len(p)) + Len(q) /\ j > Len(q)
      <4>1. (i - Len(p)) + Len(q) \in 1..Len(r) /\ (i - Len(p)) + Len(q) > Len(q)
        BY <1>1, <1>2, <2>2
      <4> QED
        BY <4>1
    <3>2. e[i] = c[j]
      BY <2>0, <2>2, <3>1
    <3>3. s[i] = r[j]
      <4>1. PICK m \in 1..(Len(r) - Len(q)) : i = Len(p) + m /\ j = Len(q) + m
        <5>1. i - Len(p) \in 1..(Len(r) - Len(q)) /\ i = Len(p) + (i - Len(p))
              /\ j = Len(q) + (i - Len(p))
          BY <1>1, <1>2, <2>2, <3>1
        <5> QED
          BY <5>1
      <4> QED
        BY <1>2, <4>1
    <3>4. e[i - 1] = c[j - 1]
      <4>1. CASE i - 1 = Len(p)
        <5>1. e[i - 1] = a[Len(p)] /\ j - 1 = Len(q)
          BY <1>1, <2>0, <3>1, <4>1
        <5> QED
          BY <5>1
      <4>2. CASE i - 1 # Len(p)
        <5>1. ~(i - 1 <= Len(p)) /\ ((i - 1) - Len(p)) + Len(q) = j - 1
          BY <1>1, <2>2, <3>1, <4>2
        <5> QED
          BY <2>0, <5>1
      <4> QED
        BY <4>1, <4>2
    <3>5. I[c[j - 1]][r[j]] = c[j]
      BY <3>1 DEF Follows
    <3> QED
      BY <3>2, <3>3, <3>4, <3>5, Zenon
  <2> QED
    BY <1>1, <2>1, <2>2
<1>5. e[Len(s)] = c[Len(r)]
  <2>1. Len(s) \in 0..Len(s)
    BY <1>1, <1>2
  <2>2. CASE Len(r) = Len(q)
    BY <1>1, <1>2, <2>1, <2>2
  <2>3. CASE Len(r) # Len(q)
    <3>1. ~(Len(s) <= Len(p)) /\ (Len(s) - Len(p)) + Len(q) = Len(r)
      BY <1>1, <1>2, <2>3
    <3> QED
      BY <2>1, <3>1
  <2> QED
    BY <2>2, <2>3
<1> HIDE DEF e
<1>6. Way(I, s, e)
  BY <1>3, <1>4 DEF Way
<1> QED
  BY <1>3, <1>5, <1>6 DEF s, WayTo

LEMMA ChainCut ==
  ASSUME NEW p \in Seq(Name), NEW c, Chain(p, c), NEW j \in 0..Len(p)
  PROVE  Leads(Cut(p, j), c[j])
PROOF
<1> DEFINE q == Cut(p, j)
           e == [i \in 0..j |-> c[i]]
<1>1. q \in Seq(Name) /\ Len(q) = j /\ \A i \in 1..j : q[i] = p[i]
  BY CutProps
<1>2. e \in [0..j -> Item] /\ e[0] = Root /\ e[j] = c[j]
  BY DEF Chain
<1>3. \A i \in 1..j : items[e[i - 1]][q[i]] = e[i]
  <2> SUFFICES ASSUME NEW i \in 1..j
               PROVE  items[e[i - 1]][q[i]] = e[i]
    OBVIOUS
  <2>1. i \in 1..Len(p) /\ i \in 0..j /\ i - 1 \in 0..j
    OBVIOUS
  <2>2. items[c[i - 1]][p[i]] = c[i]
    BY <2>1 DEF Chain
  <2> QED
    BY <1>1, <2>1, <2>2
<1> HIDE DEF e, q
<1>4. Leads(q, c[j])
  BY <1>1, <1>2, <1>3 DEF Leads, Chain
<1> QED
  BY <1>4 DEF q

(* A rename takes every path at or below the old name to the new one and   *)
(* leaves the others.                                                      *)
LEMMA PathsAfterMove ==
  ASSUME TreeAssumption, IInv, IInv', NEW x \in Item, x # Root, Live(x), NEW d \in Item,
         NEW p \in Seq(Name), Leads(p, x),
         NEW q \in Seq(Name), q # <<>>, Leads(Parent(q), d), ~IsPrefixOf(p, q),
         items[d][ps_last_file(q)] = NoItem, MoveItem(x, d, ps_last_file(q)),
         NEW r \in Seq(Name), NEW y \in Item
  PROVE  Leads(r, y)' <=>
           \/ Leads(r, y) /\ ~IsPrefixOf(p, r)
           \/ IsPrefixOf(q, r) /\ Leads(Graft(p, q, r), y)
PROOF
<1> DEFINE n == ps_last_file(q)
<1>1. n \in Name /\ Parent(q) \in Seq(Name) /\ Linked /\ Linked' /\ TypeOK' /\ x # NoItem
  BY DEF ps_last_file, Parent, IInv, TreeAssumption
<1>2. parent[x] \in Item /\ name[x] \in Name /\ items[parent[x]][name[x]] = x
  BY DEF IInv, NoLeak
<1>3. items' = [items EXCEPT ![parent[x]][name[x]] = NoItem, ![d][n] = x]
  BY DEF MoveItem
<1>4. items[d][n] = NoItem
  OBVIOUS
<1> HIDE DEF n
<1>5. \A e \in Item, m \in Name :
        items'[e][m] = IF e = d /\ m = n THEN x
                       ELSE IF e = parent[x] /\ m = name[x] THEN NoItem ELSE items[e][m]
  <2>1. PICK e \in Item, m \in Name : e = parent[x] /\ m = name[x]
    BY <1>2
  <2>2. x # NoItem /\ ~(d = e /\ m = n)
    BY <1>1, <1>2, <1>4, <2>1
  <2>3. items \in [Item -> [Name -> Item \cup {NoItem}]]
    BY DEF IInv, TypeOK
  <2>4. items' = [items EXCEPT ![e][m] = NoItem, ![d][n] = x]
    BY <1>3, <2>1
  <2>5. \A f \in Item, k \in Name :
          items'[f][k] = IF f = d /\ k = n THEN x ELSE IF f = e /\ k = m THEN NoItem ELSE items[f][k]
    BY <1>1, <2>2, <2>3, <2>4
  <2> QED
    BY <2>1, <2>5
(* An entry that holds something other than x stays as it is, both ways.   *)
<1>6. \A e \in Item, m \in Name :
        /\ items[e][m] # NoItem /\ items[e][m] # x => items'[e][m] = items[e][m]
        /\ items'[e][m] # NoItem /\ items'[e][m] # x => items[e][m] = items'[e][m]
  BY <1>2, <1>4, <1>5
<1>7. Leads(q, x)'
  <2>1. ~IsPrefixOf(p, Parent(q))
    BY ParentPrefix
  <2>2. Leads(Parent(q), d)'
    BY <1>1, <1>4, <2>1, LeadsAfterMove DEF n
  <2>3. items'[d][ps_last_file(q)] = x
    BY <1>1, <1>5 DEF n
  <2> QED
    BY <2>2, <2>3, LastStepNext
<1>8. ASSUME Leads(r, y), ~IsPrefixOf(p, r)
      PROVE  Leads(r, y)'
  BY <1>1, <1>4, <1>8, LeadsAfterMove DEF n
<1>9. ASSUME IsPrefixOf(q, r), Leads(Graft(p, q, r), y)
      PROVE  Leads(r, y)'
  <2> DEFINE s == Graft(p, q, r)
  <2>1. s \in Seq(Name) /\ IsPrefixOf(p, s) /\ Graft(q, p, s) = r
    BY <1>9, GraftProps, GraftPrefix
  <2>2. Leads(s, y)
    BY <1>9
  <2> HIDE DEF s
  <2>3. PICK c \in [0..Len(s) -> Item] : Chain(s, c) /\ c[Len(s)] = y
    BY <2>2 DEF Leads
  <2>4. Len(p) \in 0..Len(s) /\ Cut(s, Len(p)) = p
    BY <2>1, PrefixIsCut
  <2>5. c[Len(p)] = x
    <3>1. Leads(p, c[Len(p)])
      BY <2>1, <2>3, <2>4, ChainCut
    <3> QED
      BY <1>1, <3>1, LeadsOnce
  <2>6. PICK a \in [0..Len(q) -> Item] : Chain(q, a)' /\ a[Len(q)] = x
    BY <1>7 DEF Leads
  <2>7. Way(items', q, a)
    BY <2>6 DEF Way, Chain
  <2>8. ASSUME NEW i \in 1..Len(s), i > Len(p)
        PROVE  items'[c[i - 1]][s[i]] = c[i]
    <3>1. /\ c[i - 1] \in Item /\ s[i] \in Name /\ items[c[i - 1]][s[i]] = c[i]
          /\ items[c[i - 1]][s[i]] # NoItem
      <4>1. Linked /\ s \in Seq(Name) /\ Chain(s, c)
        BY <1>1, <2>1, <2>3
      <4> QED
        BY <4>1, ChainEntry
    <3>2. c[i] # x
      <4>1. i \in 0..Len(s) /\ i # Len(p)
        BY <2>8
      <4> QED
        BY <1>1, <2>1, <2>3, <4>1, OnTheWay
    <3> QED
      BY <1>6, <3>1, <3>2
  <2>9. Follows(items', p, s, c)
    BY <2>8 DEF Follows
  <2>10. WayTo(items', Graft(q, p, s), c[Len(s)])
    <3>1. s \in Seq(Name)
      BY <2>1
    <3>2. IsPrefixOf(p, s)
      BY <2>1
    <3>3. c[Len(p)] = a[Len(q)]
      BY <2>5, <2>6
    <3>4. Follows(items', p, s, c)
      BY <2>9
    <3> QED
      BY <2>7, <3>1, <3>2, <3>3, <3>4, WayGraft
  <2>11. WayTo(items', r, y)
    BY <2>1, <2>3, <2>10
  <2> QED
    BY <2>11 DEF WayTo, Way, Leads, Chain
<1>10. ASSUME Leads(r, y)'
       PROVE  \/ Leads(r, y) /\ ~IsPrefixOf(p, r)
              \/ IsPrefixOf(q, r) /\ Leads(Graft(p, q, r), y)
  <2>1. PICK c \in [0..Len(r) -> Item] : Chain(r, c)' /\ c[Len(r)] = y
    BY <1>10 DEF Leads
  <2>2. ASSUME NEW i \in 1..Len(r)
        PROVE  /\ c[i - 1] \in Item /\ r[i] \in Name
               /\ items'[c[i - 1]][r[i]] = c[i] /\ c[i] # NoItem
    <3>1. TypeOK'
      BY <1>1
    <3>2. Chain(r, c)'
      BY <2>1
    <3> QED
      BY <3>1, <3>2, EntryNext
  <2>3. CASE \E j \in 0..Len(r) : c[j] = x
    <3>1. PICK j \in 0..Len(r) : c[j] = x
      BY <2>3
    <3>2. \A i \in 0..Len(r) : c[i] = x => IsPrefixOf(q, r) /\ i = Len(q)
      BY <1>1, <1>7, <2>1, OnTheWayNext DEF TreeAssumption
    <3>3. IsPrefixOf(q, r) /\ c[Len(q)] = x
      BY <3>1, <3>2
    <3>4. PICK a \in [0..Len(p) -> Item] : Chain(p, a) /\ a[Len(p)] = x
      BY DEF Leads
    <3>5. Way(items, p, a)
      BY <3>4 DEF Way, Chain
    <3>6. ASSUME NEW i \in 1..Len(r), i > Len(q)
          PROVE  items[c[i - 1]][r[i]] = c[i]
      <4>1. i \in 0..Len(r) /\ i # Len(q)
        BY <3>6
      <4>2. c[i] # x
        BY <3>2, <4>1
      <4> QED
        BY <1>6, <2>2, <4>2
    <3>7. Follows(items, q, r, c)
      BY <3>6 DEF Follows
    <3>8. WayTo(items, Graft(p, q, r), c[Len(r)])
      <4>1. IsPrefixOf(q, r)
        BY <3>3
      <4>2. c[Len(q)] = a[Len(p)]
        BY <3>3, <3>4
      <4> QED
        BY <3>5, <3>7, <4>1, <4>2, WayGraft
    <3>9. Leads(Graft(p, q, r), y)
      BY <2>1, <3>8 DEF Leads, Chain, Way, WayTo
    <3> QED
      BY <3>3, <3>9
  <2>4. CASE \A j \in 0..Len(r) : c[j] # x
    <3>1. ASSUME NEW i \in 1..Len(r)
          PROVE  items[c[i - 1]][r[i]] = items'[c[i - 1]][r[i]]
      <4>1. i \in 0..Len(r)
        OBVIOUS
      <4>2. c[i] # x
        BY <2>4, <4>1
      <4> QED
        BY <1>6, <2>2, <4>2
    <3>2. Leads(r, y)
      BY <2>1, <3>1, LeadsBefore
    <3>3. Chain(r, c)
      BY <2>1, <3>1 DEF Chain
    <3>4. ~IsPrefixOf(p, r)
      <4> SUFFICES ASSUME IsPrefixOf(p, r)
                   PROVE  FALSE
        OBVIOUS
      <4>1. Len(p) \in 0..Len(r) /\ Cut(r, Len(p)) = p
        BY PrefixIsCut
      <4>2. Leads(p, c[Len(p)])
        BY <3>3, <4>1, ChainCut
      <4>3. c[Len(p)] = x
        BY <1>1, <4>2, LeadsOnce
      <4> QED
        BY <2>4, <4>1, <4>3
    <3> QED
      BY <3>2, <3>4
  <2> QED
    BY <2>3, <2>4
<1> QED
  BY <1>8, <1>9, <1>10

(* Where nothing is found there is nothing, and nothing below it either.    *)
LEMMA LastStep ==
  ASSUME NEW q \in Seq(Name), q # <<>>, NEW d \in Item, NEW y \in Item,
         Leads(Parent(q), d), items[d][ps_last_file(q)] = y
  PROVE  Leads(q, y)
PROOF
<1> DEFINE k == Len(q) - 1
<1>1. k \in 0..Len(q) /\ k \in 0..(Len(q) - 1) /\ k + 1 = Len(q) /\ Cut(q, k) = Parent(q)
  BY ParentIsCut
<1>2. Cut(q, k + 1) = q /\ q[k + 1] = ps_last_file(q)
  BY <1>1, CutAll DEF ps_last_file
<1> HIDE DEF k
<1>3. Leads(Cut(q, k + 1), y) <=>
        y \in Item /\ \E e \in Item : Leads(Cut(q, k), e) /\ items[e][q[k + 1]] = y
  BY <1>1, CutStep
<1> QED
  BY <1>1, <1>2, <1>3

LEMMA NotThere ==
  ASSUME TreeAssumption, IInv, NEW q \in Seq(Name), q # <<>>, NEW d \in Item,
         Leads(Parent(q), d), items[d][ps_last_file(q)] = NoItem
  PROVE  ~There(q)
PROOF
<1> DEFINE k == Len(q) - 1
<1>1. k \in 0..Len(q) /\ k \in 0..(Len(q) - 1) /\ k + 1 = Len(q) /\ Cut(q, k) = Parent(q)
  BY ParentIsCut
<1>2. Cut(q, k + 1) = q /\ q[k + 1] = ps_last_file(q)
  BY <1>1, CutAll DEF ps_last_file
<1> HIDE DEF k
<1>3. \A y : Leads(q, y) <=>
               y \in Item /\ \E e \in Item : Leads(Parent(q), e) /\ items[e][q[k + 1]] = y
  <2>1. \A y : Leads(Cut(q, k + 1), y) <=>
                 y \in Item /\ \E e \in Item : Leads(Cut(q, k), e) /\ items[e][q[k + 1]] = y
    BY <1>1, CutStep
  <2> QED
    BY <1>1, <1>2, <2>1
<1>4. Parent(q) \in Seq(Name)
  BY ParentIsCut, CutProps
<1>5. \A e : Leads(Parent(q), e) => e = d
  BY <1>4, LeadsOnce DEF IInv
<1> QED
  BY <1>2, <1>3, <1>5 DEF There, TreeAssumption

LEMMA NotBelow ==
  ASSUME NEW q \in Seq(Name), ~There(q), NEW r \in Seq(Name), IsPrefixOf(q, r)
  PROVE  ~There(r)
PROOF
<1> SUFFICES ASSUME NEW y \in Item, Leads(r, y)
             PROVE  FALSE
  BY DEF There
<1>1. PICK c \in [0..Len(r) -> Item] : Chain(r, c) /\ c[Len(r)] = y
  BY DEF Leads
<1>2. Len(q) \in 0..Len(r) /\ Cut(r, Len(q)) = q
  BY PrefixIsCut
<1>3. Leads(q, c[Len(q)])
  BY <1>1, <1>2, ChainCut
<1> QED
  BY <1>2, <1>3 DEF There

-----------------------------------------------------------------------------
(* What a walk of k components is at after i of them: on the item they     *)
(* lead to, stopped by what is no directory, or at a name that is missing. *)
Out(p, k, i, r) ==
  \/ r = Found(r.item) /\ Leads(Cut(p, i), r.item) /\ (i < k => fs_item_is_dir(r.item))
  \/ r = Fail("ENOTDIR") /\ \E j \in 1..i : j < k /\ Blocks(Cut(p, j))
  \/ r = Fail("ENOENT") /\ \E j \in 1..i :
       /\ ~There(Cut(p, j))
       /\ \E z \in Item : Leads(Cut(p, j - 1), z) /\ fs_item_is_dir(z)

LEMMA LookupOut ==
  ASSUME TreeAssumption, IInv, NEW p \in Seq(Name), NEW k \in 0..Len(p), NEW i \in 0..(k - 1),
         NEW d, Leads(Cut(p, i), d), fs_item_is_dir(d)
  PROVE  Out(p, k, i + 1, Lookup(d, p[i + 1], i + 1, k))
PROOF
<1> DEFINE y == items[d][p[i + 1]]
           r == Lookup(d, p[i + 1], i + 1, k)
<1>1. i \in 0..(Len(p) - 1) /\ i \in 0..Len(p) /\ i + 1 \in 1..Len(p) /\ i + 1 \in 1..(i + 1)
      /\ (i + 1) - 1 = i /\ p[i + 1] \in Name
  OBVIOUS
<1>2. Cut(p, i) \in Seq(Name) /\ d \in Item
  BY <1>1, CutProps, LeadsItem
<1>3. y \in Item \cup {NoItem}
  BY <1>1, <1>2 DEF IInv, TypeOK
<1>4. \A z : Leads(Cut(p, i + 1), z) => z = y /\ z \in Item
  <2> SUFFICES ASSUME NEW z, Leads(Cut(p, i + 1), z)
               PROVE  z = y /\ z \in Item
    OBVIOUS
  <2>1. PICK e \in Item : Leads(Cut(p, i), e) /\ items[e][p[i + 1]] = z /\ z \in Item
    BY <1>1, CutStep
  <2>2. e = d
    BY <1>2, <2>1, LeadsOnce DEF IInv
  <2> QED
    BY <2>1, <2>2
<1>5. y \in Item => Leads(Cut(p, i + 1), y)
  BY <1>1, <1>2, CutStep
<1>6. CASE y = NoItem
  <2>1. r = Fail("ENOENT")
    BY <1>6 DEF Lookup
  <2>2. ~There(Cut(p, i + 1))
    BY <1>4, <1>6 DEF There, TreeAssumption
  <2> HIDE DEF r, y
  <2>3. \E j \in 1..(i + 1) : ~There(Cut(p, j))
          /\ \E z \in Item : Leads(Cut(p, j - 1), z) /\ fs_item_is_dir(z)
    BY <1>1, <1>2, <2>2
  <2>4. Out(p, k, i + 1, r)
    BY <2>1, <2>3 DEF Out
  <2> QED
    BY <2>4 DEF r
<1>7. CASE y # NoItem /\ i + 1 < k /\ ~fs_item_is_dir(y)
  <2>1. r = Fail("ENOTDIR")
    BY <1>7 DEF Lookup
  <2>2. Blocks(Cut(p, i + 1))
    BY <1>3, <1>5, <1>7 DEF Blocks
  <2> HIDE DEF r, y
  <2>3. Out(p, k, i + 1, r)
    BY <1>1, <1>7, <2>1, <2>2 DEF Out
  <2> QED
    BY <2>3 DEF r
<1>8. CASE y # NoItem /\ ~(i + 1 < k /\ ~fs_item_is_dir(y))
  <2>1. r = Found(y) /\ r.item = y
    BY <1>8 DEF Lookup, Found
  <2> HIDE DEF r, y
  <2>2. Out(p, k, i + 1, r)
    BY <1>3, <1>5, <1>8, <2>1 DEF Out
  <2> QED
    BY <2>2 DEF r
<1> QED
  BY <1>6, <1>7, <1>8

LEMMA WalkOut ==
  ASSUME TreeAssumption, IInv, NEW p \in Seq(Name), NEW k \in 0..Len(p)
  PROVE  \A i \in 0..k : Out(p, k, i, Walk(p, k)[i])
PROOF
<1> DEFINE w == Walk(p, k)
           T == {i \in 0..k : Out(p, k, i, w[i])}
<1>1. \A i \in 0..k : w[i] = Turn(p, k, w, i)
  BY WalkTurns
<1> HIDE DEF w
<1>2. 0 \in T
  <2>1. w[0] = Found(Root) /\ Found(Root).item = Root
    BY <1>1 DEF Turn, Found
  <2>2. Cut(p, 0) = <<>>
    <3>1. 0 \in 0..Len(p)
      OBVIOUS
    <3>2. Cut(p, 0) \in Seq(Name) /\ Len(Cut(p, 0)) = 0
      BY <3>1, CutProps
    <3> QED
      BY <3>2
  <2>3. Leads(Cut(p, 0), Root) /\ fs_item_is_dir(Root)
    BY <2>2, RootLeads DEF IInv, RootIsDir, fs_item_is_dir
  <2>4. Out(p, k, 0, w[0])
    BY <2>1, <2>3 DEF Out
  <2> QED
    BY <2>4
<1>3. ASSUME NEW i \in 0..(k - 1), i \in T
      PROVE  i + 1 \in T
  <2>1. i + 1 \in 0..k /\ (i + 1) - 1 = i /\ i + 1 # 0 /\ i < k /\ i \in 0..k
    OBVIOUS
  <2>2. Out(p, k, i, w[i])
    BY <1>3
  <2>3. w[i + 1] = IF w[i].ret # "OK" THEN w[i] ELSE Lookup(w[i].item, p[i + 1], i + 1, k)
    BY <1>1, <2>1 DEF Turn
  <2>4. CASE w[i].ret = "OK"
    <3>1. Leads(Cut(p, i), w[i].item) /\ fs_item_is_dir(w[i].item)
      BY <2>1, <2>2, <2>4 DEF Out, Fail
    <3>2. Out(p, k, i + 1, Lookup(w[i].item, p[i + 1], i + 1, k))
      BY <3>1, LookupOut
    <3> QED
      BY <2>1, <2>3, <2>4, <3>2
  <2>5. CASE w[i].ret # "OK"
    <3>1. w[i] # Found(w[i].item)
      BY <2>5 DEF Found
    <3>2. \A j \in 1..i : j \in 1..(i + 1)
      OBVIOUS
    <3>3. Out(p, k, i + 1, w[i])
      BY <2>2, <3>1, <3>2 DEF Out
    <3> QED
      BY <2>1, <2>3, <2>5, <3>3
  <2> QED
    BY <2>4, <2>5
<1> HIDE DEF T
<1>4. k \in Nat
  OBVIOUS
<1>5. 0..k \subseteq T
  BY <1>2, <1>3, <1>4, BoundedInduction
<1> QED
  BY <1>5 DEF T, w

(* A walk finds what the path leads to; it answers ENOTDIR when something  *)
(* on the way is no directory and ENOENT when nothing is there otherwise.  *)
LEMMA WalkAnswers ==
  ASSUME TreeAssumption, IInv, NEW p \in Seq(Name), NEW k \in 0..Len(p)
  PROVE  LET r == Walk(p, k)[k]
             blocked == \E j \in 1..(k - 1) : Blocks(Cut(p, j))
         IN  \/ r = Found(r.item) /\ Leads(Cut(p, k), r.item) /\ ~blocked
             \/ r = Fail("ENOTDIR") /\ ~There(Cut(p, k)) /\ blocked
             \/ r = Fail("ENOENT") /\ ~There(Cut(p, k)) /\ ~blocked
PROOF
<1> DEFINE r == Walk(p, k)[k]
           blocked == \E j \in 1..(k - 1) : Blocks(Cut(p, j))
<1>0. k \in Nat /\ Len(p) \in Nat /\ k <= Len(p) /\ Linked
  BY DEF IInv
<1>1. Out(p, k, k, r)
  <2>1. k \in 0..k
    BY <1>0
  <2> QED
    BY <2>1, WalkOut
<1> HIDE DEF r
<1>2. \A j \in 0..k : Cut(Cut(p, k), j) = Cut(p, j) /\ Cut(p, j) \in Seq(Name)
  <2> SUFFICES ASSUME NEW j \in 0..k
               PROVE  Cut(Cut(p, k), j) = Cut(p, j) /\ Cut(p, j) \in Seq(Name)
    OBVIOUS
  <2>1. j \in 0..Len(p)
    BY <1>0
  <2> QED
    BY <2>1, CutCut, CutProps
<1>3. Len(Cut(p, k)) = k
  BY CutProps
(* Below what is there everything is a directory.                          *)
<1>4. ASSUME NEW m \in 0..k, NEW x, Leads(Cut(p, m), x), NEW j \in 0..m
      PROVE  \E z \in Item : Leads(Cut(p, j), z) /\ (j < m => type[z] = "DIR")
  <2>1. Cut(p, m) \in Seq(Name) /\ Len(Cut(p, m)) = m /\ Cut(Cut(p, m), j) = Cut(p, j)
    <3>1. m \in 0..Len(p)
      BY <1>0
    <3> QED
      BY <3>1, CutProps, CutCut
  <2>2. j \in 0..Len(Cut(p, m))
    BY <2>1
  <2> QED
    BY <1>0, <1>4, <2>1, <2>2, CutLeads
<1>5. ASSUME NEW m \in 0..k, NEW x, Leads(Cut(p, m), x), NEW j \in 1..(m - 1)
      PROVE  ~Blocks(Cut(p, j))
  <2>1. j \in 0..m /\ j \in 0..k /\ j < m
    BY <1>0
  <2>2. PICK z \in Item : Leads(Cut(p, j), z) /\ type[z] = "DIR"
    BY <1>4, <1>5, <2>1
  <2> QED
    BY <1>0, <1>2, <2>1, <2>2, LeadsOnce DEF Blocks, fs_item_is_dir
<1>6. There(Cut(p, k)) => ~blocked
  BY <1>0, <1>5 DEF There
<1>7. CASE r = Found(r.item) /\ Leads(Cut(p, k), r.item)
  <2>1. There(Cut(p, k))
    BY <1>0, <1>2, <1>7, LeadsItem DEF There
  <2> QED
    BY <1>6, <1>7, <2>1 DEF r
<1>8. CASE r = Fail("ENOTDIR") /\ \E j \in 1..k : j < k /\ Blocks(Cut(p, j))
  <2>1. blocked
    <3>1. PICK j \in 1..k : j < k /\ Blocks(Cut(p, j))
      BY <1>8
    <3>2. j \in 1..(k - 1)
      BY <1>0, <3>1
    <3> QED
      BY <3>1, <3>2
  <2> QED
    BY <1>6, <1>8, <2>1 DEF r
<1>9. CASE r = Fail("ENOENT") /\ \E j \in 1..k :
             /\ ~There(Cut(p, j))
             /\ \E z \in Item : Leads(Cut(p, j - 1), z) /\ fs_item_is_dir(z)
  <2>1. PICK m \in 1..k, z \in Item :
          ~There(Cut(p, m)) /\ Leads(Cut(p, m - 1), z) /\ fs_item_is_dir(z)
    BY <1>9
  <2>2. m \in 0..k /\ m - 1 \in 0..k
    BY <1>0
  <2>3. \A j \in m..k : ~There(Cut(p, j))
    <3> SUFFICES ASSUME NEW j \in m..k, There(Cut(p, j))
                 PROVE  FALSE
      OBVIOUS
    <3>1. j \in 0..k /\ m \in 0..j
      BY <1>0
    <3>2. PICK x : Leads(Cut(p, j), x)
      BY DEF There
    <3>3. There(Cut(p, m))
      BY <1>4, <3>1, <3>2 DEF There
    <3> QED
      BY <2>1, <3>3
  <2>4. ~There(Cut(p, k))
    <3>1. k \in m..k
      BY <1>0
    <3> QED
      BY <2>3, <3>1
  <2>5. ASSUME NEW j \in 1..(k - 1), Blocks(Cut(p, j))
        PROVE  FALSE
    <3>1. There(Cut(p, j))
      BY <2>5 DEF Blocks, There
    <3>2. j < m
      BY <1>0, <2>3, <3>1
    <3>3. CASE j = m - 1
      BY <1>0, <1>2, <2>1, <2>2, <2>5, <3>3, LeadsOnce DEF Blocks
    <3>4. CASE j # m - 1
      <4>1. j \in 1..((m - 1) - 1)
        BY <1>0, <3>2, <3>4
      <4> QED
        BY <1>5, <2>1, <2>2, <2>5, <4>1
    <3> QED
      BY <3>3, <3>4
  <2> QED
    BY <1>9, <2>4, <2>5 DEF r
<1>10. ~(k < k)
  BY <1>0
<1> QED
  BY <1>1, <1>7, <1>8, <1>9, <1>10 DEF Out

LEMMA GetAnswers ==
  ASSUME TreeAssumption, IInv, NEW p \in Seq(Name)
  PROVE  LET r == fs_get_item(p, 0)
             blocked == \E j \in 1..(Len(p) - 1) : Blocks(Cut(p, j))
         IN  \/ r = Found(r.item) /\ Leads(p, r.item) /\ There(p) /\ ~blocked
             \/ r = Fail("ENOTDIR") /\ ~There(p) /\ blocked
             \/ r = Fail("ENOENT") /\ ~There(p) /\ ~blocked
PROOF
<1> DEFINE k == Len(p)
<1>1. k \in 0..Len(p) /\ fs_get_item(p, 0) = Walk(p, k)[k] /\ Cut(p, k) = p
  BY CutAll DEF fs_get_item
<1> HIDE DEF k
<1>2. LET r == Walk(p, k)[k]
          blocked == \E j \in 1..(k - 1) : Blocks(Cut(p, j))
      IN  \/ r = Found(r.item) /\ Leads(Cut(p, k), r.item) /\ ~blocked
          \/ r = Fail("ENOTDIR") /\ ~There(Cut(p, k)) /\ blocked
          \/ r = Fail("ENOENT") /\ ~There(Cut(p, k)) /\ ~blocked
  BY <1>1, WalkAnswers
<1>3. \A x : Leads(p, x) => There(p)
  BY LeadsItem DEF There
<1> QED
  BY <1>1, <1>2, <1>3 DEF k

-----------------------------------------------------------------------------
(* From here on every allocated item is below the root.                    *)
LEMMA RootedSame ==
  ASSUME Rooted, UNCHANGED tree
  PROVE  Rooted'
PROOF
<1> QED
  BY DEF Rooted, Subtree, Closed, Live, tree

LEMMA CreateRooted ==
  ASSUME TreeAssumption, IInv, Rooted, NEW p \in ClientPaths, KernelCreates(p), NEW op, NEW t,
         add_item(op, p, t)
  PROVE  Rooted' /\ status' = status
PROOF
<1>1. CASE UNCHANGED <<tree, status>>
  BY <1>1, RootedSame
<1>2. ps_last_file(p) \in Name
  BY PathIsSeq DEF ClientPaths, ps_last_file
<1>3. ASSUME NEW x \in Item, NEW d \in Item, ~Live(x), type[d] = "DIR",
             items[d][ps_last_file(p)] = NoItem, AddItem(x, d, ps_last_file(p), t)
      PROVE  Rooted' /\ status' = status
  BY <1>2, <1>3, RootedAdd DEF AddItem
<1> QED
  BY <1>1, <1>3, CreateEffect

LEMMA UnlinkRooted ==
  ASSUME TreeAssumption, IInv, Rooted, NEW p \in Seq(Name), p # <<>>, fdo_unlink(p)
  PROVE  Rooted' /\ status' = status
PROOF
<1> QED
  BY RootedSame, RootedDelete, UnlinkEffect

LEMMA RmdirRooted ==
  ASSUME TreeAssumption, IInv, Rooted, NEW p \in ClientPaths, fdo_rmdir(p)
  PROVE  Rooted' /\ status' = status
PROOF
<1> QED
  BY RootedSame, RootedDelete, RmdirEffect

LEMMA RenameRooted ==
  ASSUME TreeAssumption, IInv, Rooted, NEW p \in ClientPaths, NEW q \in ClientPaths,
         ~IsPrefixOf(p, q), fdo_rename(p, q)
  PROVE  Rooted' /\ (status' = status \/ status' \in {"aborted", "corrupt"})
PROOF
<1>1. /\ p \in Seq(Name) /\ q \in Seq(Name) /\ q # <<>> /\ ps_last_file(q) \in Name
      /\ Parent(q) \in Seq(Name)
  BY PathIsSeq DEF ClientPaths, ps_last_file, Parent
<1>2. ~IsPrefixOf(p, Parent(q))
  BY <1>1, ParentPrefix
<1>3. ASSUME NEW x \in Item, NEW d \in Item,
             x # Root, Live(x), Leads(p, x), Leads(Parent(q), d),
             items[d][ps_last_file(q)] = NoItem, MoveItem(x, d, ps_last_file(q))
      PROVE  Rooted' /\ status' = status
  <2>1. Rooted'
    BY <1>1, <1>2, <1>3, RootedMove
  <2> QED
    BY <1>3, <2>1 DEF MoveItem
<1> QED
  BY <1>3, RootedSame, RenameEffect

LEMMA UnmountRooted ==
  ASSUME TreeAssumption, IInv, Rooted, free_fs
  PROVE  Rooted' /\ UnmountFreesAll'
PROOF
<1>1. CASE UNCHANGED tree /\ status' = "aborted"
  BY <1>1, RootedSame DEF UnmountFreesAll
<1>2. CASE ~(UNCHANGED tree /\ status' = "aborted")
  <2>1. \A x \in Item : type'[x] = IF x \in Subtree(Root) \ {Root} THEN "FREE" ELSE type[x]
    BY <1>2 DEF free_fs, FreeAll
  <2>2. \A x \in Item \ {Root} : ~Live(x)'
    BY <2>1 DEF Rooted, Live
  <2> QED
    BY <2>2 DEF Rooted, Subtree, UnmountFreesAll
<1> QED
  BY <1>1, <1>2

LEMMA NextRooted ==
  ASSUME TreeAssumption, IInv, Rooted, UnmountFreesAll, [Next]_vars
  PROVE  Rooted' /\ UnmountFreesAll'
PROOF
<1>1. CASE Unmount
  BY <1>1, UnmountRooted DEF Unmount
<1>2. CASE UNCHANGED vars
  <2>1. UNCHANGED tree /\ status' = status
    BY <1>2 DEF vars, tree
  <2> QED
    BY <2>1, RootedSame DEF UnmountFreesAll, Live, tree
<1>3. ASSUME Next, ~Unmount
      PROVE  Rooted' /\ status' \in {"up", "aborted", "corrupt"}
  <2>1. status = "up"
    BY <1>3, OvertakenEffect
       DEF Next, Running, Getattr, Readdir, Mkdir, Mknod, Unlink, Rmdir, Rename
  <2>2. ASSUME NEW op, NEW ret, Refuse(op, ret)
        PROVE  Rooted' /\ status' = status
    BY <2>2, RootedSame DEF Refuse
  <2>3. CASE Getattr \/ Readdir
    <3>1. UNCHANGED tree /\ status' \in {status, "aborted"}
      BY <2>3 DEF Getattr, Readdir, GetattrMountPoint, fdo_getattr, fdo_readdir, Refuse
    <3> QED
      BY <2>1, <3>1, RootedSame
  <2>4. CASE Mkdir
    <3>1. PICK p \in ClientPaths : KernelCreates(p) /\ fdo_mkdir(p)
      BY <2>4 DEF Mkdir
    <3>2. Refuse("mkdir", "ENAMETOOLONG") \/ add_item("mkdir", p, "DIR")
      BY <3>1, ParseRet DEF fdo_mkdir
    <3> QED
      BY <2>1, <2>2, <3>1, <3>2, CreateRooted
  <2>5. CASE Mknod
    <3>1. PICK p \in ClientPaths, t \in MknodType : KernelCreates(p) /\ fdo_mknod(p, t)
      BY <2>5 DEF Mknod
    <3>2. Refuse("mknod", "ENAMETOOLONG") \/ add_item("mknod", p, t)
      BY <3>1, ParseRet DEF fdo_mknod
    <3> QED
      BY <2>1, <2>2, <3>1, <3>2, CreateRooted
  <2>6. CASE Unlink
    <3>1. PICK p \in ClientPaths : fdo_unlink(p)
      BY <2>6 DEF Unlink
    <3>2. p \in Seq(Name) /\ p # <<>>
      BY PathIsSeq DEF ClientPaths
    <3> QED
      BY <2>1, <3>1, <3>2, UnlinkRooted
  <2>7. CASE Rmdir
    BY <2>1, <2>7, RmdirRooted DEF Rmdir
  <2>8. CASE Rename
    BY <2>1, <2>8, RenameRooted DEF Rename, KernelRenames
  <2>9. CASE Overtaken
    BY <2>9, OvertakenEffect, RootedSame
  <2> QED
    BY <1>3, <2>3, <2>4, <2>5, <2>6, <2>7, <2>8, <2>9 DEF Next
<1> QED
  BY <1>1, <1>2, <1>3 DEF UnmountFreesAll

LEMMA InitRooted == TreeAssumption /\ Init => Rooted /\ UnmountFreesAll
PROOF
<1> SUFFICES ASSUME TreeAssumption, Init
             PROVE  Rooted /\ UnmountFreesAll
  OBVIOUS
<1>1. \A x \in Item : Live(x) => x = Root
  BY DEF Init, Live
<1>2. status = "up"
  BY DEF Init
<1> QED
  BY <1>1, <1>2 DEF Rooted, Subtree, UnmountFreesAll

LEMMA RootedInvariant == Spec => [](Rooted /\ UnmountFreesAll)
PROOF
<1> QED
  BY InductiveInvariant, InitRooted, NextRooted, TreeAssumption, PTL DEF Spec

(* Every item stays below the root, for any number of items and whatever   *)
(* is renamed into what: the kernel's checks on the two paths of a rename  *)
(* are enough for fs_rename, which has none of its own.                    *)
THEOREM AlwaysRooted == Spec => []Rooted
PROOF
<1> QED
  BY RootedInvariant, PTL

(* So that free_fs, which frees what the root reaches, leaves no item.     *)
THEOREM UnmountAlwaysFreesAll == Spec => []UnmountFreesAll
PROOF
<1> QED
  BY RootedInvariant, PTL

=============================================================================
