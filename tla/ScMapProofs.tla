---------------------------- MODULE ScMapProofs ----------------------------
(***************************************************************************)
(* Proofs about ScMap for every set of keys, hash function and sequence of *)
(* calls: the table always has an empty slot, every entry is where the     *)
(* probing loops come by, size counts the entries, the map implements      *)
(* KeyValue, and what the loops of ScMapForeach visit and clean.           *)
(*                                                                         *)
(* Slots are a circle.  Dist(p, i) is how far the loop that starts at p    *)
(* has come when it is at i; what has to hold of the table, Probing, is    *)
(* that the slots an entry's loop passes before it are taken.              *)
(***************************************************************************)
EXTENDS ScMapRefinement, ScMapForeach, TLAPS, NaturalSets, FiniteSetTheorems

Home(k, cap) == Hash[k] % cap
Dist(p, i, cap) == (i - p) % cap

Table(t, cap) == cap \in Nat \ {0} /\ t \in [Slots(cap) -> Key \cup {0}]

(* No empty slot between an entry's home and its slot.                     *)
Probing(t, cap) ==
  \A i \in Slots(cap), j \in Slots(cap) :
    t[i] # 0 /\ Dist(Home(t[i], cap), j, cap) <= Dist(Home(t[i], cap), i, cap) => t[j] # 0

Once(t, cap) == \A i \in Slots(cap), j \in Slots(cap) : t[i] # 0 /\ t[i] = t[j] => i = j

Good(t, cap) == Table(t, cap) /\ Probing(t, cap) /\ Once(t, cap)

HasRoom(t, cap) == \E z \in Slots(cap) : t[z] = 0

Put(f, s, x) == [f EXCEPT ![s] = x]

Filled(t, cap) == {i \in Slots(cap) : t[i] # 0}

-----------------------------------------------------------------------------
(* Arithmetic on the circle.                                               *)
LEMMA Quotient ==
  ASSUME NEW a \in Int, NEW b \in Nat \ {0}
  PROVE  a % b \in 0..(b - 1) /\ a = b * (a \div b) + (a % b) /\ (a \div b) \in Int
PROOF
<1> QED
  OBVIOUS

LEMMA Multiple ==
  ASSUME NEW m \in Nat \ {0}, NEW n \in Nat \ {0}
  PROVE  m * n >= m
PROOF
<1> QED
  OBVIOUS

LEMMA OneRemainder ==
  ASSUME NEW b \in Nat \ {0}, NEW q \in Int, NEW r \in 0..(b - 1),
         NEW p \in Int, NEW s \in 0..(b - 1), b * q + r = b * p + s
  PROVE  r = s
PROOF
<1>1. b * (q - p) = s - r
  OBVIOUS
<1>2. CASE q - p >= 1
  <2>1. b * (q - p) >= b
    BY <1>2, Multiple
  <2> QED
    BY <1>1, <2>1
<1>3. CASE p - q >= 1
  <2>1. b * (p - q) >= b
    BY <1>3, Multiple
  <2>2. b * (p - q) = r - s
    OBVIOUS
  <2> QED
    BY <2>1, <2>2
<1> QED
  BY <1>2, <1>3

LEMMA DistValue ==
  ASSUME NEW cap \in Nat \ {0}, NEW p \in Slots(cap), NEW i \in Slots(cap)
  PROVE  /\ Dist(p, i, cap) = IF i >= p THEN i - p ELSE i - p + cap
         /\ Dist(p, i, cap) \in Slots(cap) /\ Dist(p, i, cap) \in Nat
PROOF
<1>1. CASE i >= p
  BY <1>1 DEF Dist, Slots
<1>2. CASE i < p
  BY <1>2 DEF Dist, Slots
<1> QED
  BY <1>1, <1>2 DEF Slots

LEMMA AtValue ==
  ASSUME NEW cap \in Nat \ {0}, NEW p \in Slots(cap), NEW d \in 0..cap
  PROVE  /\ At(p, d, cap) = IF p + d < cap THEN p + d ELSE p + d - cap
         /\ At(p, d, cap) \in Slots(cap)
PROOF
<1>1. CASE p + d < cap
  BY <1>1 DEF At, Slots
<1>2. CASE p + d >= cap
  BY <1>2 DEF At, Slots
<1> QED
  BY <1>1, <1>2 DEF Slots

LEMMA AtDist ==
  ASSUME NEW cap \in Nat \ {0}, NEW p \in Slots(cap), NEW i \in Slots(cap)
  PROVE  /\ At(p, Dist(p, i, cap), cap) = i
         /\ Dist(p, At(p, i, cap), cap) = i
PROOF
<1>1. /\ Dist(p, i, cap) = IF i >= p THEN i - p ELSE i - p + cap
      /\ Dist(p, i, cap) \in 0..cap /\ i \in 0..cap
  BY DistValue DEF Slots
<1>2. /\ At(p, Dist(p, i, cap), cap) =
           IF p + Dist(p, i, cap) < cap THEN p + Dist(p, i, cap) ELSE p + Dist(p, i, cap) - cap
      /\ At(p, i, cap) = IF p + i < cap THEN p + i ELSE p + i - cap
      /\ At(p, i, cap) \in Slots(cap)
  BY <1>1, AtValue
<1>3. Dist(p, At(p, i, cap), cap) =
        IF At(p, i, cap) >= p THEN At(p, i, cap) - p ELSE At(p, i, cap) - p + cap
  BY <1>2, DistValue
<1> QED
  BY <1>1, <1>2, <1>3 DEF Slots

LEMMA AddToRemainder ==
  ASSUME NEW h \in Int, NEW d \in Int, NEW b \in Nat \ {0}
  PROVE  (h + d) % b = ((h % b) + d) % b
PROOF
<1>1. PICK q \in Int, r \in 0..(b - 1) : r = h % b /\ h = b * q + r
  BY Quotient
<1>2. PICK v \in Int, s \in 0..(b - 1) : s = (r + d) % b /\ r + d = b * v + s
  <2>1. r + d \in Int
    OBVIOUS
  <2> QED
    BY <2>1, Quotient
<1>3. PICK w \in Int, u \in 0..(b - 1) : u = (h + d) % b /\ h + d = b * w + u
  <2>1. h + d \in Int
    OBVIOUS
  <2> QED
    BY <2>1, Quotient
<1>4. b * w + u = b * (q + v) + s
  BY <1>1, <1>2, <1>3
<1>5. q + v \in Int
  OBVIOUS
<1>6. u = s
  BY <1>4, <1>5, OneRemainder
<1> QED
  BY <1>1, <1>2, <1>3, <1>6

(* A probing loop that starts at the hash starts at the home.              *)
LEMMA HomeAt ==
  ASSUME MapAssumption, NEW cap \in Nat \ {0}, NEW k \in Key, NEW d \in Nat
  PROVE  Home(k, cap) \in Slots(cap) /\ At(Hash[k], d, cap) = At(Home(k, cap), d, cap)
PROOF
<1>1. Hash[k] \in Int
  BY DEF MapAssumption
<1>2. Hash[k] % cap \in 0..(cap - 1)
  BY <1>1, Quotient
<1>3. (Hash[k] + d) % cap = ((Hash[k] % cap) + d) % cap
  BY <1>1, AddToRemainder
<1> QED
  BY <1>2, <1>3 DEF Home, At, Slots

-----------------------------------------------------------------------------
(* Probing ends at the first slot that is empty or holds the key.          *)
LEMMA FindStops ==
  ASSUME MapAssumption, NEW t, NEW cap, Table(t, cap), NEW k \in Key \ {0},
         NEW z \in Slots(cap), t[z] \in {0, k}
  PROVE  LET s == Find(t, cap, k)
             h == Home(k, cap)
         IN  /\ s \in Slots(cap) /\ t[s] \in {0, k}
             /\ \A j \in Slots(cap) : Dist(h, j, cap) < Dist(h, s, cap) => t[j] \notin {0, k}
PROOF
<1> DEFINE h == Home(k, cap)
           D == Stops(t, cap, k)
           d == CHOOSE d \in D : \A e \in D : d <= e
           s == At(h, d, cap)
<1>1. cap \in Nat \ {0} /\ k \in Key
  BY DEF Table
<1>2. h \in Slots(cap) /\ \A e \in Slots(cap) : e \in Nat /\ e \in 0..cap /\ At(Hash[k], e, cap) = At(h, e, cap)
  <2>1. \A e \in Slots(cap) : e \in Nat /\ e \in 0..cap
    BY <1>1 DEF Slots
  <2> QED
    BY <1>1, <2>1, HomeAt
<1>3. \A e : e \in D <=> e \in Slots(cap) /\ t[At(h, e, cap)] \in {0, k}
  BY <1>2 DEF Stops
<1> HIDE DEF h, D
<1>4. \A j \in Slots(cap) : At(h, Dist(h, j, cap), cap) = j /\ Dist(h, j, cap) \in Slots(cap)
  BY <1>1, <1>2, AtDist, DistValue
<1>5. Dist(h, z, cap) \in D /\ D \subseteq Nat
  BY <1>2, <1>3, <1>4
<1>6. \E e \in D : \A f \in D : e <= f
  BY <1>5, LeastNatural
<1>7. d \in D /\ \A e \in D : d <= e
  BY <1>6
<1> HIDE DEF d
<1>8. d \in Slots(cap) /\ d \in 0..cap /\ t[s] \in {0, k}
  BY <1>2, <1>3, <1>7
<1>9. s \in Slots(cap) /\ Dist(h, s, cap) = d
  BY <1>1, <1>2, <1>8, AtValue, AtDist
<1>10. ASSUME NEW j \in Slots(cap), Dist(h, j, cap) < d, t[j] \in {0, k}
       PROVE  FALSE
  <2>1. Dist(h, j, cap) \in D
    BY <1>3, <1>4, <1>10
  <2>2. Dist(h, j, cap) \in Nat /\ d \in Nat
    BY <1>2, <1>4, <1>8
  <2> QED
    BY <1>7, <1>10, <2>1, <2>2
<1>11. Find(t, cap, k) = s
  BY <1>2, <1>8 DEF Find, D, d
<1> QED
  BY <1>8, <1>9, <1>10, <1>11 DEF h

(* So that a key which is in the table is found.                           *)
LEMMA FindFinds ==
  ASSUME MapAssumption, NEW t, NEW cap, Good(t, cap), HasRoom(t, cap), NEW k \in Key \ {0}
  PROVE  /\ Find(t, cap, k) \in Slots(cap) /\ t[Find(t, cap, k)] \in {0, k}
         /\ \A j \in Slots(cap) : t[j] = k => j = Find(t, cap, k)
PROOF
<1> DEFINE s == Find(t, cap, k)
           h == Home(k, cap)
<1>1. /\ s \in Slots(cap) /\ t[s] \in {0, k}
      /\ \A j \in Slots(cap) : Dist(h, j, cap) < Dist(h, s, cap) => t[j] \notin {0, k}
  BY FindStops DEF Good, HasRoom
<1>2. cap \in Nat \ {0} /\ h \in Slots(cap)
  BY HomeAt DEF Good, Table
<1> HIDE DEF s, h
<1>3. ASSUME NEW j \in Slots(cap), t[j] = k
      PROVE  t[s] = k
  <2>1. Dist(h, s, cap) <= Dist(h, j, cap)
    <3>1. Dist(h, s, cap) \in Nat /\ Dist(h, j, cap) \in Nat
      BY <1>1, <1>2, DistValue
    <3>2. ~(Dist(h, j, cap) < Dist(h, s, cap))
      BY <1>1, <1>3
    <3> QED
      BY <3>1, <3>2
  <2>2. t[s] # 0
    BY <1>1, <1>3, <2>1 DEF Good, Probing, h
  <2> QED
    BY <1>1, <2>2
<1> QED
  BY <1>1, <1>3 DEF s, Good, Once

(* The entry of a key that is put in the slot where probing for it ends.   *)
LEMMA InsertGood ==
  ASSUME MapAssumption, NEW t, NEW cap, Good(t, cap), HasRoom(t, cap), NEW k \in Key \ {0}
  PROVE  LET s == Find(t, cap, k)
             u == Put(t, s, k)
         IN  Good(u, cap) /\ Filled(u, cap) = Filled(t, cap) \cup {s}
PROOF
<1> DEFINE s == Find(t, cap, k)
           h == Home(k, cap)
           u == Put(t, s, k)
<1>1. /\ s \in Slots(cap) /\ t[s] \in {0, k}
      /\ \A j \in Slots(cap) : Dist(h, j, cap) < Dist(h, s, cap) => t[j] \notin {0, k}
  BY FindStops DEF Good, HasRoom
<1>2. \A j \in Slots(cap) : t[j] = k => j = s
  BY FindFinds
<1>3. cap \in Nat \ {0} /\ h \in Slots(cap) /\ t \in [Slots(cap) -> Key \cup {0}]
  BY HomeAt DEF Good, Table
<1> HIDE DEF s, h
<1>4. /\ u \in [Slots(cap) -> Key \cup {0}]
      /\ \A j \in Slots(cap) : u[j] = IF j = s THEN k ELSE t[j]
  BY <1>1, <1>3 DEF Put
<1> HIDE DEF u
<1>5. Table(u, cap)
  BY <1>3, <1>4 DEF Table
<1>6. Once(u, cap)
  BY <1>2, <1>4 DEF Good, Once
<1>7. Probing(u, cap)
  <2> SUFFICES ASSUME NEW i \in Slots(cap), NEW j \in Slots(cap), u[i] # 0,
                      Dist(Home(u[i], cap), j, cap) <= Dist(Home(u[i], cap), i, cap)
               PROVE  u[j] # 0
    BY DEF Probing
  <2>1. CASE i # s
    <3>1. t[i] # 0 /\ u[i] = t[i]
      BY <1>4, <2>1
    <3>2. t[j] # 0
      BY <3>1 DEF Good, Probing
    <3> QED
      BY <1>4, <3>2
  <2>2. CASE i = s
    <3>1. Dist(h, j, cap) <= Dist(h, s, cap)
      BY <1>4, <2>2 DEF h
    <3>2. Dist(h, s, cap) \in Nat /\ Dist(h, j, cap) \in Nat
      BY <1>1, <1>3, DistValue
    <3>3. CASE Dist(h, j, cap) < Dist(h, s, cap)
      BY <1>1, <1>4, <3>3
    <3>4. CASE Dist(h, j, cap) = Dist(h, s, cap)
      <4>1. j = s
        BY <1>1, <1>3, <3>4, AtDist
      <4> QED
        BY <1>4, <4>1
    <3> QED
      BY <3>1, <3>2, <3>3, <3>4
  <2> QED
    BY <2>1, <2>2
<1>8. Filled(u, cap) = Filled(t, cap) \cup {s}
  BY <1>1, <1>4 DEF Filled
<1> QED
  BY <1>5, <1>6, <1>7, <1>8 DEF Good, s, u

-----------------------------------------------------------------------------
(* What a table holds, as pairs of keys and values.                        *)
Entries(t, v, cap) == {<<t[i], v[i]>> : i \in Filled(t, cap)}

Without(E, k) == {e \in E : e[1] # k}
With(E, k, x) == Without(E, k) \cup {<<k, x>>}

Values(v, cap) == v \in [Slots(cap) -> Value \cup {NoValue}]

LEMMA SlotsFinite ==
  ASSUME NEW cap \in Nat \ {0}
  PROVE  IsFiniteSet(Slots(cap)) /\ Cardinality(Slots(cap)) = cap
PROOF
<1>1. 0 \in Int /\ cap - 1 \in Int /\ ~(0 > cap - 1) /\ cap - 1 - 0 + 1 = cap
  OBVIOUS
<1> QED
  BY <1>1, FS_Interval DEF Slots

LEMMA FilledFinite ==
  ASSUME NEW t, NEW cap \in Nat \ {0}, NEW S \in SUBSET Filled(t, cap)
  PROVE  IsFiniteSet(S) /\ Cardinality(S) \in Nat /\ Cardinality(S) <= cap
PROOF
<1>1. S \in SUBSET Slots(cap)
  BY DEF Filled
<1> QED
  BY <1>1, SlotsFinite, FS_Subset, FS_CardinalityType

LEMMA EmptySlot ==
  ASSUME NEW t, NEW cap, Table(t, cap), Cardinality(Filled(t, cap)) < cap
  PROVE  HasRoom(t, cap)
PROOF
<1> SUFFICES ASSUME \A z \in Slots(cap) : t[z] # 0
             PROVE  FALSE
  BY DEF HasRoom
<1>1. Filled(t, cap) = Slots(cap)
  BY DEF Filled
<1>2. cap \in Nat \ {0} /\ Cardinality(Slots(cap)) = cap
  BY SlotsFinite DEF Table
<1> QED
  BY <1>1, <1>2

(* What an insertion does to the pairs.                                    *)
LEMMA InsertEntries ==
  ASSUME MapAssumption, NEW t, NEW cap, NEW k \in Key \ {0}, NEW v, NEW x \in Value \cup {NoValue},
         Good(t, cap), HasRoom(t, cap), Values(v, cap)
  PROVE  LET s == Find(t, cap, k)
         IN  /\ Values(Put(v, s, x), cap)
             /\ Entries(Put(t, s, k), Put(v, s, x), cap) = With(Entries(t, v, cap), k, x)
PROOF
<1> DEFINE s == Find(t, cap, k)
           u == Put(t, s, k)
           w == Put(v, s, x)
<1>1. /\ s \in Slots(cap) /\ t[s] \in {0, k}
      /\ \A j \in Slots(cap) : t[j] = k => j = s
  BY FindFinds
<1>2. t \in [Slots(cap) -> Key \cup {0}]
  BY DEF Good, Table
<1> HIDE DEF s
<1>3. /\ w \in [Slots(cap) -> Value \cup {NoValue}]
      /\ \A j \in Slots(cap) : u[j] = (IF j = s THEN k ELSE t[j])
      /\ \A j \in Slots(cap) : w[j] = (IF j = s THEN x ELSE v[j])
  BY <1>1, <1>2 DEF Values, Put, With
<1> HIDE DEF u, w
<1>4. s \in Filled(u, cap) /\ <<u[s], w[s]>> = <<k, x>>
  BY <1>1, <1>3 DEF Filled
<1>5. \A j \in Slots(cap) : j # s => /\ j \in Filled(u, cap) <=> j \in Filled(t, cap)
                                     /\ <<u[j], w[j]>> = <<t[j], v[j]>> /\ t[j] # k
  BY <1>1, <1>3 DEF Filled
<1>6. \A j \in Filled(t, cap) : t[j] # k => j # s
  BY <1>1 DEF Filled
<1>7. Entries(u, w, cap) \subseteq Without(Entries(t, v, cap), k) \cup {<<k, x>>}
  <2> SUFFICES ASSUME NEW j \in Filled(u, cap)
               PROVE  <<u[j], w[j]>> \in Without(Entries(t, v, cap), k) \cup {<<k, x>>}
    BY DEF Entries
  <2>1. CASE j = s
    BY <1>4, <2>1
  <2>2. CASE j # s
    <3>1. j \in Filled(t, cap) /\ <<u[j], w[j]>> = <<t[j], v[j]>> /\ t[j] # k
      BY <1>5, <2>2 DEF Filled
    <3>2. <<t[j], v[j]>> \in Entries(t, v, cap)
      BY <3>1 DEF Entries
    <3> QED
      BY <3>1, <3>2 DEF Without
  <2> QED
    BY <2>1, <2>2
<1>8. Without(Entries(t, v, cap), k) \cup {<<k, x>>} \subseteq Entries(u, w, cap)
  <2>1. <<k, x>> \in Entries(u, w, cap)
    BY <1>4 DEF Entries
  <2>2. ASSUME NEW j \in Filled(t, cap), t[j] # k
        PROVE  <<t[j], v[j]>> \in Entries(u, w, cap)
    <3>1. j \in Filled(u, cap) /\ <<u[j], w[j]>> = <<t[j], v[j]>>
      BY <1>5, <1>6, <2>2 DEF Filled
    <3> QED
      BY <3>1 DEF Entries
  <2> QED
    <3>1. ASSUME NEW e \in Without(Entries(t, v, cap), k)
          PROVE  e \in Entries(u, w, cap)
      <4>1. PICK j \in Filled(t, cap) : e = <<t[j], v[j]>>
        BY DEF Entries, Without
      <4>2. t[j] # k
        BY <4>1 DEF Without
      <4> QED
        BY <2>2, <4>1, <4>2
    <3> QED
      BY <2>1, <3>1
<1> QED
  BY <1>3, <1>7, <1>8 DEF Values, With, s, u, w

-----------------------------------------------------------------------------
(* Growing.                                                                *)
Move(m, cap, f, i) ==
  IF i = 0
  THEN [key |-> [s \in Slots(cap) |-> 0], value |-> [s \in Slots(cap) |-> NoValue]]
  ELSE LET t == f[i - 1]
           k == m.key[i - 1]
           s == Find(t.key, cap, k)
       IN  IF k = 0 THEN t
           ELSE [key |-> [t.key EXCEPT ![s] = k], value |-> [t.value EXCEPT ![s] = m.value[i - 1]]]

LEMMA MovedDef ==
  ASSUME NEW m, m.cap \in Nat, NEW cap
  PROVE  \E f : f = [i \in 0..m.cap |-> Move(m, cap, f, i)] /\ Moved(m, cap) = f[m.cap]
PROOF
<1> DEFINE T == {n \in Nat : n <= m.cap => \E f : f = [i \in 0..n |-> Move(m, cap, f, i)]}
<1>1. 0 \in T
  <2> DEFINE f == [i \in 0..0 |-> Move(m, cap, <<>>, 0)]
  <2>1. f = [i \in 0..0 |-> Move(m, cap, f, i)]
    BY DEF Move
  <2> HIDE DEF f
  <2> QED
    BY <2>1
<1>2. ASSUME NEW n \in Nat, n \in T
      PROVE  n + 1 \in T
  <2> SUFFICES ASSUME n + 1 <= m.cap
               PROVE  \E f : f = [i \in 0..(n + 1) |-> Move(m, cap, f, i)]
    OBVIOUS
  <2>1. PICK g : g = [i \in 0..n |-> Move(m, cap, g, i)]
    BY <1>2
  <2> DEFINE f == [i \in 0..(n + 1) |-> IF i = n + 1 THEN Move(m, cap, g, i) ELSE g[i]]
  <2>2. ASSUME NEW i \in 0..(n + 1)
        PROVE  f[i] = Move(m, cap, f, i)
    <3>1. i # 0 => f[i - 1] = g[i - 1]
      OBVIOUS
    <3>2. Move(m, cap, f, i) = Move(m, cap, g, i)
      <4> HIDE DEF f
      <4> QED
        BY <3>1 DEF Move
    <3>3. CASE i = n + 1
      BY <3>2, <3>3
    <3>4. CASE i # n + 1
      <4>1. i \in 0..n /\ f[i] = g[i]
        BY <3>4
      <4> QED
        BY <2>1, <3>2, <4>1
    <3> QED
      BY <3>3, <3>4
  <2>3. f = [i \in 0..(n + 1) |-> f[i]]
    OBVIOUS
  <2> HIDE DEF f
  <2>4. f = [i \in 0..(n + 1) |-> Move(m, cap, f, i)]
    BY <2>2, <2>3
  <2> QED
    BY <2>4
<1> HIDE DEF T
<1>3. m.cap \in T
  BY <1>1, <1>2, SetInduction
<1> DEFINE g == CHOOSE f : f = [i \in 0..m.cap |-> Move(m, cap, f, i)]
<1>4. g = [i \in 0..m.cap |-> Move(m, cap, g, i)]
  BY <1>3 DEF T
<1>5. Moved(m, cap) = g[m.cap]
  BY DEF Moved, Rehashed, Move
<1> HIDE DEF g
<1> QED
  BY <1>4, <1>5

(* The entries that have been moved after i turns.                         *)
Below(m, i) == {j \in Filled(m.key, m.cap) : j < i}
EntriesBelow(m, i) == {<<m.key[j], m.value[j]>> : j \in Below(m, i)}

MoveInv(m, cap, r, i) ==
  /\ Good(r.key, cap) /\ Values(r.value, cap)
  /\ Cardinality(Filled(r.key, cap)) = Cardinality(Below(m, i))
  /\ Entries(r.key, r.value, cap) = EntriesBelow(m, i)

LEMMA MoveStep ==
  ASSUME MapAssumption, NEW m, Table(m.key, m.cap), Once(m.key, m.cap), Values(m.value, m.cap),
         NEW cap \in Nat, m.cap < cap, NEW f, NEW i \in Slots(m.cap), MoveInv(m, cap, f[i], i)
  PROVE  MoveInv(m, cap, Move(m, cap, f, i + 1), i + 1)
PROOF
<1> DEFINE k == m.key[i]
           x == m.value[i]
           t == f[i].key
           v == f[i].value
           s == Find(t, cap, k)
           r == Move(m, cap, f, i + 1)
<1>1. /\ Good(t, cap) /\ Values(v, cap)
      /\ Cardinality(Filled(t, cap)) = Cardinality(Below(m, i))
      /\ Entries(t, v, cap) = EntriesBelow(m, i)
  BY DEF MoveInv
<1>2. i \in Nat /\ i + 1 - 1 = i /\ i + 1 # 0 /\ m.cap \in Nat \ {0}
  BY DEF Slots, Table
<1>3. k \in Key \cup {0} /\ x \in Value \cup {NoValue}
  BY DEF Table, Values
<1>4. r = IF k = 0 THEN f[i]
          ELSE [key |-> [t EXCEPT ![s] = k], value |-> [v EXCEPT ![s] = x]]
  BY <1>2 DEF Move
<1>5. k # 0 => r.key = [t EXCEPT ![s] = k] /\ r.value = [v EXCEPT ![s] = x]
  <2> HIDE DEF k, x, t, v, s, r
  <2> QED
    BY <1>4
<1>6. \A j \in Slots(m.cap) : j \in Nat
  BY DEF Slots
<1>7. /\ \A j : j \in Below(m, i + 1) <=> j \in Slots(m.cap) /\ m.key[j] # 0 /\ (j < i \/ j = i)
      /\ \A j : j \in Below(m, i) <=> j \in Slots(m.cap) /\ m.key[j] # 0 /\ j < i
      /\ i \in Slots(m.cap) /\ ~(i < i)
  <2>1. ASSUME NEW j \in Slots(m.cap)
        PROVE  j < i + 1 <=> (j < i \/ j = i)
    <3>1. j \in Nat
      BY <1>6
    <3> QED
      BY <1>2, <3>1
  <2>2. ~(i < i)
    BY <1>2
  <2>3. \A j : j \in Below(m, i + 1) <=> j \in Slots(m.cap) /\ m.key[j] # 0 /\ j < i + 1
    BY DEF Below, Filled
  <2>4. \A j : j \in Below(m, i) <=> j \in Slots(m.cap) /\ m.key[j] # 0 /\ j < i
    BY DEF Below, Filled
  <2> QED
    BY <2>1, <2>2, <2>3, <2>4, Zenon
<1>8. /\ k = 0 => Below(m, i + 1) = Below(m, i)
      /\ k # 0 => Below(m, i + 1) = Below(m, i) \cup {i} /\ i \notin Below(m, i)
  BY <1>7, Zenon
<1>9. Below(m, i) \in SUBSET Filled(m.key, m.cap) /\ i \in Slots(m.cap)
  BY DEF Below
<1>10. CASE k = 0
  BY <1>1, <1>4, <1>8, <1>10 DEF MoveInv, EntriesBelow
<1>11. CASE k # 0
  <2>1. IsFiniteSet(Below(m, i)) /\ Cardinality(Below(m, i)) <= m.cap /\ Cardinality(Below(m, i)) \in Nat
    BY <1>2, <1>9, FilledFinite
  <2>2. HasRoom(t, cap)
    BY <1>1, <1>2, <2>1, EmptySlot DEF Good
  <2>3. t[s] # k /\ \A e \in Entries(t, v, cap) : e[1] # k
    <3>1. ASSUME NEW e \in Entries(t, v, cap), e[1] = k
          PROVE  FALSE
      <4>1. PICK j \in Below(m, i) : e = <<m.key[j], m.value[j]>>
        BY <1>1 DEF EntriesBelow
      <4>2. j \in Slots(m.cap) /\ j < i /\ m.key[j] = k
        BY <3>1, <4>1 DEF Below, Filled
      <4>3. j = i
        BY <1>9, <1>11, <4>2 DEF Once
      <4> QED
        BY <1>2, <4>2, <4>3
    <3>2. t[s] = k => <<t[s], v[s]>> \in Entries(t, v, cap)
      BY <1>1, <1>3, <1>11, <2>2, FindFinds DEF Entries, Filled
    <3> QED
      BY <3>1, <3>2
  <2> HIDE DEF k, x, t, v, s, r
  <2>4. k \in Key \ {0}
    BY <1>3, <1>11
  <2>5. s \in Slots(cap) /\ t[s] = 0
    <3>1. s \in Slots(cap) /\ t[s] \in {0, k}
      BY <1>1, <2>2, <2>4, FindFinds DEF s
    <3> QED
      BY <2>3, <3>1
  <2>6. Good(r.key, cap) /\ Filled(r.key, cap) = Filled(t, cap) \cup {s}
    <3>1. r.key = Put(t, s, k)
      BY <1>5, <1>11 DEF Put
    <3> QED
      BY <1>1, <2>2, <2>4, <3>1, InsertGood DEF s
  <2>7. Values(r.value, cap) /\ Entries(r.key, r.value, cap) = With(Entries(t, v, cap), k, x)
    <3>1. r.key = Put(t, s, k) /\ r.value = Put(v, s, x)
      BY <1>5, <1>11 DEF Put
    <3> QED
      BY <1>1, <1>3, <2>2, <2>4, <3>1, InsertEntries DEF s
  <2>8. Entries(r.key, r.value, cap) = EntriesBelow(m, i + 1)
    <3>1. Without(Entries(t, v, cap), k) = EntriesBelow(m, i)
      BY <1>1, <2>3 DEF Without
    <3>2. EntriesBelow(m, i + 1) = EntriesBelow(m, i) \cup {<<k, x>>}
      BY <1>8, <1>11 DEF EntriesBelow, k, x
    <3> QED
      BY <2>7, <3>1, <3>2 DEF With
  <2>9. Cardinality(Filled(r.key, cap)) = Cardinality(Below(m, i + 1))
    <3>1. IsFiniteSet(Filled(t, cap)) /\ s \notin Filled(t, cap)
      BY <1>1, <2>5, FilledFinite DEF Filled, Good, Table
    <3>2. Cardinality(Filled(t, cap) \cup {s}) = Cardinality(Filled(t, cap)) + 1
      BY <3>1, FS_AddElement
    <3>3. Cardinality(Below(m, i) \cup {i}) = Cardinality(Below(m, i)) + 1
      BY <1>8, <1>11, <2>1, FS_AddElement
    <3> QED
      BY <1>1, <1>8, <1>11, <2>6, <3>2, <3>3
  <2> QED
    BY <2>6, <2>7, <2>8, <2>9 DEF MoveInv, r
<1> QED
  BY <1>10, <1>11

LEMMA MovedGood ==
  ASSUME MapAssumption, NEW m, Table(m.key, m.cap), Once(m.key, m.cap), Values(m.value, m.cap),
         NEW cap \in Nat, m.cap < cap
  PROVE  /\ Good(Moved(m, cap).key, cap) /\ Values(Moved(m, cap).value, cap)
         /\ Cardinality(Filled(Moved(m, cap).key, cap)) = Cardinality(Filled(m.key, m.cap))
         /\ Entries(Moved(m, cap).key, Moved(m, cap).value, cap) = Entries(m.key, m.value, m.cap)
PROOF
<1>1. m.cap \in Nat \ {0} /\ cap \in Nat \ {0}
  BY DEF Table
<1>2. PICK f : f = [i \in 0..m.cap |-> Move(m, cap, f, i)] /\ Moved(m, cap) = f[m.cap]
  BY <1>1, MovedDef
<1> DEFINE T == {i \in 0..m.cap : MoveInv(m, cap, f[i], i)}
<1>3. \A i \in 0..m.cap : f[i] = Move(m, cap, f, i)
  BY <1>2, Zenon
<1>4. 0 \in T
  <2> DEFINE t == [s \in Slots(cap) |-> 0]
             v == [s \in Slots(cap) |-> NoValue]
  <2>1. f[0].key = t /\ f[0].value = v
    <3>1. f[0] = Move(m, cap, f, 0)
      BY <1>1, <1>3
    <3> QED
      BY <3>1 DEF Move
  <2>2. \A s \in Slots(cap) : t[s] = 0
    OBVIOUS
  <2>3. Filled(t, cap) = {} /\ Good(t, cap)
    BY <1>1, <2>2 DEF Filled, Good, Table, Probing, Once
  <2>4. Values(v, cap)
    BY DEF Values
  <2> HIDE DEF t, v
  <2>5. Entries(t, v, cap) = {}
    BY <2>3 DEF Entries
  <2>6. Below(m, 0) = {}
    BY DEF Below, Filled, Slots
  <2>7. EntriesBelow(m, 0) = {}
    BY <2>6 DEF EntriesBelow
  <2> QED
    BY <1>1, <2>1, <2>3, <2>4, <2>5, <2>6, <2>7 DEF MoveInv
<1>5. ASSUME NEW i \in 0..(m.cap - 1), i \in T
      PROVE  i + 1 \in T
  <2>1. i \in Slots(m.cap) /\ MoveInv(m, cap, f[i], i) /\ i + 1 \in 0..m.cap
    BY <1>1, <1>5 DEF Slots
  <2>2. MoveInv(m, cap, Move(m, cap, f, i + 1), i + 1)
    BY <2>1, MoveStep
  <2> QED
    BY <1>3, <2>1, <2>2
<1> HIDE DEF T
<1>6. 0..m.cap \subseteq T
  BY <1>1, <1>4, <1>5, BoundedInduction
<1>7. MoveInv(m, cap, Moved(m, cap), m.cap)
  <2>1. m.cap \in 0..m.cap
    BY <1>1
  <2>2. m.cap \in T
    BY <1>6, <2>1
  <2> QED
    BY <1>2, <2>2 DEF T
<1>8. Below(m, m.cap) = Filled(m.key, m.cap)
  BY <1>1 DEF Below, Filled, Slots
<1>9. EntriesBelow(m, m.cap) = Entries(m.key, m.value, m.cap)
  BY <1>8 DEF EntriesBelow, Entries
<1> QED
  BY <1>7, <1>8, <1>9 DEF MoveInv

-----------------------------------------------------------------------------
(* Closing the hole of a deleted entry.  From an empty slot z the circle is *)
(* a line: no entry's path comes by z, so that it goes from a smaller to a  *)
(* greater distance from z.                                                 *)
Line(t, cap, z, i) == Dist(z, Home(t[i], cap), cap)

(* The entries' paths have no empty slot but the hole, and that one only on *)
(* the paths of entries beyond e, which the loop has not come to.           *)
Holed(t, cap, z, hole, e) ==
  \A i \in Slots(cap) : t[i] # 0 =>
    /\ Line(t, cap, z, i) <= Dist(z, i, cap)
    /\ \A j \in Slots(cap) :
         Line(t, cap, z, i) <= Dist(z, j, cap) /\ Dist(z, j, cap) <= Dist(z, i, cap) =>
           t[j] # 0 \/ (j = hole /\ Dist(z, i, cap) > e)

Straight(t, cap, z) ==
  \A i \in Slots(cap) : t[i] # 0 =>
    /\ Line(t, cap, z, i) <= Dist(z, i, cap)
    /\ \A j \in Slots(cap) :
         Line(t, cap, z, i) <= Dist(z, j, cap) /\ Dist(z, j, cap) <= Dist(z, i, cap) => t[j] # 0

LEMMA CutOpen ==
  ASSUME NEW cap \in Nat \ {0}, NEW z \in Slots(cap), NEW h \in Slots(cap), NEW i \in Slots(cap),
         NEW j \in Slots(cap)
  PROVE  /\ Dist(z, h, cap) <= Dist(z, i, cap) =>
              (Dist(h, j, cap) <= Dist(h, i, cap) <=>
                 Dist(z, h, cap) <= Dist(z, j, cap) /\ Dist(z, j, cap) <= Dist(z, i, cap))
         /\ ~(Dist(z, h, cap) <= Dist(z, i, cap)) => Dist(h, z, cap) <= Dist(h, i, cap)
         /\ Dist(z, i, cap) = Dist(z, j, cap) => i = j
PROOF
<1>1. /\ Dist(z, h, cap) = IF h >= z THEN h - z ELSE h - z + cap
      /\ Dist(z, i, cap) = IF i >= z THEN i - z ELSE i - z + cap
      /\ Dist(z, j, cap) = IF j >= z THEN j - z ELSE j - z + cap
      /\ Dist(h, i, cap) = IF i >= h THEN i - h ELSE i - h + cap
      /\ Dist(h, j, cap) = IF j >= h THEN j - h ELSE j - h + cap
      /\ Dist(h, z, cap) = IF z >= h THEN z - h ELSE z - h + cap
  BY DistValue
<1>2. \A y \in {z, h, i, j} : y \in Nat /\ y < cap
  BY DEF Slots
<1> QED
  BY <1>1, <1>2

LEMMA MovesToValue ==
  ASSUME NEW cap \in Nat \ {0}, NEW z \in Slots(cap), NEW p \in Slots(cap), NEW it \in Slots(cap),
         NEW hole \in Slots(cap), Dist(z, p, cap) <= Dist(z, it, cap),
         Dist(z, hole, cap) < Dist(z, it, cap)
  PROVE  MovesTo(p, it, hole) <=> Dist(z, p, cap) <= Dist(z, hole, cap)
PROOF
<1>1. /\ Dist(z, p, cap) = IF p >= z THEN p - z ELSE p - z + cap
      /\ Dist(z, it, cap) = IF it >= z THEN it - z ELSE it - z + cap
      /\ Dist(z, hole, cap) = IF hole >= z THEN hole - z ELSE hole - z + cap
  BY DistValue
<1>2. \A y \in {z, p, it, hole} : y \in Nat /\ y < cap
  BY DEF Slots
<1> QED
  BY <1>1, <1>2 DEF MovesTo

LEMMA LineValue ==
  ASSUME MapAssumption, NEW t, NEW cap, Table(t, cap), NEW z \in Slots(cap), NEW i \in Slots(cap), t[i] # 0
  PROVE  /\ cap \in Nat \ {0} /\ t[i] \in Key /\ Home(t[i], cap) \in Slots(cap)
         /\ Line(t, cap, z, i) \in Nat /\ Dist(z, i, cap) \in Nat
PROOF
<1>1. cap \in Nat \ {0} /\ t[i] \in Key /\ 0 \in Nat
  BY DEF Table
<1>2. Home(t[i], cap) \in Slots(cap)
  BY <1>1, HomeAt
<1>3. Dist(z, Home(t[i], cap), cap) \in Nat /\ Dist(z, i, cap) \in Nat
  BY <1>1, <1>2, DistValue
<1> QED
  BY <1>1, <1>2, <1>3 DEF Line

LEMMA Straighten ==
  ASSUME MapAssumption, NEW t, NEW cap, Table(t, cap), NEW z \in Slots(cap), t[z] = 0
  PROVE  Probing(t, cap) <=> Straight(t, cap, z)
PROOF
<1>1. ASSUME NEW i \in Slots(cap), t[i] # 0, NEW j \in Slots(cap)
      PROVE  LET h == Home(t[i], cap)
             IN  /\ Line(t, cap, z, i) <= Dist(z, i, cap) =>
                      (Dist(h, j, cap) <= Dist(h, i, cap) <=>
                         Line(t, cap, z, i) <= Dist(z, j, cap) /\ Dist(z, j, cap) <= Dist(z, i, cap))
                 /\ ~(Line(t, cap, z, i) <= Dist(z, i, cap)) => Dist(h, z, cap) <= Dist(h, i, cap)
  <2>1. cap \in Nat \ {0} /\ Home(t[i], cap) \in Slots(cap)
    BY <1>1, LineValue
  <2> QED
    BY <1>1, <2>1, CutOpen DEF Line
<1>2. ASSUME Probing(t, cap), NEW i \in Slots(cap), t[i] # 0
      PROVE  /\ Line(t, cap, z, i) <= Dist(z, i, cap)
             /\ \A j \in Slots(cap) :
                  Line(t, cap, z, i) <= Dist(z, j, cap) /\ Dist(z, j, cap) <= Dist(z, i, cap) => t[j] # 0
  BY <1>1, <1>2 DEF Probing
<1>3. ASSUME Straight(t, cap, z), NEW i \in Slots(cap), t[i] # 0, NEW j \in Slots(cap),
             Dist(Home(t[i], cap), j, cap) <= Dist(Home(t[i], cap), i, cap)
      PROVE  t[j] # 0
  BY <1>1, <1>3 DEF Straight
<1> QED
  BY <1>2, <1>3 DEF Probing, Straight

(* Emptying the slot makes the hole, ...                                   *)
LEMMA HoleStarts ==
  ASSUME MapAssumption, NEW t, NEW cap, Table(t, cap), NEW z \in Slots(cap), Straight(t, cap, z),
         NEW hole \in Slots(cap), NEW u,
         \A j \in Slots(cap) : u[j] = IF j = hole THEN 0 ELSE t[j]
  PROVE  Holed(u, cap, z, hole, Dist(z, hole, cap))
PROOF
<1> SUFFICES ASSUME NEW i \in Slots(cap), u[i] # 0
             PROVE  /\ Line(u, cap, z, i) <= Dist(z, i, cap)
                    /\ \A j \in Slots(cap) :
                         Line(u, cap, z, i) <= Dist(z, j, cap) /\ Dist(z, j, cap) <= Dist(z, i, cap) =>
                           u[j] # 0 \/ (j = hole /\ Dist(z, i, cap) > Dist(z, hole, cap))
  BY DEF Holed
<1>1. u[i] = t[i] /\ i # hole /\ Line(u, cap, z, i) = Line(t, cap, z, i)
  BY DEF Line
<1>2. Line(t, cap, z, i) <= Dist(z, i, cap)
  BY <1>1 DEF Straight
<1>3. cap \in Nat \ {0}
  BY DEF Table
<1>4. ASSUME NEW j \in Slots(cap), Line(t, cap, z, i) <= Dist(z, j, cap),
             Dist(z, j, cap) <= Dist(z, i, cap), j = hole
      PROVE  Dist(z, i, cap) > Dist(z, hole, cap)
  <2>1. Dist(z, i, cap) # Dist(z, hole, cap)
    BY <1>1, <1>3, CutOpen
  <2>2. Dist(z, i, cap) \in Nat /\ Dist(z, hole, cap) \in Nat
    BY <1>3, DistValue
  <2> QED
    BY <1>4, <2>1, <2>2
<1>5. ASSUME NEW j \in Slots(cap), Line(t, cap, z, i) <= Dist(z, j, cap),
             Dist(z, j, cap) <= Dist(z, i, cap), j # hole
      PROVE  u[j] # 0
  BY <1>1, <1>5 DEF Straight
<1> QED
  BY <1>1, <1>2, <1>4, <1>5

(* ... an empty slot behind it means that no path has the hole, ...        *)
LEMMA HoleEnds ==
  ASSUME MapAssumption, NEW t, NEW cap, Table(t, cap), NEW z \in Slots(cap), NEW hole \in Slots(cap),
         NEW e \in Nat, Holed(t, cap, z, hole, e), Dist(z, hole, cap) <= e,
         e = cap - 1 \/ \E it \in Slots(cap) : Dist(z, it, cap) = e + 1 /\ t[it] = 0
  PROVE  Straight(t, cap, z)
PROOF
<1> SUFFICES ASSUME NEW i \in Slots(cap), t[i] # 0
             PROVE  /\ Line(t, cap, z, i) <= Dist(z, i, cap)
                    /\ \A j \in Slots(cap) :
                         Line(t, cap, z, i) <= Dist(z, j, cap) /\ Dist(z, j, cap) <= Dist(z, i, cap) => t[j] # 0
  BY DEF Straight
<1>1. cap \in Nat \ {0}
  BY DEF Table
<1>2. Line(t, cap, z, i) <= Dist(z, i, cap) /\ Line(t, cap, z, i) \in Nat
  BY LineValue DEF Holed
<1>3. ASSUME NEW j \in Slots(cap), Line(t, cap, z, i) <= Dist(z, j, cap),
             Dist(z, j, cap) <= Dist(z, i, cap), t[j] = 0
      PROVE  FALSE
  <2>1. j = hole /\ Dist(z, i, cap) > e
    BY <1>3 DEF Holed
  <2>2. Dist(z, i, cap) \in Nat /\ Dist(z, i, cap) <= cap - 1
    <3>1. Dist(z, i, cap) \in Slots(cap)
      BY <1>1, DistValue
    <3> QED
      BY <3>1 DEF Slots
  <2>3. PICK it \in Slots(cap) : Dist(z, it, cap) = e + 1 /\ t[it] = 0
    BY <1>1, <2>1, <2>2
  <2>4. Line(t, cap, z, i) <= Dist(z, it, cap) /\ Dist(z, it, cap) <= Dist(z, i, cap) /\ it # hole
    <3>1. Dist(z, hole, cap) \in Nat /\ Dist(z, it, cap) \in Nat
      BY <1>1, DistValue
    <3>2. it # hole
      BY <2>3, <3>1
    <3> QED
      BY <1>2, <1>3, <2>1, <2>2, <2>3, <3>1, <3>2
  <2> QED
    BY <2>3, <2>4 DEF Holed
<1> QED
  BY <1>2, <1>3

(* ... an entry whose home is beyond the hole may stay, ...                *)
LEMMA HoleStays ==
  ASSUME MapAssumption, NEW t, NEW cap, Table(t, cap), NEW z \in Slots(cap), NEW hole \in Slots(cap),
         NEW e \in Nat, Holed(t, cap, z, hole, e), NEW it \in Slots(cap), t[it] # 0,
         Dist(z, it, cap) = e + 1, ~(Line(t, cap, z, it) <= Dist(z, hole, cap))
  PROVE  Holed(t, cap, z, hole, e + 1)
PROOF
<1> SUFFICES ASSUME NEW i \in Slots(cap), t[i] # 0
             PROVE  /\ Line(t, cap, z, i) <= Dist(z, i, cap)
                    /\ \A j \in Slots(cap) :
                         Line(t, cap, z, i) <= Dist(z, j, cap) /\ Dist(z, j, cap) <= Dist(z, i, cap) =>
                           t[j] # 0 \/ (j = hole /\ Dist(z, i, cap) > e + 1)
  BY DEF Holed
<1>1. cap \in Nat \ {0} /\ Dist(z, i, cap) \in Nat
  BY LineValue
<1>2. Line(t, cap, z, i) <= Dist(z, i, cap)
  BY DEF Holed
<1>3. ASSUME NEW j \in Slots(cap), Line(t, cap, z, i) <= Dist(z, j, cap),
             Dist(z, j, cap) <= Dist(z, i, cap), t[j] = 0
      PROVE  j = hole /\ Dist(z, i, cap) > e + 1
  <2>1. j = hole /\ Dist(z, i, cap) > e
    BY <1>3 DEF Holed
  <2>2. i # it
    BY <1>3, <2>1
  <2>3. Dist(z, i, cap) # e + 1
    BY <1>1, <2>2, CutOpen
  <2> QED
    BY <1>1, <2>1, <2>3
<1> QED
  BY <1>2, <1>3

(* ... and one that moves into the hole leaves the next hole.              *)
LEMMA HoleMoves ==
  ASSUME MapAssumption, NEW t, NEW cap, Table(t, cap), NEW z \in Slots(cap), NEW hole \in Slots(cap),
         NEW e \in Nat, Holed(t, cap, z, hole, e), NEW it \in Slots(cap), t[it] # 0,
         Dist(z, it, cap) = e + 1, Dist(z, hole, cap) <= e,
         Line(t, cap, z, it) <= Dist(z, hole, cap), NEW u,
         \A j \in Slots(cap) : u[j] = IF j = it THEN 0 ELSE IF j = hole THEN t[it] ELSE t[j]
  PROVE  Holed(u, cap, z, it, e + 1)
PROOF
<1> SUFFICES ASSUME NEW i \in Slots(cap), u[i] # 0
             PROVE  /\ Line(u, cap, z, i) <= Dist(z, i, cap)
                    /\ \A j \in Slots(cap) :
                         Line(u, cap, z, i) <= Dist(z, j, cap) /\ Dist(z, j, cap) <= Dist(z, i, cap) =>
                           u[j] # 0 \/ (j = it /\ Dist(z, i, cap) > e + 1)
  BY DEF Holed
<1>1. cap \in Nat \ {0}
  BY DEF Table
<1>2. \A y \in Slots(cap) : Dist(z, y, cap) \in Nat
  BY <1>1, DistValue
<1>3. i # it /\ Dist(z, i, cap) # e + 1
  BY <1>1, CutOpen
<1>4. CASE i = hole
  <2>1. u[i] = t[it] /\ Line(u, cap, z, i) = Line(t, cap, z, it)
    BY <1>3, <1>4 DEF Line
  <2>2. ASSUME NEW j \in Slots(cap), Line(t, cap, z, it) <= Dist(z, j, cap),
               Dist(z, j, cap) <= Dist(z, hole, cap)
        PROVE  u[j] # 0
    <3>1. Dist(z, j, cap) <= Dist(z, it, cap) /\ ~(Dist(z, it, cap) > e + 1) /\ j # it
      BY <1>2, <2>2
    <3>2. t[j] # 0 \/ j = hole
      BY <2>2, <3>1 DEF Holed
    <3> QED
      BY <3>1, <3>2
  <2> QED
    BY <1>4, <2>1, <2>2
<1>5. CASE i # hole
  <2>1. u[i] = t[i] /\ Line(u, cap, z, i) = Line(t, cap, z, i)
    BY <1>3, <1>5 DEF Line
  <2>2. Line(t, cap, z, i) <= Dist(z, i, cap)
    BY <2>1 DEF Holed
  <2>3. ASSUME NEW j \in Slots(cap), Line(t, cap, z, i) <= Dist(z, j, cap),
               Dist(z, j, cap) <= Dist(z, i, cap)
        PROVE  u[j] # 0 \/ (j = it /\ Dist(z, i, cap) > e + 1)
    <3>1. t[j] # 0 \/ j = hole
      BY <2>1, <2>3 DEF Holed
    <3>2. CASE j = it
      BY <1>2, <1>3, <2>3, <3>2
    <3>3. CASE j # it
      BY <3>1, <3>3
    <3> QED
      BY <3>2, <3>3
  <2> QED
    BY <2>1, <2>2, <2>3
<1> QED
  BY <1>4, <1>5

(* What the two changes of the table do to what it holds.                  *)
LEMMA DropEntries ==
  ASSUME NEW t, NEW cap, Table(t, cap), Once(t, cap), NEW v, Values(v, cap),
         NEW pos \in Slots(cap), t[pos] # 0
  PROVE  LET u == Put(t, pos, 0)
             w == Put(v, pos, NoValue)
         IN  /\ Table(u, cap) /\ Once(u, cap) /\ Values(w, cap)
             /\ \A j \in Slots(cap) : u[j] = IF j = pos THEN 0 ELSE t[j]
             /\ Filled(u, cap) = Filled(t, cap) \ {pos}
             /\ Entries(u, w, cap) = Without(Entries(t, v, cap), t[pos])
PROOF
<1> DEFINE u == Put(t, pos, 0)
           w == Put(v, pos, NoValue)
<1>1. /\ u \in [Slots(cap) -> Key \cup {0}]
      /\ \A j \in Slots(cap) : u[j] = IF j = pos THEN 0 ELSE t[j]
  BY DEF Table, Put
<1>2. /\ w \in [Slots(cap) -> Value \cup {NoValue}]
      /\ \A j \in Slots(cap) : j # pos => w[j] = v[j]
  BY DEF Values, Put
<1> HIDE DEF u, w
<1>3. Table(u, cap) /\ Values(w, cap)
  BY <1>1, <1>2 DEF Table, Values
<1>4. Once(u, cap)
  BY <1>1 DEF Once
<1>5. Filled(u, cap) = Filled(t, cap) \ {pos}
  BY <1>1 DEF Filled
<1>6. \A j \in Filled(u, cap) : <<u[j], w[j]>> = <<t[j], v[j]>> /\ j \in Filled(t, cap)
  BY <1>1, <1>2 DEF Filled
<1>7. \A j \in Filled(t, cap) : j \in Filled(u, cap) <=> t[j] # t[pos]
  BY <1>1 DEF Filled, Once
<1>8. ASSUME NEW e \in Entries(u, w, cap)
      PROVE  e \in Without(Entries(t, v, cap), t[pos])
  <2>1. PICK j \in Filled(u, cap) : e = <<u[j], w[j]>>
    BY DEF Entries
  <2>2. j \in Filled(t, cap) /\ e = <<t[j], v[j]>> /\ t[j] # t[pos]
    BY <1>6, <1>7, <2>1
  <2> QED
    BY <2>2 DEF Entries, Without
<1>9. ASSUME NEW e \in Without(Entries(t, v, cap), t[pos])
      PROVE  e \in Entries(u, w, cap)
  <2>1. PICK j \in Filled(t, cap) : e = <<t[j], v[j]>>
    BY DEF Entries, Without
  <2>2. j \in Filled(u, cap)
    BY <1>7, <2>1 DEF Without
  <2>3. e = <<u[j], w[j]>>
    BY <1>6, <2>1, <2>2
  <2> QED
    BY <2>2, <2>3 DEF Entries
<1> QED
  BY <1>1, <1>4, <1>5, <1>8, <1>9, <1>3 DEF u, w

Swap(f, a, b, x) == [f EXCEPT ![a] = f[b], ![b] = x]

LEMMA SwapEntries ==
  ASSUME NEW t, NEW cap, Table(t, cap), Once(t, cap), NEW v, Values(v, cap),
         NEW hole \in Slots(cap), t[hole] = 0, NEW it \in Slots(cap), t[it] # 0
  PROVE  LET u == Swap(t, hole, it, 0)
             w == Swap(v, hole, it, NoValue)
         IN  /\ Table(u, cap) /\ Once(u, cap) /\ Values(w, cap)
             /\ \A j \in Slots(cap) : u[j] = IF j = it THEN 0 ELSE IF j = hole THEN t[it] ELSE t[j]
             /\ Filled(u, cap) = (Filled(t, cap) \ {it}) \cup {hole}
             /\ it \in Filled(t, cap) /\ hole \notin Filled(t, cap)
             /\ Entries(u, w, cap) = Entries(t, v, cap)
PROOF
<1> DEFINE u == Swap(t, hole, it, 0)
           w == Swap(v, hole, it, NoValue)
<1>1. /\ u \in [Slots(cap) -> Key \cup {0}]
      /\ \A j \in Slots(cap) : u[j] = IF j = it THEN 0 ELSE IF j = hole THEN t[it] ELSE t[j]
  BY DEF Table, Swap
<1>2. /\ w \in [Slots(cap) -> Value \cup {NoValue}]
      /\ \A j \in Slots(cap) : w[j] = IF j = it THEN NoValue ELSE IF j = hole THEN v[it] ELSE v[j]
  BY DEF Values, Swap
<1> HIDE DEF u, w
<1>3. Table(u, cap) /\ Values(w, cap)
  BY <1>1, <1>2 DEF Table, Values
<1>4. Once(u, cap)
  BY <1>1 DEF Once
<1>5. /\ Filled(u, cap) = (Filled(t, cap) \ {it}) \cup {hole}
      /\ it \in Filled(t, cap) /\ hole \notin Filled(t, cap)
  BY <1>1 DEF Filled
<1>6. \A j \in Filled(t, cap) : j \in Slots(cap) /\ j # hole
  BY DEF Filled
<1>7. <<u[hole], w[hole]>> = <<t[it], v[it]>>
  BY <1>5, <1>1, <1>2
<1>8. \A j \in Filled(t, cap) : j # it => <<u[j], w[j]>> = <<t[j], v[j]>>
  BY <1>6, <1>1, <1>2
<1>9. ASSUME NEW e \in Entries(u, w, cap)
      PROVE  e \in Entries(t, v, cap)
  <2>1. PICK j \in Filled(u, cap) : e = <<u[j], w[j]>>
    BY DEF Entries
  <2>2. CASE j = hole
    BY <1>5, <1>7, <2>1, <2>2 DEF Entries
  <2>3. CASE j # hole
    <3>1. j \in Filled(t, cap) /\ e = <<t[j], v[j]>>
      BY <1>5, <1>8, <2>1, <2>3
    <3> QED
      BY <3>1 DEF Entries
  <2> QED
    BY <2>2, <2>3
<1>10. ASSUME NEW e \in Entries(t, v, cap)
      PROVE  e \in Entries(u, w, cap)
  <2>1. PICK j \in Filled(t, cap) : e = <<t[j], v[j]>>
    BY DEF Entries
  <2>2. CASE j = it
    <3>1. hole \in Filled(u, cap) /\ e = <<u[hole], w[hole]>>
      BY <1>5, <1>7, <2>1, <2>2
    <3> QED
      BY <3>1 DEF Entries
  <2>3. CASE j # it
    <3>1. j \in Filled(u, cap) /\ e = <<u[j], w[j]>>
      BY <1>5, <1>8, <2>1, <2>3
    <3> QED
      BY <3>1 DEF Entries
  <2> QED
    BY <2>2, <2>3
<1> QED
  BY <1>4, <1>5, <1>9, <1>10, <1>1, <1>3 DEF u, w

(* The loop.                                                               *)
ShiftTo(m, pos, f, i) ==
  IF i = 0
  THEN [key |-> [m.key EXCEPT ![pos] = 0], value |-> [m.value EXCEPT ![pos] = NoValue],
        prev |-> pos, done |-> FALSE]
  ELSE LET t == f[i - 1]
           it == At(pos, i, m.cap)
       IN  IF t.done \/ t.key[it] = 0 THEN [t EXCEPT !.done = TRUE]
           ELSE IF MovesTo(Hash[t.key[it]] % m.cap, it, t.prev)
           THEN [t EXCEPT !.key = [@ EXCEPT ![t.prev] = t.key[it], ![it] = 0],
                          !.value = [@ EXCEPT ![t.prev] = t.value[it], ![it] = NoValue],
                          !.prev = it]
           ELSE t

LEMMA ClosedDef ==
  ASSUME NEW m, m.cap \in Nat, NEW pos
  PROVE  \E f : f = [i \in 0..m.cap |-> ShiftTo(m, pos, f, i)] /\ Closed(m, pos) = f[m.cap]
PROOF
<1> DEFINE T == {n \in Nat : n <= m.cap => \E f : f = [i \in 0..n |-> ShiftTo(m, pos, f, i)]}
<1>1. 0 \in T
  <2> DEFINE f == [i \in 0..0 |-> ShiftTo(m, pos, <<>>, 0)]
  <2>1. f = [i \in 0..0 |-> ShiftTo(m, pos, f, i)]
    BY DEF ShiftTo
  <2> HIDE DEF f
  <2> QED
    BY <2>1
<1>2. ASSUME NEW n \in Nat, n \in T
      PROVE  n + 1 \in T
  <2> SUFFICES ASSUME n + 1 <= m.cap
               PROVE  \E f : f = [i \in 0..(n + 1) |-> ShiftTo(m, pos, f, i)]
    OBVIOUS
  <2>1. PICK g : g = [i \in 0..n |-> ShiftTo(m, pos, g, i)]
    BY <1>2
  <2> DEFINE f == [i \in 0..(n + 1) |-> IF i = n + 1 THEN ShiftTo(m, pos, g, i) ELSE g[i]]
  <2>2. ASSUME NEW i \in 0..(n + 1)
        PROVE  f[i] = ShiftTo(m, pos, f, i)
    <3>1. i # 0 => f[i - 1] = g[i - 1]
      OBVIOUS
    <3>2. ShiftTo(m, pos, f, i) = ShiftTo(m, pos, g, i)
      <4> HIDE DEF f
      <4> QED
        BY <3>1 DEF ShiftTo
    <3>3. CASE i = n + 1
      BY <3>2, <3>3
    <3>4. CASE i # n + 1
      <4>1. i \in 0..n /\ f[i] = g[i]
        BY <3>4
      <4> QED
        BY <2>1, <3>2, <4>1
    <3> QED
      BY <3>3, <3>4
  <2>3. f = [i \in 0..(n + 1) |-> f[i]]
    OBVIOUS
  <2> HIDE DEF f
  <2>4. f = [i \in 0..(n + 1) |-> ShiftTo(m, pos, f, i)]
    BY <2>2, <2>3
  <2> QED
    BY <2>4
<1> HIDE DEF T
<1>3. m.cap \in T
  BY <1>1, <1>2, SetInduction
<1> DEFINE g == CHOOSE f : f = [i \in 0..m.cap |-> ShiftTo(m, pos, f, i)]
<1>4. g = [i \in 0..m.cap |-> ShiftTo(m, pos, g, i)]
  BY <1>3 DEF T
<1>5. Closed(m, pos) = g[m.cap]
  BY DEF Closed, ShiftTo
<1> HIDE DEF g
<1> QED
  BY <1>4, <1>5

Whole(m, pos, z, r) ==
  /\ r = [key |-> r.key, value |-> r.value, prev |-> r.prev, done |-> r.done]
  /\ Table(r.key, m.cap) /\ Once(r.key, m.cap) /\ Values(r.value, m.cap) /\ r.key[z] = 0
  /\ Entries(r.key, r.value, m.cap) = Without(Entries(m.key, m.value, m.cap), m.key[pos])
  /\ Cardinality(Filled(r.key, m.cap)) = Cardinality(Filled(m.key, m.cap)) - 1

Open(m, z, r, e) ==
  /\ e <= m.cap - 1 /\ r.prev \in Slots(m.cap) /\ r.key[r.prev] = 0 /\ r.prev # z
  /\ Dist(z, r.prev, m.cap) <= e /\ Holed(r.key, m.cap, z, r.prev, e)

ShiftInv(m, pos, z, r, i) ==
  /\ Whole(m, pos, z, r)
  /\ IF r.done THEN Straight(r.key, m.cap, z) ELSE Open(m, z, r, Dist(z, pos, m.cap) + i)

(* The next slot the loop looks at.                                        *)
LEMMA Ahead ==
  ASSUME NEW cap \in Nat \ {0}, NEW z \in Slots(cap), NEW pos \in Slots(cap), NEW i \in Slots(cap),
         Dist(z, pos, cap) + i <= cap - 1
  PROVE  LET it == At(pos, i + 1, cap)
             e == Dist(z, pos, cap) + i
         IN  it \in Slots(cap) /\ IF e + 1 = cap THEN it = z ELSE Dist(z, it, cap) = e + 1
PROOF
<1>1. i \in Nat /\ i < cap /\ i + 1 \in 0..cap /\ z \in Nat /\ z < cap /\ pos \in Nat /\ pos < cap
  BY DEF Slots
<1>2. /\ At(pos, i + 1, cap) = IF pos + i + 1 < cap THEN pos + i + 1 ELSE pos + i + 1 - cap
      /\ At(pos, i + 1, cap) \in Slots(cap)
  BY <1>1, AtValue
<1>3. /\ Dist(z, pos, cap) = IF pos >= z THEN pos - z ELSE pos - z + cap
      /\ Dist(z, At(pos, i + 1, cap), cap) =
           IF At(pos, i + 1, cap) >= z THEN At(pos, i + 1, cap) - z ELSE At(pos, i + 1, cap) - z + cap
  BY <1>2, DistValue
<1> QED
  BY <1>1, <1>2, <1>3

(* A turn of the loop.                                                     *)
LEMMA TurnEnds ==
  ASSUME MapAssumption, NEW m, NEW pos, NEW z \in Slots(m.cap), NEW r, Whole(m, pos, z, r),
         NEW e \in Nat, Open(m, z, r, e), NEW it \in Slots(m.cap),
         IF e + 1 = m.cap THEN it = z ELSE Dist(z, it, m.cap) = e + 1, r.key[it] = 0
  PROVE  Straight(r.key, m.cap, z)
PROOF
<1>1. Table(r.key, m.cap) /\ r.prev \in Slots(m.cap) /\ Dist(z, r.prev, m.cap) <= e
      /\ Holed(r.key, m.cap, z, r.prev, e)
  BY DEF Whole, Open
<1>2. e = m.cap - 1 \/ \E i \in Slots(m.cap) : Dist(z, i, m.cap) = e + 1 /\ r.key[i] = 0
  <2>1. m.cap \in Nat
    BY <1>1 DEF Table
  <2> QED
    BY <2>1
<1> QED
  BY <1>1, <1>2, HoleEnds

LEMMA TurnAhead ==
  ASSUME MapAssumption, NEW m, NEW pos, NEW z \in Slots(m.cap), NEW r, Whole(m, pos, z, r),
         NEW e \in Nat, Open(m, z, r, e), NEW it \in Slots(m.cap),
         IF e + 1 = m.cap THEN it = z ELSE Dist(z, it, m.cap) = e + 1, r.key[it] # 0
  PROVE  /\ m.cap \in Nat \ {0} /\ e + 1 <= m.cap - 1 /\ it # z /\ Dist(z, it, m.cap) = e + 1
         /\ r.prev \in Slots(m.cap) /\ r.prev # it /\ r.prev # z
         /\ MovesTo(Home(r.key[it], m.cap), it, r.prev) <=>
              Line(r.key, m.cap, z, it) <= Dist(z, r.prev, m.cap)
PROOF
<1>1. /\ Table(r.key, m.cap) /\ r.key[z] = 0 /\ r.prev # z /\ r.prev \in Slots(m.cap) /\ r.key[r.prev] = 0
      /\ Dist(z, r.prev, m.cap) <= e /\ Holed(r.key, m.cap, z, r.prev, e) /\ e <= m.cap - 1
  BY DEF Whole, Open
<1>2. m.cap \in Nat \ {0}
  BY <1>1 DEF Table
<1>3. it # z /\ e + 1 # m.cap /\ r.prev # it
  BY <1>1
<1>4. e + 1 <= m.cap - 1 /\ Dist(z, it, m.cap) = e + 1
  BY <1>1, <1>2, <1>3
<1>5. Line(r.key, m.cap, z, it) <= Dist(z, it, m.cap)
  BY <1>1 DEF Holed
<1>6. Dist(z, r.prev, m.cap) \in Nat /\ Home(r.key[it], m.cap) \in Slots(m.cap)
  BY <1>1, <1>2, DistValue, LineValue
<1>7. Dist(z, r.prev, m.cap) < Dist(z, it, m.cap)
  BY <1>1, <1>4, <1>6
<1>8. MovesTo(Home(r.key[it], m.cap), it, r.prev) <=>
        Line(r.key, m.cap, z, it) <= Dist(z, r.prev, m.cap)
  BY <1>1, <1>2, <1>5, <1>6, <1>7, MovesToValue DEF Line
<1> QED
  BY <1>1, <1>2, <1>3, <1>4, <1>8

LEMMA TurnSwaps ==
  ASSUME MapAssumption, NEW m, NEW pos, NEW z \in Slots(m.cap), NEW r, Whole(m, pos, z, r),
         NEW e \in Nat, Open(m, z, r, e), NEW it \in Slots(m.cap),
         IF e + 1 = m.cap THEN it = z ELSE Dist(z, it, m.cap) = e + 1, r.key[it] # 0,
         MovesTo(Home(r.key[it], m.cap), it, r.prev),
         NEW n, n = [key |-> Swap(r.key, r.prev, it, 0), value |-> Swap(r.value, r.prev, it, NoValue),
                     prev |-> it, done |-> r.done]
  PROVE  Whole(m, pos, z, n) /\ Open(m, z, n, e + 1)
PROOF
<1> DEFINE t == r.key
           v == r.value
           hole == r.prev
           u == Swap(t, hole, it, 0)
           w == Swap(v, hole, it, NoValue)
           cap == m.cap
<1>1. /\ Table(t, cap) /\ Once(t, cap) /\ Values(v, cap) /\ t[z] = 0
      /\ Entries(t, v, cap) = Without(Entries(m.key, m.value, cap), m.key[pos])
      /\ Cardinality(Filled(t, cap)) = Cardinality(Filled(m.key, cap)) - 1
  BY DEF Whole
<1>2. t[hole] = 0 /\ Dist(z, hole, cap) <= e /\ Holed(t, cap, z, hole, e)
  BY DEF Open
<1>3. /\ cap \in Nat \ {0} /\ e + 1 <= cap - 1 /\ it # z /\ Dist(z, it, cap) = e + 1
      /\ hole \in Slots(cap) /\ hole # it /\ hole # z
      /\ Line(t, cap, z, it) <= Dist(z, hole, cap)
  BY TurnAhead
<1>4. n.key = u /\ n.value = w /\ n.prev = it /\ n.done = r.done
      /\ n = [key |-> n.key, value |-> n.value, prev |-> n.prev, done |-> n.done]
  OBVIOUS
<1>5. it \in Slots(cap)
  OBVIOUS
<1>6. /\ Table(u, cap) /\ Once(u, cap) /\ Values(w, cap)
      /\ \A j \in Slots(cap) : u[j] = IF j = it THEN 0 ELSE IF j = hole THEN t[it] ELSE t[j]
      /\ Filled(u, cap) = (Filled(t, cap) \ {it}) \cup {hole}
      /\ it \in Filled(t, cap) /\ hole \notin Filled(t, cap)
      /\ Entries(u, w, cap) = Entries(t, v, cap)
  <2>1. u = Swap(t, hole, it, 0) /\ w = Swap(v, hole, it, NoValue)
    OBVIOUS
  <2>2. /\ Table(t, cap) /\ Once(t, cap) /\ Values(v, cap) /\ t[hole] = 0 /\ t[it] # 0
        /\ hole \in Slots(cap) /\ it \in Slots(cap)
    BY <1>1, <1>2, <1>3, <1>5
  <2> HIDE DEF t, v, cap, hole, u, w
  <2>3. Table(u, cap) /\ Once(u, cap) /\ Values(w, cap)
    BY <2>1, <2>2, SwapEntries
  <2>4. \A j \in Slots(cap) : u[j] = IF j = it THEN 0 ELSE IF j = hole THEN t[it] ELSE t[j]
    BY <2>1, <2>2, SwapEntries
  <2>5. /\ Filled(u, cap) = (Filled(t, cap) \ {it}) \cup {hole}
        /\ it \in Filled(t, cap) /\ hole \notin Filled(t, cap)
    BY <2>1, <2>2, SwapEntries
  <2>6. Entries(u, w, cap) = Entries(t, v, cap)
    BY <2>1, <2>2, SwapEntries
  <2> QED
    BY <2>3, <2>4, <2>5, <2>6
<1> HIDE DEF u, w
<1>7. u[z] = 0 /\ u[it] = 0
  BY <1>1, <1>3, <1>6
<1>8. Cardinality(Filled(u, cap)) = Cardinality(Filled(t, cap))
  <2>1. IsFiniteSet(Filled(t, cap)) /\ Cardinality(Filled(t, cap)) \in Nat
    BY <1>3, FilledFinite
  <2>2. IsFiniteSet(Filled(t, cap) \ {it})
        /\ Cardinality(Filled(t, cap) \ {it}) = Cardinality(Filled(t, cap)) - 1
    BY <1>6, <2>1, FS_RemoveElement
  <2>3. hole \notin Filled(t, cap) \ {it}
    BY <1>6
  <2>4. Cardinality((Filled(t, cap) \ {it}) \cup {hole}) = Cardinality(Filled(t, cap) \ {it}) + 1
    BY <2>2, <2>3, FS_AddElement
  <2> QED
    BY <1>6, <2>1, <2>2, <2>4
<1>9. Holed(u, cap, z, it, e + 1)
  BY <1>1, <1>2, <1>3, <1>6, HoleMoves
<1>10. Whole(m, pos, z, n)
  BY <1>1, <1>4, <1>6, <1>7, <1>8 DEF Whole
<1> QED
  BY <1>3, <1>4, <1>7, <1>9, <1>10 DEF Open

LEMMA TurnStays ==
  ASSUME MapAssumption, NEW m, NEW pos, NEW z \in Slots(m.cap), NEW r, Whole(m, pos, z, r),
         NEW e \in Nat, Open(m, z, r, e), NEW it \in Slots(m.cap),
         IF e + 1 = m.cap THEN it = z ELSE Dist(z, it, m.cap) = e + 1, r.key[it] # 0,
         ~MovesTo(Home(r.key[it], m.cap), it, r.prev)
  PROVE  Open(m, z, r, e + 1)
PROOF
<1>1. /\ Table(r.key, m.cap) /\ r.key[r.prev] = 0 /\ r.prev # z
      /\ Dist(z, r.prev, m.cap) <= e /\ Holed(r.key, m.cap, z, r.prev, e)
  BY DEF Whole, Open
<1>2. /\ m.cap \in Nat \ {0} /\ e + 1 <= m.cap - 1 /\ Dist(z, it, m.cap) = e + 1
      /\ r.prev \in Slots(m.cap)
      /\ MovesTo(Home(r.key[it], m.cap), it, r.prev) <=>
           Line(r.key, m.cap, z, it) <= Dist(z, r.prev, m.cap)
  BY TurnAhead
<1>3. Holed(r.key, m.cap, z, r.prev, e + 1)
  BY <1>1, <1>2, HoleStays
<1>4. Dist(z, r.prev, m.cap) <= e + 1
  <2>1. Dist(z, r.prev, m.cap) \in Nat
    BY <1>2, DistValue
  <2> QED
    BY <1>1, <2>1
<1> QED
  BY <1>1, <1>2, <1>3, <1>4 DEF Open

LEMMA ShiftStep ==
  ASSUME MapAssumption, NEW m, NEW pos \in Slots(m.cap), NEW z \in Slots(m.cap), NEW f,
         NEW i \in Slots(m.cap), ShiftInv(m, pos, z, f[i], i)
  PROVE  ShiftInv(m, pos, z, ShiftTo(m, pos, f, i + 1), i + 1)
PROOF
<1> DEFINE r == f[i]
           it == At(pos, i + 1, m.cap)
           e == Dist(z, pos, m.cap) + i
           n == ShiftTo(m, pos, f, i + 1)
<1>1. Whole(m, pos, z, r) /\ IF r.done THEN Straight(r.key, m.cap, z) ELSE Open(m, z, r, e)
  BY DEF ShiftInv
<1>2. m.cap \in Nat \ {0}
  BY <1>1 DEF Whole, Table
<1>3. i \in Nat /\ i + 1 - 1 = i /\ i + 1 # 0 /\ i + 1 \in 0..m.cap
  BY <1>2 DEF Slots
<1>4. e \in Nat /\ Dist(z, pos, m.cap) + (i + 1) = e + 1 /\ it \in Slots(m.cap)
  <2>1. it \in Slots(m.cap)
    BY <1>2, <1>3, AtValue
  <2>2. Dist(z, pos, m.cap) \in Nat
    BY <1>2, DistValue
  <2> QED
    BY <1>3, <2>1, <2>2
<1>5. r = [key |-> r.key, value |-> r.value, prev |-> r.prev, done |-> r.done]
  BY <1>1 DEF Whole
<1>6. n = IF r.done \/ r.key[it] = 0 THEN [r EXCEPT !.done = TRUE]
          ELSE IF MovesTo(Home(r.key[it], m.cap), it, r.prev)
          THEN [r EXCEPT !.key = Swap(r.key, r.prev, it, 0),
                         !.value = Swap(r.value, r.prev, it, NoValue), !.prev = it]
          ELSE r
  <2>1. PICK j \in Nat : j = i + 1 /\ j - 1 = i /\ j # 0
    BY <1>3
  <2>2. n = ShiftTo(m, pos, f, j) /\ r = f[j - 1] /\ it = At(pos, j, m.cap)
    BY <2>1
  <2> HIDE DEF r, it, n
  <2> QED
    BY <2>1, <2>2 DEF ShiftTo, Swap, Home
<1>7. ~r.done => IF e + 1 = m.cap THEN it = z ELSE Dist(z, it, m.cap) = e + 1
  <2>1. ~r.done => Dist(z, pos, m.cap) + i <= m.cap - 1
    BY <1>1 DEF Open
  <2> QED
    BY <1>2, <2>1, Ahead
<1> HIDE DEF r, it, e, n
<1>8. CASE r.done \/ r.key[it] = 0
  <2>1. Straight(r.key, m.cap, z)
    BY <1>1, <1>4, <1>7, <1>8, TurnEnds
  <2>2. n = [r EXCEPT !.done = TRUE]
    BY <1>6, <1>8
  <2>3. n = [key |-> r.key, value |-> r.value, prev |-> r.prev, done |-> TRUE]
    BY <1>5, <2>2
  <2>4. Whole(m, pos, z, n)
    BY <1>1, <2>3 DEF Whole
  <2> QED
    BY <2>1, <2>3, <2>4 DEF ShiftInv, n
<1>9. CASE ~r.done /\ r.key[it] # 0 /\ MovesTo(Home(r.key[it], m.cap), it, r.prev)
  <2>1. n = [key |-> Swap(r.key, r.prev, it, 0), value |-> Swap(r.value, r.prev, it, NoValue),
             prev |-> it, done |-> r.done]
    BY <1>5, <1>6, <1>9
  <2>2. Whole(m, pos, z, n) /\ Open(m, z, n, e + 1)
    BY <1>1, <1>4, <1>7, <1>9, <2>1, TurnSwaps
  <2> QED
    BY <1>4, <1>9, <2>1, <2>2 DEF ShiftInv, n
<1>10. CASE ~r.done /\ r.key[it] # 0 /\ ~MovesTo(Home(r.key[it], m.cap), it, r.prev)
  <2>1. n = r
    BY <1>6, <1>10
  <2>2. Open(m, z, r, e + 1)
    BY <1>1, <1>4, <1>7, <1>10, TurnStays
  <2> QED
    BY <1>1, <1>4, <1>10, <2>1, <2>2 DEF ShiftInv, n
<1> QED
  BY <1>8, <1>9, <1>10

LEMMA ClosedGood ==
  ASSUME MapAssumption, NEW m, Good(m.key, m.cap), HasRoom(m.key, m.cap), Values(m.value, m.cap),
         NEW pos \in Slots(m.cap), m.key[pos] # 0
  PROVE  LET t == Closed(m, pos)
         IN  /\ Good(t.key, m.cap) /\ Values(t.value, m.cap)
             /\ Entries(t.key, t.value, m.cap) = Without(Entries(m.key, m.value, m.cap), m.key[pos])
             /\ Cardinality(Filled(t.key, m.cap)) = Cardinality(Filled(m.key, m.cap)) - 1
PROOF
<1>1. m.cap \in Nat \ {0} /\ Table(m.key, m.cap) /\ Probing(m.key, m.cap) /\ Once(m.key, m.cap)
  BY DEF Good, Table
<1>2. PICK z \in Slots(m.cap) : m.key[z] = 0
  BY DEF HasRoom
<1>3. Straight(m.key, m.cap, z)
  BY <1>1, <1>2, Straighten
<1>4. PICK f : f = [i \in 0..m.cap |-> ShiftTo(m, pos, f, i)] /\ Closed(m, pos) = f[m.cap]
  BY <1>1, ClosedDef
<1>5. \A i \in 0..m.cap : f[i] = ShiftTo(m, pos, f, i)
  BY <1>4, Zenon
<1> DEFINE T == {i \in 0..m.cap : ShiftInv(m, pos, z, f[i], i)}
<1>6. 0 \in T
  <2> DEFINE u == [m.key EXCEPT ![pos] = 0]
             w == [m.value EXCEPT ![pos] = NoValue]
             r == [key |-> u, value |-> w, prev |-> pos, done |-> FALSE]
             e == Dist(z, pos, m.cap)
  <2>1. f[0] = r
    <3>1. f[0] = ShiftTo(m, pos, f, 0)
      BY <1>1, <1>5
    <3> QED
      BY <3>1 DEF ShiftTo
  <2>2. /\ r.key = u /\ r.value = w /\ r.prev = pos /\ r.done = FALSE
        /\ r = [key |-> r.key, value |-> r.value, prev |-> r.prev, done |-> r.done]
    OBVIOUS
  <2>3. u = Put(m.key, pos, 0) /\ w = Put(m.value, pos, NoValue)
    BY DEF Put
  <2> HIDE DEF u, w, r
  <2>4. Table(u, m.cap) /\ Once(u, m.cap) /\ Values(w, m.cap)
    BY <1>1, <2>3, DropEntries
  <2>5. \A j \in Slots(m.cap) : u[j] = IF j = pos THEN 0 ELSE m.key[j]
    BY <1>1, <2>3, DropEntries
  <2>6. u[z] = 0 /\ u[pos] = 0 /\ pos # z
    BY <1>2, <2>5
  <2>7. Filled(u, m.cap) = Filled(m.key, m.cap) \ {pos}
    BY <1>1, <2>3, DropEntries
  <2>8. Entries(u, w, m.cap) = Without(Entries(m.key, m.value, m.cap), m.key[pos])
    BY <1>1, <2>3, DropEntries
  <2>9. Cardinality(Filled(u, m.cap)) = Cardinality(Filled(m.key, m.cap)) - 1
    <3>1. IsFiniteSet(Filled(m.key, m.cap))
      BY <1>1, FilledFinite
    <3>2. pos \in Filled(m.key, m.cap)
      BY DEF Filled
    <3>3. Cardinality(Filled(m.key, m.cap) \ {pos}) = Cardinality(Filled(m.key, m.cap)) - 1
      BY <3>1, <3>2, FS_RemoveElement
    <3> QED
      BY <2>7, <3>3
  <2>10. Holed(u, m.cap, z, pos, e)
    BY <1>1, <1>3, <2>5, HoleStarts
  <2>11. Whole(m, pos, z, r)
    BY <2>2, <2>4, <2>6, <2>8, <2>9 DEF Whole
  <2>12. e \in Nat /\ e <= m.cap - 1 /\ e + 0 = e /\ e <= e
    <3>1. e \in Slots(m.cap) /\ e \in Nat
      BY <1>1, DistValue
    <3> QED
      BY <1>1, <3>1 DEF Slots
  <2> HIDE DEF e
  <2>13. Open(m, z, r, e)
    BY <2>2, <2>6, <2>10, <2>12 DEF Open, e
  <2> QED
    BY <1>1, <2>1, <2>2, <2>11, <2>12, <2>13 DEF ShiftInv, e
<1>7. ASSUME NEW i \in 0..(m.cap - 1), i \in T
      PROVE  i + 1 \in T
  <2>1. i \in Slots(m.cap) /\ ShiftInv(m, pos, z, f[i], i) /\ i + 1 \in 0..m.cap
    BY <1>1, <1>7 DEF Slots
  <2>2. ShiftInv(m, pos, z, ShiftTo(m, pos, f, i + 1), i + 1)
    BY <2>1, ShiftStep
  <2> QED
    BY <1>5, <2>1, <2>2
<1> HIDE DEF T
<1>8. 0..m.cap \subseteq T
  BY <1>1, <1>6, <1>7, BoundedInduction
<1> DEFINE t == Closed(m, pos)
<1>9. ShiftInv(m, pos, z, t, m.cap)
  <2>1. m.cap \in 0..m.cap
    BY <1>1
  <2>2. m.cap \in T
    BY <1>8, <2>1
  <2> QED
    BY <1>4, <2>2 DEF T
<1> HIDE DEF t
<1>10. Whole(m, pos, z, t) /\ Straight(t.key, m.cap, z)
  <2>1. ~Open(m, z, t, Dist(z, pos, m.cap) + m.cap)
    <3>1. Dist(z, pos, m.cap) \in Nat
      BY <1>1, DistValue
    <3>2. ~(Dist(z, pos, m.cap) + m.cap <= m.cap - 1)
      BY <1>1, <3>1
    <3> QED
      BY <3>2 DEF Open
  <2> QED
    BY <1>9, <2>1 DEF ShiftInv
<1>11. Probing(t.key, m.cap)
  BY <1>10, Straighten DEF Whole
<1> QED
  BY <1>10, <1>11 DEF Whole, Good, t

-----------------------------------------------------------------------------
(* The map.                                                                *)
Fields(m) ==
  m = [cap |-> m.cap, key |-> m.key, value |-> m.value, zero |-> m.zero, used |-> m.used,
       size |-> m.size, remap |-> m.remap, load_fac |-> m.load_fac, found |-> m.found]

Counted(t, cap, used) == Cardinality(Filled(t, cap)) + IF used THEN 1 ELSE 0

Typed(m) ==
  /\ m.cap \in Nat \ {0}
  /\ m.zero \in Value \cup {NoValue} /\ m.used \in BOOLEAN /\ m.found \in BOOLEAN
  /\ m.size \in Nat /\ m.remap \in Nat /\ m.load_fac \in 0..95

Kept(m) ==
  /\ Fields(m) /\ Typed(m)
  /\ Good(m.key, m.cap) /\ Values(m.value, m.cap)
  /\ m.size = Counted(m.key, m.cap, m.used)

(* The inductive invariant: there is room for one more entry as long as    *)
(* the table need not grow.                                                *)
MapOK(m) == Kept(m) /\ m.size < m.cap /\ m.remap < m.cap

MapInv == MapOK(map)

LEMMA CountedValue ==
  ASSUME NEW t, NEW cap \in Nat \ {0}, NEW used \in BOOLEAN
  PROVE  /\ IsFiniteSet(Filled(t, cap)) /\ Cardinality(Filled(t, cap)) \in Nat
         /\ Counted(t, cap, used) \in Nat /\ Cardinality(Filled(t, cap)) <= Counted(t, cap, used)
         /\ Counted(t, cap, TRUE) = Cardinality(Filled(t, cap)) + 1
         /\ Counted(t, cap, FALSE) = Cardinality(Filled(t, cap))
PROOF
<1>1. IsFiniteSet(Filled(t, cap)) /\ Cardinality(Filled(t, cap)) \in Nat
  BY FilledFinite
<1> QED
  BY <1>1 DEF Counted

LEMMA KeptRoom ==
  ASSUME NEW m, Kept(m), m.size < m.cap
  PROVE  HasRoom(m.key, m.cap)
PROOF
<1>1. m.cap \in Nat \ {0} /\ m.used \in BOOLEAN /\ m.size = Counted(m.key, m.cap, m.used)
      /\ m.size \in Nat /\ Table(m.key, m.cap)
  BY DEF Kept, Typed, Good
<1>2. Cardinality(Filled(m.key, m.cap)) < m.cap
  <2>1. /\ Cardinality(Filled(m.key, m.cap)) \in Nat
        /\ Cardinality(Filled(m.key, m.cap)) <= m.size
    BY <1>1, CountedValue
  <2> QED
    BY <1>1, <2>1
<1> QED
  BY <1>1, <1>2, EmptySlot

(* What holds of a map that is as it should be.                            *)
LEMMA MapOKSuffices ==
  ASSUME MapAssumption, MapInv
  PROVE  TypeOK /\ Reachable /\ SizeCounts /\ LoopsEnd
PROOF
<1>1. /\ Typed(map) /\ Table(map.key, map.cap) /\ Values(map.value, map.cap)
      /\ Probing(map.key, map.cap) /\ Once(map.key, map.cap)
      /\ map.size = Counted(map.key, map.cap, map.used)
  BY DEF MapInv, MapOK, Kept, Good
<1>2. TypeOK
  BY <1>1 DEF TypeOK, Typed, Table, Values
<1>3. Occupied(map) = Filled(map.key, map.cap)
  BY DEF Occupied, Filled
<1>4. SizeCounts
  BY <1>1, <1>3 DEF SizeCounts, Counted
<1>5. LoopsEnd
  BY KeptRoom DEF LoopsEnd, HasRoom, MapInv, MapOK
<1>6. Reachable
  <2> SUFFICES ASSUME NEW i \in Filled(map.key, map.cap)
               PROVE  LET k == map.key[i]
                          home == Hash[k] % map.cap
                          dist == (i - home) % map.cap
                      IN  /\ \A d \in 0..dist : map.key[(home + d) % map.cap] # 0
                          /\ \A j \in Filled(map.key, map.cap) : map.key[j] = k => i = j
    BY <1>3 DEF Reachable
  <2> DEFINE home == Home(map.key[i], map.cap)
  <2>1. i \in Slots(map.cap) /\ map.key[i] # 0
    BY DEF Filled
  <2>2. map.cap \in Nat \ {0} /\ home \in Slots(map.cap)
    BY <1>1, <2>1, LineValue
  <2>3. ASSUME NEW d \in 0..Dist(home, i, map.cap)
        PROVE  map.key[At(home, d, map.cap)] # 0
    <3>1. Dist(home, i, map.cap) \in Slots(map.cap)
      BY <2>1, <2>2, DistValue
    <3>2. d \in Slots(map.cap) /\ d \in 0..map.cap
      BY <2>2, <2>3, <3>1 DEF Slots
    <3>3. At(home, d, map.cap) \in Slots(map.cap) /\ Dist(home, At(home, d, map.cap), map.cap) = d
      BY <2>2, <3>2, AtValue, AtDist
    <3>4. d <= Dist(home, i, map.cap)
      BY <2>3
    <3> QED
      BY <1>1, <2>1, <3>3, <3>4 DEF Probing
  <2>4. \A j \in Filled(map.key, map.cap) : map.key[j] = map.key[i] => i = j
    BY <1>1, <2>1 DEF Once, Filled
  <2> QED
    BY <2>3, <2>4 DEF Home, Dist, At
<1> QED
  BY <1>2, <1>4, <1>5, <1>6

-----------------------------------------------------------------------------
(* What a map holds, as pairs of keys and values, and what the operations  *)
(* do to it.                                                               *)
Zero(m) == IF m.used THEN {<<0, m.zero>>} ELSE {}

Pairs(m) == Entries(m.key, m.value, m.cap) \cup Zero(m)

LEMMA Threshold ==
  ASSUME NEW cap \in Nat \ {0}, NEW percent \in 0..95
  PROVE  (cap * percent) \div 100 \in Nat /\ (cap * percent) \div 100 < cap
PROOF
<1>1. PICK p \in Nat : p = cap * percent
  OBVIOUS
<1>2. p < 100 * cap
  <2>1. cap * (100 - percent) >= cap
    BY Multiple
  <2>2. cap * (100 - percent) = 100 * cap - cap * percent
    OBVIOUS
  <2> QED
    BY <1>1, <2>1, <2>2
<1>3. p \div 100 \in Nat /\ p \div 100 < cap
  BY <1>2
<1> QED
  BY <1>1, <1>3

LEMMA NewCapGrows ==
  ASSUME NEW cap \in Nat \ {0}
  PROVE  NewCap(cap) \in Nat \ {0} /\ cap < NewCap(cap)
PROOF
<1> QED
  BY DEF NewCap

(* Growing keeps everything and makes room.                                *)
LEMMA RemapOK ==
  ASSUME MapAssumption, NEW m, MapOK(m)
  PROVE  LET n == sc_map_remap(m)
         IN  /\ Kept(n) /\ n.size + 1 < n.cap /\ n.remap < n.cap
             /\ Pairs(n) = Pairs(m) /\ n.used = m.used
PROOF
<1>1. /\ Fields(m) /\ Typed(m) /\ Good(m.key, m.cap) /\ Values(m.value, m.cap)
      /\ m.size = Counted(m.key, m.cap, m.used) /\ m.size < m.cap /\ m.remap < m.cap
  BY DEF MapOK, Kept
<1>2. m.cap \in Nat \ {0} /\ m.size \in Nat /\ m.remap \in Nat /\ m.load_fac \in 0..95
  BY <1>1 DEF Typed
<1>3. CASE ~NeedsRemap(m)
  <2>1. sc_map_remap(m) = m
    BY <1>3 DEF sc_map_remap
  <2>2. m.size + 1 < m.cap
    BY <1>1, <1>2, <1>3 DEF NeedsRemap
  <2> QED
    BY <1>1, <2>1, <2>2 DEF MapOK
<1>4. CASE NeedsRemap(m)
  <2> DEFINE cap == NewCap(m.cap)
             t == Moved(m, cap)
             n == sc_map_remap(m)
             part == (cap * m.load_fac) \div 100
  <2>1. cap \in Nat \ {0} /\ m.cap < cap
    BY <1>2, NewCapGrows
  <2>2. /\ Good(t.key, cap) /\ Values(t.value, cap)
        /\ Cardinality(Filled(t.key, cap)) = Cardinality(Filled(m.key, m.cap))
        /\ Entries(t.key, t.value, cap) = Entries(m.key, m.value, m.cap)
    BY <1>1, <2>1, MovedGood DEF Good
  <2>3. part \in Nat /\ part < cap
    BY <1>2, <2>1, Threshold
  <2>4. n = [m EXCEPT !.cap = cap, !.key = t.key, !.value = t.value, !.remap = part]
    BY <1>4 DEF sc_map_remap
  <2> HIDE DEF cap, t, n, part
  <2>5. n = [cap |-> cap, key |-> t.key, value |-> t.value, zero |-> m.zero, used |-> m.used,
             size |-> m.size, remap |-> part, load_fac |-> m.load_fac, found |-> m.found]
    BY <1>1, <2>4 DEF Fields
  <2>6. /\ n.cap = cap /\ n.key = t.key /\ n.value = t.value /\ n.zero = m.zero /\ n.used = m.used
        /\ n.size = m.size /\ n.remap = part /\ n.load_fac = m.load_fac /\ n.found = m.found
        /\ Fields(n)
    BY <2>5 DEF Fields
  <2>7. Typed(n) /\ n.size + 1 < n.cap /\ n.remap < n.cap
    BY <1>1, <1>2, <2>1, <2>3, <2>6 DEF Typed
  <2>8. Counted(n.key, n.cap, n.used) = Counted(m.key, m.cap, m.used)
    BY <2>2, <2>6 DEF Counted
  <2>9. Kept(n)
    BY <1>1, <2>2, <2>6, <2>7, <2>8 DEF Kept
  <2>10. Pairs(n) = Pairs(m)
    BY <2>2, <2>6 DEF Pairs, Zero
  <2> QED
    BY <2>6, <2>7, <2>9, <2>10 DEF n
<1> QED
  BY <1>3, <1>4

(* What the table says of a key is what the pairs say.                     *)
LEMMA HasValue ==
  ASSUME MapAssumption, NEW m, Kept(m), HasRoom(m.key, m.cap), NEW k \in Key
  PROVE  /\ Has(m, k) \in BOOLEAN
         /\ Has(m, k) => <<k, Stored(m, k)>> \in Pairs(m)
         /\ ~Has(m, k) => Stored(m, k) = NoValue /\ \A e \in Pairs(m) : e[1] # k
         /\ k # 0 => /\ Find(m.key, m.cap, k) \in Slots(m.cap)
                     /\ m.key[Find(m.key, m.cap, k)] = IF Has(m, k) THEN k ELSE 0
PROOF
<1>1. Good(m.key, m.cap) /\ m.used \in BOOLEAN
  BY DEF Kept, Typed
<1>2. \A e \in Entries(m.key, m.value, m.cap) : e[1] # 0
  BY DEF Entries, Filled
<1>3. CASE k = 0
  <2>1. Has(m, k) = m.used /\ Stored(m, k) = IF m.used THEN m.zero ELSE NoValue
    BY <1>3 DEF Has, Stored
  <2> QED
    BY <1>1, <1>2, <1>3, <2>1 DEF Pairs, Zero
<1>4. CASE k # 0
  <2> DEFINE s == Find(m.key, m.cap, k)
  <2>1. /\ s \in Slots(m.cap) /\ m.key[s] \in {0, k}
        /\ \A j \in Slots(m.cap) : m.key[j] = k => j = s
    BY <1>1, <1>4, FindFinds
  <2>2. Has(m, k) = (m.key[s] = k) /\ Stored(m, k) = IF m.key[s] = k THEN m.value[s] ELSE NoValue
    BY <1>4 DEF Has, Stored
  <2> HIDE DEF s
  <2>3. CASE m.key[s] = k
    <3>1. s \in Filled(m.key, m.cap) /\ <<k, Stored(m, k)>> = <<m.key[s], m.value[s]>>
      BY <1>4, <2>1, <2>2, <2>3 DEF Filled
    <3>2. <<k, Stored(m, k)>> \in Pairs(m)
      BY <3>1 DEF Pairs, Entries
    <3> QED
      BY <2>1, <2>2, <2>3, <3>2 DEF s
  <2>4. CASE m.key[s] # k
    <3>1. \A e \in Entries(m.key, m.value, m.cap) : e[1] # k
      BY <2>1, <2>4 DEF Entries, Filled
    <3>2. \A e \in Zero(m) : e[1] # k
      BY <1>4 DEF Zero
    <3> QED
      BY <2>1, <2>2, <2>4, <3>1, <3>2 DEF Pairs, s
  <2> QED
    BY <2>3, <2>4
<1> QED
  BY <1>3, <1>4

LEMMA StoreOK ==
  ASSUME MapAssumption, NEW m, Kept(m), m.size + 1 < m.cap, m.remap < m.cap,
         NEW k \in Key, NEW v \in Value
  PROVE  LET n == Store(m, k, v)
         IN  MapOK(n) /\ Pairs(n) = With(Pairs(m), k, v) /\ n.found = Has(m, k)
PROOF
<1> DEFINE n == Store(m, k, v)
           s == Find(m.key, m.cap, k)
<1>1. /\ Fields(m) /\ Typed(m) /\ Good(m.key, m.cap) /\ Values(m.value, m.cap)
      /\ m.size = Counted(m.key, m.cap, m.used)
  BY DEF Kept
<1>2. m.cap \in Nat \ {0} /\ m.size \in Nat /\ m.used \in BOOLEAN /\ m.size < m.cap
  BY <1>1 DEF Typed
<1>3. HasRoom(m.key, m.cap)
  BY <1>2, KeptRoom
<1>4. /\ Has(m, k) \in BOOLEAN /\ Has(m, k) = (IF k = 0 THEN m.used ELSE m.key[s] = k)
      /\ k # 0 => s \in Slots(m.cap) /\ m.key[s] = IF Has(m, k) THEN k ELSE 0
  BY <1>3, HasValue DEF Has
<1>5. /\ Grown(m, k) = (IF Has(m, k) THEN m.size ELSE m.size + 1)
      /\ Grown(m, k) \in Nat /\ Grown(m, k) < m.cap
  BY <1>2, <1>4 DEF Grown
<1>6. /\ Cardinality(Filled(m.key, m.cap)) \in Nat /\ IsFiniteSet(Filled(m.key, m.cap))
      /\ Counted(m.key, m.cap, TRUE) = Cardinality(Filled(m.key, m.cap)) + 1
      /\ Counted(m.key, m.cap, FALSE) = Cardinality(Filled(m.key, m.cap))
  BY <1>2, CountedValue
<1>7. v \in Value \cup {NoValue}
  OBVIOUS
<1>8. CASE k = 0
  <2> HIDE DEF n
  <2>1. n = [cap |-> m.cap, key |-> m.key, value |-> m.value, zero |-> v, used |-> TRUE,
             size |-> Grown(m, k), remap |-> m.remap, load_fac |-> m.load_fac, found |-> Has(m, k)]
    BY <1>1, <1>8 DEF n, Store, Fields
  <2>2. /\ n.cap = m.cap /\ n.key = m.key /\ n.value = m.value /\ n.zero = v /\ n.used = TRUE
        /\ n.size = Grown(m, k) /\ n.remap = m.remap /\ n.load_fac = m.load_fac
        /\ n.found = Has(m, k) /\ Fields(n)
    BY <2>1 DEF Fields
  <2>3. Typed(n)
    BY <1>1, <1>4, <1>5, <1>7, <2>2 DEF Typed
  <2>4. Grown(m, k) = Counted(m.key, m.cap, TRUE)
    BY <1>1, <1>2, <1>4, <1>5, <1>6, <1>8
  <2>5. MapOK(n)
    BY <1>1, <1>5, <2>2, <2>3, <2>4 DEF MapOK, Kept
  <2>6. \A e \in Entries(m.key, m.value, m.cap) : e[1] # 0
    BY DEF Entries, Filled
  <2>7. Without(Pairs(m), k) = Entries(m.key, m.value, m.cap)
    BY <1>8, <2>6 DEF Pairs, Zero, Without
  <2>8. Pairs(n) = With(Pairs(m), k, v)
    BY <1>8, <2>2, <2>7 DEF Pairs, Zero, With
  <2> QED
    BY <2>2, <2>5, <2>8 DEF n
<1>9. CASE k # 0
  <2> DEFINE t == Put(m.key, s, k)
             w == Put(m.value, s, v)
  <2> HIDE DEF n, s
  <2>1. n = [cap |-> m.cap, key |-> t, value |-> w, zero |-> m.zero, used |-> m.used,
             size |-> Grown(m, k), remap |-> m.remap, load_fac |-> m.load_fac, found |-> Has(m, k)]
    BY <1>1, <1>9 DEF n, s, Store, Fields, Put
  <2> HIDE DEF t, w
  <2>2. /\ n.cap = m.cap /\ n.key = t /\ n.value = w /\ n.zero = m.zero /\ n.used = m.used
        /\ n.size = Grown(m, k) /\ n.remap = m.remap /\ n.load_fac = m.load_fac
        /\ n.found = Has(m, k) /\ Fields(n)
    BY <2>1 DEF Fields
  <2>3. Typed(n)
    BY <1>1, <1>4, <1>5, <2>2 DEF Typed
  <2>4. Good(t, m.cap) /\ Filled(t, m.cap) = Filled(m.key, m.cap) \cup {s}
    BY <1>1, <1>3, <1>9, InsertGood DEF t, s
  <2>5. Values(w, m.cap)
    BY <1>1, <1>3, <1>7, <1>9, InsertEntries DEF w, s
  <2>6. Entries(t, w, m.cap) = With(Entries(m.key, m.value, m.cap), k, v)
    BY <1>1, <1>3, <1>7, <1>9, InsertEntries DEF t, w, s
  <2>7. Grown(m, k) = Counted(t, m.cap, m.used)
    <3>1. CASE Has(m, k)
      <4>1. Filled(t, m.cap) = Filled(m.key, m.cap)
        BY <1>4, <1>9, <2>4, <3>1 DEF Filled
      <4> QED
        BY <1>1, <1>5, <3>1, <4>1 DEF Counted
    <3>2. CASE ~Has(m, k)
      <4>1. s \notin Filled(m.key, m.cap)
        BY <1>4, <1>9, <3>2 DEF Filled
      <4>2. Cardinality(Filled(t, m.cap)) = Cardinality(Filled(m.key, m.cap)) + 1
        BY <1>6, <2>4, <4>1, FS_AddElement
      <4> QED
        BY <1>1, <1>2, <1>5, <1>6, <3>2, <4>2 DEF Counted
    <3> QED
      BY <3>1, <3>2
  <2>8. MapOK(n)
    BY <1>5, <2>2, <2>3, <2>4, <2>5, <2>7 DEF MapOK, Kept
  <2>9. Pairs(n) = With(Pairs(m), k, v)
    BY <1>9, <2>2, <2>6 DEF Pairs, Zero, With, Without
  <2> QED
    BY <2>2, <2>8, <2>9 DEF n
<1> QED
  BY <1>8, <1>9

LEMMA RemoveOK ==
  ASSUME MapAssumption, NEW m, MapOK(m), NEW k \in Key
  PROVE  LET n == Remove(m, k)
         IN  MapOK(n) /\ Pairs(n) = Without(Pairs(m), k) /\ n.found = Has(m, k)
PROOF
<1> DEFINE n == Remove(m, k)
           s == Find(m.key, m.cap, k)
           t == Closed(m, s)
<1>1. /\ Fields(m) /\ Typed(m) /\ Good(m.key, m.cap) /\ Values(m.value, m.cap)
      /\ m.size = Counted(m.key, m.cap, m.used) /\ m.size < m.cap /\ m.remap < m.cap /\ Kept(m)
  BY DEF MapOK, Kept
<1>2. m.cap \in Nat \ {0} /\ m.size \in Nat /\ m.used \in BOOLEAN
  BY <1>1 DEF Typed
<1>3. HasRoom(m.key, m.cap)
  BY <1>1, KeptRoom
<1>4. /\ Has(m, k) \in BOOLEAN /\ Has(m, k) = (IF k = 0 THEN m.used ELSE m.key[s] = k)
      /\ k # 0 => s \in Slots(m.cap) /\ m.key[s] = IF Has(m, k) THEN k ELSE 0
      /\ ~Has(m, k) => \A e \in Pairs(m) : e[1] # k
  BY <1>1, <1>3, HasValue DEF Has
<1>5. /\ Cardinality(Filled(m.key, m.cap)) \in Nat /\ IsFiniteSet(Filled(m.key, m.cap))
      /\ Counted(m.key, m.cap, TRUE) = Cardinality(Filled(m.key, m.cap)) + 1
      /\ Counted(m.key, m.cap, FALSE) = Cardinality(Filled(m.key, m.cap))
  BY <1>2, CountedValue
<1> HIDE DEF n, s, t
<1>6. CASE ~Has(m, k)
  <2>1. n = [cap |-> m.cap, key |-> m.key, value |-> m.value, zero |-> m.zero, used |-> m.used,
             size |-> m.size, remap |-> m.remap, load_fac |-> m.load_fac, found |-> FALSE]
    BY <1>1, <1>6 DEF n, Remove, Fields
  <2>2. /\ n.cap = m.cap /\ n.key = m.key /\ n.value = m.value /\ n.zero = m.zero /\ n.used = m.used
        /\ n.size = m.size /\ n.remap = m.remap /\ n.load_fac = m.load_fac
        /\ n.found = FALSE /\ Fields(n)
    BY <2>1 DEF Fields
  <2>3. MapOK(n)
    BY <1>1, <2>2 DEF MapOK, Kept, Typed
  <2>4. Pairs(n) = Without(Pairs(m), k)
    BY <1>4, <1>6, <2>2 DEF Pairs, Zero, Without
  <2>5. n.found = Has(m, k)
    BY <1>4, <1>6, <2>2
  <2> QED
    BY <2>3, <2>4, <2>5 DEF n
<1>7. CASE Has(m, k) /\ k = 0
  <2>1. n = [cap |-> m.cap, key |-> m.key, value |-> m.value, zero |-> NoValue, used |-> FALSE,
             size |-> m.size - 1, remap |-> m.remap, load_fac |-> m.load_fac, found |-> TRUE]
    BY <1>1, <1>7 DEF n, Remove, Taken, Fields
  <2>2. /\ n.cap = m.cap /\ n.key = m.key /\ n.value = m.value /\ n.zero = NoValue /\ n.used = FALSE
        /\ n.size = m.size - 1 /\ n.remap = m.remap /\ n.load_fac = m.load_fac
        /\ n.found = TRUE /\ Fields(n)
    BY <2>1 DEF Fields
  <2>3. /\ m.size - 1 \in Nat /\ m.size - 1 < m.cap
        /\ m.size - 1 = Counted(m.key, m.cap, FALSE)
    <3>1. m.used = TRUE
      BY <1>2, <1>4, <1>7
    <3>2. m.size = Counted(m.key, m.cap, TRUE)
      BY <1>1, <3>1
    <3>3. m.size = Cardinality(Filled(m.key, m.cap)) + 1
      BY <1>5, <3>2
    <3>4. m.size - 1 = Cardinality(Filled(m.key, m.cap)) /\ m.size - 1 < m.cap
      BY <1>1, <1>2, <1>5, <3>3
    <3> QED
      BY <1>5, <3>4
  <2>4. MapOK(n)
    BY <1>1, <2>2, <2>3 DEF MapOK, Kept, Typed
  <2>5. \A e \in Entries(m.key, m.value, m.cap) : e[1] # 0
    BY DEF Entries, Filled
  <2>6. Pairs(n) = Without(Pairs(m), k)
    BY <1>7, <2>2, <2>5 DEF Pairs, Zero, Without
  <2>7. n.found = Has(m, k)
    BY <1>4, <1>7, <2>2
  <2> QED
    BY <2>4, <2>6, <2>7 DEF n
<1>8. CASE Has(m, k) /\ k # 0
  <2>1. n = [cap |-> m.cap, key |-> t.key, value |-> t.value, zero |-> m.zero, used |-> m.used,
             size |-> m.size - 1, remap |-> m.remap, load_fac |-> m.load_fac, found |-> TRUE]
    BY <1>1, <1>8 DEF n, s, t, Remove, Taken, Fields
  <2>2. /\ n.cap = m.cap /\ n.key = t.key /\ n.value = t.value /\ n.zero = m.zero /\ n.used = m.used
        /\ n.size = m.size - 1 /\ n.remap = m.remap /\ n.load_fac = m.load_fac
        /\ n.found = TRUE /\ Fields(n)
    BY <2>1 DEF Fields
  <2>3. s \in Slots(m.cap) /\ m.key[s] = k /\ s \in Filled(m.key, m.cap)
    BY <1>4, <1>8 DEF Filled
  <2>4. /\ Good(t.key, m.cap) /\ Values(t.value, m.cap)
        /\ Entries(t.key, t.value, m.cap) = Without(Entries(m.key, m.value, m.cap), k)
        /\ Cardinality(Filled(t.key, m.cap)) = Cardinality(Filled(m.key, m.cap)) - 1
    BY <1>1, <1>3, <1>8, <2>3, ClosedGood DEF t
  <2>5. Cardinality(Filled(m.key, m.cap)) # 0
    BY <1>5, <2>3, FS_EmptySet
  <2>6. m.size - 1 = Counted(t.key, m.cap, m.used) /\ m.size - 1 \in Nat /\ m.size - 1 < m.cap
    <3>1. m.size = Cardinality(Filled(m.key, m.cap)) + IF m.used THEN 1 ELSE 0
      BY <1>1 DEF Counted
    <3>2. Counted(t.key, m.cap, m.used) = Cardinality(Filled(m.key, m.cap)) - 1 + IF m.used THEN 1 ELSE 0
      BY <2>4 DEF Counted
    <3> QED
      BY <1>1, <1>2, <1>5, <2>5, <3>1, <3>2
  <2>7. Typed(n)
    BY <1>1, <2>2, <2>6 DEF Typed
  <2>8. MapOK(n)
    BY <1>1, <2>2, <2>4, <2>6, <2>7 DEF MapOK, Kept
  <2>9. Pairs(n) = Without(Pairs(m), k)
    BY <1>8, <2>2, <2>4 DEF Pairs, Zero, Without
  <2>10. n.found = Has(m, k)
    BY <1>4, <1>8, <2>2
  <2> QED
    BY <2>8, <2>9, <2>10 DEF n
<1> QED
  BY <1>4, <1>6, <1>7, <1>8

LEMMA BlankTable ==
  ASSUME NEW cap \in Nat \ {0}, NEW t, t = [i \in Slots(cap) |-> 0],
         NEW v, v = [i \in Slots(cap) |-> NoValue]
  PROVE  /\ Good(t, cap) /\ Values(v, cap) /\ Filled(t, cap) = {} /\ Entries(t, v, cap) = {}
         /\ Counted(t, cap, FALSE) = 0
PROOF
<1>1. t \in [Slots(cap) -> Key \cup {0}] /\ v \in [Slots(cap) -> Value \cup {NoValue}]
      /\ \A i \in Slots(cap) : t[i] = 0
  OBVIOUS
<1>2. Filled(t, cap) = {}
  BY <1>1 DEF Filled
<1>3. Entries(t, v, cap) = {}
  BY <1>2 DEF Entries
<1>4. Counted(t, cap, FALSE) = 0
  BY <1>2, FS_EmptySet DEF Counted
<1> QED
  BY <1>1, <1>2, <1>3, <1>4 DEF Good, Table, Probing, Once, Values

LEMMA EmptyOK ==
  ASSUME NEW percent \in 0..95
  PROVE  MapOK(Empty(percent)) /\ Pairs(Empty(percent)) = {}
PROOF
<1> DEFINE t == [i \in Slots(1) |-> 0]
           v == [i \in Slots(1) |-> NoValue]
           n == Empty(percent)
<1>1. n = [cap |-> 1, key |-> t, value |-> v, zero |-> NoValue, used |-> FALSE, size |-> 0,
           remap |-> 0, load_fac |-> percent, found |-> FALSE]
  BY DEF Empty
<1>2. 1 \in Nat \ {0} /\ 0 < 1 /\ 0 \in Nat
  OBVIOUS
<1>3. /\ Good(t, 1) /\ Values(v, 1) /\ Entries(t, v, 1) = {} /\ Counted(t, 1, FALSE) = 0
  BY <1>2, BlankTable
<1> HIDE DEF t, v, n
<1>4. /\ n.cap = 1 /\ n.key = t /\ n.value = v /\ n.zero = NoValue /\ n.used = FALSE /\ n.size = 0
      /\ n.remap = 0 /\ n.load_fac = percent /\ n.found = FALSE /\ Fields(n)
  BY <1>1 DEF Fields
<1>5. Typed(n)
  BY <1>2, <1>4 DEF Typed
<1>6. MapOK(n)
  BY <1>2, <1>3, <1>4, <1>5 DEF MapOK, Kept
<1>7. Pairs(n) = {}
  BY <1>3, <1>4 DEF Pairs, Zero
<1> QED
  BY <1>6, <1>7 DEF n

-----------------------------------------------------------------------------
(* The steps.                                                              *)
LEMMA PutOK ==
  ASSUME MapAssumption, MapInv, NEW k \in Key, NEW v \in ValuesOf[k], sc_map_put(k, v)
  PROVE  /\ MapInv'
         /\ \/ /\ Pairs(map') = With(Pairs(map), k, v)
               /\ reply' = [op |-> "put", key |-> k, value |-> v,
                            ret |-> Stored(sc_map_remap(map), k),
                            found |-> Has(sc_map_remap(map), k), oom |-> FALSE]
            \/ /\ map' = map
               /\ reply' = [op |-> "put", key |-> k, value |-> v, ret |-> NoValue,
                            found |-> map.found, oom |-> TRUE]
PROOF
<1>1. v \in Value
  BY DEF MapAssumption
<1>2. MapOK(map)
  BY DEF MapInv
<1>3. CASE map' = Store(sc_map_remap(map), k, v)
           /\ Return("put", k, v, Stored(sc_map_remap(map), k), map', FALSE)
  <2> DEFINE m == sc_map_remap(map)
  <2>1. Kept(m) /\ m.size + 1 < m.cap /\ m.remap < m.cap /\ Pairs(m) = Pairs(map)
    BY <1>2, RemapOK
  <2> HIDE DEF m
  <2>2. MapOK(Store(m, k, v)) /\ Pairs(Store(m, k, v)) = With(Pairs(m), k, v)
        /\ Store(m, k, v).found = Has(m, k)
    BY <1>1, <2>1, StoreOK
  <2>3. map' = Store(m, k, v)
    BY <1>3 DEF m
  <2>4. MapInv'
    BY <2>2, <2>3 DEF MapInv
  <2>5. Pairs(map') = With(Pairs(map), k, v) /\ map'.found = Has(m, k)
    BY <2>1, <2>2, <2>3
  <2> QED
    BY <1>3, <2>4, <2>5 DEF Return, m
<1>4. CASE UNCHANGED map /\ Return("put", k, v, NoValue, map, TRUE)
  BY <1>2, <1>4 DEF MapInv, Return
<1> QED
  BY <1>3, <1>4 DEF sc_map_put

LEMMA GetOK ==
  ASSUME MapAssumption, MapInv, NEW k \in Key, sc_map_get(k)
  PROVE  /\ MapInv' /\ Pairs(map') = Pairs(map)
         /\ reply' = [op |-> "get", key |-> k, value |-> NoValue, ret |-> Stored(map, k),
                      found |-> Has(map, k), oom |-> FALSE]
PROOF
<1> DEFINE n == [map EXCEPT !.found = Has(map, k)]
<1>1. /\ Fields(map) /\ Typed(map) /\ Good(map.key, map.cap) /\ Values(map.value, map.cap)
      /\ map.size = Counted(map.key, map.cap, map.used) /\ map.size < map.cap
      /\ map.remap < map.cap /\ Kept(map)
  BY DEF MapInv, MapOK, Kept
<1>2. Has(map, k) \in BOOLEAN
  BY <1>1, KeptRoom, HasValue
<1>3. n = [cap |-> map.cap, key |-> map.key, value |-> map.value, zero |-> map.zero,
           used |-> map.used, size |-> map.size, remap |-> map.remap,
           load_fac |-> map.load_fac, found |-> Has(map, k)]
  BY <1>1 DEF Fields
<1>4. map' = n
  BY DEF sc_map_get
<1> HIDE DEF n
<1>5. /\ n.cap = map.cap /\ n.key = map.key /\ n.value = map.value /\ n.zero = map.zero
      /\ n.used = map.used /\ n.size = map.size /\ n.remap = map.remap
      /\ n.load_fac = map.load_fac /\ n.found = Has(map, k) /\ Fields(n)
  BY <1>3 DEF Fields
<1>6. MapOK(n)
  BY <1>1, <1>2, <1>5 DEF MapOK, Kept, Typed
<1>7. Pairs(n) = Pairs(map)
  BY <1>5 DEF Pairs, Zero
<1>8. map'.found = Has(map, k)
  BY <1>4, <1>5
<1> QED
  BY <1>4, <1>6, <1>7, <1>8 DEF MapInv, sc_map_get, Return

LEMMA DelOK ==
  ASSUME MapAssumption, MapInv, NEW k \in Key, sc_map_del(k)
  PROVE  /\ MapInv' /\ Pairs(map') = Without(Pairs(map), k)
         /\ reply' = [op |-> "del", key |-> k, value |-> NoValue, ret |-> Stored(map, k),
                      found |-> Has(map, k), oom |-> FALSE]
PROOF
<1>1. MapOK(map)
  BY DEF MapInv
<1>2. map' = Remove(map, k) /\ Return("del", k, NoValue, Stored(map, k), map', FALSE)
  BY DEF sc_map_del
<1>3. /\ MapOK(Remove(map, k)) /\ Pairs(Remove(map, k)) = Without(Pairs(map), k)
      /\ Remove(map, k).found = Has(map, k)
  BY <1>1, RemoveOK
<1>4. map'.found = Has(map, k)
  BY <1>2, <1>3
<1> QED
  BY <1>2, <1>3, <1>4 DEF MapInv, Return

LEMMA ClearOK ==
  ASSUME MapAssumption, MapInv, sc_map_clear
  PROVE  /\ MapInv' /\ Pairs(map') = {}
         /\ reply' = [op |-> "clear", key |-> 0, value |-> NoValue, ret |-> NoValue,
                      found |-> map'.found, oom |-> FALSE]
PROOF
<1> DEFINE t == [i \in Slots(map.cap) |-> 0]
           v == [i \in Slots(map.cap) |-> NoValue]
<1>1. /\ Fields(map) /\ Typed(map) /\ map.size = Counted(map.key, map.cap, map.used)
      /\ map.size < map.cap /\ map.remap < map.cap
  BY DEF MapInv, MapOK, Kept
<1>2. map.cap \in Nat \ {0} /\ map.size \in Nat /\ map.used \in BOOLEAN
  BY <1>1 DEF Typed
<1>3. CASE map.size > 0
  <2>1. /\ Good(t, map.cap) /\ Values(v, map.cap) /\ Entries(t, v, map.cap) = {}
        /\ Counted(t, map.cap, FALSE) = 0
    BY <1>2, BlankTable
  <2>2. map' = [map EXCEPT !.key = t, !.used = FALSE, !.size = 0, !.value = v, !.zero = NoValue]
    BY <1>3 DEF sc_map_clear
  <2> HIDE DEF t, v
  <2>3. map' = [cap |-> map.cap, key |-> t, value |-> v, zero |-> NoValue, used |-> FALSE,
                size |-> 0, remap |-> map.remap, load_fac |-> map.load_fac, found |-> map.found]
    BY <1>1, <2>2 DEF Fields
  <2>4. /\ map'.cap = map.cap /\ map'.key = t /\ map'.value = v /\ map'.zero = NoValue
        /\ map'.used = FALSE /\ map'.size = 0 /\ map'.remap = map.remap
        /\ map'.load_fac = map.load_fac /\ map'.found = map.found /\ Fields(map')
    BY <2>3 DEF Fields
  <2>5. 0 < map.cap /\ 0 \in Nat
    BY <1>2
  <2>6. MapOK(map')
    BY <1>1, <2>1, <2>4, <2>5 DEF MapOK, Kept, Typed
  <2>7. Pairs(map') = {}
    BY <2>1, <2>4 DEF Pairs, Zero
  <2> QED
    BY <2>6, <2>7 DEF MapInv, sc_map_clear, Return
<1>4. CASE ~(map.size > 0)
  <2>1. map' = map
    BY <1>4 DEF sc_map_clear
  <2>2. Cardinality(Filled(map.key, map.cap)) = 0 /\ map.used = FALSE
    <3>1. map.size = 0
      BY <1>2, <1>4
    <3>2. /\ Cardinality(Filled(map.key, map.cap)) \in Nat
          /\ Counted(map.key, map.cap, TRUE) = Cardinality(Filled(map.key, map.cap)) + 1
          /\ Counted(map.key, map.cap, FALSE) = Cardinality(Filled(map.key, map.cap))
      BY <1>2, CountedValue
    <3>3. CASE map.used = TRUE
      <4>1. map.size = Cardinality(Filled(map.key, map.cap)) + 1
        BY <1>1, <3>2, <3>3
      <4> QED
        BY <3>1, <3>2, <4>1
    <3>4. CASE map.used = FALSE
      BY <1>1, <3>1, <3>2, <3>4
    <3> QED
      BY <1>2, <3>3, <3>4
  <2>3. Filled(map.key, map.cap) = {}
    BY <1>2, <2>2, CountedValue, FS_EmptySet
  <2>4. Pairs(map) = {}
    BY <2>2, <2>3 DEF Pairs, Zero, Entries
  <2> QED
    BY <2>1, <2>4 DEF MapInv, sc_map_clear, Return
<1> QED
  BY <1>3, <1>4

LEMMA TermOK ==
  ASSUME MapAssumption, MapInv, sc_map_term
  PROVE  /\ MapInv' /\ Pairs(map') = {}
         /\ reply' = [op |-> "term", key |-> 0, value |-> NoValue, ret |-> NoValue,
                      found |-> map'.found, oom |-> FALSE]
PROOF
<1>1. /\ Typed(map) /\ Good(map.key, map.cap) /\ map.size = Counted(map.key, map.cap, map.used)
      /\ map.size < map.cap
  BY DEF MapInv, MapOK, Kept
<1>2. CASE map.cap > 1
  <2>1. map' = Empty(0) /\ 0 \in 0..95
    BY <1>2 DEF sc_map_term
  <2>2. MapOK(Empty(0)) /\ Pairs(Empty(0)) = {}
    BY <2>1, EmptyOK
  <2>3. MapOK(map') /\ Pairs(map') = {}
    BY <2>1, <2>2
  <2> QED
    BY <2>3 DEF MapInv, sc_map_term, Return
<1>3. CASE ~(map.cap > 1)
  <2>1. map' = map
    BY <1>3 DEF sc_map_term
  <2>2. map.cap \in Nat \ {0} /\ map.size \in Nat /\ map.used \in BOOLEAN
    BY <1>1 DEF Typed
  <2>3. map.size = 0
    BY <1>1, <1>3, <2>2
  <2>4. /\ Cardinality(Filled(map.key, map.cap)) \in Nat
        /\ Counted(map.key, map.cap, TRUE) = Cardinality(Filled(map.key, map.cap)) + 1
        /\ Counted(map.key, map.cap, FALSE) = Cardinality(Filled(map.key, map.cap))
    BY <2>2, CountedValue
  <2>5. CASE map.used = TRUE
    <3>1. map.size = Cardinality(Filled(map.key, map.cap)) + 1
      BY <1>1, <2>4, <2>5
    <3> QED
      BY <2>3, <2>4, <3>1
  <2>6. CASE map.used = FALSE
    <3>1. Cardinality(Filled(map.key, map.cap)) = 0
      BY <1>1, <2>3, <2>4, <2>6
    <3>2. Filled(map.key, map.cap) = {}
      BY <2>2, <3>1, CountedValue, FS_EmptySet
    <3>3. Pairs(map) = {}
      BY <2>6, <3>2 DEF Pairs, Zero, Entries
    <3> QED
      BY <2>1, <3>3 DEF MapInv, sc_map_term, Return
  <2> QED
    BY <2>2, <2>5, <2>6
<1> QED
  BY <1>2, <1>3

LEMMA MapStarts ==
  ASSUME Init
  PROVE  MapInv /\ Pairs(map) = {}
PROOF
<1>1. map = Empty(75) /\ 75 \in 0..95
  BY DEF Init
<1> QED
  BY <1>1, EmptyOK DEF MapInv

LEMMA MapStays ==
  ASSUME MapAssumption, MapInv, [Next]_vars
  PROVE  MapInv'
PROOF
<1>1. ASSUME NEW k \in Key, NEW v \in ValuesOf[k], sc_map_put(k, v)
      PROVE  MapInv'
  BY <1>1, PutOK
<1>2. ASSUME NEW k \in Key, sc_map_get(k)
      PROVE  MapInv'
  BY <1>2, GetOK
<1>3. ASSUME NEW k \in Key, sc_map_del(k)
      PROVE  MapInv'
  BY <1>3, DelOK
<1>4. CASE sc_map_clear
  BY <1>4, ClearOK
<1>5. CASE sc_map_term
  BY <1>5, TermOK
<1>6. CASE UNCHANGED vars
  BY <1>6 DEF vars, MapInv
<1> QED
  BY <1>1, <1>2, <1>3, <1>4, <1>5, <1>6 DEF Next

(* MapInv is inductive, for every set of keys, hash and sequence of calls. *)
THEOREM MapInductiveInvariant == Spec => []MapInv
PROOF
<1>1. Init => MapInv
  BY MapStarts
<1>2. MapInv /\ [Next]_vars => MapInv'
  BY MapAssumption, MapStays
<1> QED
  BY <1>1, <1>2, PTL DEF Spec

(* Growing, shrinking and forgetting keep every field in its range.        *)
THEOREM MapTypeCorrect == Spec => []TypeOK
PROOF
<1>1. MapInv => TypeOK
  BY MapAssumption, MapOKSuffices
<1> QED
  BY <1>1, MapInductiveInvariant, PTL

(* No call leaves an entry where the probing loops do not come by, however *)
(* the keys collide: sc_map_remap puts every entry on its path, and the    *)
(* loop of sc_map_del takes no entry off it.                               *)
THEOREM EntriesStayReachable == Spec => []Reachable
PROOF
<1>1. MapInv => Reachable
  BY MapAssumption, MapOKSuffices
<1> QED
  BY <1>1, MapInductiveInvariant, PTL

(* size is the number of entries after every call.                         *)
THEOREM SizeAlwaysCounts == Spec => []SizeCounts
PROOF
<1>1. MapInv => SizeCounts
  BY MapAssumption, MapOKSuffices
<1> QED
  BY <1>1, MapInductiveInvariant, PTL

(* The loops over the slots always meet an empty one.                      *)
THEOREM LoopsAlwaysEnd == Spec => []LoopsEnd
PROOF
<1>1. MapInv => LoopsEnd
  BY MapAssumption, MapOKSuffices
<1> QED
  BY <1>1, MapInductiveInvariant, PTL

-----------------------------------------------------------------------------
(* The map implements KeyValue: its contents are the function whose pairs   *)
(* the table and the slot of key 0 hold.                                   *)
Describes(F, E) ==
  /\ F = [k \in DOMAIN F |-> F[k]]
  /\ \A k \in DOMAIN F : <<k, F[k]>> \in E
  /\ \A e \in E : e[1] \in DOMAIN F /\ e = <<e[1], F[e[1]]>>

ContentsOf(m) ==
  [k \in {m.key[i] : i \in Occupied(m)} \cup (IF m.used THEN {0} ELSE {}) |->
     IF k = 0 THEN m.zero ELSE m.value[CHOOSE i \in Occupied(m) : m.key[i] = k]]

LEMMA ContentsHold ==
  ASSUME NEW m, MapOK(m)
  PROVE  Describes(ContentsOf(m), Pairs(m))
PROOF
<1> DEFINE F == ContentsOf(m)
           O == Filled(m.key, m.cap)
<1>1. Once(m.key, m.cap) /\ m.used \in BOOLEAN
  BY DEF MapOK, Kept, Good, Typed
<1>2. Occupied(m) = O
  BY DEF Occupied, Filled
<1>3. /\ DOMAIN F = {m.key[i] : i \in O} \cup (IF m.used THEN {0} ELSE {})
      /\ F = [k \in DOMAIN F |-> F[k]]
      /\ \A k \in DOMAIN F : F[k] = IF k = 0 THEN m.zero ELSE m.value[CHOOSE i \in O : m.key[i] = k]
  BY <1>2 DEF ContentsOf
<1>4. \A i \in O : i \in Slots(m.cap) /\ m.key[i] # 0
  BY DEF Filled
<1> HIDE DEF F, O
<1>5. ASSUME NEW i \in O
      PROVE  m.key[i] \in DOMAIN F /\ F[m.key[i]] = m.value[i]
  <2>1. m.key[i] \in DOMAIN F /\ m.key[i] # 0
    BY <1>3, <1>4
  <2>2. (CHOOSE j \in O : m.key[j] = m.key[i]) = i
    <3> DEFINE j == CHOOSE j \in O : m.key[j] = m.key[i]
    <3>1. j \in O /\ m.key[j] = m.key[i]
      OBVIOUS
    <3> HIDE DEF j
    <3>2. j = i
      BY <1>1, <1>4, <3>1 DEF Once
    <3> QED
      BY <3>2 DEF j
  <2> QED
    BY <1>3, <2>1, <2>2
<1>6. m.used => 0 \in DOMAIN F /\ F[0] = m.zero
  BY <1>3
<1>7. ASSUME NEW k \in DOMAIN F
      PROVE  <<k, F[k]>> \in Pairs(m)
  <2>1. CASE \E i \in O : k = m.key[i]
    <3>1. PICK i \in O : k = m.key[i]
      BY <2>1
    <3>2. <<k, F[k]>> = <<m.key[i], m.value[i]>>
      BY <1>5, <3>1
    <3> QED
      BY <3>2 DEF Pairs, Entries, O
  <2>2. CASE m.used /\ k = 0
    BY <1>6, <2>2 DEF Pairs, Zero
  <2> QED
    BY <1>3, <2>1, <2>2
<1>8. ASSUME NEW e \in Pairs(m)
      PROVE  e[1] \in DOMAIN F /\ e = <<e[1], F[e[1]]>>
  <2>1. CASE e \in Entries(m.key, m.value, m.cap)
    <3>1. PICK i \in O : e = <<m.key[i], m.value[i]>>
      BY <2>1 DEF Entries, O
    <3> QED
      BY <1>5, <3>1
  <2>2. CASE e \in Zero(m)
    BY <1>6, <2>2 DEF Zero
  <2> QED
    BY <2>1, <2>2 DEF Pairs
<1> QED
  BY <1>3, <1>7, <1>8 DEF Describes, F

LEMMA DescribesOnce ==
  ASSUME NEW E, NEW F, NEW G, Describes(F, E), Describes(G, E)
  PROVE  F = G
PROOF
<1>1. DOMAIN F = DOMAIN G
  BY DEF Describes
<1>2. \A k \in DOMAIN F : F[k] = G[k]
  BY <1>1 DEF Describes
<1> QED
  BY <1>1, <1>2 DEF Describes

LEMMA DescribesWith ==
  ASSUME NEW E, NEW F, Describes(F, E), NEW k, NEW v
  PROVE  Describes([x \in DOMAIN F \cup {k} |-> IF x = k THEN v ELSE F[x]], With(E, k, v))
PROOF
<1> DEFINE G == [x \in DOMAIN F \cup {k} |-> IF x = k THEN v ELSE F[x]]
<1>1. DOMAIN G = DOMAIN F \cup {k} /\ G = [x \in DOMAIN G |-> G[x]]
      /\ G[k] = v /\ \A x \in DOMAIN F : x # k => G[x] = F[x]
  OBVIOUS
<1> HIDE DEF G
<1>2. ASSUME NEW x \in DOMAIN G
      PROVE  <<x, G[x]>> \in With(E, k, v)
  <2>1. CASE x = k
    BY <1>1, <2>1 DEF With
  <2>2. CASE x # k
    <3>1. <<x, F[x]>> \in E /\ G[x] = F[x]
      BY <1>1, <2>2 DEF Describes
    <3> QED
      BY <2>2, <3>1 DEF With, Without
  <2> QED
    BY <2>1, <2>2
<1>3. ASSUME NEW e \in With(E, k, v)
      PROVE  e[1] \in DOMAIN G /\ e = <<e[1], G[e[1]]>>
  <2>1. CASE e \in E /\ e[1] # k
    <3>1. e[1] \in DOMAIN F /\ e = <<e[1], F[e[1]]>>
      BY <2>1 DEF Describes
    <3> QED
      BY <1>1, <2>1, <3>1
  <2>2. CASE e = <<k, v>>
    BY <1>1, <2>2
  <2> QED
    BY <2>1, <2>2 DEF With, Without
<1> QED
  BY <1>1, <1>2, <1>3 DEF Describes, G

LEMMA DescribesWithout ==
  ASSUME NEW E, NEW F, Describes(F, E), NEW k
  PROVE  Describes([x \in DOMAIN F \ {k} |-> F[x]], Without(E, k))
PROOF
<1> DEFINE G == [x \in DOMAIN F \ {k} |-> F[x]]
<1>1. DOMAIN G = DOMAIN F \ {k} /\ G = [x \in DOMAIN G |-> G[x]]
      /\ \A x \in DOMAIN F : x # k => G[x] = F[x]
  OBVIOUS
<1> HIDE DEF G
<1>2. ASSUME NEW x \in DOMAIN G
      PROVE  <<x, G[x]>> \in Without(E, k)
  <2>1. <<x, F[x]>> \in E /\ G[x] = F[x] /\ x # k
    BY <1>1 DEF Describes
  <2> QED
    BY <2>1 DEF Without
<1>3. ASSUME NEW e \in Without(E, k)
      PROVE  e[1] \in DOMAIN G /\ e = <<e[1], G[e[1]]>>
  <2>1. e \in E /\ e[1] # k /\ e[1] \in DOMAIN F /\ e = <<e[1], F[e[1]]>>
    BY DEF Describes, Without
  <2> QED
    BY <1>1, <2>1
<1> QED
  BY <1>1, <1>2, <1>3 DEF Describes, G

LEMMA DescribesNothing == Describes(<<>>, {})
PROOF
<1> QED
  BY DEF Describes

(* What a call answers of a key is what the function says of it.           *)
LEMMA Answers ==
  ASSUME MapAssumption, NEW m, Kept(m), HasRoom(m.key, m.cap), NEW k \in Key, NEW F, Describes(F, Pairs(m))
  PROVE  /\ Has(m, k) = (k \in DOMAIN F)
         /\ Stored(m, k) = IF k \in DOMAIN F THEN F[k] ELSE NoValue
PROOF
<1>1. /\ Has(m, k) \in BOOLEAN
      /\ Has(m, k) => <<k, Stored(m, k)>> \in Pairs(m)
      /\ ~Has(m, k) => Stored(m, k) = NoValue /\ \A e \in Pairs(m) : e[1] # k
  BY HasValue
<1>2. CASE Has(m, k)
  <2>1. <<k, Stored(m, k)>>[1] \in DOMAIN F
        /\ <<k, Stored(m, k)>> = <<<<k, Stored(m, k)>>[1], F[<<k, Stored(m, k)>>[1]]>>
    BY <1>1, <1>2 DEF Describes
  <2>2. k \in DOMAIN F /\ Stored(m, k) = F[k]
    BY <2>1
  <2> QED
    BY <1>1, <1>2, <2>2
<1>3. CASE ~Has(m, k)
  <2>1. k \notin DOMAIN F
    <3>1. k \in DOMAIN F => <<k, F[k]>> \in Pairs(m)
      BY DEF Describes
    <3> QED
      BY <1>1, <1>3, <3>1
  <2> QED
    BY <1>1, <1>3, <2>1
<1> QED
  BY <1>2, <1>3

LEMMA ContentsAre ==
  ASSUME MapAssumption, MapInv
  PROVE  Contents = ContentsOf(map) /\ Describes(Contents, Pairs(map))
PROOF
<1>1. Contents = ContentsOf(map)
  BY DEF Contents, ContentsOf
<1>2. Describes(ContentsOf(map), Pairs(map))
  BY ContentsHold DEF MapInv
<1> QED
  BY <1>1, <1>2

LEMMA ContentsBecome ==
  ASSUME MapAssumption, MapInv', NEW F, Describes(F, Pairs(map'))
  PROVE  Contents' = F
PROOF
<1>1. Contents' = ContentsOf(map')
  BY DEF Contents, ContentsOf, Occupied
<1>2. Describes(ContentsOf(map'), Pairs(map'))
  BY ContentsHold DEF MapInv
<1> QED
  BY <1>1, <1>2, DescribesOnce

LEMMA RefinesInit ==
  ASSUME MapAssumption, Init
  PROVE  Abstract!Init
PROOF
<1>1. MapInv /\ Pairs(map) = {}
  BY MapStarts
<1>2. Describes(Contents, {})
  BY <1>1, ContentsAre
<1>3. Contents = <<>>
  BY <1>2, DescribesNothing, DescribesOnce
<1> QED
  BY <1>3 DEF Init, Abstract!Init

LEMMA RefinesPut ==
  ASSUME MapAssumption, MapInv, NEW k \in Key, NEW v \in ValuesOf[k], sc_map_put(k, v)
  PROVE  Abstract!Put(k, v) \/ Abstract!PutFails(k, v)
PROOF
<1> DEFINE m == sc_map_remap(map)
<1>1. MapInv' /\ Describes(Contents, Pairs(map)) /\ map.found \in BOOLEAN
  BY PutOK, ContentsAre DEF MapInv, MapOK, Kept, Typed
<1>2. CASE /\ Pairs(map') = With(Pairs(map), k, v)
           /\ reply' = [op |-> "put", key |-> k, value |-> v, ret |-> Stored(m, k),
                        found |-> Has(m, k), oom |-> FALSE]
  <2>1. Contents' = [x \in DOMAIN Contents \cup {k} |-> IF x = k THEN v ELSE Contents[x]]
    <3> DEFINE F == [x \in DOMAIN Contents \cup {k} |-> IF x = k THEN v ELSE Contents[x]]
    <3>1. Describes(F, With(Pairs(map), k, v))
      BY <1>1, DescribesWith, Zenon
    <3> HIDE DEF F
    <3>2. Contents' = F
      BY <1>1, <1>2, <3>1, ContentsBecome
    <3> QED
      BY <3>2 DEF F
  <2>2. Kept(m) /\ m.size + 1 < m.cap /\ Pairs(m) = Pairs(map)
    BY RemapOK DEF MapInv
  <2> HIDE DEF m
  <2>3. HasRoom(m.key, m.cap)
    <3>1. m.size \in Nat /\ m.cap \in Nat
      BY <2>2 DEF Kept, Typed
    <3> QED
      BY <2>2, <3>1, KeptRoom
  <2>4. /\ Has(m, k) = (k \in DOMAIN Contents)
        /\ Stored(m, k) = IF k \in DOMAIN Contents THEN Contents[k] ELSE NoValue
    BY <1>1, <2>2, <2>3, Answers
  <2>5. reply' = [op |-> "put", key |-> k, value |-> v,
                  ret |-> IF k \in DOMAIN Contents THEN Contents[k] ELSE NoValue,
                  found |-> k \in DOMAIN Contents, oom |-> FALSE]
    BY <1>2, <2>4
  <2> QED
    BY <2>1, <2>5 DEF Abstract!Put, Abstract!Return, Abstract!Current, Abstract!Found
<1>3. CASE /\ map' = map
           /\ reply' = [op |-> "put", key |-> k, value |-> v, ret |-> NoValue,
                        found |-> map.found, oom |-> TRUE]
  <2>1. Contents' = Contents
    BY <1>1, <1>3, ContentsBecome
  <2> QED
    BY <1>1, <1>3, <2>1 DEF Abstract!PutFails
<1> QED
  BY <1>2, <1>3, PutOK

LEMMA RefinesGet ==
  ASSUME MapAssumption, MapInv, NEW k \in Key, sc_map_get(k)
  PROVE  Abstract!Get(k)
PROOF
<1>1. /\ MapInv' /\ Pairs(map') = Pairs(map)
      /\ reply' = [op |-> "get", key |-> k, value |-> NoValue, ret |-> Stored(map, k),
                   found |-> Has(map, k), oom |-> FALSE]
  BY GetOK
<1>2. Describes(Contents, Pairs(map)) /\ Kept(map) /\ HasRoom(map.key, map.cap)
  BY ContentsAre, KeptRoom DEF MapInv, MapOK
<1>3. Contents' = Contents
  BY <1>1, <1>2, ContentsBecome
<1>4. /\ Has(map, k) = (k \in DOMAIN Contents)
      /\ Stored(map, k) = IF k \in DOMAIN Contents THEN Contents[k] ELSE NoValue
  BY <1>2, Answers
<1> QED
  BY <1>1, <1>3, <1>4 DEF Abstract!Get, Abstract!Return, Abstract!Current, Abstract!Found

LEMMA RefinesDel ==
  ASSUME MapAssumption, MapInv, NEW k \in Key, sc_map_del(k)
  PROVE  Abstract!Del(k)
PROOF
<1>1. /\ MapInv' /\ Pairs(map') = Without(Pairs(map), k)
      /\ reply' = [op |-> "del", key |-> k, value |-> NoValue, ret |-> Stored(map, k),
                   found |-> Has(map, k), oom |-> FALSE]
  BY DelOK
<1>2. Describes(Contents, Pairs(map)) /\ Kept(map) /\ HasRoom(map.key, map.cap)
  BY ContentsAre, KeptRoom DEF MapInv, MapOK
<1>3. Contents' = [x \in DOMAIN Contents \ {k} |-> Contents[x]]
  <2> DEFINE F == [x \in DOMAIN Contents \ {k} |-> Contents[x]]
  <2>1. Describes(F, Without(Pairs(map), k))
    BY <1>2, DescribesWithout, Zenon
  <2> HIDE DEF F
  <2>2. Contents' = F
    BY <1>1, <2>1, ContentsBecome
  <2> QED
    BY <2>2 DEF F
<1>4. /\ Has(map, k) = (k \in DOMAIN Contents)
      /\ Stored(map, k) = IF k \in DOMAIN Contents THEN Contents[k] ELSE NoValue
  BY <1>2, Answers
<1> QED
  BY <1>1, <1>3, <1>4 DEF Abstract!Del, Abstract!Return, Abstract!Current, Abstract!Found

LEMMA RefinesForget ==
  ASSUME MapAssumption, MapInv, sc_map_clear \/ sc_map_term
  PROVE  Abstract!Forget("clear") \/ Abstract!Forget("term")
PROOF
<1>1. MapInv' /\ Pairs(map') = {}
  BY ClearOK, TermOK
<1>2. Contents' = <<>>
  BY <1>1, DescribesNothing, ContentsBecome
<1>3. map'.found \in BOOLEAN
  BY <1>1 DEF MapInv, MapOK, Kept, Typed
<1>4. CASE sc_map_clear
  BY <1>2, <1>3, <1>4, ClearOK DEF Abstract!Forget, Abstract!Return
<1>5. CASE sc_map_term
  BY <1>2, <1>3, <1>5, TermOK DEF Abstract!Forget, Abstract!Return
<1> QED
  BY <1>4, <1>5

LEMMA RefinesNext ==
  ASSUME MapAssumption, MapInv, [Next]_vars
  PROVE  [Abstract!Next]_(Abstract!vars)
PROOF
<1>1. ASSUME NEW k \in Key, NEW v \in ValuesOf[k], sc_map_put(k, v)
      PROVE  Abstract!Next
  <2>1. v \in Value
    BY DEF MapAssumption
  <2> QED
    BY <1>1, <2>1, RefinesPut DEF Abstract!Next
<1>2. ASSUME NEW k \in Key, sc_map_get(k) \/ sc_map_del(k)
      PROVE  Abstract!Next
  BY <1>2, RefinesGet, RefinesDel DEF Abstract!Next
<1>3. CASE sc_map_clear \/ sc_map_term
  BY <1>3, RefinesForget DEF Abstract!Next
<1>4. CASE UNCHANGED vars
  BY <1>4 DEF vars, Abstract!vars, Contents, Occupied
<1> QED
  BY <1>1, <1>2, <1>3, <1>4 DEF Next

(* Whatever was put and deleted before, however the keys collide and the   *)
(* table grows, every call of sc_map.c answers and changes what a function *)
(* from keys to values would.                                              *)
THEOREM MapImplementsKeyValue == Spec => ImplementsKeyValue
PROOF
<1>1. Init => Abstract!Init
  BY MapAssumption, RefinesInit
<1>2. MapInv /\ [Next]_vars => [Abstract!Next]_(Abstract!vars)
  BY MapAssumption, RefinesNext
<1> QED
  BY <1>1, <1>2, MapInductiveInvariant, PTL DEF Spec, ImplementsKeyValue, Abstract!Spec

-----------------------------------------------------------------------------
(* Loops over a map: the turns of a round, one slot after the other.        *)
KeyAt(m, i) == IF i = -1 THEN 0 ELSE m.key[i]

(* What one turn makes of the map t.map.                                   *)
Turned(t, i, dead) ==
  IF Holds(t.map, i)
  THEN [map |-> Clean(t.map, KeyAt(t.map, i), dead), visited |-> Append(t.visited, KeyAt(t.map, i))]
  ELSE t

Turn(m, dead, f, i) ==
  IF i < FirstSlot THEN [map |-> m, visited |-> <<>>] ELSE Turned(f[i - 1], i, dead)

LEMMA RoundDef ==
  ASSUME NEW m, m.cap \in Nat, NEW dead
  PROVE  \E f : /\ f = [i \in (FirstSlot - 1)..(m.cap - 1) |-> Turn(m, dead, f, i)]
                /\ Round(m, dead) = f[m.cap - 1]
PROOF
<1> USE DEF FirstSlot
<1> DEFINE Upto(n) == (FirstSlot - 1)..(n - 2)
           T == {n \in Nat : \E f : f = [i \in Upto(n) |-> Turn(m, dead, f, i)]}
<1>1. 0 \in T
  <2> DEFINE f == [i \in Upto(0) |-> Turn(m, dead, <<>>, i)]
  <2>1. f = [i \in Upto(0) |-> Turn(m, dead, f, i)]
    BY DEF Turn
  <2> HIDE DEF f
  <2> QED
    BY <2>1
<1>2. ASSUME NEW n \in Nat, n \in T
      PROVE  n + 1 \in T
  <2>1. PICK g : g = [i \in Upto(n) |-> Turn(m, dead, g, i)]
    BY <1>2
  <2> DEFINE f == [i \in Upto(n + 1) |-> IF i = n - 1 THEN Turn(m, dead, g, i) ELSE g[i]]
  <2>2. ASSUME NEW i \in Upto(n + 1)
        PROVE  f[i] = Turn(m, dead, f, i)
    <3>1. i >= FirstSlot => f[i - 1] = g[i - 1]
      OBVIOUS
    <3>2. Turn(m, dead, f, i) = Turn(m, dead, g, i)
      <4> HIDE DEF f
      <4> QED
        BY <3>1 DEF Turn
    <3>3. CASE i = n - 1
      BY <3>2, <3>3
    <3>4. CASE i # n - 1
      <4>1. i \in Upto(n) /\ f[i] = g[i]
        BY <3>4
      <4> QED
        BY <2>1, <3>2, <4>1
    <3> QED
      BY <3>3, <3>4
  <2>3. f = [i \in Upto(n + 1) |-> f[i]]
    OBVIOUS
  <2> HIDE DEF f
  <2>4. f = [i \in Upto(n + 1) |-> Turn(m, dead, f, i)]
    BY <2>2, <2>3
  <2> QED
    BY <2>4
<1> HIDE DEF T
<1>3. m.cap + 1 \in T
  BY <1>1, <1>2, SetInduction
<1> DEFINE g == CHOOSE f : f = [i \in (FirstSlot - 1)..(m.cap - 1) |-> Turn(m, dead, f, i)]
<1>4. g = [i \in (FirstSlot - 1)..(m.cap - 1) |-> Turn(m, dead, g, i)]
  <2>1. Upto(m.cap + 1) = (FirstSlot - 1)..(m.cap - 1)
    OBVIOUS
  <2> QED
    BY <1>3, <2>1 DEF T
<1>5. Round(m, dead) = g[m.cap - 1]
  BY DEF Round, Turn, Turned, KeyAt
<1> HIDE DEF g
<1> QED
  BY <1>4, <1>5

LEMMA VisitsValue ==
  ASSUME NEW s \in Seq(Nat), NEW e \in Nat, NEW k, NEW p, NEW q
  PROVE  /\ Append(s, e) \in Seq(Nat)
         /\ Visits([map |-> p, visited |-> s], k) \in Nat
         /\ Visits([map |-> q, visited |-> Append(s, e)], k) =
              Visits([map |-> p, visited |-> s], k) + IF e = k THEN 1 ELSE 0
PROOF
<1> DEFINE S == {i \in DOMAIN s : s[i] = k}
           A == {i \in DOMAIN Append(s, e) : Append(s, e)[i] = k}
<1>1. Len(s) \in Nat /\ DOMAIN s = 1..Len(s) /\ DOMAIN Append(s, e) = 1..(Len(s) + 1)
      /\ Append(s, e)[Len(s) + 1] = e /\ \A i \in 1..Len(s) : Append(s, e)[i] = s[i]
  OBVIOUS
<1>2. A = IF e = k THEN S \cup {Len(s) + 1} ELSE S
  BY <1>1
<1>3. IsFiniteSet(S) /\ Cardinality(S) \in Nat
  <2>1. IsFiniteSet(1..Len(s))
    BY <1>1, FS_Interval
  <2>2. S \subseteq 1..Len(s)
    BY <1>1
  <2> QED
    BY <2>1, <2>2, FS_Subset, FS_CardinalityType
<1>4. Len(s) + 1 \notin S
  BY <1>1
<1> HIDE DEF S, A
<1>5. Cardinality(A) = Cardinality(S) + IF e = k THEN 1 ELSE 0
  <2>1. CASE e = k
    BY <1>2, <1>3, <1>4, <2>1, FS_AddElement
  <2>2. CASE e # k
    BY <1>2, <1>3, <2>2
  <2> QED
    BY <2>1, <2>2
<1>6. Append(s, e) \in Seq(Nat)
  OBVIOUS
<1>7. /\ Visits([map |-> p, visited |-> s], k) = Cardinality(S)
      /\ Visits([map |-> q, visited |-> Append(s, e)], k) = Cardinality(A)
  BY DEF Visits, S, A
<1> QED
  BY <1>3, <1>5, <1>6, <1>7

LEMMA VisitsNone ==
  ASSUME NEW m, NEW k
  PROVE  Visits([map |-> m, visited |-> <<>>], k) = 0
PROOF
<1>1. {i \in DOMAIN <<>> : <<>>[i] = k} = {}
  OBVIOUS
<1> QED
  BY <1>1, FS_EmptySet DEF Visits

(* A round has come by a key's entry.                                      *)
Passed(m, k, i) == \E j \in FirstSlot..i : Holds(m, j) /\ KeyAt(m, j) = k

LEMMA PassedValue ==
  ASSUME NEW m, NEW k, NEW i \in Int, FirstSlot <= i
  PROVE  /\ Passed(m, k, i) = (Passed(m, k, i - 1) \/ (Holds(m, i) /\ KeyAt(m, i) = k))
         /\ ~Passed(m, k, FirstSlot - 1)
PROOF
<1> USE DEF FirstSlot
<1>1. FirstSlot..i = FirstSlot..(i - 1) \cup {i}
  OBVIOUS
<1>2. FirstSlot..(FirstSlot - 1) = {}
  OBVIOUS
<1> QED
  BY <1>1, <1>2 DEF Passed

(* Where the slots are and what the map has are the same keys.             *)
LEMMA SlotsHave ==
  ASSUME MapAssumption, NEW m, MapOK(m), NEW k \in Key
  PROVE  /\ Has(m, k) \in BOOLEAN
         /\ Has(m, k) = Passed(m, k, m.cap - 1)
         /\ \A i \in FirstSlot..(m.cap - 1) : Holds(m, i) /\ KeyAt(m, i) = k =>
              Has(m, k) /\ ~Passed(m, k, i - 1)
PROOF
<1> USE DEF FirstSlot
<1>1. Good(m.key, m.cap) /\ m.cap \in Nat \ {0} /\ m.used \in BOOLEAN
  BY DEF MapOK, Kept, Good, Table, Typed
<1>2. Kept(m) /\ HasRoom(m.key, m.cap)
  BY KeptRoom DEF MapOK
<1>3. \A i \in FirstSlot..(m.cap - 1) : i = -1 \/ i \in Slots(m.cap)
  BY <1>1 DEF Slots
<1>4. \A i \in Slots(m.cap) : i # -1 /\ i \in FirstSlot..(m.cap - 1)
  BY <1>1 DEF Slots
<1>5. Has(m, k) \in BOOLEAN
  BY <1>2, HasValue
<1>6. CASE k = 0
  <2>1. Has(m, k) = m.used
    BY <1>6 DEF Has
  <2>2. \A i \in FirstSlot..(m.cap - 1) : Holds(m, i) /\ KeyAt(m, i) = 0 => i = -1
    BY <1>3 DEF Holds, KeyAt
  <2>3. -1 \in FirstSlot..(m.cap - 1) /\ Holds(m, -1) = m.used /\ KeyAt(m, -1) = 0
    BY <1>1 DEF Holds, KeyAt
  <2>4. ~Passed(m, k, -1 - 1)
    BY DEF Passed
  <2> QED
    BY <1>5, <1>6, <2>1, <2>2, <2>3, <2>4 DEF Passed
<1>7. CASE k # 0
  <2> DEFINE s == Find(m.key, m.cap, k)
  <2>1. /\ s \in Slots(m.cap) /\ \A j \in Slots(m.cap) : m.key[j] = k => j = s
    BY <1>1, <1>2, <1>7, FindFinds
  <2>2. Has(m, k) = (m.key[s] = k)
    BY <1>7 DEF Has
  <2> HIDE DEF s
  <2>3. ASSUME NEW i \in FirstSlot..(m.cap - 1)
        PROVE  (Holds(m, i) /\ KeyAt(m, i) = k) <=> (i = s /\ m.key[s] = k)
    <3>1. CASE i = -1
      BY <1>4, <1>7, <2>1, <3>1 DEF KeyAt
    <3>2. CASE i # -1
      BY <1>3, <1>7, <2>1, <3>2 DEF KeyAt, Holds
    <3> QED
      BY <3>1, <3>2
  <2>4. s \in FirstSlot..(m.cap - 1)
    BY <1>4, <2>1
  <2>5. Has(m, k) = Passed(m, k, m.cap - 1)
    BY <2>2, <2>3, <2>4 DEF Passed
  <2>6. ~Passed(m, k, s - 1)
    <3>1. \A j \in FirstSlot..(s - 1) : j \in FirstSlot..(m.cap - 1) /\ j # s
      BY <1>1, <2>1 DEF Slots
    <3> QED
      BY <2>3, <3>1 DEF Passed
  <2> QED
    BY <1>5, <2>2, <2>3, <2>5, <2>6
<1> QED
  BY <1>6, <1>7

(* A loop that changes nothing: it has visited the keys it came by, once.  *)
LookInv(m, r, i) ==
  /\ r = [map |-> m, visited |-> r.visited] /\ r.visited \in Seq(Nat)
  /\ \A k \in Key : Visits(r, k) = IF Passed(m, k, i) THEN 1 ELSE 0

(* The keys of the slots are natural numbers.                              *)
LEMMA KeyAtValue ==
  ASSUME MapAssumption, NEW m, MapOK(m), NEW i \in FirstSlot..(m.cap - 1)
  PROVE  KeyAt(m, i) \in Nat /\ KeyAt(m, i) \in Key \cup {0}
PROOF
<1>1. m.cap \in Nat \ {0} /\ m.key \in [Slots(m.cap) -> Key \cup {0}]
  BY DEF MapOK, Kept, Good, Table
<1>2. i = -1 \/ i \in Slots(m.cap)
  BY <1>1 DEF Slots, FirstSlot
<1>3. Key \subseteq Nat
  BY DEF MapAssumption
<1>4. CASE i = -1
  BY <1>4 DEF KeyAt
<1>5. CASE i # -1
  <2>1. KeyAt(m, i) = m.key[i] /\ m.key[i] \in Key \cup {0}
    BY <1>1, <1>2, <1>5 DEF KeyAt
  <2>2. KeyAt(m, i) \in Key \/ KeyAt(m, i) = 0
    BY <2>1
  <2>3. \A x : x \in Key => x \in Nat
    BY <1>3
  <2>4. KeyAt(m, i) \in Nat
    BY <2>2, <2>3
  <2> QED
    BY <2>1, <2>4
<1> QED
  BY <1>4, <1>5

LEMMA LookTurn ==
  ASSUME MapAssumption, NEW m, MapOK(m), NEW i \in FirstSlot..(m.cap - 1),
         NEW r, LookInv(m, r, i - 1)
  PROVE  LookInv(m, Turned(r, i, {}), i)
PROOF
<1> DEFINE e == KeyAt(m, i)
           s == r.visited
<1>1. r = [map |-> m, visited |-> s] /\ s \in Seq(Nat) /\ r.map = m
  BY DEF LookInv
<1>2. i \in Int /\ FirstSlot <= i
  BY DEF FirstSlot, MapOK, Kept, Typed
<1>3. ASSUME NEW k \in Key
      PROVE  /\ Passed(m, k, i) = (Passed(m, k, i - 1) \/ (Holds(m, i) /\ e = k))
             /\ Holds(m, i) /\ e = k => ~Passed(m, k, i - 1)
             /\ Visits(r, k) = IF Passed(m, k, i - 1) THEN 1 ELSE 0
  BY <1>2, PassedValue, SlotsHave DEF LookInv
<1>4. e \in Nat
  BY KeyAtValue
<1> HIDE DEF e, s
<1>5. CASE Holds(m, i)
  <2> DEFINE q == [map |-> m, visited |-> Append(s, e)]
  <2>1. Turned(r, i, {}) = q
    BY <1>1, <1>5 DEF Turned, Clean, e, s
  <2>2. q = [map |-> m, visited |-> q.visited] /\ q.visited \in Seq(Nat)
    BY <1>1, <1>4
  <2>3. ASSUME NEW k \in Key
        PROVE  Visits(q, k) = IF Passed(m, k, i) THEN 1 ELSE 0
    <3>1. Visits(q, k) = Visits(r, k) + IF e = k THEN 1 ELSE 0
      BY <1>1, <1>4, VisitsValue
    <3> HIDE DEF q
    <3>2. CASE e = k
      <4>1. Passed(m, k, i) /\ Visits(r, k) = 0
        BY <1>3, <1>5, <3>2
      <4> QED
        BY <3>1, <3>2, <4>1
    <3>3. CASE e # k
      <4>1. Visits(r, k) = IF Passed(m, k, i) THEN 1 ELSE 0
        BY <1>3, <3>3
      <4> QED
        BY <3>1, <3>3, <4>1
    <3> QED
      BY <3>2, <3>3
  <2> HIDE DEF q
  <2> QED
    BY <2>1, <2>2, <2>3 DEF LookInv
<1>6. CASE ~Holds(m, i)
  <2>1. Turned(r, i, {}) = r
    BY <1>1, <1>6 DEF Turned
  <2> QED
    BY <1>1, <1>3, <1>6, <2>1 DEF LookInv, s
<1> QED
  BY <1>5, <1>6

LEMMA LooksOnce ==
  ASSUME MapAssumption, NEW m, MapOK(m), NEW k \in Key
  PROVE  Visits(Round(m, {}), k) = IF Has(m, k) THEN 1 ELSE 0
PROOF
<1> USE DEF FirstSlot
<1>1. m.cap \in Nat \ {0}
  BY DEF MapOK, Kept, Typed
<1>2. PICK f : /\ f = [i \in (FirstSlot - 1)..(m.cap - 1) |-> Turn(m, {}, f, i)]
               /\ Round(m, {}) = f[m.cap - 1]
  BY <1>1, RoundDef
<1>3. \A i \in (FirstSlot - 1)..(m.cap - 1) : f[i] = Turn(m, {}, f, i)
  BY <1>2, Zenon
<1> DEFINE T == {n \in Nat : LookInv(m, f[n - 2], n - 2)}
<1>4. 0 \in T
  <2>1. f[FirstSlot - 1] = [map |-> m, visited |-> <<>>]
    <3>1. f[FirstSlot - 1] = Turn(m, {}, f, FirstSlot - 1)
      BY <1>1, <1>3
    <3> QED
      BY <3>1 DEF Turn
  <2>2. \A x \in Key : ~Passed(m, x, FirstSlot - 1)
    BY PassedValue
  <2>3. \A x \in Key : Visits([map |-> m, visited |-> <<>>], x) = 0
    BY VisitsNone
  <2>4. LookInv(m, f[FirstSlot - 1], FirstSlot - 1)
    BY <2>1, <2>2, <2>3 DEF LookInv
  <2> QED
    BY <2>4
<1>5. ASSUME NEW n \in 0..((m.cap + 1) - 1), n \in T
      PROVE  n + 1 \in T
  <2> DEFINE i == n - 1
  <2>1. i \in FirstSlot..(m.cap - 1) /\ i - 1 = n - 2 /\ (n + 1) - 2 = i /\ ~(i < FirstSlot)
        /\ i \in (FirstSlot - 1)..(m.cap - 1)
    BY <1>1
  <2>2. LookInv(m, f[i - 1], i - 1)
    BY <1>5, <2>1
  <2>3. f[i] = Turned(f[i - 1], i, {})
    BY <1>3, <2>1 DEF Turn
  <2>4. LookInv(m, Turned(f[i - 1], i, {}), i)
    BY <2>1, <2>2, LookTurn
  <2>5. LookInv(m, f[i], i)
    BY <2>3, <2>4
  <2> QED
    BY <1>1, <2>1, <2>5
<1> HIDE DEF T
<1>6. 0..(m.cap + 1) \subseteq T
  BY <1>1, <1>4, <1>5, BoundedInduction
<1>7. LookInv(m, Round(m, {}), m.cap - 1)
  <2>1. m.cap + 1 \in T /\ (m.cap + 1) - 2 = m.cap - 1
    BY <1>1, <1>6
  <2> QED
    BY <1>2, <2>1 DEF T
<1> QED
  BY <1>7, SlotsHave DEF LookInv

(* A deletion takes its key away and leaves the others with their values.  *)
LEMMA RemoveEffect ==
  ASSUME MapAssumption, NEW m, MapOK(m), NEW k \in Key, Has(m, k)
  PROVE  LET n == Remove(m, k)
         IN  /\ MapOK(n) /\ n.cap = m.cap /\ ~Has(n, k)
             /\ \A x \in Key : x # k => Has(n, x) = Has(m, x) /\ Stored(n, x) = Stored(m, x)
PROOF
<1> DEFINE n == Remove(m, k)
           F == ContentsOf(m)
           G == [x \in DOMAIN F \ {k} |-> F[x]]
<1>1. MapOK(n) /\ Pairs(n) = Without(Pairs(m), k)
  BY RemoveOK
<1>2. n.cap = m.cap
  <2>1. Fields(m)
    BY DEF MapOK, Kept
  <2> QED
    BY <2>1 DEF Remove, Taken, Fields
<1>3. Describes(F, Pairs(m))
  BY ContentsHold
<1> HIDE DEF F
<1>4. Describes(G, Pairs(n))
  BY <1>1, <1>3, DescribesWithout
<1>5. DOMAIN G = DOMAIN F \ {k} /\ \A x \in DOMAIN G : G[x] = F[x]
  OBVIOUS
<1> HIDE DEF n, G
<1>6. Kept(m) /\ HasRoom(m.key, m.cap) /\ Kept(n) /\ HasRoom(n.key, n.cap)
  BY <1>1, KeptRoom DEF MapOK
<1>7. ASSUME NEW x \in Key
      PROVE  /\ Has(m, x) = (x \in DOMAIN F) /\ Has(n, x) = (x \in DOMAIN G)
             /\ Stored(m, x) = IF x \in DOMAIN F THEN F[x] ELSE NoValue
             /\ Stored(n, x) = IF x \in DOMAIN G THEN G[x] ELSE NoValue
  BY <1>3, <1>4, <1>6, Answers
<1>8. ~Has(n, k)
  BY <1>5, <1>7
<1>9. \A x \in Key : x # k => Has(n, x) = Has(m, x) /\ Stored(n, x) = Stored(m, x)
  BY <1>5, <1>7
<1> QED
  BY <1>1, <1>2, <1>8, <1>9 DEF n

(* A round of the cleaner at slot i.  As long as nothing has been deleted, *)
(* no key that is dead has been passed.                                    *)
CleanInv(m, dead, r, i) ==
  /\ r = [map |-> r.map, visited |-> r.visited] /\ r.visited \in Seq(Nat)
  /\ MapOK(r.map) /\ r.map.cap = m.cap
  /\ \A k \in Key \ dead : Has(r.map, k) = Has(m, k) /\ Stored(r.map, k) = Stored(m, k)
  /\ \A k \in dead : Visits(r, k) = IF Has(r.map, k) THEN 0 ELSE 1
  /\ \/ r.map = m /\ \A k \in dead : ~Passed(m, k, i)
     \/ \E k \in dead : ~Has(r.map, k)

LEMMA CleanTurn ==
  ASSUME MapAssumption, NEW m, MapOK(m), NEW dead, dead \subseteq Keys(m),
         NEW i \in FirstSlot..(m.cap - 1), NEW r, CleanInv(m, dead, r, i - 1)
  PROVE  CleanInv(m, dead, Turned(r, i, dead), i)
PROOF
<1> DEFINE t == r.map
           s == r.visited
           e == KeyAt(t, i)
<1>1. /\ r = [map |-> t, visited |-> s] /\ s \in Seq(Nat) /\ MapOK(t) /\ t.cap = m.cap
      /\ \A k \in Key \ dead : Has(t, k) = Has(m, k) /\ Stored(t, k) = Stored(m, k)
      /\ \A k \in dead : Visits(r, k) = IF Has(t, k) THEN 0 ELSE 1
      /\ \/ t = m /\ \A k \in dead : ~Passed(m, k, i - 1)
         \/ \E k \in dead : ~Has(t, k)
  BY DEF CleanInv
<1>2. e \in Nat /\ \A k \in Key : Holds(t, i) /\ e = k => Has(t, k)
  BY <1>1, KeyAtValue, SlotsHave
<1>3. i \in Int /\ FirstSlot <= i
  BY DEF FirstSlot, MapOK, Kept, Typed
<1>4. \A k \in dead : Passed(m, k, i) = (Passed(m, k, i - 1) \/ (Holds(m, i) /\ KeyAt(m, i) = k))
  BY <1>3, PassedValue
<1>5. \A k \in dead : k \in Key
  BY DEF Keys
<1> HIDE DEF t, s, e
<1>6. CASE ~Holds(t, i)
  <2>1. Turned(r, i, dead) = r
    BY <1>6 DEF Turned, t
  <2>2. t = m /\ (\A k \in dead : ~Passed(m, k, i - 1)) => \A k \in dead : ~Passed(m, k, i)
    BY <1>4, <1>6
  <2>3. \/ t = m /\ \A k \in dead : ~Passed(m, k, i)
        \/ \E k \in dead : ~Has(t, k)
    BY <1>1, <2>2
  <2> QED
    BY <1>1, <2>1, <2>3 DEF CleanInv, t, s
<1>7. CASE Holds(t, i) /\ e \notin dead
  <2> DEFINE q == [map |-> t, visited |-> Append(s, e)]
  <2>1. Turned(r, i, dead) = q
    BY <1>7 DEF Turned, Clean, t, s, e
  <2>2. q.map = t /\ q.visited = Append(s, e) /\ q = [map |-> t, visited |-> Append(s, e)]
    OBVIOUS
  <2>3. Append(s, e) \in Seq(Nat) /\ \A k \in dead : Visits(q, k) = Visits(r, k)
    BY <1>1, <1>2, <1>7, VisitsValue
  <2>4. t = m /\ (\A k \in dead : ~Passed(m, k, i - 1)) => \A k \in dead : ~Passed(m, k, i)
    BY <1>4, <1>7 DEF e
  <2>5. \/ t = m /\ \A k \in dead : ~Passed(m, k, i)
        \/ \E k \in dead : ~Has(t, k)
    BY <1>1, <2>4
  <2> HIDE DEF q
  <2> QED
    BY <1>1, <2>1, <2>2, <2>3, <2>5 DEF CleanInv
<1>8. CASE Holds(t, i) /\ e \in dead
  <2> DEFINE n == Remove(t, e)
             q == [map |-> n, visited |-> Append(s, e)]
  <2>1. Turned(r, i, dead) = q
    BY <1>8 DEF Turned, Clean, t, s, e
  <2>2. e \in Key /\ Has(t, e)
    BY <1>2, <1>5, <1>8
  <2>3. /\ MapOK(n) /\ n.cap = t.cap /\ ~Has(n, e)
        /\ \A x \in Key : x # e => Has(n, x) = Has(t, x) /\ Stored(n, x) = Stored(t, x)
    BY <1>1, <2>2, RemoveEffect
  <2>4. q.map = n /\ q.visited = Append(s, e) /\ q = [map |-> n, visited |-> Append(s, e)]
    OBVIOUS
  <2>5. /\ Append(s, e) \in Seq(Nat)
        /\ \A k \in dead : Visits(q, k) = Visits(r, k) + IF e = k THEN 1 ELSE 0
    BY <1>1, <1>2, VisitsValue
  <2> HIDE DEF q, n
  <2>6. \A k \in Key \ dead : Has(n, k) = Has(m, k) /\ Stored(n, k) = Stored(m, k)
    BY <1>1, <1>8, <2>3
  <2>7. ASSUME NEW k \in dead
        PROVE  Visits(q, k) = IF Has(n, k) THEN 0 ELSE 1
    <3>1. CASE k = e
      BY <1>1, <2>2, <2>3, <2>5, <3>1
    <3>2. CASE k # e
      <4>1. Has(n, k) = Has(t, k) /\ Visits(r, k) = IF Has(t, k) THEN 0 ELSE 1
        BY <1>1, <1>5, <2>3, <3>2
      <4>2. Visits(q, k) = Visits(r, k) + 0
        BY <2>5, <3>2
      <4> QED
        BY <4>1, <4>2
    <3> QED
      BY <3>1, <3>2
  <2> QED
    BY <1>1, <1>8, <2>1, <2>3, <2>4, <2>5, <2>6, <2>7 DEF CleanInv
<1> QED
  BY <1>6, <1>7, <1>8

LEMMA RoundCleans ==
  ASSUME MapAssumption, NEW m, MapOK(m), NEW dead, dead \subseteq Keys(m)
  PROVE  CleanInv(m, dead, Round(m, dead), m.cap - 1)
PROOF
<1> USE DEF FirstSlot
<1>1. m.cap \in Nat \ {0}
  BY DEF MapOK, Kept, Typed
<1>2. PICK f : /\ f = [i \in (FirstSlot - 1)..(m.cap - 1) |-> Turn(m, dead, f, i)]
               /\ Round(m, dead) = f[m.cap - 1]
  BY <1>1, RoundDef
<1>3. \A i \in (FirstSlot - 1)..(m.cap - 1) : f[i] = Turn(m, dead, f, i)
  BY <1>2, Zenon
<1> DEFINE T == {n \in Nat : CleanInv(m, dead, f[n - 2], n - 2)}
<1>4. 0 \in T
  <2> DEFINE r == [map |-> m, visited |-> <<>>]
  <2>1. f[FirstSlot - 1] = r
    <3>1. f[FirstSlot - 1] = Turn(m, dead, f, FirstSlot - 1)
      BY <1>1, <1>3
    <3> QED
      BY <3>1 DEF Turn
  <2>2. \A x \in dead : ~Passed(m, x, FirstSlot - 1)
    BY PassedValue
  <2>3. \A x \in dead : Visits(r, x) = 0 /\ Has(m, x)
    BY VisitsNone DEF Keys
  <2>4. r.map = m /\ r.visited = <<>> /\ r.visited \in Seq(Nat) /\ r = [map |-> m, visited |-> <<>>]
    OBVIOUS
  <2> HIDE DEF r
  <2>5. CleanInv(m, dead, r, FirstSlot - 1)
    BY <2>2, <2>3, <2>4 DEF CleanInv
  <2> QED
    BY <2>1, <2>5
<1>5. ASSUME NEW n \in 0..((m.cap + 1) - 1), n \in T
      PROVE  n + 1 \in T
  <2> DEFINE i == n - 1
  <2>1. i \in FirstSlot..(m.cap - 1) /\ i - 1 = n - 2 /\ (n + 1) - 2 = i /\ ~(i < FirstSlot)
        /\ i \in (FirstSlot - 1)..(m.cap - 1)
    BY <1>1
  <2>2. CleanInv(m, dead, f[i - 1], i - 1)
    BY <1>5, <2>1
  <2>3. f[i] = Turned(f[i - 1], i, dead)
    BY <1>3, <2>1 DEF Turn
  <2>4. CleanInv(m, dead, Turned(f[i - 1], i, dead), i)
    BY <2>1, <2>2, CleanTurn
  <2>5. CleanInv(m, dead, f[i], i)
    BY <2>3, <2>4
  <2> QED
    BY <1>1, <2>1, <2>5
<1> HIDE DEF T
<1>6. 0..(m.cap + 1) \subseteq T
  BY <1>1, <1>4, <1>5, BoundedInduction
<1>7. m.cap + 1 \in T /\ (m.cap + 1) - 2 = m.cap - 1
  BY <1>1, <1>6
<1> QED
  BY <1>2, <1>7 DEF T

(* A loop that changes nothing visits every entry of the map once.         *)
THEOREM LoopsVisitAll == Spec => []VisitsEveryEntry
PROOF
<1>1. ASSUME MapInv
      PROVE  VisitsEveryEntry
  BY <1>1, LooksOnce, MapAssumption DEF VisitsEveryEntry, MapInv
<1> QED
  BY <1>1, MapInductiveInvariant, PTL

(* A round of deletions keeps the living, meets no dead key twice and      *)
(* drops at least one, whatever its deletions move about under the loop.   *)
THEOREM RoundsAlwaysClean == Spec => []RoundsClean
PROOF
<1>1. ASSUME MapInv, NEW dead \in SUBSET Keys(map)
      PROVE  LET r == Round(map, dead)
             IN  /\ \A k \in Keys(map) \ dead : Stored(r.map, k) = Stored(map, k)
                 /\ \A k \in dead : Visits(r, k) = IF Has(r.map, k) THEN 0 ELSE 1
                 /\ dead # {} => Keys(r.map) # Keys(map)
  <2> DEFINE r == Round(map, dead)
  <2>1. CleanInv(map, dead, r, map.cap - 1)
    BY <1>1, RoundCleans, MapAssumption DEF MapInv
  <2>2. \A k \in Keys(map) : k \in Key /\ Has(map, k)
    BY DEF Keys
  <2>3. \A k \in dead : Passed(map, k, map.cap - 1)
    BY <1>1, <2>2, SlotsHave, MapAssumption DEF MapInv
  <2> HIDE DEF r
  <2>4. dead # {} => \E k \in dead : ~Has(r.map, k)
    BY <2>1, <2>3 DEF CleanInv
  <2>5. dead # {} => Keys(r.map) # Keys(map)
    BY <1>1, <2>2, <2>4 DEF Keys
  <2> QED
    BY <2>1, <2>2, <2>5 DEF CleanInv, r
<1>2. MapInv => RoundsClean
  BY <1>1 DEF RoundsClean
<1> QED
  BY <1>2, MapInductiveInvariant, PTL

=============================================================================
