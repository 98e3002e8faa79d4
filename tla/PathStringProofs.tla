-------------------------- MODULE PathStringProofs --------------------------
(***************************************************************************)
(* Proofs about PathString: the string of a path is cut into its names.    *)
(***************************************************************************)
EXTENDS PathString, FsTreeProofs

-----------------------------------------------------------------------------
Grow(p, g, i) == IF i = 0 THEN <<>> ELSE g[i - 1] \o <<"/">> \o Spelling[p[i]]
Grown(p) == CHOOSE g : g = [i \in 0..Len(p) |-> Grow(p, g, i)]

(* The recursive function of Text exists and satisfies its definition.     *)
LEMMA GrownDef ==
  ASSUME NEW p \in Seq(Name)
  PROVE  Grown(p) = [i \in 0..Len(p) |-> Grow(p, Grown(p), i)]
PROOF
<1> DEFINE k == Len(p)
           T == {m \in Nat : \E f : f = [i \in 0..m |-> Grow(p, f, i)]}
<1>1. 0 \in T
  <2> DEFINE f == [i \in 0..0 |-> <<>>]
  <2>1. f = [i \in 0..0 |-> Grow(p, f, i)]
    BY DEF Grow
  <2> HIDE DEF f
  <2> QED
    BY <2>1
<1>2. ASSUME NEW m \in Nat, m \in T
      PROVE  m + 1 \in T
  <2>1. PICK g : g = [i \in 0..m |-> Grow(p, g, i)]
    BY <1>2
  <2> DEFINE f == [i \in 0..(m + 1) |-> IF i = m + 1 THEN Grow(p, g, i) ELSE g[i]]
  <2>2. ASSUME NEW i \in 0..(m + 1)
        PROVE  f[i] = Grow(p, f, i)
    <3>1. i # 0 => f[i - 1] = g[i - 1]
      OBVIOUS
    <3>2. Grow(p, f, i) = Grow(p, g, i)
      BY <3>1 DEF Grow
    <3>3. CASE i = m + 1
      BY <3>2, <3>3
    <3>4. CASE i # m + 1
      <4>1. i \in 0..m /\ f[i] = g[i]
        BY <3>4
      <4> QED
        BY <2>1, <3>2, <4>1
    <3> QED
      BY <3>3, <3>4
  <2>3. f = [i \in 0..(m + 1) |-> f[i]]
    OBVIOUS
  <2> HIDE DEF f
  <2>4. f = [i \in 0..(m + 1) |-> Grow(p, f, i)]
    BY <2>2, <2>3
  <2> QED
    BY <2>4
<1> HIDE DEF T
<1>3. k \in T
  BY <1>1, <1>2, SetInduction
<1>4. \E f : f = [i \in 0..k |-> Grow(p, f, i)]
  BY <1>3 DEF T
<1> QED
  BY <1>4 DEF Grown

(* One name more: what was there stays, a slash and the name follow.       *)
LEMMA GrowStep ==
  ASSUME NEW g \in Seq(Char \cup {"/"}), NEW w \in Seq(Char)
  PROVE  LET h == g \o <<"/">> \o w
         IN  /\ h \in Seq(Char \cup {"/"}) /\ Len(h) = Len(g) + 1 + Len(w)
             /\ \A k \in 1..Len(g) : h[k] = g[k]
             /\ h[Len(g) + 1] = "/"
             /\ \A m \in 1..Len(w) : h[Len(g) + 1 + m] = w[m]
PROOF
<1> DEFINE a == g \o <<"/">>
           h == a \o w
<1>1. /\ a \in Seq(Char \cup {"/"}) /\ Len(a) = Len(g) + 1
      /\ \A k \in 1..Len(g) : a[k] = g[k]
      /\ a[Len(g) + 1] = "/"
  OBVIOUS
<1>2. w \in Seq(Char \cup {"/"})
  OBVIOUS
<1> HIDE DEF a
<1>3. h \in Seq(Char \cup {"/"}) /\ Len(h) = Len(a) + Len(w)
  BY <1>1, <1>2
<1>4. \A k \in 1..Len(a) : h[k] = a[k]
  BY <1>1, <1>2
<1>5. \A m \in 1..Len(w) : h[Len(a) + m] = w[m]
  BY <1>1, <1>2
<1> HIDE DEF h
<1>6. Len(g) \in Nat
  OBVIOUS
<1>7. h[Len(g) + 1] = "/"
  BY <1>1, <1>4, <1>6
<1>8. \A k \in 1..Len(g) : h[k] = g[k]
  BY <1>1, <1>4, <1>6
<1> QED
  BY <1>1, <1>3, <1>5, <1>6, <1>7, <1>8 DEF h, a

(* How the first i names of p lie in s: name j after the slash at          *)
(* off[j - 1] + 1, up to off[j], and nothing else.                         *)
Laid(p, s, off, i) ==
  /\ s \in Seq(Char \cup {"/"}) /\ Len(s) = off[i]
  /\ \A j \in 1..i :
       /\ off[j] <= off[i] /\ s[off[j - 1] + 1] = "/"
       /\ \A m \in 1..Len(Spelling[p[j]]) : s[off[j - 1] + 1 + m] = Spelling[p[j]][m]
  /\ \A k \in 1..off[i] : \E j \in 1..i : off[j - 1] < k /\ k <= off[j]

Offsets(p, off) ==
  /\ off \in [0..Len(p) -> Nat] /\ off[0] = 0
  /\ \A j \in 1..Len(p) : off[j] = off[j - 1] + 1 + Len(Spelling[p[j]])

LEMMA OffsetsAre ==
  ASSUME NEW p \in Seq(Name), NEW off, Offsets(p, off)
  PROVE  Len(p) \in Nat /\ off[0] = 0 /\ \A j \in 0..Len(p) : off[j] \in Nat
PROOF
<1>1. off \in [0..Len(p) -> Nat] /\ off[0] = 0
  BY Zenon DEF Offsets
<1> QED
  BY <1>1

LEMMA SpellingIs ==
  ASSUME SpellingAssumption, NEW p \in Seq(Name), NEW j \in 1..Len(p)
  PROVE  /\ Spelling[p[j]] \in Seq(Char) /\ Len(Spelling[p[j]]) \in Nat /\ Len(Spelling[p[j]]) > 0
         /\ p[j] \in Name /\ j \in 0..Len(p) /\ j - 1 \in 0..Len(p)
PROOF
<1>1. p[j] \in Name /\ j \in 0..Len(p) /\ j - 1 \in 0..Len(p)
  OBVIOUS
<1>2. Spelling[p[j]] \in Seq(Char) /\ Spelling[p[j]] # <<>>
  BY <1>1 DEF SpellingAssumption
<1> QED
  BY <1>1, <1>2

LEMMA GrownLies ==
  ASSUME SpellingAssumption, NEW p \in Seq(Name)
  PROVE  \E off : /\ Offsets(p, off)
                  /\ \A i \in 0..Len(p) : Laid(p, Grown(p)[i], off, i)
PROOF
<1> DEFINE g == Grown(p)
           L == Len(p)
           W(j) == Spelling[p[j]]
           off == [i \in 0..L |-> Len(g[i])]
<1>1. L \in Nat
  OBVIOUS
<1>2. g[0] = <<>> /\ \A i \in 1..L : g[i] = g[i - 1] \o <<"/">> \o W(i)
  <2>1. \A i \in 0..L : g[i] = Grow(p, g, i)
    BY GrownDef, Zenon
  <2>2. 0 \in 0..L /\ \A i \in 1..L : i \in 0..L /\ i # 0
    BY <1>1
  <2> HIDE DEF g, L
  <2> QED
    BY <2>1, <2>2 DEF Grow
<1>3. \A j \in 1..L : /\ W(j) \in Seq(Char) /\ Len(W(j)) \in Nat /\ Len(W(j)) > 0
                      /\ j \in 0..L /\ j - 1 \in 0..L
  BY SpellingIs
<1> HIDE DEF g, L, W
<1>4. 0..L \subseteq {i \in 0..L : g[i] \in Seq(Char \cup {"/"})}
  <2> DEFINE T == {i \in 0..L : g[i] \in Seq(Char \cup {"/"})}
  <2>1. 0 \in T
    <3>1. 0 \in 0..L
      BY <1>1
    <3>2. g[0] \in Seq(Char \cup {"/"})
      BY <1>2
    <3> QED
      BY <3>1, <3>2
  <2>2. ASSUME NEW i \in 0..(L - 1), i \in T
        PROVE  i + 1 \in T
    <3>1. i + 1 \in 1..L /\ (i + 1) - 1 = i /\ i + 1 \in 0..L
      BY <1>1
    <3>2. g[i + 1] = g[i] \o <<"/">> \o W(i + 1) /\ W(i + 1) \in Seq(Char)
      BY <1>2, <1>3, <3>1
    <3>3. g[i] \in Seq(Char \cup {"/"})
      BY <2>2
    <3> QED
      BY <3>1, <3>2, <3>3, GrowStep
  <2> HIDE DEF T
  <2>3. 0..L \subseteq T
    BY <1>1, <2>1, <2>2, BoundedInduction
  <2> QED
    BY <2>3 DEF T
<1>5. \A i \in 1..L :
        /\ g[i] \in Seq(Char \cup {"/"}) /\ Len(g[i]) = Len(g[i - 1]) + 1 + Len(W(i))
        /\ \A k \in 1..Len(g[i - 1]) : g[i][k] = g[i - 1][k]
        /\ g[i][Len(g[i - 1]) + 1] = "/"
        /\ \A m \in 1..Len(W(i)) : g[i][Len(g[i - 1]) + 1 + m] = W(i)[m]
  <2> SUFFICES ASSUME NEW i \in 1..L
               PROVE  /\ g[i] \in Seq(Char \cup {"/"}) /\ Len(g[i]) = Len(g[i - 1]) + 1 + Len(W(i))
                      /\ \A k \in 1..Len(g[i - 1]) : g[i][k] = g[i - 1][k]
                      /\ g[i][Len(g[i - 1]) + 1] = "/"
                      /\ \A m \in 1..Len(W(i)) : g[i][Len(g[i - 1]) + 1 + m] = W(i)[m]
    OBVIOUS
  <2>1. g[i - 1] \in Seq(Char \cup {"/"}) /\ W(i) \in Seq(Char)
    BY <1>3, <1>4
  <2>2. g[i] = g[i - 1] \o <<"/">> \o W(i)
    BY <1>2
  <2> QED
    BY <2>1, <2>2, GrowStep
<1>6. Offsets(p, off)
  <2>1. off \in [0..L -> Nat]
    BY <1>4
  <2>2. off[0] = 0
    BY <1>1, <1>2
  <2>3. \A j \in 1..L : off[j] = off[j - 1] + 1 + Len(W(j))
    BY <1>3, <1>5
  <2> QED
    BY <2>1, <2>2, <2>3 DEF Offsets, L, W
<1>7. \A i \in 0..L : off[i] = Len(g[i]) /\ off[i] \in Nat
  BY <1>4
<1> HIDE DEF off
<1>8. 0..L \subseteq {i \in 0..L : Laid(p, g[i], off, i)}
  <2> DEFINE T == {i \in 0..L : Laid(p, g[i], off, i)}
  <2>1. 0 \in T
    <3>1. 0 \in 0..L /\ g[0] \in Seq(Char \cup {"/"}) /\ Len(g[0]) = off[0] /\ off[0] = 0
      BY <1>1, <1>2, <1>4, <1>7
    <3> QED
      BY <3>1 DEF Laid
  <2>2. ASSUME NEW i \in 0..(L - 1), i \in T
        PROVE  i + 1 \in T
    <3>1. i + 1 \in 1..L /\ (i + 1) - 1 = i /\ i + 1 \in 0..L /\ i \in 0..L /\ i \in Nat
      BY <1>1
    <3> DEFINE n == i + 1
               h == g[n]
    <3>2. /\ h \in Seq(Char \cup {"/"}) /\ off[n] = off[i] + 1 + Len(W(n))
          /\ \A k \in 1..off[i] : h[k] = g[i][k]
          /\ h[off[i] + 1] = "/"
          /\ \A m \in 1..Len(W(n)) : h[off[i] + 1 + m] = W(n)[m]
      <4>1. off[n] = Len(h) /\ off[i] = Len(g[i]) /\ n \in 1..L /\ n - 1 = i
        BY <1>7, <3>1
      <4> HIDE DEF n
      <4> QED
        BY <1>5, <4>1
    <3>3. Laid(p, g[i], off, i)
      BY <2>2
    <3>4. off[n] \in Nat /\ off[i] \in Nat /\ Len(W(n)) \in Nat /\ Len(h) = off[n]
      BY <1>3, <1>7, <3>1
    <3> HIDE DEF h
    <3>5. ASSUME NEW j \in 1..n
          PROVE  /\ off[j] <= off[n] /\ h[off[j - 1] + 1] = "/"
                 /\ \A m \in 1..Len(W(j)) : h[off[j - 1] + 1 + m] = W(j)[m]
      <4>1. CASE j = n
        BY <3>1, <3>2, <3>4, <4>1
      <4>2. CASE j # n
        <5>1. j \in 1..i /\ j \in 1..L
          BY <1>1, <3>1, <4>2
        <5>2. /\ off[j] \in Nat /\ off[j - 1] \in Nat /\ Len(W(j)) \in Nat
              /\ off[j] = off[j - 1] + 1 + Len(W(j))
          BY <1>3, <1>5, <1>7, <5>1
        <5>3. /\ off[j] <= off[i] /\ g[i][off[j - 1] + 1] = "/"
              /\ \A m \in 1..Len(W(j)) : g[i][off[j - 1] + 1 + m] = W(j)[m]
          BY <3>3, <5>1 DEF Laid, W
        <5>4. off[j] <= off[i]
          BY <5>3
        <5>5. PICK b \in Nat, l \in Nat, f \in Nat, t \in Nat :
                 b = off[j - 1] /\ l = Len(W(j)) /\ f = off[i] /\ t = off[n]
          BY <3>4, <5>2
        <5>6. b + 1 + l <= f /\ f <= t
          BY <3>2, <3>4, <5>2, <5>4, <5>5
        <5>7. off[j - 1] + 1 \in 1..off[i]
          <6>1. b + 1 \in 1..f
            BY <5>6
          <6> QED
            BY <5>5, <6>1
        <5>8. ASSUME NEW m \in 1..Len(W(j))
              PROVE  h[off[j - 1] + 1 + m] = W(j)[m]
          <6>1. m \in 1..l
            BY <5>5
          <6>2. b + 1 + m \in 1..f
            BY <5>6, <6>1
          <6>3. off[j - 1] + 1 + m \in 1..off[i]
            BY <5>5, <6>2
          <6> QED
            BY <3>2, <5>3, <6>3
        <5>9. b + 1 + l <= t
          BY <5>6
        <5>10. off[j] <= off[n]
          BY <5>2, <5>9, <5>5
        <5>11. h[off[j - 1] + 1] = "/"
          BY <3>2, <5>3, <5>7
        <5> QED
          BY <5>8, <5>10, <5>11
      <4> QED
        BY <4>1, <4>2
    <3>6. ASSUME NEW k \in 1..off[n]
          PROVE  \E j \in 1..n : off[j - 1] < k /\ k <= off[j]
      <4>1. CASE k <= off[i]
        <5>1. k \in 1..off[i]
          BY <3>4, <4>1
        <5>2. PICK j \in 1..i : off[j - 1] < k /\ k <= off[j]
          BY <3>3, <5>1 DEF Laid
        <5>3. j \in 1..n
          BY <3>1
        <5> QED
          BY <5>2, <5>3
      <4>2. CASE ~(k <= off[i])
        <5>1. off[n - 1] < k /\ k <= off[n] /\ n \in 1..n
          BY <3>1, <3>4, <4>2
        <5> QED
          BY <5>1
      <4> QED
        BY <4>1, <4>2
    <3>7. Laid(p, h, off, n)
      BY <3>2, <3>4, <3>5, <3>6 DEF Laid, W
    <3> QED
      BY <3>1, <3>7 DEF h
  <2> HIDE DEF T
  <2>3. 0..L \subseteq T
    BY <1>1, <2>1, <2>2, BoundedInduction
  <2> QED
    BY <2>3 DEF T
<1> QED
  BY <1>6, <1>8 DEF g, L

(* The layout of a whole path, and what follows from it.                   *)
LEMMA TextLies ==
  ASSUME SpellingAssumption, NEW p \in Seq(Name), p # <<>>
  PROVE  \E off : Offsets(p, off) /\ Laid(p, Text(p), off, Len(p))
PROOF
<1>1. Text(p) = Grown(p)[Len(p)]
  BY DEF Text, Grown, Grow
<1>2. Len(p) \in 0..Len(p)
  OBVIOUS
<1> QED
  BY <1>1, <1>2, GrownLies

LEMMA OffsetsGrow ==
  ASSUME SpellingAssumption, NEW p \in Seq(Name), NEW off, Offsets(p, off)
  PROVE  \A j \in 0..Len(p) : \A i \in 0..j : off[i] <= off[j] /\ (i < j => off[i] < off[j])
PROOF
<1> DEFINE L == Len(p)
           Up(j) == \A i \in 0..j : off[i] <= off[j] /\ (i < j => off[i] < off[j])
           T == {j \in 0..L : Up(j)}
<1>1. L \in Nat /\ \A j \in 0..L : off[j] \in Nat
  BY OffsetsAre
<1>2. \A j \in 1..L : off[j - 1] < off[j]
  <2> SUFFICES ASSUME NEW j \in 1..L
               PROVE  off[j - 1] < off[j]
    OBVIOUS
  <2>1. off[j] = off[j - 1] + 1 + Len(Spelling[p[j]])
    BY DEF Offsets
  <2>2. Len(Spelling[p[j]]) \in Nat /\ off[j - 1] \in Nat
    BY <1>1, SpellingIs
  <2> QED
    BY <2>1, <2>2
<1> HIDE DEF L
<1>3. 0 \in T
  BY <1>1
<1>4. ASSUME NEW j \in 0..(L - 1), j \in T
      PROVE  j + 1 \in T
  <2>1. j + 1 \in 0..L /\ j + 1 \in 1..L /\ (j + 1) - 1 = j /\ j \in 0..L
    BY <1>1
  <2>2. off[j] < off[j + 1] /\ off[j] \in Nat /\ off[j + 1] \in Nat
    BY <1>1, <1>2, <2>1
  <2>3. ASSUME NEW i \in 0..(j + 1)
        PROVE  off[i] <= off[j + 1] /\ (i < j + 1 => off[i] < off[j + 1])
    <3>1. CASE i = j + 1
      BY <2>2, <3>1
    <3>2. CASE i # j + 1
      <4>1. i \in 0..j /\ i \in 0..L
        BY <1>1, <3>2
      <4>2. off[i] <= off[j] /\ off[i] \in Nat
        BY <1>1, <1>4, <4>1
      <4> QED
        BY <2>2, <4>2
    <3> QED
      BY <3>1, <3>2
  <2> QED
    BY <2>1, <2>3
<1> HIDE DEF T
<1>5. 0..L \subseteq T
  BY <1>1, <1>3, <1>4, BoundedInduction
<1> QED
  BY <1>5 DEF T, L

Slashes(s) == {k \in DOMAIN s : s[k] = "/"}

(* There is a slash before each name and no other.                         *)
LEMMA SlashesAre ==
  ASSUME SpellingAssumption, NEW p \in Seq(Name), NEW off, Offsets(p, off),
         NEW s, Laid(p, s, off, Len(p))
  PROVE  Slashes(s) = {off[j - 1] + 1 : j \in 1..Len(p)}
PROOF
<1> DEFINE L == Len(p)
<1>1. L \in Nat /\ s \in Seq(Char \cup {"/"}) /\ Len(s) = off[L] /\ off[L] \in Nat
  <2>1. L \in Nat /\ L \in 0..L
    OBVIOUS
  <2> QED
    BY <2>1, OffsetsAre DEF Laid
<1>2. ASSUME NEW j \in 1..L
      PROVE  /\ off[j - 1] \in Nat /\ off[j] = off[j - 1] + 1 + Len(Spelling[p[j]])
             /\ off[j] <= off[L] /\ s[off[j - 1] + 1] = "/" /\ Len(Spelling[p[j]]) \in Nat
  <2>1. off[j] = off[j - 1] + 1 + Len(Spelling[p[j]])
    BY Zenon DEF Offsets
  <2>2. off[j] <= off[L] /\ s[off[j - 1] + 1] = "/"
    BY Zenon DEF Laid
  <2> QED
    BY <2>1, <2>2, SpellingIs, OffsetsAre
<1>3. ASSUME NEW j \in 1..L
      PROVE  off[j - 1] + 1 \in Slashes(s)
  <2>1. off[j - 1] + 1 \in 1..off[L]
    <3>1. /\ off[j - 1] \in Nat /\ off[j] = off[j - 1] + 1 + Len(Spelling[p[j]])
          /\ off[j] <= off[L] /\ Len(Spelling[p[j]]) \in Nat
      BY <1>2
    <3>2. \A b, l, e, f \in Nat : b = e + 1 + l /\ b <= f => e + 1 \in 1..f
      OBVIOUS
    <3>3. off[j] \in Nat
      BY <3>1
    <3> QED
      BY <1>1, <3>1, <3>2, <3>3
  <2> QED
    BY <1>1, <1>2, <2>1 DEF Slashes
<1>4. ASSUME NEW k \in Slashes(s)
      PROVE  \E j \in 1..L : k = off[j - 1] + 1
  <2>1. k \in 1..off[L] /\ s[k] = "/"
    BY <1>1 DEF Slashes
  <2>2. PICK j \in 1..L : off[j - 1] < k /\ k <= off[j]
    BY <2>1 DEF Laid
  <2> DEFINE m == k - off[j - 1] - 1
  <2>3. CASE m = 0
    BY <1>2, <2>1, <2>3
  <2>4. CASE m # 0
    <3>1. m \in 1..Len(Spelling[p[j]]) /\ off[j - 1] + 1 + m = k
      <4>1. /\ off[j - 1] \in Nat /\ off[j] = off[j - 1] + 1 + Len(Spelling[p[j]])
            /\ off[L] \in Nat /\ Len(Spelling[p[j]]) \in Nat
        BY <1>1, <1>2
      <4>2. k \in Nat /\ off[j - 1] < k /\ k <= off[j]
        BY <2>1, <2>2, <4>1
      <4>3. PICK e \in Nat, l \in Nat : e = off[j - 1] /\ l = Len(Spelling[p[j]])
        BY <4>1
      <4>4. k <= e + 1 + l /\ e < k /\ k - e - 1 # 0
        BY <2>4, <4>1, <4>2, <4>3
      <4>5. e \in Nat /\ l \in Nat /\ k \in Nat
        BY <4>2
      <4>6. k - e - 1 \in 1..l /\ e + 1 + (k - e - 1) = k
        BY <4>4, <4>5
      <4> QED
        BY <4>3, <4>6
    <3>2. s[k] = Spelling[p[j]][m]
      BY <3>1 DEF Laid
    <3>3. Spelling[p[j]][m] \in Char
      BY <3>1, SpellingIs
    <3> QED
      BY <2>1, <3>2, <3>3 DEF SpellingAssumption
  <2> QED
    BY <2>3, <2>4
<1> QED
  BY <1>3, <1>4

Nth(s, i) == CHOOSE k \in Slashes(s) : Cardinality({j \in Slashes(s) : j <= k}) = i

LEMMA NthIs ==
  ASSUME SpellingAssumption, NEW p \in Seq(Name), NEW off, Offsets(p, off),
         NEW s, Laid(p, s, off, Len(p))
  PROVE  /\ Cardinality(Slashes(s)) = Len(p)
         /\ \A i \in 1..Len(p) : Nth(s, i) = off[i - 1] + 1
PROOF
<1> DEFINE L == Len(p)
           at(j) == off[j - 1] + 1
           upto(i) == {k \in Slashes(s) : k <= at(i)}
<1>1. L \in Nat /\ Slashes(s) = {at(j) : j \in 1..L}
  BY SlashesAre
<1>2. ASSUME NEW j \in 1..L
      PROVE  at(j) \in Nat
  <2>1. j - 1 \in 0..Len(p)
    BY <1>1
  <2>2. off[j - 1] \in Nat
    BY <2>1, OffsetsAre
  <2> QED
    BY <2>2
<1>3. \A i, j \in 1..L : i < j => at(i) < at(j)
  <2> SUFFICES ASSUME NEW i \in 1..L, NEW j \in 1..L, i < j
               PROVE  at(i) < at(j)
    OBVIOUS
  <2>1. j - 1 \in 0..L /\ i - 1 \in 0..(j - 1) /\ i - 1 < j - 1
    BY <1>1
  <2>2. off[i - 1] < off[j - 1]
    BY <2>1, OffsetsGrow
  <2>3. off[i - 1] \in Nat /\ off[j - 1] \in Nat
    BY <1>1, OffsetsAre
  <2> QED
    BY <2>2, <2>3
<1> HIDE DEF L, at
<1>4. \A i \in 0..L : ExistsBijection(1..i, {at(j) : j \in 1..i})
  <2> SUFFICES ASSUME NEW i \in 0..L
               PROVE  ExistsBijection(1..i, {at(j) : j \in 1..i})
    OBVIOUS
  <2> DEFINE f == [j \in 1..i |-> at(j)]
             S == {at(j) : j \in 1..i}
  <2>1. \A j \in 1..i : j \in 1..L
    BY <1>1
  <2>2. \A j, k \in 1..i : f[j] = f[k] => j = k
    <3> SUFFICES ASSUME NEW j \in 1..i, NEW k \in 1..i, f[j] = f[k]
                 PROVE  j = k
      OBVIOUS
    <3>1. at(j) = at(k) /\ at(j) \in Nat /\ at(k) \in Nat
      BY <1>2, <2>1
    <3>2. ~(j < k) /\ ~(k < j)
      BY <1>3, <2>1, <3>1
    <3> QED
      BY <3>2
  <2>3. f \in [1..i -> S] /\ \A t \in S : \E j \in 1..i : f[j] = t
    OBVIOUS
  <2> HIDE DEF f, S
  <2>4. f \in Bijection(1..i, S)
    BY <2>2, <2>3 DEF Bijection, Injection, Surjection, IsInjective
  <2> QED
    BY <2>4 DEF ExistsBijection, S
<1>5. \A i \in 1..L : upto(i) = {at(j) : j \in 1..i}
  <2> SUFFICES ASSUME NEW i \in 1..L
               PROVE  upto(i) = {at(j) : j \in 1..i}
    OBVIOUS
  <2>1. ASSUME NEW j \in 1..i
        PROVE  at(j) \in upto(i)
    <3>1. j \in 1..L /\ (j = i \/ j < i)
      BY <1>1
    <3> QED
      BY <1>1, <1>2, <1>3, <3>1
  <2>2. ASSUME NEW j \in 1..L, at(j) <= at(i)
        PROVE  j \in 1..i
    <3>1. ~(i < j)
      BY <1>2, <1>3, <2>2
    <3> QED
      BY <1>1, <3>1
  <2> QED
    BY <1>1, <2>1, <2>2
<1>6. \A i \in 1..L : Cardinality(upto(i)) = i
  <2> SUFFICES ASSUME NEW i \in 1..L
               PROVE  Cardinality(upto(i)) = i
    OBVIOUS
  <2>1. i \in Nat /\ i \in 0..L
    BY <1>1
  <2>2. ExistsBijection(1..i, upto(i))
    BY <1>4, <1>5, <2>1
  <2> HIDE DEF upto
  <2> QED
    BY <2>1, <2>2, FS_CountingElements
<1>7. Cardinality(Slashes(s)) = L
  <2>1. L \in 0..L
    BY <1>1
  <2>2. ExistsBijection(1..L, Slashes(s))
    BY <1>1, <1>4, <2>1
  <2> QED
    BY <1>1, <2>2, FS_CountingElements
<1>8. ASSUME NEW i \in 1..L
      PROVE  Nth(s, i) = at(i)
  <2>1. at(i) \in Slashes(s) /\ Cardinality({j \in Slashes(s) : j <= at(i)}) = i
    BY <1>1, <1>6
  <2>2. ASSUME NEW k \in Slashes(s), Cardinality({j \in Slashes(s) : j <= k}) = i
        PROVE  k = at(i)
    <3>1. PICK j \in 1..L : k = at(j)
      BY <1>1
    <3>2. Cardinality(upto(j)) = j
      BY <1>6
    <3> QED
      BY <2>2, <3>1, <3>2
  <2> QED
    BY <2>1, <2>2 DEF Nth
<1> QED
  BY <1>7, <1>8 DEF L, at

-----------------------------------------------------------------------------
Ends(s, k, e) == NUL \notin {s[j] : j \in k..e} /\ (e < Len(s) => s[e + 1] = NUL)

LEMMA StringIs ==
  ASSUME NEW s, NEW k, NEW e \in (k - 1)..Len(s), Ends(s, k, e),
         \A x \in (k - 1)..Len(s) : Ends(s, k, x) => x = e
  PROVE  CString(s, k) = SubSeq(s, k, e)
PROOF
<1>1. (CHOOSE x \in (k - 1)..Len(s) : Ends(s, k, x)) = e
  OBVIOUS
<1>2. CString(s, k) = SubSeq(s, k, CHOOSE x \in (k - 1)..Len(s) : Ends(s, k, x))
  BY Zenon DEF CString, Ends
<1> QED
  BY <1>1, <1>2, Zenon

(* The C string that begins after slash i of the cut copy is name i.       *)
LEMMA PieceIs ==
  ASSUME SpellingAssumption, NEW p \in Seq(Name), NEW off, Offsets(p, off),
         NEW s, Laid(p, s, off, Len(p)), NEW i \in 1..Len(p),
         NEW c, c = [k \in DOMAIN s |-> IF k \in Slashes(s) \ {1} THEN NUL ELSE s[k]]
  PROVE  CString(c, off[i - 1] + 2) = Spelling[p[i]]
PROOF
<1> DEFINE L == Len(p)
           w == Spelling[p[i]]
           b == off[i - 1]
           e == off[i]
           N == off[L]
<1>1. /\ L \in Nat /\ i \in 1..L /\ w \in Seq(Char) /\ Len(w) \in Nat /\ Len(w) > 0
      /\ b \in Nat /\ e \in Nat /\ N \in Nat
  <2>1. i \in 0..L /\ i - 1 \in 0..L /\ L \in 0..L /\ L \in Nat
    OBVIOUS
  <2> QED
    BY <2>1, SpellingIs, OffsetsAre
<1>2. e = b + 1 + Len(w)
  BY Zenon DEF Offsets
<1>3. e <= N /\ \A m \in 1..Len(w) : s[b + 1 + m] = w[m]
  BY Zenon DEF Laid
<1>4. s \in Seq(Char \cup {"/"}) /\ Len(s) = N
  BY DEF Laid
<1>5. DOMAIN s = 1..N
  BY <1>4
<1>0. NUL \notin Char /\ "/" \notin Char
  BY Zenon DEF SpellingAssumption
(* Between the slash and the end of the name there is the name.            *)
<1>6. ASSUME NEW k \in (b + 2)..e
      PROVE  c[k] = w[k - b - 1] /\ c[k] \in Char
  <2>1. k - b - 1 \in 1..Len(w) /\ b + 1 + (k - b - 1) = k /\ k \in 1..N
    <3> HIDE DEF b, e, w, N
    <3> QED
      BY <1>1, <1>2, <1>3
  <2>2. s[k] = w[k - b - 1] /\ w[k - b - 1] \in Char
    <3>1. s[b + 1 + (k - b - 1)] = w[k - b - 1]
      BY <1>3, <2>1, Zenon
    <3>2. w[k - b - 1] \in Char
      <4> HIDE DEF w, b
      <4> QED
        BY <1>1, <2>1
    <3> QED
      BY <2>1, <3>1, <3>2
  <2>3. k \notin Slashes(s)
    BY <1>0, <2>2 DEF Slashes
  <2>4. c[k] = s[k]
    BY <1>5, <2>1, <2>3
  <2> QED
    BY <2>2, <2>4
(* After it there is the end of the string or of the copy.                 *)
<1>7. e < N => c[e + 1] = NUL
  <2> SUFFICES ASSUME e < N
               PROVE  c[e + 1] = NUL
    OBVIOUS
  <2>1. i + 1 \in 1..L
    BY <1>1
  <2>2. s[off[(i + 1) - 1] + 1] = "/"
    BY <2>1, Zenon DEF Laid
  <2>3. (i + 1) - 1 = i
    BY <1>1
  <2>4. e + 1 \in 1..N /\ e + 1 # 1
    <3> HIDE DEF b, e, w, N
    <3> QED
      BY <1>1, <1>2
  <2>5. e + 1 \in Slashes(s)
    BY <1>5, <2>2, <2>3, <2>4 DEF Slashes
  <2> QED
    BY <1>5, <2>4, <2>5
<1>8. c \in Seq(Char \cup {"/", NUL}) /\ Len(c) = N /\ DOMAIN c = 1..N
  <2>1. \A k \in 1..N : c[k] \in Char \cup {"/", NUL}
    BY <1>4, <1>5
  <2>2. c = [k \in 1..N |-> c[k]]
    BY <1>5
  <2> HIDE DEF N
  <2> QED
    BY <1>1, <2>1, <2>2
<1> HIDE DEF b, e, w, N, L
<1>9. e \in ((b + 2) - 1)..Len(c) /\ Ends(c, b + 2, e)
  <2>1. e \in ((b + 2) - 1)..N
    BY <1>1, <1>2, <1>3
  <2>2. NUL \notin {c[j] : j \in (b + 2)..e}
    <3> SUFFICES ASSUME NEW j \in (b + 2)..e, c[j] = NUL
                 PROVE  FALSE
      OBVIOUS
    <3>1. c[j] \in Char
      BY <1>6
    <3> QED
      BY <1>0, <3>1
  <2> QED
    BY <1>7, <1>8, <2>1, <2>2 DEF Ends
<1>10. ASSUME NEW x \in ((b + 2) - 1)..Len(c), Ends(c, b + 2, x)
       PROVE  x = e
  <2>1. x \in Nat /\ b + 1 <= x /\ x <= N
    BY <1>1, <1>8
  <2>2. ~(e < x)
    <3> SUFFICES ASSUME e < x
                 PROVE  FALSE
      OBVIOUS
    <3>1. e < N /\ e + 1 \in (b + 2)..x
      BY <1>1, <1>2, <2>1
    <3> QED
      BY <1>7, <1>10, <3>1 DEF Ends
  <2>3. ~(x < e)
    <3> SUFFICES ASSUME x < e
                 PROVE  FALSE
      OBVIOUS
    <3>1. x < Len(c) /\ x + 1 \in (b + 2)..e
      BY <1>1, <1>3, <1>8, <2>1
    <3>2. c[x + 1] = NUL /\ c[x + 1] \in Char
      BY <1>6, <1>10, <3>1 DEF Ends
    <3> QED
      BY <1>0, <3>2
  <2> QED
    BY <1>1, <2>1, <2>2, <2>3
<1>11. CString(c, b + 2) = SubSeq(c, b + 2, e)
  BY <1>9, <1>10, StringIs
<1>12. SubSeq(c, b + 2, e) = w
  <2> DEFINE r == SubSeq(c, b + 2, e)
  <2>1. b + 2 \in 1..(Len(c) + 1) /\ e \in ((b + 2) - 1)..Len(c)
    BY <1>1, <1>2, <1>3, <1>8
  <2>2. /\ r \in Seq(Char \cup {"/", NUL}) /\ Len(r) = e - (b + 2) + 1
        /\ \A m \in 1..(e - (b + 2) + 1) : r[m] = c[b + 2 + m - 1]
    <3>1. \A k \in (b + 2)..e : c[k] \in Char \cup {"/", NUL}
      BY <1>6
    <3>2. b + 2 \in Int /\ e \in Int /\ b + 2 <= e
      BY <1>1, <1>2
    <3> QED
      <4> DEFINE S == Char \cup {"/", NUL}
                 m == b + 2
      <4> HIDE DEF S, m
      <4>1. \A k \in m..e : c[k] \in S
        BY <3>1 DEF S, m
      <4>2. /\ SubSeq(c, m, e) \in Seq(S)
            /\ Len(SubSeq(c, m, e)) = IF m <= e THEN e - m + 1 ELSE 0
            /\ \A x \in 1..(e - m + 1) : SubSeq(c, m, e)[x] = c[m + x - 1]
        <5>1. m \in Int /\ e \in Int
          BY <3>2 DEF m
        <5> QED
          BY <4>1, <5>1, SubSeqProperties
      <4> QED
        BY <3>2, <4>2, Zenon DEF S, m
  <2>3. e - (b + 2) + 1 = Len(w)
    BY <1>1, <1>2
  <2> HIDE DEF r
  <2>4. ASSUME NEW m \in 1..Len(w)
        PROVE  r[m] = w[m]
    <3>1. b + 2 + m - 1 \in (b + 2)..e /\ (b + 2 + m - 1) - b - 1 = m
      BY <1>1, <1>2
    <3>2. c[b + 2 + m - 1] = w[(b + 2 + m - 1) - b - 1]
      BY <1>6, <3>1
    <3> QED
      BY <2>2, <2>3, <3>1, <3>2
  <2>5. w \in Seq(Char \cup {"/", NUL})
    BY <1>1
  <2>6. r = w
    <3>1. r \in Seq(Char \cup {"/", NUL}) /\ Len(r) = Len(w)
      BY <2>2, <2>3
    <3>2. \A m \in 1..Len(r) : r[m] = w[m]
      BY <2>4, <3>1
    <3> DEFINE S == Char \cup {"/", NUL}
    <3> HIDE DEF S
    <3>3. r \in Seq(S) /\ w \in Seq(S)
      BY <2>5, <3>1 DEF S
    <3> QED
      BY <3>1, <3>2, <3>3, SeqEqual
  <2> QED
    BY <2>6 DEF r
<1> QED
  BY <1>11, <1>12 DEF b, w

LEMMA FilesAre ==
  ASSUME SpellingAssumption, NEW p \in Seq(Name), p # <<>>
  PROVE  Files(p) = [i \in DOMAIN p |-> Spelling[p[i]]]
PROOF
<1> DEFINE L == Len(p)
           s == Text(p)
           c == [k \in DOMAIN s |-> IF k \in Slashes(s) \ {1} THEN NUL ELSE s[k]]
           ps == split_file_path(s)
<1>1. PICK off : Offsets(p, off) /\ Laid(p, s, off, L)
  BY TextLies
<1>2. L \in Nat /\ L >= 1 /\ DOMAIN p = 1..L
  OBVIOUS
<1> HIDE DEF s
<1>3. s # <<"/">>
  <2>1. Len(s) = off[L]
    BY <1>1 DEF Laid
  <2>2. 1 \in 1..L /\ 1 \in 0..L /\ L \in 0..L
    BY <1>2
  <2>3. off[1] = off[0] + 1 + Len(Spelling[p[1]])
    <3>1. off[1] = off[1 - 1] + 1 + Len(Spelling[p[1]])
      BY <1>1, <2>2, Zenon DEF Offsets
    <3> QED
      BY <3>1
  <2>4. off[0] = 0 /\ off[1] \in Nat /\ off[L] \in Nat
    BY <1>1, <2>2, OffsetsAre
  <2>5. Len(Spelling[p[1]]) \in Nat /\ Len(Spelling[p[1]]) > 0
    BY <2>2, SpellingIs
  <2>6. off[1] <= off[L]
    BY <1>1, <2>2, Zenon DEF Laid
  <2>7. Len(s) > 1
    BY <2>1, <2>3, <2>4, <2>5, <2>6
  <2> QED
    <3> SUFFICES ASSUME s = <<"/">>
                 PROVE  FALSE
      OBVIOUS
    <3>1. Len(s) = 1
      OBVIOUS
    <3> QED
      BY <2>7, <3>1
<1>4. /\ ps.path_copy = c
      /\ ps.idx_buff = [i \in 1..Cardinality(Slashes(s)) |-> Start(Nth(s, i))]
  BY <1>3 DEF split_file_path, Slashes, Nth
<1>5. Cardinality(Slashes(s)) = L /\ \A i \in 1..L : Nth(s, i) = off[i - 1] + 1
  BY <1>1, NthIs
<1>6. ASSUME NEW i \in 1..L
      PROVE  CString(c, off[i - 1] + 2) = Spelling[p[i]]
  BY <1>1, PieceIs
<1>7. ASSUME NEW i \in 1..L
      PROVE  Start(Nth(s, i)) = off[i - 1] + 2
  <2>1. i - 1 \in 0..L
    BY <1>2
  <2>2. off[i - 1] \in Nat
    BY <1>1, <2>1, OffsetsAre
  <2> QED
    BY <1>5, <2>2 DEF Start
<1> HIDE DEF c, ps, L
<1>8. Files(p) = [i \in 1..L |-> ps_file(ps, i)]
  BY <1>4, <1>5 DEF Files, ps, s
<1>9. ASSUME NEW i \in 1..L
      PROVE  ps_file(ps, i) = Spelling[p[i]]
  BY <1>4, <1>5, <1>6, <1>7 DEF ps_file
<1> QED
  BY <1>2, <1>8, <1>9

LEMMA RootedSplits ==
  ASSUME TreeAssumption, SpellingAssumption, HeapAssumption, IInv, Rooted
  PROVE  PathsSplit
PROOF
<1> SUFFICES ASSUME NEW d \in Item, NEW n \in Name, Live(d), NEW p, p = Append(PathTo(d), n)
             PROVE  /\ Files(p) = [i \in DOMAIN p |-> Spelling[p[i]]]
                    /\ parse_path_string(p) = "OK" <=> Len(Files(p)[Len(p)]) <= FILE_NAME_MAX
                    /\ fs_get_item(p, 0).item = items[d][n]
  BY DEF PathsSplit
<1>1. PICK q \in Seq(Name) : Leads(q, d)
  BY LiveHasPath DEF IInv
<1>2. PathTo(d) = q
  BY <1>1, PathToIsPath DEF IInv, HeapAssumption
<1>3. /\ p \in Seq(Name) /\ p # <<>> /\ Parent(p) = q /\ ps_last_file(p) = n
      /\ Len(p) \in DOMAIN p /\ p[Len(p)] = n
  <2>1. /\ p \in Seq(Name) /\ p # <<>> /\ Len(p) = Len(q) + 1 /\ p[Len(q) + 1] = n
        /\ \A i \in 1..Len(q) : p[i] = q[i]
    BY <1>2, AppendProperties
  <2>2. Len(q) \in Nat /\ Len(p) - 1 = Len(q) /\ Len(p) \in DOMAIN p
    BY <2>1
  <2>3. Len(q) \in 0..Len(p)
    BY <2>1, <2>2
  <2>4. Parent(p) = Cut(p, Len(q))
    BY <2>2 DEF Parent, Cut
  <2>5. Parent(p) = q
    <3> DEFINE r == Cut(p, Len(q))
    <3>1. r \in Seq(Name) /\ Len(r) = Len(q) /\ \A i \in 1..Len(q) : r[i] = p[i]
      BY <2>1, <2>3, CutProps
    <3> HIDE DEF r
    <3>2. \A i \in 1..Len(r) : r[i] = q[i]
      BY <2>1, <3>1
    <3>3. r = q
      BY <3>1, <3>2, SeqsEqual
    <3> QED
      BY <2>4, <3>3 DEF r
  <2> QED
    BY <2>1, <2>2, <2>5 DEF ps_last_file
<1>4. Files(p) = [i \in DOMAIN p |-> Spelling[p[i]]]
  BY <1>3, FilesAre
<1>5. parse_path_string(p) = "OK" <=> Len(Files(p)[Len(p)]) <= FILE_NAME_MAX
  <2>1. Files(p)[Len(p)] = Spelling[n]
    BY <1>3, <1>4
  <2>2. parse_path_string(p) = "OK" <=> n \notin LongName
    BY <1>3 DEF parse_path_string
  <2>3. n \in LongName <=> Len(Spelling[n]) > FILE_NAME_MAX
    BY Zenon DEF SpellingAssumption
  <2>4. Len(Spelling[n]) \in Nat /\ FILE_NAME_MAX \in Nat
    BY DEF SpellingAssumption
  <2> QED
    BY <2>1, <2>2, <2>3, <2>4
<1>6. fs_get_item(p, 0).item = items[d][n]
  <2>1. CASE items[d][n] \in Item
    <3> DEFINE y == items[d][n]
    <3>1. Leads(p, y)
      BY <1>1, <1>3, <2>1, LastStep
    <3> HIDE DEF y
    <3>2. fs_get_item(p, 0) = Found(y)
      BY <1>3, <3>1, LeadsFound DEF IInv
    <3> QED
      BY <3>2 DEF Found, y
  <2>2. CASE items[d][n] = NoItem
    <3>1. ~There(p)
      BY <1>1, <1>3, <2>2, NotThere
    <3> DEFINE r == fs_get_item(p, 0)
    <3>2. r = Fail("ENOTDIR") \/ r = Fail("ENOENT")
      BY <1>3, <3>1, GetAnswers
    <3> HIDE DEF r
    <3>3. r.item = NoItem
      BY <3>2 DEF Fail
    <3> QED
      BY <2>2, <3>3 DEF r
  <2>3. items[d][n] \in Item \cup {NoItem}
    BY DEF IInv, TypeOK
  <2> QED
    BY <2>1, <2>2, <2>3
<1> QED
  BY <1>4, <1>5, <1>6

(* For any number of items, names of any spelling and paths of any length: *)
(* the string of every place in the tree is cut into the names on the way  *)
(* there, the last is refused exactly if it is too long, and they lead to  *)
(* the entry of the directory the place is in.  The arrays of the model    *)
(* have no end; where those of the code do, PathsSplit promises nothing.   *)
THEOREM PathsAlwaysSplit == Spec => []PathsSplit
PROOF
<1> QED
  BY InductiveInvariant, AlwaysRooted, RootedSplits, TreeAssumption, SpellingAssumption,
     HeapAssumption, PTL

=============================================================================
