-------------------------- MODULE SharedValueProofs --------------------------
(***************************************************************************)
(* Proofs about shared_value: no name is there twice, and the plugin        *)
(* implements SharedStore, for any ghosts, variables, texts and batches.    *)
(***************************************************************************)
EXTENDS SharedValueTimer, WellFoundedInduction, TLAPS

-----------------------------------------------------------------------------
(* Induction, with sets in the place of predicates. *)

NatLess == {p \in Nat \X Nat : p[1] < p[2]}

LEMMA NatWellFounded == IsWellFoundedOn(NatLess, Nat)
BY NatLessThanWellFounded DEF OpToRel, NatLess

\* A set of numbers that is not empty has a least one.
LEMMA LeastNumber ==
  ASSUME NEW T \in SUBSET Nat, T # {}
  PROVE  \E x \in T : \A y \in T : x <= y
<1>1. PICK x \in T : \A y \in T : <<y, x>> \notin NatLess
  BY NatWellFounded, WFMin
<1>2. \A y \in T : ~(y < x)
  <2>1. ASSUME NEW y \in T, y < x PROVE FALSE
    <3>1. <<y, x>> \in Nat \X Nat /\ <<y, x>>[1] = y /\ <<y, x>>[2] = x
      OBVIOUS
    <3>2. <<y, x>> \in NatLess
      BY <2>1, <3>1 DEF NatLess
    <3>. QED BY <1>1, <3>2
  <2>. QED BY <2>1
<1>. QED BY <1>2

LEMMA NatSetInduction ==
  ASSUME NEW T, 0 \in T, \A n \in Nat : n \in T => n + 1 \in T
  PROVE  Nat \subseteq T
<1>1. ASSUME Nat \ T # {} PROVE FALSE
  <2>1. PICK x \in Nat \ T : \A y \in Nat \ T : x <= y
    BY <1>1, LeastNumber
  <2>2. x # 0 /\ x - 1 \in Nat /\ (x - 1) + 1 = x
    BY <2>1
  <2>3. x - 1 \in T
    BY <2>1, <2>2
  <2>. QED BY <2>2, <2>3
<1>. QED BY <1>1

LEMMA IntervalInduction ==
  ASSUME NEW a \in Nat, NEW n \in Nat, NEW T, a \in T,
         \A i \in a .. n : i \in T /\ i + 1 <= n => i + 1 \in T
  PROVE  a .. n \subseteq T
<1> DEFINE U == {k \in Nat : a + k <= n => a + k \in T}
<1>1. 0 \in U
  OBVIOUS
<1>2. ASSUME NEW k \in Nat, k \in U PROVE k + 1 \in U
  <2>1. CASE a + (k + 1) <= n
    <3>1. a + k \in a .. n /\ a + k \in T /\ (a + k) + 1 <= n
      BY <1>2, <2>1
    <3>2. (a + k) + 1 \in T
      BY <3>1
    <3>3. (a + k) + 1 = a + (k + 1)
      OBVIOUS
    <3>. QED BY <3>2, <3>3
  <2>2. CASE ~(a + (k + 1) <= n)
    BY <2>2
  <2>. QED BY <2>1, <2>2
<1>3. Nat \subseteq U
  <2> HIDE DEF U
  <2>. QED BY <1>1, <1>2, NatSetInduction
<1>4. ASSUME NEW i \in a .. n PROVE i \in T
  <2>1. i - a \in Nat /\ a + (i - a) = i /\ i <= n
    OBVIOUS
  <2>2. i - a \in U
    BY <1>3, <2>1
  <2>. QED BY <2>1, <2>2
<1>. QED BY <1>4

\* The functions that a recursion over a .. n defines: there is one.
Recursion(S, a, n, base, step) ==
  {g \in [a .. n -> S] :
     \A i \in a .. n : g[i] = IF i = a THEN base ELSE step[<<g[i - 1], i>>]}

LEMMA RecursionExists ==
  ASSUME NEW S, NEW a \in Nat, NEW n \in Nat, NEW base \in S, NEW step \in [S \X Nat -> S]
  PROVE  Recursion(S, a, n, base, step) # {}
<1> DEFINE Rec(k, g) == \A i \in a .. a + k : g[i] = IF i = a THEN base ELSE step[<<g[i - 1], i>>]
           T == {k \in Nat : \E g \in [a .. a + k -> S] : Rec(k, g)}
<1>1. 0 \in T
  <2> DEFINE g == [i \in a .. a + 0 |-> base]
  <2>1. g \in [a .. a + 0 -> S] /\ Rec(0, g)
    OBVIOUS
  <2>. QED BY <2>1
<1>2. ASSUME NEW k \in Nat, k \in T PROVE k + 1 \in T
  <2>1. PICK g \in [a .. a + k -> S] : Rec(k, g)
    BY <1>2
  <2> DEFINE h == [i \in a .. a + (k + 1) |->
                     IF i = a + (k + 1) THEN step[<<g[a + k], a + (k + 1)>>] ELSE g[i]]
  <2>2. g[a + k] \in S /\ a + (k + 1) \in Nat
    BY <2>1
  <2>3. step[<<g[a + k], a + (k + 1)>>] \in S
    BY <2>2
  <2>4. h \in [a .. a + (k + 1) -> S]
    <3>1. \A i \in a .. a + (k + 1) : i # a + (k + 1) => i \in a .. a + k
      OBVIOUS
    <3>. QED BY <2>1, <2>3, <3>1
  <2>5. ASSUME NEW i \in a .. a + (k + 1)
        PROVE  h[i] = IF i = a THEN base ELSE step[<<h[i - 1], i>>]
    <3>1. CASE i = a + (k + 1)
      <4>1. i # a /\ i - 1 = a + k /\ h[i - 1] = g[a + k]
        BY <3>1
      <4>. QED BY <3>1, <4>1
    <3>2. CASE i # a + (k + 1)
      <4>1. i \in a .. a + k /\ h[i] = g[i]
        BY <3>2
      <4>2. i # a => h[i - 1] = g[i - 1]
        BY <3>2
      <4>3. g[i] = IF i = a THEN base ELSE step[<<g[i - 1], i>>]
        BY <2>1, <4>1
      <4> HIDE DEF h
      <4>. QED BY <4>1, <4>2, <4>3
    <3>. QED BY <3>1, <3>2
  <2>6. Rec(k + 1, h)
    BY <2>5
  <2>7. k + 1 \in Nat
    OBVIOUS
  <2> HIDE DEF h, Rec
  <2>. QED BY <2>4, <2>6, <2>7
<1>3. Nat \subseteq T
  <2> HIDE DEF T
  <2>. QED BY <1>1, <1>2, NatSetInduction
<1>4. \E g \in [a .. n -> S] :
         \A i \in a .. n : g[i] = IF i = a THEN base ELSE step[<<g[i - 1], i>>]
  <2>1. CASE a <= n
    <3>1. n - a \in Nat /\ a + (n - a) = n
      BY <2>1
    <3>2. n - a \in T
      BY <1>3, <3>1
    <3>. QED BY <3>1, <3>2
  <2>2. CASE n < a
    <3>1. [i \in a .. n |-> base] \in [a .. n -> S] /\ \A i \in a .. n : FALSE
      BY <2>2
    <3>. QED BY <3>1
  <2>. QED BY <2>1, <2>2
<1>. QED BY <1>4 DEF Recursion

-----------------------------------------------------------------------------
(* The elements of an area. *)

Element == [name : Texts, value : Texts]

\* No name twice, no empty value.
OneEach(e)   == \A i, j \in DOMAIN e : Same(e[i].name, e[j].name) => i = j
NoneEmpty(e) == \A i \in DOMAIN e : e[i].value # Empty
Elements     == {e \in Seq(Element) : OneEach(e) /\ NoneEmpty(e)}

LEMMA LeastOf ==
  ASSUME NEW n \in Nat, NEW I \in SUBSET (1 .. n), I # {}
  PROVE  Min(I) \in I
<1>1. I \in SUBSET Nat
  OBVIOUS
<1>2. \E x \in I : \A y \in I : x <= y
  BY <1>1, LeastNumber
<1>. QED BY <1>2 DEF Min

LEMMA FindFinds ==
  ASSUME NEW X, NEW e \in Seq(X), NEW n
  PROVE  /\ Find(e, n) \in 0 .. Len(e)
         /\ Find(e, n) = 0 => \A i \in DOMAIN e : ~Same(e[i].name, n)
         /\ Find(e, n) # 0 => Same(e[Find(e, n)].name, n)
<1> DEFINE I == {i \in 1 .. Len(e) : Same(e[i].name, n)}
<1>1. Len(e) \in Nat /\ DOMAIN e = 1 .. Len(e)
  OBVIOUS
<1>2. Find(e, n) = IF I # {} THEN Min(I) ELSE 0
  BY DEF Find, SelectInSeq
<1>3. CASE I = {}
  BY <1>1, <1>2, <1>3
<1>4. CASE I # {}
  <2>1. Min(I) \in I
    <3> HIDE DEF I
    <3>1. I \in SUBSET (1 .. Len(e))
      BY DEF I
    <3>. QED BY <1>1, <1>4, <3>1, LeastOf
  <2>. QED BY <1>1, <1>2, <1>4, <2>1
<1>. QED BY <1>3, <1>4

LEMMA FindGhostFinds ==
  ASSUME NEW X, NEW m \in Seq(X), NEW g
  PROVE  /\ FindGhost(m, g) \in 0 .. Len(m)
         /\ FindGhost(m, g) = 0 => \A i \in DOMAIN m : ~Same(m[i].ghost, g)
         /\ FindGhost(m, g) # 0 => Same(m[FindGhost(m, g)].ghost, g)
<1> DEFINE I == {i \in 1 .. Len(m) : Same(m[i].ghost, g)}
<1>1. Len(m) \in Nat /\ DOMAIN m = 1 .. Len(m)
  OBVIOUS
<1>2. FindGhost(m, g) = IF I # {} THEN Min(I) ELSE 0
  BY DEF FindGhost, SelectInSeq
<1>3. CASE I = {}
  BY <1>1, <1>2, <1>3
<1>4. CASE I # {}
  <2>1. Min(I) \in I
    <3> HIDE DEF I
    <3>1. I \in SUBSET (1 .. Len(m))
      BY DEF I
    <3>. QED BY <1>1, <1>4, <3>1, LeastOf
  <2>. QED BY <1>1, <1>2, <1>4, <2>1
<1>. QED BY <1>3, <1>4

\* The one element of a name is the one that is found.
LEMMA FindIs ==
  ASSUME NEW e \in Elements, NEW i \in DOMAIN e, NEW n, Same(e[i].name, n)
  PROVE  Find(e, n) = i
<1>1. e \in Seq(Element) /\ DOMAIN e = 1 .. Len(e) /\ OneEach(e)
  BY DEF Elements
<1>2. Find(e, n) # 0 /\ Find(e, n) \in DOMAIN e /\ Same(e[Find(e, n)].name, n)
  BY <1>1, FindFinds
<1>. QED BY <1>1, <1>2 DEF OneEach, Same

LEMMA GetIs ==
  ASSUME NEW e \in Elements, NEW n
  PROVE  /\ \A i \in DOMAIN e : Same(e[i].name, n) => Get(e, n) = e[i].value /\ Get(e, n) # Empty
         /\ (\A i \in DOMAIN e : ~Same(e[i].name, n)) => Get(e, n) = Empty
         /\ Get(e, n) \in Texts
<1>1. e \in Seq(Element) /\ DOMAIN e = 1 .. Len(e) /\ NoneEmpty(e) /\ Empty \in Texts
  BY TextAssumption DEF Elements
<1>2. ASSUME NEW i \in DOMAIN e, Same(e[i].name, n)
      PROVE  Get(e, n) = e[i].value /\ Get(e, n) # Empty
  <2>1. Find(e, n) = i /\ i # 0
    BY <1>1, <1>2, FindIs
  <2>. QED BY <1>1, <2>1 DEF Get, NoneEmpty
<1>3. ASSUME \A i \in DOMAIN e : ~Same(e[i].name, n) PROVE Get(e, n) = Empty
  BY <1>1, <1>3, FindFinds DEF Get
<1>4. Get(e, n) \in Texts
  <2>1. Find(e, n) # 0 => e[Find(e, n)] \in Element
    BY <1>1, FindFinds
  <2>. QED BY <1>1, <2>1 DEF Get, Element
<1>. QED BY <1>2, <1>3, <1>4
LEMMA Concat2 ==
  ASSUME NEW X, NEW a \in Seq(X), NEW b \in Seq(X)
  PROVE  /\ a \o b \in Seq(X) /\ Len(a \o b) = Len(a) + Len(b)
         /\ \A i \in 1 .. Len(a) : (a \o b)[i] = a[i]
         /\ \A i \in 1 .. Len(b) : (a \o b)[Len(a) + i] = b[i]
OBVIOUS

LEMMA RemoveAtShape ==
  ASSUME NEW X, NEW e \in Seq(X), NEW i \in 1 .. Len(e)
  PROVE  /\ RemoveAt(e, i) \in Seq(X)
         /\ Len(RemoveAt(e, i)) = Len(e) - 1
         /\ \A j \in 1 .. Len(e) - 1 : RemoveAt(e, i)[j] = IF j < i THEN e[j] ELSE e[j + 1]
<1> DEFINE a == SubSeq(e, 1, i - 1)
           b == SubSeq(e, i + 1, Len(e))
<1>1. Len(e) \in Nat /\ i \in Nat /\ 1 <= i /\ i <= Len(e)
  OBVIOUS
<1>2. a \in Seq(X) /\ Len(a) = i - 1 /\ \A j \in 1 .. i - 1 : a[j] = e[j]
  BY <1>1
<1>3. b \in Seq(X) /\ Len(b) = Len(e) - i /\ \A j \in 1 .. Len(e) - i : b[j] = e[i + j]
  BY <1>1
<1> HIDE DEF a, b
<1>4. a \o b \in Seq(X) /\ Len(a \o b) = Len(a) + Len(b)
  BY <1>2, <1>3, Concat2
<1>5. \A j \in 1 .. Len(a) : (a \o b)[j] = a[j]
  BY <1>2, <1>3, Concat2
<1>6. \A j \in 1 .. Len(b) : (a \o b)[Len(a) + j] = b[j]
  BY <1>2, <1>3, Concat2
<1>7. Len(a \o b) = Len(e) - 1
  BY <1>1, <1>2, <1>3, <1>4
<1>8. ASSUME NEW j \in 1 .. Len(e) - 1
      PROVE  (a \o b)[j] = IF j < i THEN e[j] ELSE e[j + 1]
  <2>1. CASE j < i
    <3>1. j \in 1 .. i - 1
      BY <1>1, <2>1
    <3>. QED BY <1>2, <1>5, <2>1, <3>1
  <2>2. CASE j >= i
    <3> DEFINE q == j - (i - 1)
    <3>1. q \in 1 .. Len(e) - i /\ (i - 1) + q = j /\ i + q = j + 1
      BY <1>1, <2>2
    <3> HIDE DEF q
    <3>2. (a \o b)[(i - 1) + q] = b[q] /\ b[q] = e[i + q]
      BY <1>2, <1>3, <1>6, <3>1
    <3>3. ~(j < i)
      BY <1>1, <2>2
    <3>. QED BY <3>1, <3>2, <3>3
  <2>3. j < i \/ j >= i
    BY <1>1
  <2>. QED BY <2>1, <2>2, <2>3
<1>. QED BY <1>4, <1>7, <1>8 DEF RemoveAt, a, b

\* What Add returns: still no name twice and no empty value; the new value under
\* its name, every other one as it was; no name from nowhere.
LEMMA AddResult ==
  ASSUME NEW e \in Elements, NEW n \in Texts, NEW v \in Texts
  PROVE  /\ Add(e, n, v) \in Elements
         /\ \A k : Get(Add(e, n, v), k) = IF Same(n, k) THEN v ELSE Get(e, k)
         /\ \A i \in DOMAIN Add(e, n, v) : \/ Add(e, n, v)[i].name = n
                                           \/ \E j \in DOMAIN e : Add(e, n, v)[i].name = e[j].name
<1> DEFINE w == Add(e, n, v)
           at == Find(e, n)
<1>1. /\ e \in Seq(Element) /\ DOMAIN e = 1 .. Len(e) /\ Len(e) \in Nat
      /\ OneEach(e) /\ NoneEmpty(e)
  BY DEF Elements
<1>2. \A i \in DOMAIN e : e[i] \in Element
  BY <1>1
<1>3. CASE at = 0
  <2>1. \A i \in DOMAIN e : ~Same(e[i].name, n)
    BY <1>1, <1>3, FindFinds
  <2>2. CASE v = Empty
    <3>1. w = e
      BY <1>3, <2>2 DEF Add
    <3>2. \A k : Same(n, k) => \A i \in DOMAIN e : ~Same(e[i].name, k)
      BY <2>1 DEF Same
    <3>. QED BY <2>2, <3>1, <3>2, GetIs
  <2>3. CASE v # Empty
    <3> DEFINE x == [name |-> n, value |-> v]
    <3>1. w = Append(e, x) /\ x \in Element
      BY <1>3, <2>3 DEF Add, Element
    <3>2. /\ w \in Seq(Element) /\ DOMAIN w = 1 .. Len(e) + 1 /\ w[Len(e) + 1] = x
          /\ \A i \in 1 .. Len(e) : w[i] = e[i]
      <4> HIDE DEF x, w
      <4>. QED BY <1>1, <3>1
    <3> HIDE DEF w
    <3>3. OneEach(w)
      <4>1. ASSUME NEW i \in DOMAIN w, NEW j \in DOMAIN w, Same(w[i].name, w[j].name) PROVE i = j
        <5>1. CASE i \in 1 .. Len(e) /\ j \in 1 .. Len(e)
          BY <1>1, <3>2, <4>1, <5>1 DEF OneEach
        <5>2. CASE i = Len(e) + 1 /\ j \in 1 .. Len(e)
          BY <1>1, <2>1, <3>2, <4>1, <5>2 DEF Same
        <5>3. CASE i \in 1 .. Len(e) /\ j = Len(e) + 1
          BY <1>1, <2>1, <3>2, <4>1, <5>3 DEF Same
        <5>. QED BY <1>1, <3>2, <4>1, <5>1, <5>2, <5>3
      <4>. QED BY <4>1 DEF OneEach
    <3>4. NoneEmpty(w)
      BY <1>1, <2>3, <3>2 DEF NoneEmpty
    <3>5. w \in Elements
      BY <3>2, <3>3, <3>4 DEF Elements
    <3>6. ASSUME NEW k PROVE Get(w, k) = IF Same(n, k) THEN v ELSE Get(e, k)
      <4>1. CASE Same(n, k)
        <5>1. Len(e) + 1 \in DOMAIN w /\ w[Len(e) + 1].name = n /\ w[Len(e) + 1].value = v
          BY <1>1, <3>2
        <5>. QED BY <3>5, <4>1, <5>1, GetIs
      <4>2. CASE ~Same(n, k) /\ \E i \in DOMAIN e : Same(e[i].name, k)
        <5>1. PICK i \in DOMAIN e : Same(e[i].name, k)
          BY <4>2
        <5>2. i \in DOMAIN w /\ w[i] = e[i]
          BY <1>1, <3>2
        <5>3. Get(w, k) = w[i].value /\ Get(e, k) = e[i].value
          BY <3>5, <5>1, <5>2, GetIs
        <5>. QED BY <4>2, <5>2, <5>3
      <4>3. CASE ~Same(n, k) /\ \A i \in DOMAIN e : ~Same(e[i].name, k)
        <5>1. \A i \in DOMAIN w : ~Same(w[i].name, k)
          BY <1>1, <3>2, <4>3
        <5>. QED BY <3>5, <4>3, <5>1, GetIs
      <4>. QED BY <4>1, <4>2, <4>3
    <3>7. \A i \in DOMAIN w : w[i].name = n \/ \E j \in DOMAIN e : w[i].name = e[j].name
      BY <1>1, <3>2
    <3>. QED BY <3>5, <3>6, <3>7 DEF w
  <2>. QED BY <2>2, <2>3
<1>4. CASE at # 0
  <2>1. at \in 1 .. Len(e) /\ Same(e[at].name, n)
    BY <1>1, <1>4, FindFinds
  <2>2. CASE v = Empty
    <3>1. w = RemoveAt(e, at)
      BY <1>4, <2>2 DEF Add
    <3> HIDE DEF w, at
    <3>2. /\ w \in Seq(Element) /\ DOMAIN w = 1 .. Len(e) - 1
          /\ \A j \in 1 .. Len(e) - 1 : w[j] = IF j < at THEN e[j] ELSE e[j + 1]
      <4>1. /\ w \in Seq(Element) /\ Len(w) = Len(e) - 1
            /\ \A j \in 1 .. Len(e) - 1 : w[j] = IF j < at THEN e[j] ELSE e[j + 1]
        BY <1>1, <2>1, <3>1, RemoveAtShape
      <4>. QED BY <4>1
    <3> DEFINE old(j) == IF j < at THEN j ELSE j + 1
    <3>3. \A j \in DOMAIN w : old(j) \in DOMAIN e /\ old(j) # at /\ w[j] = e[old(j)]
      BY <1>1, <2>1, <3>2
    <3>4. \A i, j \in DOMAIN w : old(i) = old(j) => i = j
      BY <1>1, <2>1, <3>2
    <3>5. \A i \in DOMAIN e : i # at => \E j \in DOMAIN w : old(j) = i
      <4>1. ASSUME NEW i \in DOMAIN e, i # at PROVE \E j \in DOMAIN w : old(j) = i
        <5>1. CASE i < at
          <6>1. i \in DOMAIN w /\ old(i) = i
            BY <1>1, <2>1, <3>2, <5>1
          <6>. QED BY <6>1
        <5>2. CASE i > at
          <6>1. i - 1 \in DOMAIN w /\ old(i - 1) = i
            BY <1>1, <2>1, <3>2, <5>2
          <6>. QED BY <6>1
        <5>. QED BY <1>1, <2>1, <4>1, <5>1, <5>2
      <4>. QED BY <4>1
    <3> HIDE DEF old
    <3>6. OneEach(w) /\ NoneEmpty(w)
      BY <1>1, <3>3, <3>4 DEF OneEach, NoneEmpty
    <3>7. w \in Elements
      BY <3>2, <3>6 DEF Elements
    <3>8. ASSUME NEW k PROVE Get(w, k) = IF Same(n, k) THEN v ELSE Get(e, k)
      <4>1. CASE Same(n, k)
        <5>1. \A j \in DOMAIN w : ~Same(w[j].name, k)
          BY <1>1, <2>1, <3>3, <4>1 DEF OneEach, Same
        <5>. QED BY <2>2, <3>7, <4>1, <5>1, GetIs
      <4>2. CASE ~Same(n, k) /\ \E i \in DOMAIN e : Same(e[i].name, k)
        <5>1. PICK i \in DOMAIN e : Same(e[i].name, k)
          BY <4>2
        <5>2. i # at
          BY <2>1, <4>2, <5>1 DEF Same
        <5>3. PICK j \in DOMAIN w : old(j) = i
          BY <3>5, <5>2
        <5>4. Get(w, k) = w[j].value /\ Get(e, k) = e[i].value /\ w[j] = e[i]
          BY <3>3, <3>7, <5>1, <5>3, GetIs
        <5>. QED BY <4>2, <5>4
      <4>3. CASE ~Same(n, k) /\ \A i \in DOMAIN e : ~Same(e[i].name, k)
        <5>1. \A i \in DOMAIN w : ~Same(w[i].name, k)
          BY <3>3, <4>3
        <5>. QED BY <3>7, <4>3, <5>1, GetIs
      <4>. QED BY <4>1, <4>2, <4>3
    <3>9. \A i \in DOMAIN w : \E j \in DOMAIN e : w[i].name = e[j].name
      BY <3>3
    <3>. QED BY <3>7, <3>8, <3>9 DEF w
  <2>3. CASE v # Empty
    <3>1. w = [e EXCEPT ![at].value = v]
      BY <1>4, <2>3 DEF Add
    <3> HIDE DEF w, at
    <3>2. [e[at] EXCEPT !.value = v] \in Element /\ [e[at] EXCEPT !.value = v].name = e[at].name
          /\ [e[at] EXCEPT !.value = v].value = v
      BY <1>1, <1>2, <2>1 DEF Element
    <3>3. /\ w \in Seq(Element) /\ DOMAIN w = DOMAIN e
          /\ w[at].name = e[at].name /\ w[at].value = v
          /\ \A i \in DOMAIN e : i # at => w[i] = e[i]
      BY <1>1, <2>1, <3>1, <3>2
    <3>4. \A i \in DOMAIN e : w[i].name = e[i].name
      BY <3>3
    <3>5. w \in Elements
      <4>1. OneEach(w)
        BY <1>1, <3>3, <3>4 DEF OneEach
      <4>2. NoneEmpty(w)
        BY <1>1, <2>3, <3>3 DEF NoneEmpty
      <4>. QED BY <3>3, <4>1, <4>2 DEF Elements
    <3>6. ASSUME NEW k PROVE Get(w, k) = IF Same(n, k) THEN v ELSE Get(e, k)
      <4>1. CASE Same(n, k)
        <5>1. at \in DOMAIN w /\ Same(w[at].name, k)
          BY <1>1, <2>1, <3>3, <4>1 DEF Same
        <5>. QED BY <3>3, <3>5, <4>1, <5>1, GetIs
      <4>2. CASE ~Same(n, k) /\ \E i \in DOMAIN e : Same(e[i].name, k)
        <5>1. PICK i \in DOMAIN e : Same(e[i].name, k)
          BY <4>2
        <5>2. i # at
          BY <2>1, <4>2, <5>1 DEF Same
        <5>3. Get(w, k) = w[i].value /\ Get(e, k) = e[i].value /\ w[i] = e[i]
          BY <3>3, <3>4, <3>5, <5>1, <5>2, GetIs
        <5>. QED BY <4>2, <5>3
      <4>3. CASE ~Same(n, k) /\ \A i \in DOMAIN e : ~Same(e[i].name, k)
        <5>1. \A i \in DOMAIN w : ~Same(w[i].name, k)
          BY <3>3, <3>4, <4>3
        <5>. QED BY <3>5, <4>3, <5>1, GetIs
      <4>. QED BY <4>1, <4>2, <4>3
    <3>7. \A i \in DOMAIN w : \E j \in DOMAIN e : w[i].name = e[j].name
      BY <3>3, <3>4
    <3>. QED BY <3>5, <3>6, <3>7 DEF w
  <2>. QED BY <2>2, <2>3
<1>. QED BY <1>3, <1>4
-----------------------------------------------------------------------------
(* The areas. *)

Distinct(m) == \A i, j \in DOMAIN m : Same(m[i].ghost, m[j].ghost) => i = j
Areas == {m \in Seq([ghost : Texts, element : Elements]) : Distinct(m)}

\* What the area of g has for the variable n.
Value(m, g, n) == IF FindGhost(m, g) = 0 THEN Empty ELSE Get(m[FindGhost(m, g)].element, n)

\* An area that is not empty is that of a ghost, and its names are variables.
Known(m) ==
  \A i \in DOMAIN m : m[i].element # <<>> =>
     /\ Fold[m[i].ghost] \in GhostId
     /\ \A j \in DOMAIN m[i].element : Fold[m[i].element[j].name] \in KeyId

LEMMA AreasType ==
  ASSUME NEW m \in Areas
  PROVE  /\ m \in Seq([ghost : Texts, element : Elements])
         /\ DOMAIN m = 1 .. Len(m) /\ Len(m) \in Nat /\ Distinct(m)
         /\ \A i \in DOMAIN m : m[i].ghost \in Texts /\ m[i].element \in Elements
<1> DEFINE A == [ghost : Texts, element : Elements]
<1>1. \A a \in A : a.ghost \in Texts /\ a.element \in Elements
  OBVIOUS
<1>2. m \in Seq(A) /\ Distinct(m)
  BY DEF Areas
<1> HIDE DEF A
<1>3. \A i \in DOMAIN m : m[i] \in A
  BY <1>2
<1>. QED BY <1>1, <1>2, <1>3 DEF A

\* The one area of a ghost is the one that is found.
LEMMA FindGhostIs ==
  ASSUME NEW m \in Areas, NEW i \in DOMAIN m, NEW g, Same(m[i].ghost, g)
  PROVE  FindGhost(m, g) = i
<1>1. FindGhost(m, g) # 0 /\ FindGhost(m, g) \in DOMAIN m /\ Same(m[FindGhost(m, g)].ghost, g)
  BY AreasType, FindGhostFinds
<1>. QED BY <1>1 DEF Areas, Distinct, Same

LEMMA ValueIs ==
  ASSUME NEW m \in Areas, NEW g, NEW n
  PROVE  /\ \A i \in DOMAIN m : Same(m[i].ghost, g) => Value(m, g, n) = Get(m[i].element, n)
         /\ (\A i \in DOMAIN m : ~Same(m[i].ghost, g)) => Value(m, g, n) = Empty
         /\ Value(m, g, n) \in Texts
<1>1. ASSUME NEW i \in DOMAIN m, Same(m[i].ghost, g)
      PROVE  Value(m, g, n) = Get(m[i].element, n)
  <2>1. FindGhost(m, g) = i /\ i # 0
    BY <1>1, FindGhostIs, AreasType
  <2>. QED BY <2>1 DEF Value
<1>2. FindGhost(m, g) = 0 \/ (FindGhost(m, g) \in DOMAIN m /\ Same(m[FindGhost(m, g)].ghost, g))
  BY AreasType, FindGhostFinds
<1>3. Value(m, g, n) \in Texts
  <2>1. FindGhost(m, g) # 0 => Get(m[FindGhost(m, g)].element, n) \in Texts
    BY <1>2, AreasType, GetIs
  <2>. QED BY <2>1, TextAssumption DEF Value
<1>. QED BY <1>1, <1>2, <1>3 DEF Value

LEMMA NoElements == <<>> \in Elements /\ \A n : Get(<<>>, n) = Empty
<1>1. <<>> \in Elements
  BY DEF Elements, OneEach, NoneEmpty
<1>. QED BY <1>1, GetIs

LEMMA NoAreas == <<>> \in Areas /\ Known(<<>>) /\ \A g, n : Value(<<>>, g, n) = Empty
<1>1. <<>> \in Areas
  BY DEF Areas, Distinct
<1>. QED BY <1>1, ValueIs DEF Known

\* An area is made, empty, when there is none: no value changes.
LEMMA WithGhostResult ==
  ASSUME NEW m \in Areas, NEW g \in Texts
  PROVE  LET w == WithGhost(m, g)
         IN  /\ w \in Areas
             /\ FindGhost(w, g) \in DOMAIN w /\ Same(w[FindGhost(w, g)].ghost, g)
             /\ \A h, n : Value(w, h, n) = Value(m, h, n)
             /\ \A i \in DOMAIN m : i \in DOMAIN w /\ w[i] = m[i]
             /\ Known(m) => Known(w)
<1> DEFINE w == WithGhost(m, g)
           x == [ghost |-> g, element |-> <<>>]
           A == [ghost : Texts, element : Elements]
<1>1. CASE FindGhost(m, g) # 0
  <2>1. w = m
    BY <1>1 DEF WithGhost
  <2>2. FindGhost(m, g) \in DOMAIN m /\ Same(m[FindGhost(m, g)].ghost, g)
    BY <1>1, FindGhostFinds, AreasType
  <2>. QED BY <2>1, <2>2
<1>2. CASE FindGhost(m, g) = 0
  <2>1. w = Append(m, x)
    BY <1>2 DEF WithGhost
  <2>2. m \in Seq(A) /\ Distinct(m) /\ \A i \in DOMAIN m : ~Same(m[i].ghost, g)
    BY <1>2, FindGhostFinds, AreasType
  <2>3. x \in A
    BY NoElements
  <2> HIDE DEF w, x, A
  <2>4. /\ w \in Seq(A) /\ DOMAIN m = 1 .. Len(m) /\ DOMAIN w = 1 .. Len(m) + 1
        /\ Len(m) \in Nat /\ w[Len(m) + 1] = x
        /\ \A i \in 1 .. Len(m) : w[i] = m[i]
    BY <2>1, <2>2, <2>3
  <2>5. x.ghost = g /\ x.element = <<>>
    BY DEF x
  <2>6. Distinct(w)
    <3>1. ASSUME NEW i \in DOMAIN w, NEW j \in DOMAIN w, Same(w[i].ghost, w[j].ghost) PROVE i = j
      <4>1. CASE i \in 1 .. Len(m) /\ j \in 1 .. Len(m)
        BY <2>2, <2>4, <3>1, <4>1 DEF Distinct
      <4>2. CASE i = Len(m) + 1 /\ j \in 1 .. Len(m)
        BY <2>2, <2>4, <2>5, <3>1, <4>2 DEF Same
      <4>3. CASE i \in 1 .. Len(m) /\ j = Len(m) + 1
        BY <2>2, <2>4, <2>5, <3>1, <4>3 DEF Same
      <4>. QED BY <2>4, <3>1, <4>1, <4>2, <4>3
    <3>. QED BY <3>1 DEF Distinct
  <2>7. w \in Areas
    BY <2>4, <2>6 DEF Areas, A
  <2>8. Len(m) + 1 \in DOMAIN w /\ Same(w[Len(m) + 1].ghost, g)
    BY <2>4, <2>5 DEF Same
  <2>9. FindGhost(w, g) = Len(m) + 1
    BY <2>7, <2>8, FindGhostIs
  <2>10. ASSUME NEW h, NEW n PROVE Value(w, h, n) = Value(m, h, n)
    <3>1. CASE \E i \in DOMAIN m : Same(m[i].ghost, h)
      <4>1. PICK i \in DOMAIN m : Same(m[i].ghost, h)
        BY <3>1
      <4>2. i \in DOMAIN w /\ w[i] = m[i]
        BY <2>4
      <4>. QED BY <2>7, <4>1, <4>2, ValueIs
    <3>2. CASE \A i \in DOMAIN m : ~Same(m[i].ghost, h)
      <4>1. Value(m, h, n) = Empty
        BY <3>2, ValueIs
      <4>2. CASE Same(g, h)
        <5>1. Value(w, h, n) = Get(<<>>, n)
          BY <2>5, <2>7, <2>4, <2>8, <4>2, ValueIs DEF Same
        <5>. QED BY <4>1, <5>1, NoElements
      <4>3. CASE ~Same(g, h)
        <5>1. \A i \in DOMAIN w : ~Same(w[i].ghost, h)
          BY <2>4, <2>5, <3>2, <4>3
        <5>. QED BY <2>7, <4>1, <5>1, ValueIs
      <4>. QED BY <4>2, <4>3
    <3>. QED BY <3>1, <3>2
  <2>11. \A i \in DOMAIN m : i \in DOMAIN w /\ w[i] = m[i]
    BY <2>4
  <2>12. Known(m) => Known(w)
    BY <2>4, <2>5 DEF Known
  <2>. QED BY <2>7, <2>8, <2>9, <2>10, <2>11, <2>12 DEF w
<1>. QED BY <1>1, <1>2

Put(m, f, n, v) == [m EXCEPT ![f].element = Add(@, n, v)]

\* A value goes into the area at place f, under its name: nothing else changes.
LEMMA PutResult ==
  ASSUME NEW m \in Areas, NEW f \in DOMAIN m, NEW n \in Texts, NEW v \in Texts
  PROVE  LET w == Put(m, f, n, v)
         IN  /\ w \in Areas /\ DOMAIN w = DOMAIN m
             /\ \A i \in DOMAIN m : w[i].ghost = m[i].ghost
             /\ \A h, k : Value(w, h, k) =
                  IF Same(m[f].ghost, h) /\ Same(n, k) THEN v ELSE Value(m, h, k)
             /\ Known(m) /\ Fold[m[f].ghost] \in GhostId /\ Fold[n] \in KeyId => Known(w)
<1> DEFINE w == Put(m, f, n, v)
           A == [ghost : Texts, element : Elements]
           new == Add(m[f].element, n, v)
<1>1. /\ m \in Seq(A) /\ Distinct(m) /\ DOMAIN m = 1 .. Len(m)
      /\ m[f].ghost \in Texts /\ m[f].element \in Elements
  BY AreasType
<1>2. /\ new \in Elements
      /\ \A k : Get(new, k) = IF Same(n, k) THEN v ELSE Get(m[f].element, k)
      /\ \A i \in DOMAIN new : new[i].name = n \/ \E j \in DOMAIN m[f].element :
                                                    new[i].name = m[f].element[j].name
  BY <1>1, AddResult
<1>3. /\ w \in Seq(A) /\ DOMAIN w = DOMAIN m
      /\ w[f].ghost = m[f].ghost /\ w[f].element = new
      /\ \A i \in DOMAIN m : i # f => w[i] = m[i]
  <2>1. [m[f] EXCEPT !.element = new] \in A
    <3>1. m[f] \in A
      <4> HIDE DEF A
      <4>. QED BY <1>1
    <3> HIDE DEF new
    <3>. QED BY <1>2, <3>1
  <2>2. w = [m EXCEPT ![f] = [m[f] EXCEPT !.element = new]]
    BY DEF Put
  <2> HIDE DEF new
  <2>. QED BY <1>1, <2>1, <2>2
<1> HIDE DEF w, A, new
<1>4. \A i \in DOMAIN m : w[i].ghost = m[i].ghost
  BY <1>3
<1>5. w \in Areas
  BY <1>1, <1>3, <1>4 DEF Areas, Distinct, A
<1>6. ASSUME NEW h, NEW k
      PROVE  Value(w, h, k) = IF Same(m[f].ghost, h) /\ Same(n, k) THEN v ELSE Value(m, h, k)
  <2>1. CASE Same(m[f].ghost, h)
    <3>1. Value(w, h, k) = Get(new, k) /\ Value(m, h, k) = Get(m[f].element, k)
      BY <1>3, <1>5, <2>1, ValueIs
    <3>. QED BY <1>2, <2>1, <3>1
  <2>2. CASE ~Same(m[f].ghost, h) /\ \E i \in DOMAIN m : Same(m[i].ghost, h)
    <3>1. PICK i \in DOMAIN m : Same(m[i].ghost, h)
      BY <2>2
    <3>2. i # f /\ w[i] = m[i]
      BY <1>3, <2>2, <3>1
    <3>. QED BY <1>3, <1>5, <2>2, <3>1, <3>2, ValueIs
  <2>3. CASE \A i \in DOMAIN m : ~Same(m[i].ghost, h)
    <3>1. \A i \in DOMAIN w : ~Same(w[i].ghost, h)
      BY <1>3, <1>4, <2>3
    <3>. QED BY <1>5, <2>3, <3>1, ValueIs
  <2>. QED BY <2>1, <2>2, <2>3
<1>7. Known(m) /\ Fold[m[f].ghost] \in GhostId /\ Fold[n] \in KeyId => Known(w)
  <2> SUFFICES ASSUME Known(m), Fold[m[f].ghost] \in GhostId, Fold[n] \in KeyId PROVE Known(w)
    OBVIOUS
  <2>1. \A i \in DOMAIN new : Fold[new[i].name] \in KeyId
    <3>1. \A j \in DOMAIN m[f].element : m[f].element # <<>>
      BY <1>1 DEF Elements
    <3>. QED BY <1>2, <3>1 DEF Known
  <2>. QED BY <1>3, <1>4, <2>1 DEF Known
<1>. QED BY <1>3, <1>4, <1>5, <1>6, <1>7 DEF w

LEMMA AddToResult ==
  ASSUME NEW m \in Areas, NEW g \in Texts, NEW n \in Texts, NEW v \in Texts
  PROVE  /\ AddTo(m, g, n, v) \in Areas
         /\ \A h, k : Value(AddTo(m, g, n, v), h, k) =
              IF Same(g, h) /\ Same(n, k) THEN v ELSE Value(m, h, k)
         /\ Known(m) /\ Fold[g] \in GhostId /\ Fold[n] \in KeyId => Known(AddTo(m, g, n, v))
<1> DEFINE made == WithGhost(m, g)
           f == FindGhost(made, g)
           w == Put(made, f, n, v)
<1>1. AddTo(m, g, n, v) = w
  BY DEF AddTo, Put
<1>2. /\ made \in Areas /\ f \in DOMAIN made /\ Same(made[f].ghost, g)
      /\ \A h, k : Value(made, h, k) = Value(m, h, k)
      /\ Known(m) => Known(made)
  BY WithGhostResult
<1> HIDE DEF made, f
<1>3. /\ w \in Areas
      /\ \A h, k : Value(w, h, k) =
           IF Same(made[f].ghost, h) /\ Same(n, k) THEN v ELSE Value(made, h, k)
      /\ Known(made) /\ Fold[made[f].ghost] \in GhostId /\ Fold[n] \in KeyId => Known(w)
  BY <1>2, PutResult
<1> HIDE DEF w
<1>4. \A h : Same(made[f].ghost, h) <=> Same(g, h)
  BY <1>2 DEF Same
<1>5. Fold[made[f].ghost] = Fold[g]
  BY <1>2 DEF Same
<1>. QED BY <1>1, <1>2, <1>3, <1>4, <1>5
\* The areas of a batch, one pair after the other.
LEMMA BatchSteps ==
  ASSUME NEW m \in Areas, NEW g \in Texts, NEW b \in Seq(Element)
  PROVE  /\ Batch(m, g, b) \in [0 .. Len(b) -> Areas]
         /\ Batch(m, g, b)[0] = WithGhost(m, g)
         /\ \A i \in 1 .. Len(b) :
              Batch(m, g, b)[i] = AddTo(Batch(m, g, b)[i - 1], g, b[i].name, b[i].value)
<1> DEFINE areas == Batch(m, g, b)
           n == Len(b)
           Rec(r) == [i \in 0 .. n |->
                        IF i = 0 THEN WithGhost(m, g) ELSE AddTo(r[i - 1], g, b[i].name, b[i].value)]
           step == [x \in Areas \X Nat |->
                      IF x[2] \in 1 .. n THEN AddTo(x[1], g, b[x[2]].name, b[x[2]].value) ELSE x[1]]
<1>1. n \in Nat /\ \A i \in 1 .. n : b[i].name \in Texts /\ b[i].value \in Texts
  <2>1. \A i \in 1 .. n : b[i] \in Element
    OBVIOUS
  <2>. QED BY <2>1 DEF Element
<1>2. \A a \in Areas : \A i \in 1 .. n : AddTo(a, g, b[i].name, b[i].value) \in Areas
  BY <1>1, AddToResult
<1>3. step \in [Areas \X Nat -> Areas]
  BY <1>2
<1>4. WithGhost(m, g) \in Areas
  BY WithGhostResult
<1>5. PICK r \in [0 .. n -> Areas] :
         \A i \in 0 .. n : r[i] = IF i = 0 THEN WithGhost(m, g) ELSE step[<<r[i - 1], i>>]
  <2> DEFINE base == WithGhost(m, g)
  <2> HIDE DEF step, base, n
  <2>1. base \in Areas /\ n \in Nat /\ 0 \in Nat
    BY <1>1, <1>4 DEF base
  <2>2. Recursion(Areas, 0, n, base, step) # {}
    BY <1>3, <2>1, RecursionExists
  <2>. QED BY <2>2 DEF base, Recursion
<1>6. r = Rec(r)
  <2>1. ASSUME NEW i \in 0 .. n
        PROVE  r[i] = IF i = 0 THEN WithGhost(m, g) ELSE AddTo(r[i - 1], g, b[i].name, b[i].value)
    <3>1. CASE i = 0
      BY <1>5, <3>1
    <3>2. CASE i # 0
      <4>1. i \in 1 .. n /\ i - 1 \in 0 .. n /\ i \in Nat
        BY <1>1, <3>2
      <4>2. <<r[i - 1], i>> \in Areas \X Nat
        BY <4>1
      <4>3. step[<<r[i - 1], i>>] = AddTo(r[i - 1], g, b[i].name, b[i].value)
        BY <4>1, <4>2
      <4>. QED BY <1>5, <3>2, <4>3
    <3>. QED BY <3>1, <3>2
  <2>2. r = [i \in 0 .. n |-> r[i]]
    OBVIOUS
  <2>. QED BY <2>1, <2>2
<1>7. areas = CHOOSE q : q = Rec(q)
  BY DEF Batch
<1>8. areas = Rec(areas)
  <2> HIDE DEF Rec, areas
  <2>. QED BY <1>6, <1>7
<1> HIDE DEF areas
<1>9. DOMAIN areas = 0 .. n
  BY <1>8
<1>10. \A i \in 0 .. n :
         areas[i] = IF i = 0 THEN WithGhost(m, g) ELSE AddTo(areas[i - 1], g, b[i].name, b[i].value)
  BY <1>8
<1>11. 0 .. n \subseteq {i \in 0 .. n : areas[i] \in Areas}
  <2> DEFINE T == {i \in 0 .. n : areas[i] \in Areas}
  <2>1. 0 \in T
    BY <1>1, <1>4, <1>10
  <2>2. ASSUME NEW i \in 0 .. n, i \in T, i + 1 <= n PROVE i + 1 \in T
    <3>1. i + 1 \in 1 .. n /\ i + 1 \in 0 .. n /\ (i + 1) - 1 = i /\ i + 1 # 0
      BY <1>1, <2>2
    <3>2. areas[i + 1] = AddTo(areas[i], g, b[i + 1].name, b[i + 1].value)
      BY <1>10, <3>1
    <3>. QED BY <1>2, <2>2, <3>1, <3>2
  <2> HIDE DEF T
  <2>3. 0 .. n \subseteq T
    BY <1>1, <2>1, <2>2, IntervalInduction
  <2>. QED BY <2>3 DEF T
<1>12. areas \in [0 .. n -> Areas]
  <2>1. areas = [i \in 0 .. n |-> areas[i]]
    BY <1>8
  <2>. QED BY <1>11, <2>1
<1>. QED BY <1>1, <1>10, <1>12 DEF areas

\* A batch leaves in each variable it names the last value it gives it.
LEMMA BatchResult ==
  ASSUME NEW m \in Areas, NEW g \in Texts, NEW b \in Seq(Element)
  PROVE  /\ AddBatch(m, g, b) \in Areas
         /\ \A h, k :
              IF Same(g, h) /\ \E j \in DOMAIN b : Same(b[j].name, k)
              THEN \E j \in DOMAIN b : /\ Same(b[j].name, k)
                                       /\ \A q \in DOMAIN b : Same(b[q].name, k) => q <= j
                                       /\ Value(AddBatch(m, g, b), h, k) = b[j].value
              ELSE Value(AddBatch(m, g, b), h, k) = Value(m, h, k)
         /\ (Known(m) /\ Fold[g] \in GhostId /\ \A j \in DOMAIN b : Fold[b[j].name] \in KeyId)
               => Known(AddBatch(m, g, b))
<1> DEFINE areas == Batch(m, g, b)
           n == Len(b)
<1>1. /\ n \in Nat /\ DOMAIN b = 1 .. n
      /\ \A i \in 1 .. n : b[i].name \in Texts /\ b[i].value \in Texts
  <2>1. \A i \in 1 .. n : b[i] \in Element
    OBVIOUS
  <2>. QED BY <2>1 DEF Element
<1>2. /\ areas \in [0 .. n -> Areas] /\ areas[0] = WithGhost(m, g)
      /\ \A i \in 1 .. n : areas[i] = AddTo(areas[i - 1], g, b[i].name, b[i].value)
  BY BatchSteps
<1>3. AddBatch(m, g, b) = areas[n]
  BY DEF AddBatch
<1> HIDE DEF areas, n
<1> DEFINE Done(i, h, k) ==
             IF Same(g, h) /\ \E j \in 1 .. i : Same(b[j].name, k)
             THEN \E j \in 1 .. i : /\ Same(b[j].name, k)
                                    /\ \A q \in 1 .. i : Same(b[q].name, k) => q <= j
                                    /\ Value(areas[i], h, k) = b[j].value
             ELSE Value(areas[i], h, k) = Value(m, h, k)
           T == {i \in 0 .. n : \A h, k : Done(i, h, k)}
<1>4. 0 \in T
  <2>1. \A h, k : Value(areas[0], h, k) = Value(m, h, k)
    BY <1>2, WithGhostResult
  <2>. QED BY <1>1, <2>1
<1>5. ASSUME NEW i \in 0 .. n, i \in T, i + 1 <= n PROVE i + 1 \in T
  <2>1. i + 1 \in 1 .. n /\ i + 1 \in 0 .. n /\ (i + 1) - 1 = i /\ i \in Nat
    BY <1>1, <1>5
  <2>2. areas[i + 1] = AddTo(areas[i], g, b[i + 1].name, b[i + 1].value) /\ areas[i] \in Areas
    BY <1>2, <2>1
  <2>3. \A h, k : Value(areas[i + 1], h, k) =
           IF Same(g, h) /\ Same(b[i + 1].name, k) THEN b[i + 1].value ELSE Value(areas[i], h, k)
    BY <1>1, <2>1, <2>2, AddToResult
  <2>4. ASSUME NEW h, NEW k PROVE Done(i + 1, h, k)
    <3>1. Done(i, h, k)
      BY <1>5
    <3>2. CASE Same(g, h) /\ Same(b[i + 1].name, k)
      <4>1. i + 1 \in 1 .. i + 1 /\ \A q \in 1 .. i + 1 : q <= i + 1
        BY <2>1
      <4>2. Value(areas[i + 1], h, k) = b[i + 1].value
        BY <2>3, <3>2
      <4>. QED BY <3>2, <4>1, <4>2
    <3>3. CASE ~Same(g, h)
      BY <2>3, <3>1, <3>3
    <3>4. CASE Same(g, h) /\ ~Same(b[i + 1].name, k) /\ \E j \in 1 .. i : Same(b[j].name, k)
      <4>1. PICK j \in 1 .. i : /\ Same(b[j].name, k)
                                /\ \A q \in 1 .. i : Same(b[q].name, k) => q <= j
                                /\ Value(areas[i], h, k) = b[j].value
        BY <3>1, <3>4
      <4>2. j \in 1 .. i + 1 /\ Value(areas[i + 1], h, k) = b[j].value
        BY <2>1, <2>3, <3>4, <4>1
      <4>3. \A q \in 1 .. i + 1 : Same(b[q].name, k) => q <= j
        <5>1. \A q \in 1 .. i + 1 : q = i + 1 \/ q \in 1 .. i
          BY <2>1
        <5>. QED BY <3>4, <4>1, <5>1
      <4>. QED BY <3>4, <4>1, <4>2, <4>3
    <3>5. CASE Same(g, h) /\ ~Same(b[i + 1].name, k) /\ \A j \in 1 .. i : ~Same(b[j].name, k)
      <4>1. \A j \in 1 .. i + 1 : ~Same(b[j].name, k)
        <5>1. \A q \in 1 .. i + 1 : q = i + 1 \/ q \in 1 .. i
          BY <2>1
        <5>. QED BY <3>5, <5>1
      <4>2. Value(areas[i + 1], h, k) = Value(m, h, k)
        BY <2>3, <3>1, <3>5
      <4>. QED BY <4>1, <4>2
    <3>. QED BY <3>2, <3>3, <3>4, <3>5
  <2> HIDE DEF Done
  <2>. QED BY <2>1, <2>4
<1>6. 0 .. n \subseteq T
  <2> HIDE DEF T
  <2>. QED BY <1>1, <1>4, <1>5, IntervalInduction
<1>7. \A h, k : Done(n, h, k)
  <2> HIDE DEF Done
  <2>. QED BY <1>1, <1>6
<1>8. ASSUME Known(m), Fold[g] \in GhostId, \A j \in DOMAIN b : Fold[b[j].name] \in KeyId
      PROVE  Known(areas[n])
  <2> DEFINE U == {i \in 0 .. n : Known(areas[i])}
  <2>1. 0 \in U
    BY <1>1, <1>2, <1>8, WithGhostResult
  <2>2. ASSUME NEW i \in 0 .. n, i \in U, i + 1 <= n PROVE i + 1 \in U
    <3>1. i + 1 \in 1 .. n /\ i + 1 \in 0 .. n /\ (i + 1) - 1 = i
      BY <1>1, <2>2
    <3>2. areas[i + 1] = AddTo(areas[i], g, b[i + 1].name, b[i + 1].value) /\ areas[i] \in Areas
      BY <1>2, <3>1
    <3>. QED BY <1>1, <1>8, <2>2, <3>1, <3>2, AddToResult
  <2> HIDE DEF U
  <2>3. 0 .. n \subseteq U
    BY <1>1, <2>1, <2>2, IntervalInduction
  <2>. QED BY <1>1, <2>3 DEF U
<1>9. areas[n] \in Areas
  BY <1>1, <1>2
<1>. QED BY <1>1, <1>3, <1>7, <1>8, <1>9
-----------------------------------------------------------------------------
(* Reading a file, whatever is in it. *)

FileLine == [tag : {"SVD2", "GHOST*", "NAME_*", "VALUE*", "none"}, text : Texts]

\* What load() has between two lines.
ReadState == {s \in [values : Areas, ghost : Nat, name : Texts] :
                s.ghost # 0 => s.ghost \in DOMAIN s.values}
ReadStart == [values |-> <<>>, ghost |-> 0, name |-> Empty]
Pending(s) == s.ghost # 0 /\ s.name # Empty

LEMMA ReadStateType ==
  ASSUME NEW s \in ReadState
  PROVE  /\ s.values \in Areas /\ s.ghost \in Nat /\ s.name \in Texts
         /\ s.ghost # 0 => s.ghost \in DOMAIN s.values
         /\ s = [values |-> s.values, ghost |-> s.ghost, name |-> s.name]
BY DEF ReadState

LEMMA ReadStateMade ==
  ASSUME NEW m \in Areas, NEW g \in Nat, NEW n \in Texts, g # 0 => g \in DOMAIN m
  PROVE  [values |-> m, ghost |-> g, name |-> n] \in ReadState
BY DEF ReadState

\* A line, by its tag.
LEMMA ReadGhost ==
  ASSUME NEW s \in ReadState, NEW l \in FileLine, l.tag = "GHOST*"
  PROVE  ReadLine(s, l) = [values |-> WithGhost(s.values, l.text),
                           ghost |-> FindGhost(WithGhost(s.values, l.text), l.text),
                           name |-> s.name]
BY DEF ReadLine, ReadState

LEMMA ReadName ==
  ASSUME NEW s \in ReadState, NEW l \in FileLine, l.tag = "NAME_*"
  PROVE  ReadLine(s, l) = [values |-> IF Pending(s) THEN Put(s.values, s.ghost, s.name, Empty)
                                      ELSE s.values,
                           ghost |-> s.ghost, name |-> l.text]
<1>1. CASE Pending(s)
  <2>1. ReadLine(s, l) = [s EXCEPT !.values[s.ghost].element = Add(@, s.name, Empty), !.name = l.text]
    BY <1>1 DEF ReadLine, Pending
  <2>. QED BY <1>1, <2>1 DEF Put, ReadState
<1>2. CASE ~Pending(s)
  <2>1. ReadLine(s, l) = [s EXCEPT !.name = l.text]
    BY <1>2 DEF ReadLine, Pending
  <2>. QED BY <1>2, <2>1 DEF ReadState
<1>. QED BY <1>1, <1>2

LEMMA ReadValue ==
  ASSUME NEW s \in ReadState, NEW l \in FileLine, l.tag = "VALUE*"
  PROVE  ReadLine(s, l) = IF Pending(s)
                          THEN [values |-> Put(s.values, s.ghost, s.name, l.text),
                                ghost |-> s.ghost, name |-> Empty]
                          ELSE s
<1>1. CASE Pending(s)
  <2>1. ReadLine(s, l) = [s EXCEPT !.values[s.ghost].element = Add(@, s.name, l.text), !.name = Empty]
    BY <1>1 DEF ReadLine, Pending
  <2>. QED BY <1>1, <2>1 DEF Put, ReadState
<1>2. CASE ~Pending(s)
  <2>1. ReadLine(s, l) = s
    BY <1>2 DEF ReadLine, Pending
  <2>. QED BY <1>2, <2>1
<1>. QED BY <1>1, <1>2

LEMMA ReadOther ==
  ASSUME NEW s \in ReadState, NEW l \in FileLine, l.tag \in {"SVD2", "none"}
  PROVE  ReadLine(s, l) = s
BY DEF ReadLine

LEMMA ReadLineType ==
  ASSUME NEW s \in ReadState, NEW l \in FileLine
  PROVE  ReadLine(s, l) \in ReadState
<1>1. /\ s.values \in Areas /\ s.ghost \in Nat /\ s.name \in Texts
      /\ s.ghost # 0 => s.ghost \in DOMAIN s.values
  BY ReadStateType
<1>2. l.text \in Texts /\ Empty \in Texts
      /\ l.tag \in {"SVD2", "GHOST*", "NAME_*", "VALUE*", "none"}
  BY TextAssumption DEF FileLine
<1>3. CASE l.tag = "GHOST*"
  <2>1. /\ WithGhost(s.values, l.text) \in Areas
        /\ FindGhost(WithGhost(s.values, l.text), l.text) \in DOMAIN WithGhost(s.values, l.text)
    BY <1>1, <1>2, WithGhostResult
  <2>2. FindGhost(WithGhost(s.values, l.text), l.text) \in Nat
    BY <2>1, AreasType
  <2>. QED BY <1>1, <1>3, <2>1, <2>2, ReadGhost, ReadStateMade
<1>4. ASSUME Pending(s), NEW v \in Texts
      PROVE  Put(s.values, s.ghost, s.name, v) \in Areas
             /\ DOMAIN Put(s.values, s.ghost, s.name, v) = DOMAIN s.values
  BY <1>1, <1>4, PutResult DEF Pending
<1>5. CASE l.tag = "NAME_*"
  <2>1. CASE Pending(s)
    BY <1>1, <1>2, <1>4, <1>5, <2>1, ReadName, ReadStateMade
  <2>2. CASE ~Pending(s)
    BY <1>1, <1>2, <1>5, <2>2, ReadName, ReadStateMade
  <2>. QED BY <2>1, <2>2
<1>6. CASE l.tag = "VALUE*"
  <2>1. CASE Pending(s)
    BY <1>1, <1>2, <1>4, <1>6, <2>1, ReadValue, ReadStateMade
  <2>2. CASE ~Pending(s)
    BY <1>6, <2>2, ReadValue
  <2>. QED BY <2>1, <2>2
<1>7. CASE l.tag \in {"SVD2", "none"}
  BY <1>7, ReadOther
<1>. QED BY <1>2, <1>3, <1>5, <1>6, <1>7

LEMMA ReadSteps ==
  ASSUME NEW f \in Seq(FileLine), f # <<>>
  PROVE  /\ Read(f) \in [1 .. Len(f) -> ReadState]
         /\ Read(f)[1] = ReadStart
         /\ \A i \in 2 .. Len(f) : Read(f)[i] = ReadLine(Read(f)[i - 1], f[i])
<1> DEFINE after == Read(f)
           n == Len(f)
           Rec(r) == [i \in 1 .. n |-> IF i = 1 THEN ReadStart ELSE ReadLine(r[i - 1], f[i])]
           step == [x \in ReadState \X Nat |->
                      IF x[2] \in 1 .. n THEN ReadLine(x[1], f[x[2]]) ELSE x[1]]
<1>1. n \in Nat /\ 1 <= n /\ \A i \in 1 .. n : f[i] \in FileLine
  OBVIOUS
<1>2. \A s \in ReadState : \A i \in 1 .. n : ReadLine(s, f[i]) \in ReadState
  BY <1>1, ReadLineType
<1>3. step \in [ReadState \X Nat -> ReadState]
  BY <1>2
<1>4. ReadStart \in ReadState
  BY NoAreas, TextAssumption, ReadStateMade DEF ReadStart
<1>5. PICK r \in [1 .. n -> ReadState] :
         \A i \in 1 .. n : r[i] = IF i = 1 THEN ReadStart ELSE step[<<r[i - 1], i>>]
  <2> HIDE DEF step, n
  <2>1. Recursion(ReadState, 1, n, ReadStart, step) # {}
    BY <1>1, <1>3, <1>4, RecursionExists
  <2>. QED BY <2>1 DEF Recursion
<1>6. r = Rec(r)
  <2>1. ASSUME NEW i \in 1 .. n
        PROVE  r[i] = IF i = 1 THEN ReadStart ELSE ReadLine(r[i - 1], f[i])
    <3>1. CASE i = 1
      BY <1>5, <3>1
    <3>2. CASE i # 1
      <4>1. i \in 1 .. n /\ i - 1 \in 1 .. n /\ i \in Nat
        BY <1>1, <3>2
      <4>2. <<r[i - 1], i>> \in ReadState \X Nat
        BY <4>1
      <4>3. step[<<r[i - 1], i>>] = ReadLine(r[i - 1], f[i])
        BY <4>1, <4>2
      <4>. QED BY <1>5, <3>2, <4>3
    <3>. QED BY <3>1, <3>2
  <2>2. r = [i \in 1 .. n |-> r[i]]
    OBVIOUS
  <2>. QED BY <2>1, <2>2
<1>7. after = CHOOSE q : q = Rec(q)
  BY DEF Read, ReadStart
<1>8. after = Rec(after)
  <2> HIDE DEF Rec, after
  <2>. QED BY <1>6, <1>7
<1> HIDE DEF after
<1>9. \A i \in 1 .. n : after[i] = IF i = 1 THEN ReadStart ELSE ReadLine(after[i - 1], f[i])
  BY <1>8
<1>10. 1 .. n \subseteq {i \in 1 .. n : after[i] \in ReadState}
  <2> DEFINE T == {i \in 1 .. n : after[i] \in ReadState}
  <2>1. 1 \in T
    BY <1>1, <1>4, <1>9
  <2>2. ASSUME NEW i \in 1 .. n, i \in T, i + 1 <= n PROVE i + 1 \in T
    <3>1. i + 1 \in 1 .. n /\ (i + 1) - 1 = i /\ i + 1 # 1
      BY <1>1, <2>2
    <3>2. after[i + 1] = ReadLine(after[i], f[i + 1])
      BY <1>9, <3>1
    <3>. QED BY <1>2, <2>2, <3>1, <3>2
  <2> HIDE DEF T
  <2>3. 1 .. n \subseteq T
    BY <1>1, <2>1, <2>2, IntervalInduction
  <2>. QED BY <2>3 DEF T
<1>11. after \in [1 .. n -> ReadState]
  <2>1. after = [i \in 1 .. n |-> after[i]]
    BY <1>8
  <2>. QED BY <1>10, <2>1
<1>. QED BY <1>1, <1>9, <1>11 DEF after

\* No file, however it is torn or written, brings a name back twice.
LEMMA LoadLinesType ==
  ASSUME NEW f \in Seq(FileLine)
  PROVE  LoadLines(f) \in Areas
<1>1. CASE f = <<>> \/ f[1].tag # "SVD2"
  BY <1>1, NoAreas DEF LoadLines
<1>2. CASE ~(f = <<>> \/ f[1].tag # "SVD2")
  <2>1. Read(f)[Len(f)] \in ReadState
    <3>1. Len(f) \in 1 .. Len(f)
      BY <1>2
    <3>. QED BY <1>2, <3>1, ReadSteps
  <2>. QED BY <1>2, <2>1, ReadStateType DEF LoadLines
<1>. QED BY <1>1, <1>2
-----------------------------------------------------------------------------
(* Sequences laid one behind the other. *)

\* f is the sequences one behind the other; the i-th begins behind at[i].
Laid(f, seqs, at) ==
  /\ at \in [1 .. Len(seqs) + 1 -> Nat] /\ at[1] = 0
  /\ \A i \in 1 .. Len(seqs) : at[i + 1] = at[i] + Len(seqs[i])
  /\ Len(f) = at[Len(seqs) + 1]
  /\ \A i \in 1 .. Len(seqs) : \A q \in 1 .. Len(seqs[i]) :
        at[i] + q \in 1 .. Len(f) /\ f[at[i] + q] = seqs[i][q]
  /\ \A p \in 1 .. Len(f) : \E i \in 1 .. Len(seqs) : \E q \in 1 .. Len(seqs[i]) : p = at[i] + q

LEMMA FlattenSteps ==
  ASSUME NEW X, NEW seqs \in Seq(Seq(X)), seqs # <<>>
  PROVE  \E r \in [1 .. Len(seqs) -> Seq(X)] :
            /\ r[1] = seqs[1] /\ FlattenSeq(seqs) = r[Len(seqs)]
            /\ \A i \in 2 .. Len(seqs) : r[i] = r[i - 1] \o seqs[i]
<1> DEFINE n == Len(seqs)
           Rec(r) == [i \in 1 .. n |-> IF i = 1 THEN seqs[i] ELSE r[i - 1] \o seqs[i]]
           step == [x \in Seq(X) \X Nat |-> IF x[2] \in 1 .. n THEN x[1] \o seqs[x[2]] ELSE x[1]]
           flatten == CHOOSE q : q = Rec(q)
<1>1. n \in Nat /\ 1 <= n /\ n # 0 /\ \A i \in 1 .. n : seqs[i] \in Seq(X)
  OBVIOUS
<1>2. \A s \in Seq(X) : \A i \in 1 .. n : s \o seqs[i] \in Seq(X)
  BY <1>1
<1>3. step \in [Seq(X) \X Nat -> Seq(X)]
  BY <1>2
<1>4. PICK r \in [1 .. n -> Seq(X)] :
         \A i \in 1 .. n : r[i] = IF i = 1 THEN seqs[1] ELSE step[<<r[i - 1], i>>]
  <2> DEFINE base == seqs[1]
             S == Seq(X)
  <2>1. base \in S /\ n \in Nat /\ 1 \in Nat /\ step \in [S \X Nat -> S]
    BY <1>1, <1>3
  <2> HIDE DEF step, n, base, S
  <2>2. Recursion(S, 1, n, base, step) # {}
    BY <2>1, RecursionExists
  <2>. QED BY <2>2 DEF Recursion, base, S
<1>5. r = Rec(r)
  <2>1. ASSUME NEW i \in 1 .. n
        PROVE  r[i] = IF i = 1 THEN seqs[i] ELSE r[i - 1] \o seqs[i]
    <3>1. CASE i = 1
      BY <1>4, <3>1
    <3>2. CASE i # 1
      <4>1. i \in 1 .. n /\ i - 1 \in 1 .. n /\ i \in Nat
        BY <1>1, <3>2
      <4>2. <<r[i - 1], i>> \in Seq(X) \X Nat
        BY <4>1
      <4>3. step[<<r[i - 1], i>>] = r[i - 1] \o seqs[i]
        BY <4>1, <4>2
      <4>. QED BY <1>4, <3>2, <4>3
    <3>. QED BY <3>1, <3>2
  <2>2. r = [i \in 1 .. n |-> r[i]]
    OBVIOUS
  <2>. QED BY <2>1, <2>2
<1>6. FlattenSeq(seqs) = flatten[n]
  BY <1>1 DEF FlattenSeq
<1>7. flatten = Rec(flatten)
  <2> HIDE DEF Rec
  <2>. QED BY <1>5
<1> HIDE DEF flatten
<1>8. \A i \in 1 .. n : flatten[i] = IF i = 1 THEN seqs[i] ELSE flatten[i - 1] \o seqs[i]
  BY <1>7
<1>9. 1 .. n \subseteq {i \in 1 .. n : flatten[i] \in Seq(X)}
  <2> DEFINE T == {i \in 1 .. n : flatten[i] \in Seq(X)}
  <2>1. 1 \in T
    BY <1>1, <1>8
  <2>2. ASSUME NEW i \in 1 .. n, i \in T, i + 1 <= n PROVE i + 1 \in T
    <3>1. i + 1 \in 1 .. n /\ (i + 1) - 1 = i /\ i + 1 # 1
      BY <1>1, <2>2
    <3>2. flatten[i + 1] = flatten[i] \o seqs[i + 1]
      BY <1>8, <3>1
    <3>. QED BY <1>2, <2>2, <3>1, <3>2
  <2> HIDE DEF T
  <2>3. 1 .. n \subseteq T
    BY <1>1, <2>1, <2>2, IntervalInduction
  <2>. QED BY <2>3 DEF T
<1>10. flatten \in [1 .. n -> Seq(X)]
  <2>1. flatten = [i \in 1 .. n |-> flatten[i]]
    BY <1>7
  <2>. QED BY <1>9, <2>1
<1>11. /\ flatten[1] = seqs[1]
       /\ \A i \in 2 .. n : flatten[i] = flatten[i - 1] \o seqs[i]
  <2>1. 1 \in 1 .. n /\ \A i \in 2 .. n : i \in 1 .. n /\ i # 1
    BY <1>1
  <2>. QED BY <1>8, <2>1
<1>. QED BY <1>6, <1>10, <1>11

LEMMA FlattenShape ==
  ASSUME NEW X, NEW seqs \in Seq(Seq(X))
  PROVE  FlattenSeq(seqs) \in Seq(X) /\ \E at : Laid(FlattenSeq(seqs), seqs, at)
<1> DEFINE n == Len(seqs)
<1>0. n \in Nat /\ \A i \in 1 .. n : seqs[i] \in Seq(X) /\ Len(seqs[i]) \in Nat
  OBVIOUS
<1>1. CASE seqs = <<>>
  <2>1. FlattenSeq(seqs) = <<>>
    BY <1>1 DEF FlattenSeq
  <2>2. Laid(FlattenSeq(seqs), seqs, [i \in 1 .. 1 |-> 0])
    BY <1>1, <2>1 DEF Laid
  <2>3. FlattenSeq(seqs) \in Seq(X)
    BY <2>1
  <2>. QED BY <2>2, <2>3
<1>2. CASE seqs # <<>>
  <2>1. PICK r \in [1 .. n -> Seq(X)] :
            /\ r[1] = seqs[1] /\ FlattenSeq(seqs) = r[n]
            /\ \A i \in 2 .. n : r[i] = r[i - 1] \o seqs[i]
    BY <1>2, FlattenSteps
  <2> DEFINE at == [i \in 1 .. n + 1 |-> IF i = 1 THEN 0 ELSE Len(r[i - 1])]
             P(k) == /\ \A i \in 1 .. k : \A q \in 1 .. Len(seqs[i]) :
                          at[i] + q \in 1 .. Len(r[k]) /\ r[k][at[i] + q] = seqs[i][q]
                     /\ \A p \in 1 .. Len(r[k]) : \E i \in 1 .. k : \E q \in 1 .. Len(seqs[i]) :
                          p = at[i] + q
             T == {k \in 1 .. n : P(k)}
  <2>2. n \in Nat /\ 1 <= n
    BY <1>2
  <2>3. \A i \in 1 .. n : r[i] \in Seq(X) /\ Len(r[i]) \in Nat
    <3>1. \A i \in 1 .. n : r[i] \in Seq(X)
      BY <2>1
    <3>2. \A x \in Seq(X) : Len(x) \in Nat
      OBVIOUS
    <3>. QED BY <3>1, <3>2
  <2>4. at \in [1 .. n + 1 -> Nat] /\ at[1] = 0
    <3>1. \A i \in 1 .. n + 1 : i # 1 => i - 1 \in 1 .. n
      BY <2>2
    <3>. QED BY <2>2, <2>3, <3>1
  <2>5. \A i \in 1 .. n : at[i + 1] = Len(r[i])
    <3>1. ASSUME NEW i \in 1 .. n PROVE at[i + 1] = Len(r[i])
      <4>1. i + 1 \in 1 .. n + 1 /\ i + 1 # 1 /\ (i + 1) - 1 = i
        BY <2>2
      <4>. QED BY <4>1
    <3>. QED BY <3>1
  <2> HIDE DEF at
  <2>6. \A i \in 2 .. n : /\ i - 1 \in 1 .. n /\ i \in 1 .. n
                          /\ at[i] = Len(r[i - 1])
                          /\ Len(r[i]) = Len(r[i - 1]) + Len(seqs[i])
    <3>1. ASSUME NEW i \in 2 .. n
          PROVE  /\ i - 1 \in 1 .. n /\ i \in 1 .. n
                 /\ at[i] = Len(r[i - 1])
                 /\ Len(r[i]) = Len(r[i - 1]) + Len(seqs[i])
      <4>1. i - 1 \in 1 .. n /\ i \in 1 .. n /\ (i - 1) + 1 = i
        BY <2>2
      <4>2. at[i] = Len(r[i - 1])
        BY <2>5, <4>1
      <4>3. r[i - 1] \in Seq(X) /\ seqs[i] \in Seq(X) /\ r[i] = r[i - 1] \o seqs[i]
        BY <1>0, <2>1, <2>3, <4>1
      <4>. QED BY <4>1, <4>2, <4>3, Concat2
    <3>. QED BY <3>1
  <2>7. \A i \in 1 .. n : at[i + 1] = at[i] + Len(seqs[i])
    <3>1. at[2] = at[1] + Len(seqs[1])
      BY <1>0, <2>1, <2>2, <2>4, <2>5
    <3>2. \A i \in 1 .. n : i = 1 \/ i \in 2 .. n
      BY <2>2
    <3>3. \A i \in 2 .. n : at[i + 1] = at[i] + Len(seqs[i])
      BY <2>5, <2>6
    <3>. QED BY <3>1, <3>2, <3>3
  <2>8. 1 \in T
    BY <1>0, <2>1, <2>2, <2>4
  <2>9. ASSUME NEW k \in 1 .. n, k \in T, k + 1 <= n PROVE k + 1 \in T
    <3>1. k + 1 \in 2 .. n /\ k + 1 \in 1 .. n /\ (k + 1) - 1 = k /\ k \in Nat
      BY <2>2, <2>9
    <3> DEFINE a == r[k]
               b == seqs[k + 1]
    <3>2. /\ a \in Seq(X) /\ b \in Seq(X) /\ r[k + 1] = a \o b
          /\ Len(a) \in Nat /\ Len(b) \in Nat /\ at[k + 1] = Len(a)
      BY <1>0, <2>1, <2>3, <2>6, <3>1
    <3> HIDE DEF a, b
    <3>3. /\ Len(r[k + 1]) = Len(a) + Len(b)
          /\ \A i \in 1 .. Len(a) : r[k + 1][i] = a[i]
          /\ \A i \in 1 .. Len(b) : r[k + 1][Len(a) + i] = b[i]
      <4>1. Len(a \o b) = Len(a) + Len(b)
        BY <3>2, Concat2
      <4>2. \A i \in 1 .. Len(a) : (a \o b)[i] = a[i]
        BY <3>2, Concat2
      <4>3. \A i \in 1 .. Len(b) : (a \o b)[Len(a) + i] = b[i]
        BY <3>2, Concat2
      <4>. QED BY <3>2, <4>1, <4>2, <4>3
    <3>4. P(k)
      BY <2>9
    <3>5. ASSUME NEW i \in 1 .. k + 1, NEW q \in 1 .. Len(seqs[i])
          PROVE  at[i] + q \in 1 .. Len(r[k + 1]) /\ r[k + 1][at[i] + q] = seqs[i][q]
      <4>1. CASE i = k + 1
        <5>1. at[i] = Len(a) /\ seqs[i] = b
          BY <3>2, <4>1 DEF b
        <5>2. Len(a) + q \in 1 .. Len(r[k + 1])
          BY <3>2, <3>3, <5>1
        <5>. QED BY <3>3, <5>1, <5>2
      <4>2. CASE i \in 1 .. k
        <5>1. at[i] + q \in 1 .. Len(a) /\ a[at[i] + q] = seqs[i][q]
          BY <3>4, <4>2 DEF a
        <5>2. at[i] + q \in 1 .. Len(r[k + 1])
          BY <3>2, <3>3, <5>1
        <5>. QED BY <3>3, <5>1, <5>2
      <4>. QED BY <3>1, <4>1, <4>2
    <3>6. ASSUME NEW p \in 1 .. Len(r[k + 1])
          PROVE  \E i \in 1 .. k + 1 : \E q \in 1 .. Len(seqs[i]) : p = at[i] + q
      <4>1. CASE p <= Len(a)
        <5>1. p \in 1 .. Len(a)
          BY <3>2, <3>3, <4>1
        <5>2. PICK i \in 1 .. k : \E q \in 1 .. Len(seqs[i]) : p = at[i] + q
          BY <3>4, <5>1 DEF a
        <5>3. i \in 1 .. k + 1
          BY <3>1
        <5>. QED BY <5>2, <5>3
      <4>2. CASE p > Len(a)
        <5>1. p - Len(a) \in 1 .. Len(b) /\ p = Len(a) + (p - Len(a))
          BY <3>2, <3>3, <4>2
        <5>2. k + 1 \in 1 .. k + 1 /\ p = at[k + 1] + (p - Len(a))
          BY <3>1, <3>2, <5>1
        <5>. QED BY <5>1, <5>2 DEF b
      <4>. QED BY <3>2, <3>3, <4>1, <4>2
    <3>7. P(k + 1)
      BY <3>5, <3>6
    <3> HIDE DEF P
    <3>. QED BY <3>1, <3>7
  <2>10. 1 .. n \subseteq T
    <3> HIDE DEF T
    <3>. QED BY <2>2, <2>8, <2>9, IntervalInduction
  <2>11. P(n)
    <3> HIDE DEF P
    <3>. QED BY <2>2, <2>10
  <2>12. Laid(FlattenSeq(seqs), seqs, at)
    <3>1. Len(r[n]) = at[n + 1]
      BY <2>2, <2>5
    <3>. QED BY <2>1, <2>4, <2>7, <2>11, <3>1 DEF Laid
  <2>. QED BY <2>1, <2>2, <2>3, <2>12
<1>. QED BY <1>1, <1>2
-----------------------------------------------------------------------------
(* The file that Save writes. *)

LEMMA LineType ==
  ASSUME NEW tag \in {"SVD2", "GHOST*", "NAME_*", "VALUE*", "none"}, NEW t \in Texts
  PROVE  /\ Line(tag, t) \in FileLine
         /\ Line(tag, t).tag = tag /\ Line(tag, t).text = Trunc[t]
BY TextAssumption DEF Line, FileLine

LEMMA HeadedShape ==
  ASSUME NEW X, NEW x \in X, NEW s \in Seq(X)
  PROVE  /\ <<x>> \o s \in Seq(X) /\ Len(<<x>> \o s) = Len(s) + 1
         /\ (<<x>> \o s)[1] = x
         /\ \A i \in 1 .. Len(s) : (<<x>> \o s)[i + 1] = s[i]
<1>1. /\ <<x>> \in Seq(X) /\ Len(<<x>>) = 1 /\ <<x>>[1] = x
      /\ Len(s) \in Nat /\ 1 \in 1 .. 1
  OBVIOUS
<1> DEFINE h == <<x>>
<1> HIDE DEF h
<1>0. h \in Seq(X)
  BY <1>1 DEF h
<1>2. h \in Seq(X) /\ Len(h) = 1 /\ h[1] = x
  BY <1>1 DEF h
<1>3. h \o s \in Seq(X) /\ Len(h \o s) = Len(h) + Len(s)
  BY <1>2, Concat2
<1>4. \A i \in 1 .. Len(h) : (h \o s)[i] = h[i]
  BY <1>2, Concat2
<1>5. \A i \in 1 .. Len(s) : (h \o s)[Len(h) + i] = s[i]
  BY <1>0, Concat2
<1>6. \A i \in 1 .. Len(s) : 1 + i = i + 1
  BY <1>1
<1>7. 1 + Len(s) = Len(s) + 1
  BY <1>1
<1>8. (h \o s)[1] = x
  BY <1>1, <1>2, <1>4
<1>9. \A i \in 1 .. Len(s) : (h \o s)[i + 1] = s[i]
  BY <1>2, <1>5, <1>6
<1>. QED BY <1>2, <1>3, <1>7, <1>8, <1>9 DEF h

\* The lines of an area that is not empty: its ghost, then name and value in turn.
LEMMA GhostLinesShape ==
  ASSUME NEW a, a.ghost \in Texts, a.element \in Elements
  PROVE  /\ GhostLines(a) \in Seq(FileLine)
         /\ Len(GhostLines(a)) = IF a.element = <<>> THEN 0 ELSE 1 + 2 * Len(a.element)
         /\ a.element # <<>> => GhostLines(a)[1] = Line("GHOST*", a.ghost)
         /\ \A j \in 1 .. Len(a.element) :
               /\ GhostLines(a)[2 * j] = Line("NAME_*", a.element[j].name)
               /\ GhostLines(a)[2 * j + 1] = Line("VALUE*", a.element[j].value)
<1> DEFINE e == a.element
           n == Len(e)
           NameOf(i) == Line("NAME_*", e[i].name)
           ValueOf(i) == Line("VALUE*", e[i].value)
           pairs == [i \in DOMAIN e |-> <<NameOf(i), ValueOf(i)>>]
           F == FlattenSeq(pairs)
           gl == GhostLines(a)
<1>1. /\ e \in Seq(Element) /\ n \in Nat /\ DOMAIN e = 1 .. n
      /\ \A i \in 1 .. n : e[i].name \in Texts /\ e[i].value \in Texts
  <2>1. e \in Seq(Element)
    BY DEF Elements
  <2>2. \A i \in 1 .. n : e[i] \in Element
    BY <2>1
  <2>. QED BY <2>1, <2>2 DEF Element
<1>2. CASE e = <<>>
  BY <1>2 DEF GhostLines
<1>3. CASE e # <<>>
  <2>1. \A i \in 1 .. n : NameOf(i) \in FileLine /\ ValueOf(i) \in FileLine
    BY <1>1, LineType
  <2>2. /\ pairs \in Seq(Seq(FileLine)) /\ Len(pairs) = n
        /\ \A i \in 1 .. n : Len(pairs[i]) = 2 /\ pairs[i][1] = NameOf(i) /\ pairs[i][2] = ValueOf(i)
    <3> HIDE DEF NameOf, ValueOf, n, e
    <3>1. pairs = [i \in 1 .. n |-> <<NameOf(i), ValueOf(i)>>]
      BY <1>1
    <3>2. \A i \in 1 .. n : <<NameOf(i), ValueOf(i)>> \in Seq(FileLine)
      BY <2>1
    <3>3. pairs \in [1 .. n -> Seq(FileLine)]
      BY <3>1, <3>2
    <3>4. pairs \in Seq(Seq(FileLine)) /\ Len(pairs) = n
      <4> HIDE DEF pairs
      <4>. QED BY <1>1, <3>3
    <3>5. \A i \in 1 .. n : pairs[i] = <<NameOf(i), ValueOf(i)>>
      BY <3>1
    <3>. QED BY <3>4, <3>5
  <2> HIDE DEF pairs
  <2>3. F \in Seq(FileLine) /\ \E at : Laid(F, pairs, at)
    BY <2>2, FlattenShape
  <2>4. PICK at : Laid(F, pairs, at)
    BY <2>3
  <2>5. /\ at \in [1 .. n + 1 -> Nat] /\ at[1] = 0
        /\ \A i \in 1 .. n : at[i + 1] = at[i] + 2
        /\ Len(F) = at[n + 1]
    BY <2>2, <2>4 DEF Laid
  <2>6. 1 .. n + 1 \subseteq {i \in 1 .. n + 1 : at[i] = 2 * (i - 1)}
    <3> DEFINE T == {i \in 1 .. n + 1 : at[i] = 2 * (i - 1)}
    <3>1. 1 \in T
      BY <1>1, <2>5
    <3>2. ASSUME NEW i \in 1 .. n + 1, i \in T, i + 1 <= n + 1 PROVE i + 1 \in T
      <4>1. i \in 1 .. n /\ i + 1 \in 1 .. n + 1 /\ 2 * (i - 1) + 2 = 2 * ((i + 1) - 1)
        BY <1>1, <3>2
      <4>. QED BY <2>5, <3>2, <4>1
    <3> HIDE DEF T
    <3>3. n + 1 \in Nat /\ 1 \in Nat
      BY <1>1
    <3>4. 1 .. n + 1 \subseteq T
      BY <3>1, <3>2, <3>3, IntervalInduction
    <3>. QED BY <3>4 DEF T
  <2>7. Len(F) = 2 * n
    <3>1. n + 1 \in 1 .. n + 1 /\ 2 * ((n + 1) - 1) = 2 * n
      BY <1>1
    <3>. QED BY <2>5, <2>6, <3>1
  <2>8. ASSUME NEW j \in 1 .. n
        PROVE  /\ 2 * j - 1 \in 1 .. Len(F) /\ 2 * j \in 1 .. Len(F)
               /\ F[2 * j - 1] = NameOf(j) /\ F[2 * j] = ValueOf(j)
    <3>1. at[j] = 2 * (j - 1) /\ 2 * (j - 1) + 1 = 2 * j - 1 /\ 2 * (j - 1) + 2 = 2 * j
      BY <1>1, <2>6
    <3>2. \A q \in 1 .. 2 : at[j] + q \in 1 .. Len(F) /\ F[at[j] + q] = pairs[j][q]
      BY <2>2, <2>4 DEF Laid
    <3>3. 1 \in 1 .. 2 /\ 2 \in 1 .. 2
      OBVIOUS
    <3> HIDE DEF F
    <3>. QED BY <2>2, <3>1, <3>2, <3>3
  <2>9. gl = <<Line("GHOST*", a.ghost)>> \o F
    BY <1>3 DEF GhostLines, pairs
  <2>10. Line("GHOST*", a.ghost) \in FileLine
    BY LineType
  <2> HIDE DEF F, NameOf, ValueOf, e, n
  <2>11. /\ gl \in Seq(FileLine) /\ Len(gl) = Len(F) + 1 /\ gl[1] = Line("GHOST*", a.ghost)
         /\ \A i \in 1 .. Len(F) : gl[i + 1] = F[i]
    BY <2>3, <2>9, <2>10, HeadedShape
  <2>12. ASSUME NEW j \in 1 .. n PROVE gl[2 * j] = NameOf(j) /\ gl[2 * j + 1] = ValueOf(j)
    <3>1. (2 * j - 1) + 1 = 2 * j
      BY <1>1
    <3>. QED BY <2>8, <2>11, <3>1
  <2>13. Len(gl) = 1 + 2 * n
    BY <1>1, <2>7, <2>11
  <2>. QED BY <1>3, <2>11, <2>12, <2>13 DEF NameOf, ValueOf, e, n
<1>. QED BY <1>2, <1>3

\* f is what Save makes of m: the header, then the areas, the i-th behind at[i].
SavedAs(f, m, at) ==
  /\ f \in Seq(FileLine) /\ f # <<>> /\ f[1] = Line("SVD2", Empty)
  /\ at \in [1 .. Len(m) + 1 -> Nat]
  /\ \A i \in DOMAIN m : m[i].element # <<>> =>
        /\ at[i] + 1 \in 2 .. Len(f) /\ f[at[i] + 1] = Line("GHOST*", m[i].ghost)
        /\ \A j \in DOMAIN m[i].element :
              /\ at[i] + 2 * j \in 2 .. Len(f)
              /\ f[at[i] + 2 * j] = Line("NAME_*", m[i].element[j].name)
              /\ at[i] + 2 * j + 1 \in 2 .. Len(f)
              /\ f[at[i] + 2 * j + 1] = Line("VALUE*", m[i].element[j].value)
  /\ \A p \in 2 .. Len(f) : \E i \in DOMAIN m :
        /\ m[i].element # <<>>
        /\ \/ p = at[i] + 1
           \/ \E j \in DOMAIN m[i].element : p = at[i] + 2 * j \/ p = at[i] + 2 * j + 1

LEMMA Halves ==
  ASSUME NEW n \in Nat, NEW q \in 2 .. 1 + 2 * n
  PROVE  \E j \in 1 .. n : q = 2 * j \/ q = 2 * j + 1
<1>1. /\ q \div 2 \in 1 .. n
      /\ q = 2 * (q \div 2) \/ q = 2 * (q \div 2) + 1
  OBVIOUS
<1>. QED BY <1>1

LEMMA SaveLinesShape ==
  ASSUME NEW m \in Areas
  PROVE  \E at : SavedAs(SaveLines(m), m, at)
<1> DEFINE of == [i \in DOMAIN m |-> GhostLines(m[i])]
           F == FlattenSeq(of)
           f == SaveLines(m)
<1>1. /\ DOMAIN m = 1 .. Len(m) /\ Len(m) \in Nat
      /\ \A i \in DOMAIN m : m[i].ghost \in Texts /\ m[i].element \in Elements
      /\ \A i \in DOMAIN m : Len(m[i].element) \in Nat /\ DOMAIN m[i].element = 1 .. Len(m[i].element)
  <2>1. \A e \in Elements : Len(e) \in Nat /\ DOMAIN e = 1 .. Len(e)
    BY DEF Elements
  <2>. QED BY <2>1, AreasType
<1>2. ASSUME NEW i \in DOMAIN m
      PROVE  /\ GhostLines(m[i]) \in Seq(FileLine)
             /\ Len(GhostLines(m[i])) = IF m[i].element = <<>> THEN 0 ELSE 1 + 2 * Len(m[i].element)
             /\ m[i].element # <<>> => GhostLines(m[i])[1] = Line("GHOST*", m[i].ghost)
             /\ \A j \in DOMAIN m[i].element :
                   /\ GhostLines(m[i])[2 * j] = Line("NAME_*", m[i].element[j].name)
                   /\ GhostLines(m[i])[2 * j + 1] = Line("VALUE*", m[i].element[j].value)
  <2> DEFINE a == m[i]
  <2>1. a.ghost \in Texts /\ a.element \in Elements /\ DOMAIN a.element = 1 .. Len(a.element)
    BY <1>1
  <2> HIDE DEF a
  <2>2. /\ GhostLines(a) \in Seq(FileLine)
        /\ Len(GhostLines(a)) = IF a.element = <<>> THEN 0 ELSE 1 + 2 * Len(a.element)
        /\ a.element # <<>> => GhostLines(a)[1] = Line("GHOST*", a.ghost)
        /\ \A j \in 1 .. Len(a.element) :
              /\ GhostLines(a)[2 * j] = Line("NAME_*", a.element[j].name)
              /\ GhostLines(a)[2 * j + 1] = Line("VALUE*", a.element[j].value)
    BY <2>1, GhostLinesShape
  <2>. QED BY <2>1, <2>2 DEF a
<1>3. of \in Seq(Seq(FileLine)) /\ Len(of) = Len(m) /\ \A i \in DOMAIN m : of[i] = GhostLines(m[i])
  <2>1. \A i \in DOMAIN m : GhostLines(m[i]) \in Seq(FileLine)
    BY <1>2
  <2>2. of \in [1 .. Len(m) -> Seq(FileLine)]
    BY <1>1, <2>1
  <2>3. \A i \in DOMAIN m : of[i] = GhostLines(m[i])
    OBVIOUS
  <2> HIDE DEF of
  <2>. QED BY <1>1, <2>2, <2>3
<1>4. f = <<Line("SVD2", Empty)>> \o F
  BY DEF SaveLines
<1> HIDE DEF of, F, f
<1>5. F \in Seq(FileLine) /\ \E at : Laid(F, of, at)
  BY <1>3, FlattenShape DEF F
<1>6. PICK at : Laid(F, of, at)
  BY <1>5
<1> DEFINE start == [i \in 1 .. Len(m) + 1 |-> at[i] + 1]
<1>7. /\ at \in [1 .. Len(m) + 1 -> Nat]
      /\ \A i \in DOMAIN m : \A q \in 1 .. Len(of[i]) : at[i] + q \in 1 .. Len(F) /\ F[at[i] + q] = of[i][q]
      /\ \A p \in 1 .. Len(F) : \E i \in DOMAIN m : \E q \in 1 .. Len(of[i]) : p = at[i] + q
  <2>1. Len(of) = Len(m) /\ 1 .. Len(of) = DOMAIN m
    BY <1>1, <1>3
  <2>2. at \in [1 .. Len(of) + 1 -> Nat]
    BY <1>6 DEF Laid
  <2>3. \A i \in 1 .. Len(of) : \A q \in 1 .. Len(of[i]) : at[i] + q \in 1 .. Len(F) /\ F[at[i] + q] = of[i][q]
    BY <1>6 DEF Laid
  <2>4. \A p \in 1 .. Len(F) : \E i \in 1 .. Len(of) : \E q \in 1 .. Len(of[i]) : p = at[i] + q
    BY <1>6 DEF Laid
  <2>5. at \in [1 .. Len(m) + 1 -> Nat]
    BY <2>1, <2>2
  <2>6. \A i \in DOMAIN m : \A q \in 1 .. Len(of[i]) : at[i] + q \in 1 .. Len(F) /\ F[at[i] + q] = of[i][q]
    BY <2>1, <2>3
  <2>7. \A p \in 1 .. Len(F) : \E i \in DOMAIN m : \E q \in 1 .. Len(of[i]) : p = at[i] + q
    BY <2>1, <2>4
  <2>. QED BY <2>5, <2>6, <2>7
<1>8. Line("SVD2", Empty) \in FileLine
  BY LineType, TextAssumption
<1>9. /\ f \in Seq(FileLine) /\ Len(f) = Len(F) + 1 /\ Len(F) \in Nat
      /\ f[1] = Line("SVD2", Empty)
      /\ \A p \in 1 .. Len(F) : f[p + 1] = F[p]
  <2> DEFINE h == Line("SVD2", Empty)
  <2> HIDE DEF h
  <2>1. h \in FileLine
    BY <1>8 DEF h
  <2>2. f = <<h>> \o F
    BY <1>4 DEF h
  <2>3. f \in Seq(FileLine) /\ Len(f) = Len(F) + 1 /\ f[1] = h /\ \A p \in 1 .. Len(F) : f[p + 1] = F[p]
    BY <1>5, <2>1, <2>2, HeadedShape
  <2>. QED BY <1>5, <2>3 DEF h
<1>10. start \in [1 .. Len(m) + 1 -> Nat] /\ \A i \in DOMAIN m : start[i] = at[i] + 1 /\ at[i] \in Nat
  <2>1. \A i \in DOMAIN m : i \in 1 .. Len(m) + 1
    BY <1>1
  <2>. QED BY <1>7, <2>1
<1> HIDE DEF start
<1>11. ASSUME NEW i \in DOMAIN m, NEW q \in 1 .. Len(GhostLines(m[i]))
       PROVE  start[i] + q \in 2 .. Len(f) /\ f[start[i] + q] = GhostLines(m[i])[q]
  <2>1. at[i] + q \in 1 .. Len(F) /\ F[at[i] + q] = GhostLines(m[i])[q]
    BY <1>3, <1>7
  <2>2. q \in Nat
    BY <1>2
  <2>3. (at[i] + q) + 1 = start[i] + q
    BY <1>10, <2>2
  <2>. QED BY <1>9, <2>1, <2>3
<1>12. ASSUME NEW i \in DOMAIN m, m[i].element # <<>>
       PROVE  /\ start[i] + 1 \in 2 .. Len(f) /\ f[start[i] + 1] = Line("GHOST*", m[i].ghost)
              /\ \A j \in DOMAIN m[i].element :
                    /\ start[i] + 2 * j \in 2 .. Len(f)
                    /\ f[start[i] + 2 * j] = Line("NAME_*", m[i].element[j].name)
                    /\ start[i] + 2 * j + 1 \in 2 .. Len(f)
                    /\ f[start[i] + 2 * j + 1] = Line("VALUE*", m[i].element[j].value)
  <2> DEFINE n == Len(m[i].element)
  <2>1. n \in Nat /\ DOMAIN m[i].element = 1 .. n /\ Len(GhostLines(m[i])) = 1 + 2 * n
    BY <1>1, <1>2, <1>12
  <2> HIDE DEF n
  <2>2. 1 \in 1 .. Len(GhostLines(m[i]))
    BY <2>1
  <2>3. \A j \in 1 .. n : 2 * j \in 1 .. Len(GhostLines(m[i])) /\ 2 * j + 1 \in 1 .. Len(GhostLines(m[i]))
    BY <2>1
  <2>4. \A j \in 1 .. n : start[i] + (2 * j + 1) = start[i] + 2 * j + 1
    BY <1>10
  <2>5. start[i] + 1 \in 2 .. Len(f) /\ f[start[i] + 1] = Line("GHOST*", m[i].ghost)
    BY <1>2, <1>11, <1>12, <2>2
  <2>6. ASSUME NEW j \in DOMAIN m[i].element
        PROVE  /\ start[i] + 2 * j \in 2 .. Len(f)
               /\ f[start[i] + 2 * j] = Line("NAME_*", m[i].element[j].name)
               /\ start[i] + 2 * j + 1 \in 2 .. Len(f)
               /\ f[start[i] + 2 * j + 1] = Line("VALUE*", m[i].element[j].value)
    <3>1. /\ GhostLines(m[i])[2 * j] = Line("NAME_*", m[i].element[j].name)
          /\ GhostLines(m[i])[2 * j + 1] = Line("VALUE*", m[i].element[j].value)
      BY <1>2
    <3>2. start[i] + 2 * j \in 2 .. Len(f) /\ f[start[i] + 2 * j] = GhostLines(m[i])[2 * j]
      BY <1>11, <2>1, <2>3
    <3>3. start[i] + (2 * j + 1) \in 2 .. Len(f) /\ f[start[i] + (2 * j + 1)] = GhostLines(m[i])[2 * j + 1]
      BY <1>11, <2>1, <2>3
    <3>. QED BY <2>1, <2>4, <3>1, <3>2, <3>3
  <2>. QED BY <2>5, <2>6
<1>13. ASSUME NEW p \in 2 .. Len(f)
       PROVE  \E i \in DOMAIN m :
                 /\ m[i].element # <<>>
                 /\ \/ p = start[i] + 1
                    \/ \E j \in DOMAIN m[i].element : p = start[i] + 2 * j \/ p = start[i] + 2 * j + 1
  <2>1. p - 1 \in 1 .. Len(F)
    BY <1>9
  <2>2. PICK i \in DOMAIN m : \E q \in 1 .. Len(of[i]) : p - 1 = at[i] + q
    BY <1>7, <2>1
  <2>3. PICK q \in 1 .. Len(of[i]) : p - 1 = at[i] + q
    BY <2>2
  <2> DEFINE n == Len(m[i].element)
  <2>4. n \in Nat /\ DOMAIN m[i].element = 1 .. n
    BY <1>1
  <2>5. m[i].element # <<>> /\ q \in 1 .. 1 + 2 * n
    BY <1>2, <1>3, <2>3
  <2> HIDE DEF n
  <2>6. q \in Nat /\ p = start[i] + q
    <3>1. q \in Nat
      BY <2>4, <2>5
    <3>2. start[i] = at[i] + 1 /\ at[i] \in Nat
      BY <1>10
    <3>3. p \in Nat /\ p - 1 = at[i] + q
      BY <1>9, <2>3
    <3> HIDE DEF SaveLines
    <3>. QED BY <3>1, <3>2, <3>3
  <2>7. CASE q = 1
    BY <2>5, <2>6, <2>7
  <2>8. CASE q # 1
    <3>1. q \in 2 .. 1 + 2 * n
      BY <2>4, <2>5, <2>8
    <3>2. PICK j \in 1 .. n : q = 2 * j \/ q = 2 * j + 1
      BY <2>4, <3>1, Halves
    <3>3. start[i] + (2 * j + 1) = start[i] + 2 * j + 1
      BY <1>10
    <3>4. p = start[i] + 2 * j \/ p = start[i] + 2 * j + 1
      BY <2>6, <3>2, <3>3
    <3>. QED BY <2>4, <2>5, <3>4
  <2>. QED BY <2>7, <2>8
<1>14. f # <<>>
  BY <1>9
<1>15. SavedAs(f, m, start)
  BY <1>9, <1>10, <1>12, <1>13, <1>14 DEF SavedAs
<1>. QED BY <1>15 DEF f

-----------------------------------------------------------------------------
(* Reading what Save wrote. *)

\* Each value of w is what a line keeps of the one of m; some may be missing.
Brought(w, m) ==
  /\ w \in Areas /\ Known(w)
  /\ \A h, k : \/ Value(w, h, k) = Empty
               \/ Fold[k] # Empty /\ Value(w, h, k) = Trunc[Value(m, h, k)]

\* What is so when n lines are read: every value on them is there, the area is
\* that of the lines, and a name waits for the next line only.
Reached(f, m, at, s, n) ==
  /\ s \in ReadState /\ Brought(s.values, m)
  /\ \A i \in DOMAIN m : \A j \in DOMAIN m[i].element :
        at[i] + 2 * j + 1 <= n /\ m[i].element[j].name # Empty
           => Value(s.values, m[i].ghost, m[i].element[j].name) # Empty
  /\ \A i \in DOMAIN m :
        m[i].element # <<>> /\ at[i] + 1 <= n /\ n <= at[i] + 1 + 2 * Len(m[i].element)
           => s.ghost # 0 /\ Same(s.values[s.ghost].ghost, m[i].ghost)
  /\ s.name = IF f[n].tag = "NAME_*" THEN f[n].text ELSE Empty

LEMMA FoldOf ==
  /\ \A t \in Texts : Fold[t] = Empty <=> t = Empty
  /\ Fold[Empty] = Empty /\ Trunc[Empty] = Empty
  /\ \A t \in Texts : Trunc[t] \in Texts /\ Fold[t] \in Texts /\ (Trunc[t] = Empty <=> t = Empty)
BY TextAssumption

LEMMA SavedLines ==
  ASSUME NEW m \in Areas, Known(m), NEW f, NEW at, SavedAs(f, m, at),
         NEW i \in DOMAIN m, m[i].element # <<>>
  PROVE  /\ at[i] \in Nat /\ Len(m[i].element) \in Nat /\ DOMAIN m[i].element = 1 .. Len(m[i].element)
         /\ at[i] + 1 \in 2 .. Len(f)
         /\ f[at[i] + 1].tag = "GHOST*" /\ f[at[i] + 1].text = m[i].ghost
         /\ Fold[m[i].ghost] \in GhostId
         /\ \A j \in DOMAIN m[i].element :
              LET x == m[i].element[j]
              IN  /\ at[i] + 2 * j \in 2 .. Len(f)
                  /\ f[at[i] + 2 * j].tag = "NAME_*" /\ f[at[i] + 2 * j].text = x.name
                  /\ at[i] + 2 * j + 1 \in 2 .. Len(f)
                  /\ f[at[i] + 2 * j + 1].tag = "VALUE*" /\ f[at[i] + 2 * j + 1].text = Trunc[x.value]
                  /\ x.name \in Texts /\ x.value \in Texts /\ x.value # Empty
                  /\ Fold[x.name] \in KeyId
<1>1. /\ m[i].ghost \in Texts /\ m[i].element \in Elements
      /\ DOMAIN m = 1 .. Len(m) /\ Len(m) \in Nat
  BY AreasType
<1>2. /\ m[i].element \in Seq(Element) /\ NoneEmpty(m[i].element)
      /\ Len(m[i].element) \in Nat /\ DOMAIN m[i].element = 1 .. Len(m[i].element)
  BY <1>1 DEF Elements
<1>3. \A j \in DOMAIN m[i].element : m[i].element[j] \in Element
  BY <1>2
<1>4. \A j \in DOMAIN m[i].element :
         /\ m[i].element[j].name \in Texts /\ m[i].element[j].value \in Texts
         /\ m[i].element[j].value # Empty
  BY <1>2, <1>3 DEF NoneEmpty, Element
<1>5. /\ Fold[m[i].ghost] \in GhostId
      /\ \A j \in DOMAIN m[i].element : Fold[m[i].element[j].name] \in KeyId
  BY DEF Known
<1>6. \A t \in Texts : Fold[t] \in GhostId \cup KeyId => Trunc[t] = t
  BY NameAssumption DEF GhostId, KeyId
<1>7. at[i] \in Nat
  <2>1. i \in 1 .. Len(m) + 1
    BY <1>1
  <2>. QED BY <2>1 DEF SavedAs
<1>8. /\ at[i] + 1 \in 2 .. Len(f)
      /\ f[at[i] + 1].tag = "GHOST*" /\ f[at[i] + 1].text = m[i].ghost
  <2>1. Trunc[m[i].ghost] = m[i].ghost
    BY <1>1, <1>5, <1>6
  <2>2. at[i] + 1 \in 2 .. Len(f) /\ f[at[i] + 1] = Line("GHOST*", m[i].ghost)
    BY DEF SavedAs
  <2>. QED BY <2>1, <2>2 DEF Line
<1>9. ASSUME NEW j \in DOMAIN m[i].element
      PROVE  /\ at[i] + 2 * j \in 2 .. Len(f)
             /\ f[at[i] + 2 * j].tag = "NAME_*" /\ f[at[i] + 2 * j].text = m[i].element[j].name
             /\ at[i] + 2 * j + 1 \in 2 .. Len(f)
             /\ f[at[i] + 2 * j + 1].tag = "VALUE*"
             /\ f[at[i] + 2 * j + 1].text = Trunc[m[i].element[j].value]
  <2>1. Trunc[m[i].element[j].name] = m[i].element[j].name
    BY <1>4, <1>5, <1>6
  <2>2. /\ at[i] + 2 * j \in 2 .. Len(f)
        /\ f[at[i] + 2 * j] = Line("NAME_*", m[i].element[j].name)
        /\ at[i] + 2 * j + 1 \in 2 .. Len(f)
        /\ f[at[i] + 2 * j + 1] = Line("VALUE*", m[i].element[j].value)
    BY DEF SavedAs
  <2>. QED BY <2>1, <2>2 DEF Line
<1>. QED BY <1>2, <1>4, <1>5, <1>7, <1>8, <1>9

\* A name is followed by its value.
LEMMA ValueFollows ==
  ASSUME NEW m \in Areas, Known(m), NEW f, NEW at, SavedAs(f, m, at),
         NEW n \in 1 .. Len(f), n + 1 \in 2 .. Len(f), f[n].tag = "NAME_*"
  PROVE  f[n + 1].tag = "VALUE*"
<1>1. Len(f) \in Nat /\ f[1].tag = "SVD2"
  BY DEF SavedAs, Line
<1>2. n \in 2 .. Len(f)
  BY <1>1
<1>3. PICK i \in DOMAIN m : /\ m[i].element # <<>>
                            /\ \/ n = at[i] + 1
                               \/ \E j \in DOMAIN m[i].element : n = at[i] + 2 * j \/ n = at[i] + 2 * j + 1
  BY <1>2 DEF SavedAs
<1>4. /\ f[at[i] + 1].tag = "GHOST*"
      /\ \A j \in DOMAIN m[i].element : /\ f[at[i] + 2 * j].tag = "NAME_*"
                                        /\ f[at[i] + 2 * j + 1].tag = "VALUE*"
  BY <1>3, SavedLines
<1>5. PICK j \in DOMAIN m[i].element : n = at[i] + 2 * j
  BY <1>3, <1>4
<1>. QED BY <1>4, <1>5

\* Read on by a line that is not the first of an area, one is still in it.
LEMMA StillIn ==
  ASSUME NEW m \in Areas, Known(m), NEW f, NEW at, SavedAs(f, m, at),
         NEW n \in Nat, NEW i \in DOMAIN m, m[i].element # <<>>,
         at[i] + 1 <= n + 1, n + 1 <= at[i] + 1 + 2 * Len(m[i].element)
  PROVE  IF f[n + 1].tag = "GHOST*" THEN n + 1 = at[i] + 1
         ELSE at[i] + 1 <= n /\ n <= at[i] + 1 + 2 * Len(m[i].element)
<1>1. /\ at[i] \in Nat /\ Len(m[i].element) \in Nat /\ DOMAIN m[i].element = 1 .. Len(m[i].element)
      /\ f[at[i] + 1].tag = "GHOST*"
      /\ \A j \in DOMAIN m[i].element : /\ f[at[i] + 2 * j].tag = "NAME_*"
                                        /\ f[at[i] + 2 * j + 1].tag = "VALUE*"
  BY SavedLines
<1> DEFINE q == n + 1 - at[i]
<1>2. q \in 1 .. 1 + 2 * Len(m[i].element) /\ n + 1 = at[i] + q
  BY <1>1
<1>3. CASE q = 1
  BY <1>1, <1>2, <1>3
<1>4. CASE q # 1
  <2>1. q \in 2 .. 1 + 2 * Len(m[i].element)
    BY <1>1, <1>2, <1>4
  <2> HIDE DEF q
  <2>2. PICK j \in 1 .. Len(m[i].element) : q = 2 * j \/ q = 2 * j + 1
    BY <1>1, <2>1, Halves
  <2>3. n + 1 = at[i] + 2 * j \/ n + 1 = at[i] + 2 * j + 1
    <3>1. at[i] \in Nat /\ j \in Nat
      BY <1>1
    <3>2. at[i] + (2 * j + 1) = at[i] + 2 * j + 1
      BY <3>1
    <3>. QED BY <1>2, <2>2, <3>2
  <2>4. f[n + 1].tag # "GHOST*"
    BY <1>1, <2>3
  <2>5. at[i] + 1 <= n /\ n <= at[i] + 1 + 2 * Len(m[i].element)
    BY <1>1, <1>2, <2>1
  <2>. QED BY <2>4, <2>5
<1>. QED BY <1>3, <1>4

LEMMA ReachedGhost ==
  ASSUME NEW m \in Areas, Known(m), NEW f, NEW at, SavedAs(f, m, at),
         NEW n \in 1 .. Len(f), n + 1 \in 2 .. Len(f), f[n + 1].tag = "GHOST*",
         NEW s, Reached(f, m, at, s, n)
  PROVE  Reached(f, m, at, ReadLine(s, f[n + 1]), n + 1)
<1> DEFINE l == f[n + 1]
           w == ReadLine(s, l)
<1>1. f \in Seq(FileLine) /\ Len(f) \in Nat /\ n \in Nat
  BY DEF SavedAs
<1>2. l \in FileLine /\ l.text \in Texts
  <2>1. l \in FileLine
    BY <1>1
  <2>. QED BY <2>1 DEF FileLine
<1>3. s \in ReadState /\ s.values \in Areas /\ s.name = Empty
  <2>1. f[n].tag # "NAME_*"
    BY ValueFollows
  <2>. QED BY <2>1, ReadStateType DEF Reached
<1>4. /\ w.values = WithGhost(s.values, l.text)
      /\ w.ghost = FindGhost(w.values, l.text)
      /\ w.name = s.name
  <2> HIDE DEF l
  <2>1. l.tag = "GHOST*"
    BY DEF l
  <2>. QED BY <1>2, <1>3, <2>1, ReadGhost
<1>5. /\ w.values \in Areas
      /\ w.ghost \in DOMAIN w.values /\ Same(w.values[w.ghost].ghost, l.text)
      /\ \A h, k : Value(w.values, h, k) = Value(s.values, h, k)
      /\ Known(s.values) => Known(w.values)
  <2> HIDE DEF l, w
  <2>. QED BY <1>2, <1>3, <1>4, WithGhostResult
<1>6. w \in ReadState
  BY <1>1, <1>2, <1>3, ReadLineType
<1>7. w.ghost # 0
  BY <1>5, AreasType
<1> HIDE DEF w
<1>8. Brought(w.values, m)
  BY <1>5 DEF Reached, Brought
<1>9. ASSUME NEW i \in DOMAIN m, NEW j \in DOMAIN m[i].element,
             at[i] + 2 * j + 1 <= n + 1, m[i].element[j].name # Empty
      PROVE  Value(w.values, m[i].ghost, m[i].element[j].name) # Empty
  <2>1. m[i].element # <<>>
    <3>1. m[i].element \in Elements
      BY AreasType
    <3>. QED BY <3>1 DEF Elements
  <2>2. at[i] \in Nat /\ f[at[i] + 2 * j + 1].tag = "VALUE*" /\ j \in Nat
    BY <2>1, SavedLines
  <2>3. at[i] + 2 * j + 1 <= n
    BY <1>1, <1>9, <2>2
  <2>. QED BY <1>5, <1>9, <2>3 DEF Reached
<1>10. ASSUME NEW i \in DOMAIN m, m[i].element # <<>>,
              at[i] + 1 <= n + 1, n + 1 <= at[i] + 1 + 2 * Len(m[i].element)
       PROVE  w.ghost # 0 /\ Same(w.values[w.ghost].ghost, m[i].ghost)
  <2>1. n + 1 = at[i] + 1
    BY <1>1, <1>10, StillIn
  <2>2. l.text = m[i].ghost
    BY <1>10, <2>1, SavedLines
  <2>. QED BY <1>5, <1>7, <2>2
<1>11. w.name = IF f[n + 1].tag = "NAME_*" THEN f[n + 1].text ELSE Empty
  BY <1>3, <1>4
<1>12. Reached(f, m, at, w, n + 1)
  BY <1>6, <1>8, <1>9, <1>10, <1>11 DEF Reached
<1>. QED BY <1>12 DEF w

LEMMA ReachedName ==
  ASSUME NEW m \in Areas, Known(m), NEW f, NEW at, SavedAs(f, m, at),
         NEW n \in 1 .. Len(f), n + 1 \in 2 .. Len(f), f[n + 1].tag = "NAME_*",
         NEW s, Reached(f, m, at, s, n)
  PROVE  Reached(f, m, at, ReadLine(s, f[n + 1]), n + 1)
<1> DEFINE l == f[n + 1]
           w == ReadLine(s, l)
<1>1. f \in Seq(FileLine) /\ Len(f) \in Nat /\ n \in Nat
  BY DEF SavedAs
<1>2. l \in FileLine /\ l.text \in Texts
  <2>1. l \in FileLine
    BY <1>1
  <2>. QED BY <2>1 DEF FileLine
<1>3. s \in ReadState /\ s.values \in Areas /\ s.name = Empty
  <2>1. f[n].tag # "NAME_*"
    BY ValueFollows
  <2>. QED BY <2>1, ReadStateType DEF Reached
<1>4. w.values = s.values /\ w.ghost = s.ghost /\ w.name = l.text
  <2> HIDE DEF l
  <2>1. l.tag = "NAME_*"
    BY DEF l
  <2>2. ~Pending(s)
    BY <1>3 DEF Pending
  <2>. QED BY <1>2, <1>3, <2>1, <2>2, ReadName
<1>5. w \in ReadState
  BY <1>1, <1>2, <1>3, ReadLineType
<1> HIDE DEF w
<1>6. Brought(w.values, m)
  BY <1>4 DEF Reached
<1>7. ASSUME NEW i \in DOMAIN m, NEW j \in DOMAIN m[i].element,
             at[i] + 2 * j + 1 <= n + 1, m[i].element[j].name # Empty
      PROVE  Value(w.values, m[i].ghost, m[i].element[j].name) # Empty
  <2>1. m[i].element # <<>>
    <3>1. m[i].element \in Elements
      BY AreasType
    <3>. QED BY <3>1 DEF Elements
  <2>2. at[i] \in Nat /\ f[at[i] + 2 * j + 1].tag = "VALUE*" /\ j \in Nat
    BY <2>1, SavedLines
  <2>3. at[i] + 2 * j + 1 <= n
    BY <1>1, <1>7, <2>2
  <2>. QED BY <1>4, <1>7, <2>3 DEF Reached
<1>8. ASSUME NEW i \in DOMAIN m, m[i].element # <<>>,
             at[i] + 1 <= n + 1, n + 1 <= at[i] + 1 + 2 * Len(m[i].element)
      PROVE  w.ghost # 0 /\ Same(w.values[w.ghost].ghost, m[i].ghost)
  <2>1. at[i] + 1 <= n /\ n <= at[i] + 1 + 2 * Len(m[i].element)
    BY <1>1, <1>8, StillIn
  <2>. QED BY <1>4, <1>8, <2>1 DEF Reached
<1>9. w.name = IF f[n + 1].tag = "NAME_*" THEN f[n + 1].text ELSE Empty
  BY <1>4
<1>10. Reached(f, m, at, w, n + 1)
  BY <1>5, <1>6, <1>7, <1>8, <1>9 DEF Reached
<1>. QED BY <1>10 DEF w

\* A line with a value, torn or not, gives it to its variable and to no other: w
\* is what s becomes when the n-th line is the name of element j of area i.
Taken(m, at, n, s, l, w, i, j) ==
  LET x == m[i].element[j]
  IN  /\ n = at[i] + 2 * j /\ m[i].element # <<>>
      /\ s.name = x.name
      /\ w.name = Empty /\ w.ghost = s.ghost
      /\ w.values \in Areas /\ Known(w.values)
      /\ DOMAIN w.values = DOMAIN s.values
      /\ \A q \in DOMAIN s.values : w.values[q].ghost = s.values[q].ghost
      /\ \A h, k : Value(w.values, h, k) =
           IF x.name # Empty /\ Same(m[i].ghost, h) /\ Same(x.name, k) THEN l.text
           ELSE Value(s.values, h, k)

LEMMA ValueTaken ==
  ASSUME NEW m \in Areas, Known(m), NEW f, NEW at, SavedAs(f, m, at),
         NEW n \in 1 .. Len(f), n + 1 \in 2 .. Len(f), f[n + 1].tag = "VALUE*",
         NEW s, Reached(f, m, at, s, n), NEW l \in FileLine, l.tag = "VALUE*"
  PROVE  \E i \in DOMAIN m : \E j \in DOMAIN m[i].element : Taken(m, at, n, s, l, ReadLine(s, l), i, j)
<1>1. f \in Seq(FileLine) /\ Len(f) \in Nat /\ n \in Nat
  BY DEF SavedAs
<1>2. PICK i \in DOMAIN m : /\ m[i].element # <<>>
                            /\ \/ n + 1 = at[i] + 1
                               \/ \E j \in DOMAIN m[i].element :
                                     n + 1 = at[i] + 2 * j \/ n + 1 = at[i] + 2 * j + 1
  BY DEF SavedAs
<1>3. /\ at[i] \in Nat /\ Len(m[i].element) \in Nat /\ DOMAIN m[i].element = 1 .. Len(m[i].element)
      /\ f[at[i] + 1].tag = "GHOST*" /\ Fold[m[i].ghost] \in GhostId
      /\ \A j \in DOMAIN m[i].element :
            /\ f[at[i] + 2 * j].tag = "NAME_*" /\ f[at[i] + 2 * j].text = m[i].element[j].name
            /\ m[i].element[j].name \in Texts /\ Fold[m[i].element[j].name] \in KeyId
  BY <1>2, SavedLines
<1>4. PICK j \in DOMAIN m[i].element : n + 1 = at[i] + 2 * j + 1
  BY <1>2, <1>3
<1>5. j \in 1 .. Len(m[i].element) /\ n = at[i] + 2 * j
  <2>1. at[i] \in Nat /\ j \in Nat
    BY <1>3
  <2> DEFINE p == at[i] + 2 * j
  <2>2. p \in Nat /\ n + 1 = p + 1
    BY <1>4, <2>1
  <2> HIDE DEF p
  <2>3. n = p
    BY <1>1, <2>2
  <2>. QED BY <1>3, <2>3 DEF p
<1> DEFINE x == m[i].element[j]
           w == ReadLine(s, l)
<1>6. x.name \in Texts /\ Fold[x.name] \in KeyId
  BY <1>3
<1>7. s.name = x.name
  BY <1>3, <1>5 DEF Reached
<1>8. s.ghost # 0 /\ Same(s.values[s.ghost].ghost, m[i].ghost)
  <2>1. at[i] + 1 <= n /\ n <= at[i] + 1 + 2 * Len(m[i].element)
    BY <1>3, <1>5
  <2>. QED BY <1>2, <2>1 DEF Reached
<1>9. /\ s \in ReadState /\ s.values \in Areas /\ Known(s.values)
      /\ s.ghost \in DOMAIN s.values
  BY <1>8, ReadStateType DEF Reached, Brought
<1>10. l.text \in Texts
  BY DEF FileLine
<1> HIDE DEF x
<1>11. CASE x.name = Empty
  <2>1. w = s
    BY <1>7, <1>9, <1>11, ReadValue DEF Pending
  <2>2. Taken(m, at, n, s, l, w, i, j)
    <3> HIDE DEF w
    <3>. QED BY <1>2, <1>5, <1>7, <1>9, <1>11, <2>1 DEF x, Taken
  <2>. QED BY <2>2
<1>12. CASE x.name # Empty
  <2>1. Pending(s)
    BY <1>7, <1>8, <1>12 DEF Pending
  <2>2. w.values = Put(s.values, s.ghost, x.name, l.text) /\ w.ghost = s.ghost /\ w.name = Empty
    BY <1>7, <1>9, <2>1, ReadValue
  <2> HIDE DEF w
  <2>3. Fold[s.values[s.ghost].ghost] \in GhostId
    BY <1>3, <1>8 DEF Same
  <2>4. /\ w.values \in Areas /\ DOMAIN w.values = DOMAIN s.values
        /\ \A q \in DOMAIN s.values : w.values[q].ghost = s.values[q].ghost
        /\ \A h, k : Value(w.values, h, k) =
             IF Same(s.values[s.ghost].ghost, h) /\ Same(x.name, k) THEN l.text ELSE Value(s.values, h, k)
        /\ Known(w.values)
    <3> DEFINE new == Put(s.values, s.ghost, x.name, l.text)
    <3>0. new \in Areas /\ DOMAIN new = DOMAIN s.values
      BY <1>6, <1>9, <1>10, PutResult
    <3>1. \A q \in DOMAIN s.values : new[q].ghost = s.values[q].ghost
      BY <1>6, <1>9, <1>10, PutResult
    <3>2. \A h, k : Value(new, h, k) =
             IF Same(s.values[s.ghost].ghost, h) /\ Same(x.name, k) THEN l.text ELSE Value(s.values, h, k)
      BY <1>6, <1>9, <1>10, PutResult
    <3>3. Known(new)
      BY <1>6, <1>9, <1>10, <2>3, PutResult
    <3> HIDE DEF new
    <3>. QED BY <2>2, <3>0, <3>1, <3>2, <3>3 DEF new
  <2>5. \A h : Same(s.values[s.ghost].ghost, h) <=> Same(m[i].ghost, h)
    BY <1>8 DEF Same
  <2>6. \A h, k : Value(w.values, h, k) =
             IF x.name # Empty /\ Same(m[i].ghost, h) /\ Same(x.name, k) THEN l.text
             ELSE Value(s.values, h, k)
    BY <1>12, <2>4, <2>5
  <2>7. Taken(m, at, n, s, l, w, i, j)
    BY <1>2, <1>5, <1>7, <2>2, <2>4, <2>6 DEF x, Taken
  <2>. QED BY <2>7 DEF w
<1>. QED BY <1>11, <1>12

\* What an element says is the value of its ghost's variable.
LEMMA ElementValue ==
  ASSUME NEW m \in Areas, NEW i \in DOMAIN m, NEW j \in DOMAIN m[i].element, NEW h, NEW k,
         Same(m[i].ghost, h), Same(m[i].element[j].name, k)
  PROVE  Value(m, h, k) = m[i].element[j].value
<1>1. m[i].element \in Elements
  BY AreasType
<1>2. Value(m, h, k) = Get(m[i].element, k)
  BY ValueIs
<1>. QED BY <1>1, <1>2, GetIs

LEMMA ReachedValue ==
  ASSUME NEW m \in Areas, Known(m), NEW f, NEW at, SavedAs(f, m, at),
         NEW n \in 1 .. Len(f), n + 1 \in 2 .. Len(f), f[n + 1].tag = "VALUE*",
         NEW s, Reached(f, m, at, s, n)
  PROVE  Reached(f, m, at, ReadLine(s, f[n + 1]), n + 1)
<1> DEFINE l == f[n + 1]
           w == ReadLine(s, l)
<1>1. f \in Seq(FileLine) /\ Len(f) \in Nat /\ n \in Nat
  BY DEF SavedAs
<1>2. l \in FileLine
  BY <1>1
<1>3. w \in ReadState /\ s \in ReadState
  BY <1>2, ReadLineType DEF Reached
<1> HIDE DEF l
<1>13. PICK i \in DOMAIN m : \E j \in DOMAIN m[i].element : Taken(m, at, n, s, l, w, i, j)
  <2>1. l.tag = "VALUE*"
    BY DEF l
  <2>. QED BY <1>2, <2>1, ValueTaken
<1>14. PICK j \in DOMAIN m[i].element : Taken(m, at, n, s, l, w, i, j)
  BY <1>13
<1> HIDE DEF w
<1> DEFINE x == m[i].element[j]
<1>4. /\ n = at[i] + 2 * j /\ m[i].element # <<>>
      /\ s.name = x.name
      /\ w.name = Empty /\ w.ghost = s.ghost
      /\ w.values \in Areas /\ Known(w.values)
      /\ DOMAIN w.values = DOMAIN s.values
      /\ \A q \in DOMAIN s.values : w.values[q].ghost = s.values[q].ghost
      /\ \A h, k : Value(w.values, h, k) =
           IF x.name # Empty /\ Same(m[i].ghost, h) /\ Same(x.name, k) THEN l.text
           ELSE Value(s.values, h, k)
  BY <1>14 DEF Taken
<1>5. /\ at[i] \in Nat /\ j \in Nat
      /\ l.text = Trunc[x.value] /\ x.value \in Texts /\ x.value # Empty
      /\ x.name \in Texts
  <2>1. /\ at[i] \in Nat /\ DOMAIN m[i].element = 1 .. Len(m[i].element)
        /\ f[at[i] + 2 * j + 1].text = Trunc[m[i].element[j].value]
        /\ m[i].element[j].value \in Texts /\ m[i].element[j].value # Empty
        /\ m[i].element[j].name \in Texts
    BY <1>4, SavedLines
  <2>2. n + 1 = at[i] + 2 * j + 1
    BY <1>4
  <2>. QED BY <2>1, <2>2 DEF l
<1>6. l.text # Empty
  BY <1>5, FoldOf
<1>7. Brought(w.values, m)
  <2>1. ASSUME NEW h, NEW k
        PROVE  \/ Value(w.values, h, k) = Empty
               \/ Fold[k] # Empty /\ Value(w.values, h, k) = Trunc[Value(m, h, k)]
    <3>1. CASE x.name # Empty /\ Same(m[i].ghost, h) /\ Same(x.name, k)
      <4>1. Value(m, h, k) = x.value
        BY <3>1, ElementValue
      <4>2. Fold[k] # Empty
        BY <1>5, <3>1, FoldOf DEF Same
      <4>. QED BY <1>4, <1>5, <3>1, <4>1, <4>2
    <3>2. CASE ~(x.name # Empty /\ Same(m[i].ghost, h) /\ Same(x.name, k))
      <4>1. Value(w.values, h, k) = Value(s.values, h, k)
        BY <1>4, <3>2
      <4>. QED BY <4>1 DEF Reached, Brought
    <3>. QED BY <3>1, <3>2
  <2>. QED BY <1>4, <2>1 DEF Brought
<1>8. ASSUME NEW a \in DOMAIN m, NEW b \in DOMAIN m[a].element,
             at[a] + 2 * b + 1 <= n + 1, m[a].element[b].name # Empty
      PROVE  Value(w.values, m[a].ghost, m[a].element[b].name) # Empty
  <2>1. m[a].element # <<>>
    <3>1. m[a].element \in Elements
      BY AreasType
    <3>. QED BY <3>1 DEF Elements
  <2>2. /\ at[a] \in Nat /\ b \in Nat /\ Len(m[a].element) \in Nat /\ b \in 1 .. Len(m[a].element)
        /\ f[at[a] + 2 * b].text = m[a].element[b].name
        /\ f[at[a] + 2 * b].tag = "NAME_*"
    BY <2>1, SavedLines
  <2>3. CASE at[a] + 2 * b + 1 <= n
    <3>1. Value(s.values, m[a].ghost, m[a].element[b].name) # Empty
      BY <1>8, <2>3 DEF Reached
    <3>. QED BY <1>4, <1>6, <3>1
  <2>4. CASE ~(at[a] + 2 * b + 1 <= n)
    <3>1. n = at[a] + 2 * b
      BY <1>1, <1>8, <2>2, <2>4
    <3>2. m[a].element[b].name = x.name
      BY <1>4, <2>2, <3>1 DEF Reached
    <3>3. Same(m[i].ghost, m[a].ghost)
      <4>1. at[a] + 1 <= n /\ n <= at[a] + 1 + 2 * Len(m[a].element)
        BY <2>2, <3>1
      <4>2. Same(s.values[s.ghost].ghost, m[a].ghost)
        BY <2>1, <4>1 DEF Reached
      <4>3. Len(m[i].element) \in Nat /\ j \in 1 .. Len(m[i].element)
        BY <1>4, SavedLines
      <4>4. at[i] + 1 <= n /\ n <= at[i] + 1 + 2 * Len(m[i].element)
        BY <1>4, <1>5, <4>3
      <4>5. Same(s.values[s.ghost].ghost, m[i].ghost)
        BY <1>4, <4>4 DEF Reached
      <4>. QED BY <4>2, <4>5 DEF Same
    <3>4. Same(x.name, x.name)
      BY DEF Same
    <3>5. Value(w.values, m[a].ghost, x.name) = l.text
      BY <1>4, <1>8, <3>2, <3>3, <3>4
    <3>. QED BY <1>6, <3>2, <3>5
  <2>. QED BY <2>3, <2>4
<1>9. ASSUME NEW a \in DOMAIN m, m[a].element # <<>>,
             at[a] + 1 <= n + 1, n + 1 <= at[a] + 1 + 2 * Len(m[a].element)
      PROVE  w.ghost # 0 /\ Same(w.values[w.ghost].ghost, m[a].ghost)
  <2>1. at[a] + 1 <= n /\ n <= at[a] + 1 + 2 * Len(m[a].element)
    BY <1>1, <1>9, StillIn
  <2>2. s.ghost # 0 /\ Same(s.values[s.ghost].ghost, m[a].ghost)
    BY <1>9, <2>1 DEF Reached
  <2>3. s.ghost \in DOMAIN s.values
    BY <1>3, <2>2, ReadStateType
  <2>. QED BY <1>4, <2>2, <2>3
<1>10. w.name = IF f[n + 1].tag = "NAME_*" THEN f[n + 1].text ELSE Empty
  BY <1>4
<1>11. Reached(f, m, at, w, n + 1)
  <2> HIDE DEF x
  <2>. QED BY <1>3, <1>7, <1>8, <1>9, <1>10 DEF Reached
<1>. QED BY <1>11 DEF w, l

LEMMA ReachedAll ==
  ASSUME NEW m \in Areas, Known(m), NEW f, NEW at, SavedAs(f, m, at), NEW n \in 1 .. Len(f)
  PROVE  Reached(f, m, at, Read(f)[n], n)
<1>1. f \in Seq(FileLine) /\ f # <<>> /\ Len(f) \in Nat /\ f[1].tag = "SVD2"
  BY DEF SavedAs, Line
<1>2. /\ Read(f)[1] = ReadStart
      /\ \A i \in 2 .. Len(f) : Read(f)[i] = ReadLine(Read(f)[i - 1], f[i])
  BY <1>1, ReadSteps
<1> DEFINE T == {i \in 1 .. Len(f) : Reached(f, m, at, Read(f)[i], i)}
<1>3. 1 \in T
  <2>1. ReadStart \in ReadState /\ ReadStart.values = <<>> /\ ReadStart.name = Empty
    BY NoAreas, TextAssumption, ReadStateMade DEF ReadStart
  <2>2. Brought(<<>>, m)
    BY NoAreas DEF Brought
  <2>3. ASSUME NEW i \in DOMAIN m, NEW j \in DOMAIN m[i].element, at[i] + 2 * j + 1 <= 1 PROVE FALSE
    <3>1. m[i].element # <<>>
      <4>1. m[i].element \in Elements
        BY AreasType
      <4>. QED BY <4>1 DEF Elements
    <3>2. at[i] + 2 * j + 1 \in 2 .. Len(f)
      BY <3>1, SavedLines
    <3>. QED BY <1>1, <2>3, <3>2
  <2>4. ASSUME NEW i \in DOMAIN m, m[i].element # <<>>, at[i] + 1 <= 1 PROVE FALSE
    <3>1. at[i] + 1 \in 2 .. Len(f)
      BY <2>4, SavedLines
    <3>. QED BY <1>1, <2>4, <3>1
  <2>5. f[1].tag # "NAME_*"
    BY <1>1
  <2>6. Reached(f, m, at, ReadStart, 1)
    BY <2>1, <2>2, <2>3, <2>4, <2>5 DEF Reached
  <2>7. 1 \in 1 .. Len(f)
    BY <1>1
  <2>. QED BY <1>2, <2>6, <2>7
<1>4. ASSUME NEW i \in 1 .. Len(f), i \in T, i + 1 <= Len(f) PROVE i + 1 \in T
  <2> DEFINE s == Read(f)[i]
  <2>1. i + 1 \in 2 .. Len(f) /\ i + 1 \in 1 .. Len(f) /\ (i + 1) - 1 = i
    BY <1>1, <1>4
  <2>2. Read(f)[i + 1] = ReadLine(s, f[i + 1])
    BY <1>2, <2>1
  <2>3. Reached(f, m, at, s, i)
    BY <1>4
  <2> HIDE DEF s
  <2>4. PICK a \in DOMAIN m : /\ m[a].element # <<>>
                              /\ \/ i + 1 = at[a] + 1
                                 \/ \E j \in DOMAIN m[a].element :
                                       i + 1 = at[a] + 2 * j \/ i + 1 = at[a] + 2 * j + 1
    BY <2>1 DEF SavedAs
  <2>5. f[i + 1].tag \in {"GHOST*", "NAME_*", "VALUE*"}
    <3>1. /\ f[at[a] + 1].tag = "GHOST*"
          /\ \A j \in DOMAIN m[a].element : /\ f[at[a] + 2 * j].tag = "NAME_*"
                                            /\ f[at[a] + 2 * j + 1].tag = "VALUE*"
      BY <2>4, SavedLines
    <3>. QED BY <2>4, <3>1
  <2>6. Reached(f, m, at, ReadLine(s, f[i + 1]), i + 1)
    <3>1. CASE f[i + 1].tag = "GHOST*"
      BY <2>1, <2>3, <3>1, ReachedGhost
    <3>2. CASE f[i + 1].tag = "NAME_*"
      BY <2>1, <2>3, <3>2, ReachedName
    <3>3. CASE f[i + 1].tag = "VALUE*"
      BY <2>1, <2>3, <3>3, ReachedValue
    <3>. QED BY <2>5, <3>1, <3>2, <3>3
  <2>. QED BY <2>1, <2>2, <2>6
<1> HIDE DEF T
<1>5. 1 .. Len(f) \subseteq T
  BY <1>1, <1>3, <1>4, IntervalInduction
<1>. QED BY <1>5 DEF T

\* Two files that begin the same are read the same up to there.
LEMMA SamePrefix ==
  ASSUME NEW f \in Seq(FileLine), NEW g \in Seq(FileLine), NEW n \in Nat,
         1 <= n, n <= Len(f), n <= Len(g), \A i \in 1 .. n : f[i] = g[i]
  PROVE  Read(f)[n] = Read(g)[n]
<1> DEFINE T == {i \in 1 .. n : Read(f)[i] = Read(g)[i]}
<1>1. f # <<>> /\ g # <<>> /\ Len(f) \in Nat /\ Len(g) \in Nat
  OBVIOUS
<1>2. Read(f)[1] = ReadStart /\ \A i \in 2 .. Len(f) : Read(f)[i] = ReadLine(Read(f)[i - 1], f[i])
  BY <1>1, ReadSteps
<1>3. Read(g)[1] = ReadStart /\ \A i \in 2 .. Len(g) : Read(g)[i] = ReadLine(Read(g)[i - 1], g[i])
  BY <1>1, ReadSteps
<1>4. 1 \in T
  BY <1>2, <1>3
<1>5. ASSUME NEW i \in 1 .. n, i \in T, i + 1 <= n PROVE i + 1 \in T
  <2>1. /\ i + 1 \in 2 .. Len(f) /\ i + 1 \in 2 .. Len(g) /\ i + 1 \in 1 .. n
        /\ (i + 1) - 1 = i
    BY <1>1, <1>5
  <2>2. Read(f)[i + 1] = ReadLine(Read(f)[i], f[i + 1])
    BY <1>2, <2>1
  <2>3. Read(g)[i + 1] = ReadLine(Read(g)[i], g[i + 1])
    BY <1>3, <2>1
  <2>4. f[i + 1] = g[i + 1]
    BY <2>1
  <2>. QED BY <1>5, <2>1, <2>2, <2>3, <2>4
<1> HIDE DEF T
<1>6. 1 .. n \subseteq T
  BY <1>4, <1>5, IntervalInduction
<1>. QED BY <1>6 DEF T

LEMMA LoadIs ==
  ASSUME NEW f \in Seq(FileLine), f # <<>>, f[1].tag = "SVD2"
  PROVE  LoadLines(f) = Read(f)[Len(f)].values
BY DEF LoadLines

\* A complete file brings every value back, cut to a line, but for the variable
\* without a name.
LEMMA LoadWhole ==
  ASSUME NEW m \in Areas, Known(m)
  PROVE  /\ Brought(LoadLines(SaveLines(m)), m)
         /\ \A h, k : Value(m, h, k) # Empty /\ Fold[k] # Empty
                         => Value(LoadLines(SaveLines(m)), h, k) # Empty
<1> DEFINE f == SaveLines(m)
           w == LoadLines(f)
<1>1. PICK at : SavedAs(f, m, at)
  BY SaveLinesShape
<1>2. f \in Seq(FileLine) /\ f # <<>> /\ f[1].tag = "SVD2"
  BY <1>1 DEF SavedAs, Line
<1> HIDE DEF f
<1>3. Len(f) \in Nat /\ Len(f) \in 1 .. Len(f)
  BY <1>2
<1>4. Reached(f, m, at, Read(f)[Len(f)], Len(f))
  BY <1>1, <1>3, ReachedAll
<1>5. w = Read(f)[Len(f)].values
  BY <1>2, LoadIs
<1> HIDE DEF w
<1>6. Brought(w, m)
  BY <1>4, <1>5 DEF Reached
<1>7. ASSUME NEW h, NEW k, Value(m, h, k) # Empty, Fold[k] # Empty PROVE Value(w, h, k) # Empty
  <2>1. PICK i \in DOMAIN m : Same(m[i].ghost, h)
    BY <1>7, ValueIs
  <2>2. m[i].element \in Elements /\ Get(m[i].element, k) # Empty
    BY <1>7, <2>1, ValueIs, AreasType
  <2>3. PICK j \in DOMAIN m[i].element : Same(m[i].element[j].name, k)
    BY <2>2, GetIs
  <2>4. m[i].element # <<>>
    BY <2>2, <2>3 DEF Elements
  <2>5. m[i].element[j].name \in Texts /\ at[i] + 2 * j + 1 \in 2 .. Len(f)
    BY <1>1, <2>4, SavedLines
  <2>6. m[i].element[j].name # Empty
    BY <1>7, <2>3, FoldOf DEF Same
  <2>7. at[i] + 2 * j + 1 <= Len(f)
    BY <1>3, <2>5
  <2>8. Value(w, m[i].ghost, m[i].element[j].name) # Empty
    BY <1>4, <1>5, <2>6, <2>7 DEF Reached
  <2>9. Value(w, h, k) = Value(w, m[i].ghost, m[i].element[j].name)
    BY <2>1, <2>3 DEF Value, FindGhost, Get, Find, Same
  <2>. QED BY <2>8, <2>9
<1>. QED BY <1>6, <1>7 DEF w, f

\* The same of a torn file: one value may be cut short.
CutShort(w, m) ==
  /\ w \in Areas /\ Known(w)
  /\ \E g, n : \A h, k :
        \/ Value(w, h, k) = Empty
        \/ /\ Fold[k] # Empty
           /\ \/ Value(w, h, k) = Trunc[Value(m, h, k)]
              \/ Same(g, h) /\ Same(n, k) /\ Value(w, h, k) \in Cut[Trunc[Value(m, h, k)]]

LEMMA BroughtIsCutShort ==
  ASSUME NEW m, NEW w, Brought(w, m)
  PROVE  CutShort(w, m)
<1> DEFINE P(g, n, h, k) ==
             \/ Value(w, h, k) = Empty
             \/ /\ Fold[k] # Empty
                /\ \/ Value(w, h, k) = Trunc[Value(m, h, k)]
                   \/ Same(g, h) /\ Same(n, k) /\ Value(w, h, k) \in Cut[Trunc[Value(m, h, k)]]
<1>1. \A h, k : P(Empty, Empty, h, k)
  BY DEF Brought
<1>2. \E g, n : \A h, k : P(g, n, h, k)
  <2> HIDE DEF P
  <2>. QED BY <1>1
<1>. QED BY <1>2 DEF Brought, CutShort

\* One line that a save did not finish.
LEMMA TornLineType ==
  ASSUME NEW f \in Seq(FileLine), NEW n \in 1 .. Len(f), NEW l \in TornLine(f[n])
  PROVE  /\ l \in FileLine
         /\ l.tag = "none" \/ (l.tag = f[n].tag /\ l.tag # "SVD2" /\ l.text \in Cut[f[n].text])
<1>1. /\ f[n] \in FileLine /\ f[n].text \in Texts /\ Empty \in Texts
      /\ f[n].tag \in {"SVD2", "GHOST*", "NAME_*", "VALUE*", "none"}
  <2>1. f[n] \in FileLine
    OBVIOUS
  <2>. QED BY <2>1, TextAssumption DEF FileLine
<1>2. CASE l = [tag |-> "none", text |-> Empty]
  BY <1>1, <1>2 DEF FileLine
<1>3. CASE l # [tag |-> "none", text |-> Empty]
  <2>1. f[n].tag # "SVD2" /\ \E t \in Cut[f[n].text] : l = [f[n] EXCEPT !.text = t]
    BY <1>3 DEF TornLine
  <2>2. PICK t \in Cut[f[n].text] : l = [f[n] EXCEPT !.text = t]
    BY <2>1
  <2>3. t \in Texts
    BY <1>1, TextAssumption
  <2>4. l \in FileLine /\ l.tag = f[n].tag /\ l.text = t
    BY <1>1, <2>2, <2>3 DEF FileLine
  <2>. QED BY <2>1, <2>4
<1>. QED BY <1>2, <1>3

LEMMA LoadTorn ==
  ASSUME NEW m \in Areas, Known(m), NEW g \in TornFiles(SaveLines(m))
  PROVE  g \in Seq(FileLine) /\ CutShort(LoadLines(g), m)
<1> DEFINE f == SaveLines(m)
<1>1. PICK at : SavedAs(f, m, at)
  BY SaveLinesShape
<1>2. f \in Seq(FileLine) /\ f # <<>> /\ f[1].tag = "SVD2"
  BY <1>1 DEF SavedAs, Line
<1>3. \/ \E n \in 0 .. Len(f) - 1 : g = SubSeq(f, 1, n)
      \/ \E n \in DOMAIN f : \E l \in TornLine(f[n]) : g = Append(SubSeq(f, 1, n - 1), l)
  BY DEF TornFiles
<1> HIDE DEF f
<1>4. Len(f) \in Nat /\ DOMAIN f = 1 .. Len(f) /\ \A i \in 1 .. Len(f) : f[i] \in FileLine
  BY <1>2
<1>5. CutShort(<<>>, m)
  BY NoAreas, BroughtIsCutShort DEF Brought
<1>6. CASE \E n \in 0 .. Len(f) - 1 : g = SubSeq(f, 1, n)
  <2>1. PICK n \in 0 .. Len(f) - 1 : g = SubSeq(f, 1, n)
    BY <1>6
  <2>2. g \in Seq(FileLine) /\ Len(g) = n /\ \A i \in 1 .. n : g[i] = f[i]
    BY <1>2, <1>4, <2>1
  <2>3. CASE n = 0
    <3>1. g = <<>>
      BY <2>2, <2>3
    <3>. QED BY <1>5, <2>2, <3>1 DEF LoadLines
  <2>4. CASE n # 0
    <3>1. n \in 1 .. Len(f) /\ n \in Nat /\ 1 <= n /\ n <= Len(f)
      BY <1>4, <2>4
    <3>2. g # <<>> /\ g[1].tag = "SVD2"
      BY <1>2, <2>2, <3>1
    <3>3. LoadLines(g) = Read(f)[n].values
      BY <1>2, <2>2, <3>1, <3>2, LoadIs, SamePrefix
    <3>4. Brought(LoadLines(g), m)
      BY <1>1, <3>1, <3>3, ReachedAll DEF Reached
    <3>. QED BY <2>2, <3>4, BroughtIsCutShort
  <2>. QED BY <2>3, <2>4
<1>7. CASE \E n \in DOMAIN f : \E l \in TornLine(f[n]) : g = Append(SubSeq(f, 1, n - 1), l)
  <2>1. PICK n \in 1 .. Len(f) : \E l \in TornLine(f[n]) : g = Append(SubSeq(f, 1, n - 1), l)
    BY <1>4, <1>7
  <2>2. PICK l \in TornLine(f[n]) : g = Append(SubSeq(f, 1, n - 1), l)
    BY <2>1
  <2>3. /\ l \in FileLine
        /\ l.tag = "none" \/ (l.tag = f[n].tag /\ l.tag # "SVD2" /\ l.text \in Cut[f[n].text])
    BY <1>2, TornLineType
  <2>4. /\ g \in Seq(FileLine) /\ Len(g) = n /\ g[n] = l
        /\ \A i \in 1 .. n - 1 : g[i] = f[i]
    <3> DEFINE p == SubSeq(f, 1, n - 1)
    <3>1. p \in Seq(FileLine) /\ Len(p) = n - 1 /\ \A i \in 1 .. n - 1 : p[i] = f[i]
      BY <1>2, <1>4
    <3> HIDE DEF p
    <3>2. g = Append(p, l)
      BY <2>2 DEF p
    <3>. QED BY <1>4, <2>3, <3>1, <3>2
  <2>5. CASE n = 1
    <3>1. g[1].tag # "SVD2"
      BY <2>3, <2>4, <2>5
    <3>. QED BY <1>5, <2>4, <3>1 DEF LoadLines
  <2>6. CASE n # 1
    <3> DEFINE o == n - 1
               s == Read(f)[o]
               w == ReadLine(s, l)
    <3>1. o \in 1 .. Len(f) /\ o \in Nat /\ 1 <= o /\ o <= Len(f) /\ o + 1 = n /\ n \in 2 .. Len(f)
      BY <1>4, <2>6
    <3>2. g # <<>> /\ g[1].tag = "SVD2"
      BY <1>2, <2>4, <3>1
    <3>3. Read(g)[n] = ReadLine(Read(g)[o], l)
      BY <1>4, <2>4, <3>1, <3>2, ReadSteps
    <3>4. Read(g)[o] = s
      <4>1. o <= Len(g) /\ \A i \in 1 .. o : f[i] = g[i]
        BY <2>4, <3>1
      <4>. QED BY <1>2, <2>4, <3>1, <4>1, SamePrefix
    <3>5. LoadLines(g) = w.values
      BY <2>4, <3>2, <3>3, <3>4, LoadIs
    <3>6. Reached(f, m, at, s, o)
      BY <1>1, <3>1, ReachedAll
    <3> HIDE DEF s, o
    <3>7. s \in ReadState /\ Brought(s.values, m)
      BY <3>6 DEF Reached
    <3>8. CASE l.tag \notin {"GHOST*", "NAME_*", "VALUE*"}
      <4>1. l.tag \in {"SVD2", "none"}
        BY <2>3, <3>8 DEF FileLine
      <4>2. w = s
        BY <2>3, <3>7, <4>1, ReadOther
      <4>. QED BY <2>4, <3>5, <3>7, <4>2, BroughtIsCutShort
    <3>9. CASE l.tag = "GHOST*"
      <4>1. w.values = WithGhost(s.values, l.text)
        BY <2>3, <3>7, <3>9, ReadGhost
      <4>2. l.text \in Texts /\ s.values \in Areas /\ Known(s.values)
        BY <2>3, <3>7 DEF FileLine, Brought
      <4>3. /\ w.values \in Areas /\ Known(w.values)
            /\ \A h, k : Value(w.values, h, k) = Value(s.values, h, k)
        <5> HIDE DEF w
        <5>. QED BY <4>1, <4>2, WithGhostResult
      <4>4. Brought(w.values, m)
        <5> HIDE DEF w
        <5>. QED BY <3>7, <4>3 DEF Brought
      <4>. QED BY <2>4, <3>5, <4>4, BroughtIsCutShort
    <3>10. CASE l.tag = "NAME_*"
      <4>1. f[n].tag = "NAME_*"
        BY <2>3, <3>10
      <4>2. f[o].tag # "NAME_*"
        BY <1>1, <3>1, <4>1, ValueFollows
      <4>3. ~Pending(s)
        BY <3>6, <4>2 DEF Reached, Pending
      <4>4. w.values = s.values
        BY <2>3, <3>7, <3>10, <4>3, ReadName
      <4>. QED BY <2>4, <3>5, <3>7, <4>4, BroughtIsCutShort
    <3>11. CASE l.tag = "VALUE*"
      <4>1. f[n].tag = "VALUE*" /\ l.text \in Cut[f[n].text]
        BY <2>3, <3>11
      <4> HIDE DEF w
      <4>2. PICK i \in DOMAIN m : \E j \in DOMAIN m[i].element : Taken(m, at, o, s, l, w, i, j)
        BY <1>1, <2>3, <3>1, <3>6, <3>11, <4>1, ValueTaken DEF w
      <4>3. PICK j \in DOMAIN m[i].element : Taken(m, at, o, s, l, w, i, j)
        BY <4>2
      <4> DEFINE x == m[i].element[j]
      <4>4. /\ o = at[i] + 2 * j /\ m[i].element # <<>>
            /\ w.values \in Areas /\ Known(w.values)
            /\ \A h, k : Value(w.values, h, k) =
                 IF x.name # Empty /\ Same(m[i].ghost, h) /\ Same(x.name, k) THEN l.text
                 ELSE Value(s.values, h, k)
        BY <4>3 DEF Taken
      <4>5. x.name \in Texts /\ f[n].text = Trunc[x.value]
        <5>1. /\ m[i].element[j].name \in Texts
              /\ f[at[i] + 2 * j + 1].text = Trunc[m[i].element[j].value]
          BY <1>1, <4>4, SavedLines
        <5>. QED BY <3>1, <4>4, <5>1
      <4> DEFINE P(a, b, h, k) ==
                   \/ Value(w.values, h, k) = Empty
                   \/ /\ Fold[k] # Empty
                      /\ \/ Value(w.values, h, k) = Trunc[Value(m, h, k)]
                         \/ /\ Same(a, h) /\ Same(b, k)
                            /\ Value(w.values, h, k) \in Cut[Trunc[Value(m, h, k)]]
      <4>6. ASSUME NEW h, NEW k PROVE P(m[i].ghost, x.name, h, k)
        <5>1. CASE x.name # Empty /\ Same(m[i].ghost, h) /\ Same(x.name, k)
          <6>1. Value(m, h, k) = x.value
            BY <5>1, ElementValue
          <6>2. Fold[k] # Empty
            BY <4>5, <5>1, FoldOf DEF Same
          <6>3. Value(w.values, h, k) \in Cut[Trunc[Value(m, h, k)]]
            BY <4>1, <4>4, <4>5, <5>1, <6>1
          <6>. QED BY <5>1, <6>2, <6>3
        <5>2. CASE ~(x.name # Empty /\ Same(m[i].ghost, h) /\ Same(x.name, k))
          <6>1. Value(w.values, h, k) = Value(s.values, h, k)
            BY <4>4, <5>2
          <6>. QED BY <3>7, <6>1 DEF Brought
        <5>. QED BY <5>1, <5>2
      <4>7. \E a, b : \A h, k : P(a, b, h, k)
        <5> HIDE DEF P
        <5>. QED BY <4>6
      <4>8. CutShort(w.values, m)
        BY <4>4, <4>7 DEF CutShort
      <4>. QED BY <2>4, <3>5, <4>8
    <3>. QED BY <3>8, <3>9, <3>10, <3>11
  <2>. QED BY <2>5, <2>6
<1>. QED BY <1>3, <1>6, <1>7

-----------------------------------------------------------------------------
(* The invariant: the areas, of the object and of the last save, name no    *)
(* one twice and store for known ghosts only; the file is what the save     *)
(* made of them, or a part of it.                                           *)

FileIsSaved ==
  IF whole THEN file = SaveLines(saved) \/ (file = <<>> /\ saved = <<>>)
  ELSE file \in TornFiles(SaveLines(saved))

Inv ==
  /\ up \in BOOLEAN /\ whole \in BOOLEAN
  /\ m_ghost_values \in Areas /\ Known(m_ghost_values)
  /\ saved \in Areas /\ Known(saved)
  /\ FileIsSaved
  /\ ~up => m_ghost_values = <<>>
  /\ writes \in 0 .. MaxWrites /\ failures \in 0 .. MaxFailures

LEMMA FileLoads ==
  ASSUME Inv
  PROVE  /\ file \in Seq(FileLine)
         /\ LoadLines(file) \in Areas /\ Known(LoadLines(file))
         /\ whole => /\ Brought(LoadLines(file), saved)
                     /\ \A h, k : Value(saved, h, k) # Empty /\ Fold[k] # Empty
                                     => Value(LoadLines(file), h, k) # Empty
         /\ ~whole => CutShort(LoadLines(file), saved)
<1>1. saved \in Areas /\ Known(saved) /\ whole \in BOOLEAN
  BY DEF Inv
<1>2. CASE ~whole
  <2>1. file \in TornFiles(SaveLines(saved))
    BY <1>2 DEF Inv, FileIsSaved
  <2>2. file \in Seq(FileLine) /\ CutShort(LoadLines(file), saved)
    BY <1>1, <2>1, LoadTorn
  <2>. QED BY <1>2, <2>2 DEF CutShort
<1>3. CASE whole /\ file = SaveLines(saved)
  <2>1. PICK at : SavedAs(file, saved, at)
    BY <1>1, <1>3, SaveLinesShape
  <2>2. file \in Seq(FileLine)
    BY <2>1 DEF SavedAs
  <2>3. /\ Brought(LoadLines(file), saved)
        /\ \A h, k : Value(saved, h, k) # Empty /\ Fold[k] # Empty
                        => Value(LoadLines(file), h, k) # Empty
    BY <1>1, <1>3, LoadWhole
  <2>. QED BY <1>3, <2>2, <2>3 DEF Brought
<1>4. CASE whole /\ file = <<>> /\ saved = <<>>
  <2>1. LoadLines(file) = <<>> /\ file \in Seq(FileLine)
    BY <1>4 DEF LoadLines
  <2>2. Brought(<<>>, <<>>) /\ \A h, k : Value(<<>>, h, k) = Empty
    BY NoAreas DEF Brought
  <2>. QED BY <1>4, <2>1, <2>2, NoAreas
<1>. QED BY <1>2, <1>3, <1>4 DEF Inv, FileIsSaved

\* What the host may send.
LEMMA Inputs ==
  /\ \A g \in Ghosts : g \in Texts /\ Fold[g] \in GhostId
  /\ \A k \in Keys : k \in Texts /\ Fold[k] \in KeyId
  /\ \A b \in Batches : /\ b \in Seq(Element) /\ b # <<>> /\ DOMAIN b = 1 .. Len(b) /\ Len(b) \in Nat
                        /\ \A j \in DOMAIN b : /\ b[j].name \in Keys /\ b[j].value \in Texts
                                               /\ Fold[b[j].name] \in KeyId
<1>1. \A g \in Ghosts : g \in Texts /\ Fold[g] \in GhostId
  BY TextAssumption DEF GhostId
<1>2. \A k \in Keys : k \in Texts /\ Fold[k] \in KeyId
  BY TextAssumption DEF KeyId
<1>3. ASSUME NEW b \in Batches
      PROVE  /\ b \in Seq(Element) /\ b # <<>> /\ DOMAIN b = 1 .. Len(b) /\ Len(b) \in Nat
             /\ \A j \in DOMAIN b : /\ b[j].name \in Keys /\ b[j].value \in Texts
                                    /\ Fold[b[j].name] \in KeyId
  <2> DEFINE X == [name : Keys, value : Texts]
  <2>1. \A x \in X : x.name \in Keys /\ x.value \in Texts /\ x \in Element
    BY <1>2 DEF Element
  <2>2. b \in Seq(X) /\ b # <<>>
    BY InputAssumption
  <2> HIDE DEF X
  <2>3. DOMAIN b = 1 .. Len(b) /\ Len(b) \in Nat /\ \A j \in DOMAIN b : b[j] \in X
    BY <2>2
  <2>4. b \in Seq(Element)
    BY <2>1, <2>2, <2>3
  <2>. QED BY <1>2, <2>1, <2>2, <2>3, <2>4
<1>. QED BY <1>1, <1>2, <1>3

LEMMA SaveKeeps ==
  ASSUME Inv, NEW how \in {"all", "none", "part"}, Save(how)
  PROVE  /\ whole' \in BOOLEAN /\ saved' \in Areas /\ Known(saved') /\ FileIsSaved'
         /\ failures' \in 0 .. MaxFailures
<1>1. /\ m_ghost_values \in Areas /\ Known(m_ghost_values) /\ whole \in BOOLEAN
      /\ saved \in Areas /\ Known(saved) /\ FileIsSaved
      /\ failures \in 0 .. MaxFailures /\ MaxFailures \in Nat
  BY InputAssumption DEF Inv
<1>2. CASE how = "all"
  <2>1. file' = SaveLines(m_ghost_values) /\ saved' = m_ghost_values /\ whole' = TRUE
        /\ UNCHANGED failures
    BY <1>2 DEF Save
  <2>. QED BY <1>1, <2>1 DEF FileIsSaved
<1>3. CASE how = "none"
  <2>1. UNCHANGED <<file, saved, whole, failures>>
    BY <1>3 DEF Save
  <2>. QED BY <1>1, <2>1 DEF FileIsSaved
<1>4. CASE how = "part"
  <2>1. /\ failures < MaxFailures /\ failures' = failures + 1
        /\ file' \in TornFiles(SaveLines(m_ghost_values)) /\ saved' = m_ghost_values /\ whole' = FALSE
    BY <1>4 DEF Save
  <2>2. FileIsSaved'
    BY <2>1 DEF FileIsSaved
  <2>3. failures' \in 0 .. MaxFailures
    BY <1>1, <2>1
  <2>4. whole' \in BOOLEAN
    BY <2>1
  <2>. QED BY <1>1, <2>1, <2>2, <2>3, <2>4
<1>. QED BY <1>2, <1>3, <1>4

LEMMA ChangedKeeps ==
  ASSUME Inv, NEW m \in Areas, Known(m), Changed(m)
  PROVE  Inv'
<1>1. writes' \in 0 .. MaxWrites
  BY InputAssumption DEF Inv, Changed
<1>2. FileIsSaved'
  BY DEF Inv, Changed, FileIsSaved
<1>. QED BY <1>1, <1>2 DEF Inv, Changed

LEMMA InvHolds == Spec => []Inv
<1>1. Init => Inv
  <2> SUFFICES ASSUME Init PROVE Inv
    OBVIOUS
  <2>1. m_ghost_values \in Areas /\ Known(m_ghost_values) /\ saved \in Areas /\ Known(saved)
    BY NoAreas DEF Init
  <2>2. writes \in 0 .. MaxWrites /\ failures \in 0 .. MaxFailures
    BY InputAssumption DEF Init
  <2>3. up \in BOOLEAN /\ whole \in BOOLEAN /\ FileIsSaved
    BY DEF Init, FileIsSaved
  <2>. QED BY <2>1, <2>2, <2>3 DEF Init, Inv
<1>2. Inv /\ [Next]_vars => Inv'
  <2> SUFFICES ASSUME Inv, [Next]_vars PROVE Inv'
    OBVIOUS
  <2>1. ASSUME NEW opens \in BOOLEAN, load(opens) PROVE Inv'
    <3>1. m_ghost_values' \in Areas /\ Known(m_ghost_values')
      BY <2>1, NoAreas, FileLoads DEF load
    <3>2. failures' \in 0 .. MaxFailures
      BY <2>1, InputAssumption DEF Inv, load
    <3>3. FileIsSaved'
      BY <2>1 DEF Inv, load, FileIsSaved
    <3>. QED BY <2>1, <3>1, <3>2, <3>3 DEF Inv, load
  <2>2. ASSUME NEW how \in {"all", "none", "part"}, unload(how) PROVE Inv'
    <3>1. Save(how)
      BY <2>2 DEF unload
    <3>2. /\ whole' \in BOOLEAN /\ saved' \in Areas /\ Known(saved') /\ FileIsSaved'
          /\ failures' \in 0 .. MaxFailures
      BY <3>1, SaveKeeps
    <3>. QED BY <2>2, <3>2, NoAreas DEF Inv, unload, Gone
  <2>3. ASSUME NEW how \in {"all", "none", "part"}, OnSecondChange(how) PROVE Inv'
    <3>1. Save(how)
      BY <2>3 DEF OnSecondChange
    <3>2. /\ whole' \in BOOLEAN /\ saved' \in Areas /\ Known(saved') /\ FileIsSaved'
          /\ failures' \in 0 .. MaxFailures
      BY <3>1, SaveKeeps
    <3>. QED BY <2>3, <3>2 DEF Inv, OnSecondChange
  <2>4. CASE Crash
    <3>1. failures' \in 0 .. MaxFailures
      BY <2>4, InputAssumption DEF Inv, Crash
    <3>2. FileIsSaved'
      BY <2>4 DEF Inv, Crash, FileIsSaved
    <3>. QED BY <2>4, <3>1, <3>2, NoAreas DEF Inv, Crash, Gone
  <2>5. CASE CrashInSave
    <3>1. Save("part")
      BY <2>5 DEF CrashInSave
    <3>2. /\ whole' \in BOOLEAN /\ saved' \in Areas /\ Known(saved') /\ FileIsSaved'
          /\ failures' \in 0 .. MaxFailures
      BY <3>1, SaveKeeps
    <3>. QED BY <2>5, <3>2, NoAreas DEF Inv, CrashInSave, Gone
  <2>6. ASSUME NEW g \in Ghosts, NEW b \in Batches, Changed(AddBatch(m_ghost_values, g, b)) PROVE Inv'
    <3>1. AddBatch(m_ghost_values, g, b) \in Areas /\ Known(AddBatch(m_ghost_values, g, b))
      BY <2>6, BatchResult, Inputs DEF Inv
    <3>. QED BY <2>6, <3>1, ChangedKeeps
  <2>7. ASSUME NEW g \in Ghosts, NEW k \in Keys, NEW v \in Texts, property_set(g, k, v) PROVE Inv'
    <3>1. AddTo(m_ghost_values, g, k, v) \in Areas /\ Known(AddTo(m_ghost_values, g, k, v))
      BY <2>7, AddToResult, Inputs DEF Inv
    <3>. QED BY <2>7, <3>1, ChangedKeeps DEF property_set
  <2>8. ASSUME NEW kind, NEW of, Told(kind, of) PROVE Inv'
    <3>1. FileIsSaved'
      BY <2>8 DEF Inv, Told, FileIsSaved
    <3>. QED BY <2>8, <3>1 DEF Inv, Told
  <2>9. CASE UNCHANGED vars
    <3>1. FileIsSaved'
      BY <2>9 DEF Inv, vars, FileIsSaved
    <3>. QED BY <2>9, <3>1 DEF Inv, vars
  <2>10. CASE Next
    <3>1. CASE Crash \/ CrashInSave
      BY <2>4, <2>5, <3>1
    <3>2. CASE OnSharedValueGhostList
      BY <2>8, <3>2 DEF OnSharedValueGhostList
    <3>3. CASE \E opens \in BOOLEAN : load(opens)
      BY <2>1, <3>3
    <3>4. CASE \E how \in {"all", "none", "part"} : unload(how) \/ OnSecondChange(how)
      BY <2>2, <2>3, <3>4
    <3>5. ASSUME NEW g \in Ghosts, NEW b \in Batches,
                 OnSharedValueWrite(g, b) \/ OnSharedValueWriteEx(g, b)
          PROVE  Inv'
      BY <2>6, <3>5 DEF OnSharedValueWrite, OnSharedValueWriteEx
    <3>6. ASSUME NEW g \in Ghosts, NEW b \in Batches, Len(b) = 1,
                 property_set(g, b[1].name, b[1].value)
          PROVE  Inv'
      BY <2>7, <3>6, Inputs
    <3>7. ASSUME NEW g \in Ghosts, \/ \E q \in Queries : OnSharedValueRead(g, q)
                                   \/ \E k \in Keys : property_get(g, k)
                                   \/ OnGhostBoot(g) \/ OnSharedValueReadAll(g)
          PROVE  Inv'
      BY <2>8, <3>7 DEF OnSharedValueRead, property_get, OnGhostBoot, OnSharedValueReadAll
    <3>. QED BY <2>10, <3>1, <3>2, <3>3, <3>4, <3>5, <3>6, <3>7 DEF Next, Change, Question
  <2>. QED BY <2>9, <2>10
<1>. QED BY <1>1, <1>2, PTL DEF Spec

\* The areas, the lines of the file and the counters have their types, and
\* without an object there are no areas (shared_value.cpp 216-262, 283-431).
THEOREM TypesAreRight == Spec => []TypeOK
<1>1. Inv => TypeOK
  <2> SUFFICES ASSUME Inv PROVE TypeOK
    OBVIOUS
  <2> DEFINE A == [ghost : Texts, element : Seq([name : Texts, value : Texts])]
  <2>1. m_ghost_values \in Seq(A)
    <3> DEFINE m == m_ghost_values
               B == [ghost : Texts, element : Elements]
    <3>1. \A e \in Elements : e \in Seq([name : Texts, value : Texts])
      BY DEF Elements, Element
    <3>2. \A x \in B : x \in A
      BY <3>1
    <3>3. m \in Seq(B)
      BY AreasType DEF Inv
    <3> HIDE DEF A, B, m
    <3>4. m \in Seq(A)
      <4>1. \A i \in 1 .. Len(m) : m[i] \in B
        BY <3>3
      <4>. QED BY <3>2, <3>3, <4>1
    <3>. QED BY <3>4 DEF m
  <2>2. \A i \in DOMAIN file : file[i] \in FileLine
    BY FileLoads
  <2>. QED BY <2>1, <2>2 DEF Inv, TypeOK, FileLine
<1>. QED BY <1>1, InvHolds, PTL

\* Whatever was written, saved, torn and loaded, no ghost has two areas, no area
\* two elements of one name, and no element an empty value: Find stops at the
\* first (150-159, 174-193; load 283-376).
THEOREM NothingIsThereTwice == Spec => []OneOfEach
<1>1. Inv => OneOfEach
  <2> SUFFICES ASSUME Inv PROVE OneOfEach
    OBVIOUS
  <2>1. Distinct(m_ghost_values) /\ \A i \in DOMAIN m_ghost_values : m_ghost_values[i].element \in Elements
    BY AreasType DEF Inv
  <2>2. \A a \in Range(m_ghost_values) : OneEach(a.element) /\ NoneEmpty(a.element)
    BY <2>1 DEF Elements, Range
  <2>3. \A a \in Range(m_ghost_values) : \A e \in Range(a.element) : e.value # Empty
    BY <2>2 DEF NoneEmpty, Range
  <2>. QED BY <2>1, <2>2, <2>3 DEF OneOfEach, Distinct, OneEach
<1>. QED BY <1>1, InvHolds, PTL

-----------------------------------------------------------------------------
(* The plugin implements SharedStore. *)

LEMMA CellsAre ==
  /\ Store!Cells = GhostId \X KeyId
  /\ \A c \in Store!Cells : /\ c = <<c[1], c[2]>> /\ c[1] \in GhostId /\ c[2] \in KeyId
                            /\ c[1] \in Texts /\ c[2] \in Texts
                            /\ Fold[c[1]] = c[1] /\ Fold[c[2]] = c[2]
  /\ \A g \in GhostId, k \in KeyId : <<g, k>> \in Store!Cells
  /\ GhostId \subseteq Texts /\ KeyId \subseteq Texts
  /\ \A t \in GhostId \cup KeyId : Fold[t] = t
<1>1. Store!Cells = GhostId \X KeyId
  BY DEF Store!Cells, GhostId, KeyId
<1>2. \A t \in GhostId \cup KeyId : t \in Texts /\ Fold[t] = t
  BY TextAssumption DEF GhostId, KeyId
<1>. QED BY <1>1, <1>2

LEMMA KVIs ==
  ASSUME NEW m \in Areas
  PROVE  /\ KV(m) \in [Store!Cells -> Texts]
         /\ \A c \in Store!Cells : KV(m)[c] = Value(m, c[1], c[2])
<1>1. KV(m) = [c \in Store!Cells |-> Value(m, c[1], c[2])]
  BY CellsAre DEF KV, Value
<1>2. \A c \in Store!Cells : Value(m, c[1], c[2]) \in Texts
  BY ValueIs
<1>. QED BY <1>1, <1>2

LEMMA NothingIs == KV(<<>>) = Store!Nothing
<1>1. KV(<<>>) \in [Store!Cells -> Texts] /\ \A c \in Store!Cells : KV(<<>>)[c] = Empty
  BY KVIs, NoAreas
<1>. QED BY <1>1 DEF Store!Nothing

\* Spelling does not count.
LEMMA ValueFolded ==
  ASSUME NEW m, NEW g \in Texts, NEW k \in Texts
  PROVE  Value(m, Fold[g], Fold[k]) = Value(m, g, k)
<1>1. Fold[Fold[g]] = Fold[g] /\ Fold[Fold[k]] = Fold[k]
  BY TextAssumption
<1>. QED BY <1>1 DEF Value, FindGhost, Get, Find, Same

LEMMA LoadIsStart ==
  ASSUME Inv, NEW opens \in BOOLEAN, load(opens)
  PROVE  Store!Start
<1>1. /\ ~up /\ up' = TRUE /\ UNCHANGED <<reply, saved, whole>>
      /\ m_ghost_values' = IF opens THEN LoadLines(file) ELSE <<>>
  BY DEF load
<1> DEFINE w == LoadLines(file)
           kept == Store!Kept(KV(saved))
<1>2. /\ w \in Areas /\ saved \in Areas /\ whole \in BOOLEAN
      /\ whole => /\ Brought(w, saved)
                  /\ \A h, k : Value(saved, h, k) # Empty /\ Fold[k] # Empty => Value(w, h, k) # Empty
      /\ ~whole => CutShort(w, saved)
  BY FileLoads DEF Inv
<1> HIDE DEF w
<1>3. kept = [c \in Store!Cells |-> IF c[2] = Empty THEN Empty ELSE Trunc[KV(saved)[c]]]
  BY DEF Store!Kept
<1>4. \A c \in Store!Cells : /\ KV(w)[c] = Value(w, c[1], c[2])
                             /\ KV(saved)[c] = Value(saved, c[1], c[2])
                             /\ Value(saved, c[1], c[2]) \in Texts
                             /\ Fold[c[2]] # Empty <=> c[2] # Empty
                             /\ kept[c] = IF c[2] = Empty THEN Empty ELSE Trunc[Value(saved, c[1], c[2])]
  <2>1. \A c \in Store!Cells : Fold[c[2]] # Empty <=> c[2] # Empty
    BY CellsAre
  <2> HIDE DEF kept
  <2>. QED BY <1>2, <1>3, <2>1, KVIs, ValueIs
<1>5. KV(w) \in [Store!Cells -> Texts] /\ Store!Nothing \in [Store!Cells -> Texts]
  BY <1>2, KVIs, TextAssumption DEF Store!Nothing
<1> HIDE DEF kept
<1>6. ASSUME whole PROVE KV(w) = kept
  <2>1. ASSUME NEW c \in Store!Cells PROVE KV(w)[c] = kept[c]
    <3>1. \/ Value(w, c[1], c[2]) = Empty
          \/ /\ Fold[c[2]] # Empty
             /\ Value(w, c[1], c[2]) = Trunc[Value(saved, c[1], c[2])]
      BY <1>2, <1>6 DEF Brought
    <3>2. Value(saved, c[1], c[2]) # Empty /\ c[2] # Empty => Value(w, c[1], c[2]) # Empty
      BY <1>2, <1>4, <1>6
    <3>3. Trunc[Empty] = Empty
      BY FoldOf
    <3>. QED BY <1>4, <3>1, <3>2, <3>3
  <2>2. DOMAIN KV(w) = Store!Cells /\ DOMAIN kept = Store!Cells
    BY <1>3, <1>5
  <2>3. KV(w) = [c \in Store!Cells |-> KV(w)[c]] /\ kept = [c \in Store!Cells |-> kept[c]]
    BY <1>3, <1>5
  <2>. QED BY <2>1, <2>3
<1>7. ASSUME ~whole PROVE Store!Torn(KV(saved), KV(w))
  <2> DEFINE cut == {c \in Store!Cells : KV(w)[c] \notin {Empty, kept[c]}}
  <2>1. PICK g, n : \A h, k :
           \/ Value(w, h, k) = Empty
           \/ /\ Fold[k] # Empty
              /\ \/ Value(w, h, k) = Trunc[Value(saved, h, k)]
                 \/ Same(g, h) /\ Same(n, k) /\ Value(w, h, k) \in Cut[Trunc[Value(saved, h, k)]]
    BY <1>2, <1>7 DEF CutShort
  <2>2. ASSUME NEW c \in cut
        PROVE  Same(g, c[1]) /\ Same(n, c[2]) /\ KV(w)[c] \in Cut[kept[c]]
    BY <1>4, <2>1, <2>2
  <2>3. \A c, d \in cut : c = d
    <3>1. ASSUME NEW c \in cut, NEW d \in cut PROVE c = d
      <4>1. Fold[c[1]] = Fold[d[1]] /\ Fold[c[2]] = Fold[d[2]]
        BY <2>2 DEF Same
      <4>. QED BY <4>1, CellsAre
    <3>. QED BY <3>1
  <2>4. \A c \in cut : cut = {c} /\ KV(w)[c] \in Cut[kept[c]]
    <3> HIDE DEF cut
    <3>. QED BY <2>2, <2>3
  <2>. QED BY <2>4 DEF Store!Torn, kept
<1>8. CASE opens
  <2>1. KV(m_ghost_values') = KV(w)
    BY <1>1, <1>8 DEF w
  <2>. QED BY <1>1, <1>2, <1>5, <1>6, <1>7, <2>1 DEF Store!Start, kept
<1>9. CASE ~opens
  <2>1. KV(m_ghost_values') = Store!Nothing
    BY <1>1, <1>9, NothingIs
  <2>. QED BY <1>1, <1>5, <2>1 DEF Store!Start
<1>. QED BY <1>8, <1>9

\* An answer, as SharedStore tells it.
StoreReply(r) == [kind |-> r.kind, of |-> {<<Fold[r.of[i][1]], r.of[i][2]>> : i \in DOMAIN r.of}]

LEMMA NoReplyIs == StoreReply(NoReply) = Store!NoReply
BY DEF StoreReply, NoReply, Store!NoReply

\* w is what the batch leaves of m: each variable it names has its last value.
Written(w, m, g, b) ==
  \A h, k : IF Same(g, h) /\ \E j \in DOMAIN b : Same(b[j].name, k)
            THEN \E j \in DOMAIN b : /\ Same(b[j].name, k)
                                     /\ \A q \in DOMAIN b : Same(b[q].name, k) => q <= j
                                     /\ Value(w, h, k) = b[j].value
            ELSE Value(w, h, k) = Value(m, h, k)

LEMMA ChangedIsWrite ==
  ASSUME Inv, NEW g \in Ghosts, NEW b \in Batches,
         NEW w \in Areas, Written(w, m_ghost_values, g, b), Changed(w)
  PROVE  Store!Write(g, b)
<1> DEFINE m == m_ghost_values
<1>1. /\ up /\ reply' = NoReply /\ m_ghost_values' = w
      /\ UNCHANGED <<up, saved, whole>>
  BY DEF Changed
<1>2. m \in Areas /\ DOMAIN b = 1 .. Len(b) /\ Len(b) \in Nat
  BY Inputs DEF Inv
<1> HIDE DEF m
<1>3. ASSUME NEW c \in Store!Cells
      PROVE  KV(w)[c] = IF c[1] = Fold[g] /\ Store!Sets(b, c[2]) THEN Store!Last(b, c[2]) ELSE KV(m)[c]
  <2>1. KV(w)[c] = Value(w, c[1], c[2]) /\ KV(m)[c] = Value(m, c[1], c[2])
    BY <1>2, KVIs
  <2>2. /\ Same(g, c[1]) <=> c[1] = Fold[g]
        /\ \A j \in DOMAIN b : Same(b[j].name, c[2]) <=> Fold[b[j].name] = c[2]
    BY CellsAre DEF Same
  <2>3. Store!Sets(b, c[2]) <=> \E j \in DOMAIN b : Same(b[j].name, c[2])
    BY <2>2 DEF Store!Sets
  <2>4. CASE ~(c[1] = Fold[g] /\ Store!Sets(b, c[2]))
    <3>1. Value(w, c[1], c[2]) = Value(m, c[1], c[2])
      BY <2>2, <2>3, <2>4 DEF Written, m
    <3>. QED BY <2>1, <2>4, <3>1
  <2>5. CASE c[1] = Fold[g] /\ Store!Sets(b, c[2])
    <3> DEFINE at == {i \in DOMAIN b : Fold[b[i].name] = c[2]}
               i == CHOOSE i \in at : \A j \in at : j <= i
    <3>1. PICK j \in DOMAIN b : /\ Same(b[j].name, c[2])
                                /\ \A q \in DOMAIN b : Same(b[q].name, c[2]) => q <= j
                                /\ Value(w, c[1], c[2]) = b[j].value
      BY <2>2, <2>3, <2>5 DEF Written
    <3>2. j \in at /\ \A q \in at : q <= j
      BY <2>2, <3>1
    <3>3. at \subseteq Nat
      BY <1>2
    <3>4. Store!Last(b, c[2]) = b[i].value
      BY DEF Store!Last
    <3> HIDE DEF at
    <3>5. i \in at /\ \A q \in at : q <= i
      BY <3>2
    <3> HIDE DEF i
    <3>6. i \in Nat /\ j \in Nat /\ i <= j /\ j <= i
      BY <3>2, <3>3, <3>5
    <3>7. i = j
      BY <3>6
    <3>. QED BY <2>1, <2>5, <3>1, <3>4, <3>7
  <2>. QED BY <2>4, <2>5
<1>4. KV(w) = [c \in Store!Cells |-> IF c[1] = Fold[g] /\ Store!Sets(b, c[2])
                                     THEN Store!Last(b, c[2]) ELSE KV(m)[c]]
  <2>1. KV(w) = [c \in Store!Cells |-> KV(w)[c]]
    BY KVIs
  <2>. QED BY <1>3, <2>1
<1>5. StoreReply(reply') = Store!NoReply
  BY <1>1, NoReplyIs
<1>6. KV(m_ghost_values') = [c \in Store!Cells |-> IF c[1] = Fold[g] /\ Store!Sets(b, c[2])
                                     THEN Store!Last(b, c[2]) ELSE KV(m_ghost_values)[c]]
  BY <1>1, <1>4 DEF m
<1>. QED BY <1>1, <1>5, <1>6 DEF Store!Write, StoreReply

LEMMA BatchIsWrite ==
  ASSUME Inv, NEW g \in Ghosts, NEW b \in Batches, Changed(AddBatch(m_ghost_values, g, b))
  PROVE  Store!Write(g, b)
<1> DEFINE w == AddBatch(m_ghost_values, g, b)
<1>1. m_ghost_values \in Areas /\ g \in Texts /\ b \in Seq(Element)
  BY Inputs DEF Inv
<1>2. w \in Areas
  BY <1>1, BatchResult
<1>3. Written(w, m_ghost_values, g, b)
  BY <1>1, BatchResult DEF Written
<1> HIDE DEF w
<1>4. Changed(w)
  BY DEF w
<1>. QED BY <1>2, <1>3, <1>4, ChangedIsWrite

LEMMA PropertySetIsWrite ==
  ASSUME Inv, NEW g \in Ghosts, NEW b \in Batches, Len(b) = 1,
         property_set(g, b[1].name, b[1].value)
  PROVE  Store!Write(g, b)
<1> DEFINE n == b[1].name
           v == b[1].value
           w == AddTo(m_ghost_values, g, n, v)
<1>1. m_ghost_values \in Areas /\ g \in Texts /\ DOMAIN b = 1 .. 1 /\ n \in Texts /\ v \in Texts
  BY Inputs DEF Inv
<1> HIDE DEF n, v
<1>2. /\ w \in Areas
      /\ \A h, k : Value(w, h, k) =
           IF Same(g, h) /\ Same(n, k) THEN v ELSE Value(m_ghost_values, h, k)
  BY <1>1, AddToResult
<1> HIDE DEF w
<1>3. Written(w, m_ghost_values, g, b)
  <2>1. \A j \in DOMAIN b : j = 1
    BY <1>1
  <2>2. 1 \in DOMAIN b /\ \A q \in DOMAIN b : q <= 1
    BY <1>1
  <2>3. ASSUME NEW h, NEW k
        PROVE  IF Same(g, h) /\ \E j \in DOMAIN b : Same(b[j].name, k)
               THEN \E j \in DOMAIN b : /\ Same(b[j].name, k)
                                        /\ \A q \in DOMAIN b : Same(b[q].name, k) => q <= j
                                        /\ Value(w, h, k) = b[j].value
               ELSE Value(w, h, k) = Value(m_ghost_values, h, k)
    <3>1. CASE Same(g, h) /\ Same(n, k)
      BY <1>2, <2>2, <3>1 DEF n, v
    <3>2. CASE ~(Same(g, h) /\ Same(n, k))
      <4>1. ~(Same(g, h) /\ \E j \in DOMAIN b : Same(b[j].name, k))
        BY <2>1, <3>2 DEF n
      <4>. QED BY <1>2, <3>2, <4>1
    <3>. QED BY <3>1, <3>2
  <2>. QED BY <2>3 DEF Written
<1>4. Changed(w)
  BY DEF property_set, w, n, v
<1>. QED BY <1>2, <1>3, <1>4, ChangedIsWrite

-----------------------------------------------------------------------------
(* The reads. *)

LEMMA AreaIs ==
  ASSUME Inv, NEW g \in Texts
  PROVE  /\ Area(g) \in Elements
         /\ \A k : Get(Area(g), k) = Value(m_ghost_values, g, k)
         /\ g \in Ghosts => \A j \in DOMAIN Area(g) : Fold[Area(g)[j].name] \in KeyId
<1>1. /\ m_ghost_values \in Areas /\ Known(m_ghost_values)
      /\ DOMAIN m_ghost_values = 1 .. Len(m_ghost_values)
  BY AreasType DEF Inv
<1>2. CASE FindGhost(m_ghost_values, g) = 0
  <2>1. Area(g) = <<>>
    BY <1>2 DEF Area
  <2>. QED BY <1>2, <2>1, NoElements DEF Value
<1>3. CASE FindGhost(m_ghost_values, g) # 0
  <2> DEFINE f == FindGhost(m_ghost_values, g)
  <2>1. f \in DOMAIN m_ghost_values
    BY <1>1, <1>3, FindGhostFinds, AreasType
  <2>2. Area(g) = m_ghost_values[f].element /\ m_ghost_values[f].element \in Elements
    BY <1>1, <1>3, <2>1, AreasType DEF Area
  <2>3. \A j \in DOMAIN Area(g) : Fold[Area(g)[j].name] \in KeyId
    <3> HIDE DEF f
    <3>1. \A j \in DOMAIN m_ghost_values[f].element : m_ghost_values[f].element # <<>>
      BY <2>2 DEF Elements
    <3>. QED BY <1>1, <2>1, <2>2, <3>1 DEF Known
  <2>. QED BY <1>3, <2>2, <2>3 DEF Value
<1>. QED BY <1>2, <1>3

\* A read is answered from the cell.
LEMMA CellRead ==
  ASSUME Inv, NEW g \in Ghosts, NEW k \in Keys
  PROVE  /\ <<Fold[g], Fold[k]>> \in Store!Cells
         /\ KV(m_ghost_values)[<<Fold[g], Fold[k]>>] = Get(Area(g), k)
<1>1. g \in Texts /\ k \in Texts /\ Fold[g] \in GhostId /\ Fold[k] \in KeyId
  BY Inputs
<1>2. m_ghost_values \in Areas
  BY DEF Inv
<1>3. <<Fold[g], Fold[k]>> \in Store!Cells
  BY <1>1, CellsAre
<1>4. KV(m_ghost_values)[<<Fold[g], Fold[k]>>] = Value(m_ghost_values, Fold[g], Fold[k])
  BY <1>2, <1>3, KVIs
<1>. QED BY <1>1, <1>3, <1>4, ValueFolded, AreaIs

\* A request that tells: only the answer changes.
LEMMA ToldIsTell ==
  ASSUME NEW kind, NEW of, Told(kind, of)
  PROVE  /\ up /\ reply'.kind = kind
         /\ StoreReply(reply') = [kind |-> kind, of |-> {<<Fold[of[i][1]], of[i][2]>> : i \in DOMAIN of}]
         /\ UNCHANGED <<up, m_ghost_values, saved, whole>>
<1>1. up /\ reply' = [kind |-> kind, of |-> of]
      /\ UNCHANGED <<up, m_ghost_values, file, saved, whole, writes, failures>>
  BY DEF Told
<1>2. reply'.kind = kind /\ reply'.of = of
  BY <1>1
<1>. QED BY <1>1, <1>2 DEF StoreReply

LEMMA ReadIsRead ==
  ASSUME Inv, NEW g \in Ghosts, NEW q \in Queries, OnSharedValueRead(g, q)
  PROVE  Store!Read(g, q)
<1> DEFINE of == [i \in DOMAIN q |-> <<q[i], Get(Area(g), q[i])>>]
           told == {<<Fold[q[i]], KV(m_ghost_values)[<<Fold[g], Fold[q[i]]>>]>> : i \in DOMAIN q}
<1>1. \A i \in DOMAIN q : q[i] \in Keys
  BY InputAssumption
<1>2. \A i \in DOMAIN q : KV(m_ghost_values)[<<Fold[g], Fold[q[i]]>>] = Get(Area(g), q[i])
  BY <1>1, CellRead
<1>3. DOMAIN of = DOMAIN q /\ \A i \in DOMAIN q : of[i][1] = q[i] /\ of[i][2] = Get(Area(g), q[i])
  OBVIOUS
<1>4. Told("read", of)
  BY DEF OnSharedValueRead
<1> HIDE DEF of
<1>5. told = {<<Fold[of[i][1]], of[i][2]>> : i \in DOMAIN of}
  <2> DEFINE T == {<<Fold[of[i][1]], of[i][2]>> : i \in DOMAIN of}
  <2>1. ASSUME NEW i \in DOMAIN q
        PROVE  /\ <<Fold[q[i]], KV(m_ghost_values)[<<Fold[g], Fold[q[i]]>>]>> \in T
               /\ <<Fold[of[i][1]], of[i][2]>> \in told
    BY <1>2, <1>3
  <2>2. told \subseteq T /\ T \subseteq told
    BY <1>3, <2>1
  <2> HIDE DEF T, told
  <2>3. told = T
    BY <2>2
  <2>. QED BY <2>3 DEF T
<1> HIDE DEF told
<1>6. /\ up /\ reply'.kind = "read" /\ StoreReply(reply') = [kind |-> "read", of |-> told]
      /\ UNCHANGED <<up, m_ghost_values, saved, whole>>
  BY <1>4, <1>5, ToldIsTell
<1>. QED BY <1>6 DEF Store!Read, Store!Tell, StoreReply, told

LEMMA ReadAllIsReadAll ==
  ASSUME Inv, NEW g \in Ghosts, Told("all", PushBack(Area(g)))
  PROVE  Store!ReadAll(g)
<1> DEFINE e == Area(g)
           of == PushBack(e)
           kvs == KV(m_ghost_values)
           told == {<<c[2], kvs[c]>> : c \in {d \in Store!Cells : d[1] = Fold[g] /\ kvs[d] # Empty}}
<1>1. /\ e \in Elements /\ m_ghost_values \in Areas
      /\ \A k : Get(e, k) = Value(m_ghost_values, g, k)
      /\ \A j \in DOMAIN e : Fold[e[j].name] \in KeyId
  BY AreaIs, Inputs DEF Inv
<1>2. DOMAIN of = DOMAIN e /\ \A j \in DOMAIN e : of[j][1] = e[j].name /\ of[j][2] = e[j].value
  BY DEF PushBack
<1>3. \A j \in DOMAIN e : e[j].name \in Texts /\ e[j].value # Empty
  <2>1. \A j \in DOMAIN e : e[j] \in Element
    BY <1>1 DEF Elements
  <2>. QED BY <1>1, <2>1 DEF Elements, NoneEmpty, Element
<1>4. ASSUME NEW n \in KeyId
      PROVE  <<Fold[g], n>> \in Store!Cells /\ kvs[<<Fold[g], n>>] = Get(e, n)
  <2>1. <<Fold[g], n>> \in Store!Cells /\ g \in Texts /\ n \in Texts /\ Fold[n] = n
    BY CellsAre, Inputs
  <2>2. kvs[<<Fold[g], n>>] = Value(m_ghost_values, Fold[g], n)
    BY <1>1, <2>1, KVIs
  <2>3. Value(m_ghost_values, Fold[g], Fold[n]) = Value(m_ghost_values, g, n)
    BY <2>1, ValueFolded
  <2>. QED BY <1>1, <2>1, <2>2, <2>3
<1> HIDE DEF e, of, kvs
<1>5. ASSUME NEW j \in DOMAIN of PROVE <<Fold[of[j][1]], of[j][2]>> \in told
  <2> DEFINE n == Fold[e[j].name]
             c == <<Fold[g], n>>
  <2>1. n \in KeyId /\ Fold[n] = n /\ j \in DOMAIN e
    BY <1>1, <1>2, CellsAre
  <2>2. Same(e[j].name, n)
    BY <2>1 DEF Same
  <2>3. Get(e, n) = e[j].value
    BY <1>1, <2>1, <2>2, GetIs
  <2>4. c \in Store!Cells /\ kvs[c] = of[j][2] /\ kvs[c] # Empty
    BY <1>2, <1>3, <1>4, <2>1, <2>3
  <2>5. c[1] = Fold[g] /\ c[2] = Fold[of[j][1]]
    BY <1>2, <2>1
  <2> HIDE DEF c
  <2>. QED BY <2>4, <2>5
<1>6. ASSUME NEW c \in Store!Cells, c[1] = Fold[g], kvs[c] # Empty
      PROVE  \E j \in DOMAIN of : <<c[2], kvs[c]>> = <<Fold[of[j][1]], of[j][2]>>
  <2>1. c = <<Fold[g], c[2]>> /\ c[2] \in KeyId /\ Fold[c[2]] = c[2]
    BY <1>6, CellsAre
  <2>2. Get(e, c[2]) = kvs[c]
    BY <1>4, <2>1
  <2>3. PICK j \in DOMAIN e : Same(e[j].name, c[2])
    BY <1>1, <1>6, <2>2, GetIs
  <2>4. kvs[c] = e[j].value
    BY <1>1, <2>2, <2>3, GetIs
  <2>5. Fold[e[j].name] = c[2]
    BY <2>1, <2>3 DEF Same
  <2>. QED BY <1>2, <2>4, <2>5
<1>7. told = {<<Fold[of[i][1]], of[i][2]>> : i \in DOMAIN of}
  BY <1>5, <1>6
<1>8. Told("all", of)
  BY DEF of, e
<1> HIDE DEF told
<1>9. /\ up /\ reply'.kind = "all" /\ StoreReply(reply') = [kind |-> "all", of |-> told]
      /\ UNCHANGED <<up, m_ghost_values, saved, whole>>
  BY <1>7, <1>8, ToldIsTell
<1>. QED BY <1>9 DEF Store!ReadAll, Store!Tell, StoreReply, told, kvs

LEMMA GetIsProperty ==
  ASSUME Inv, NEW g \in Ghosts, NEW k \in Keys, property_get(g, k)
  PROVE  Store!Property(g, k)
<1> DEFINE v == Get(Area(g), k)
           of == IF v = Empty THEN <<>> ELSE <<<<k, v>>>>
           told == {<<Fold[k], KV(m_ghost_values)[<<Fold[g], Fold[k]>>]>>} \ {<<Fold[k], Empty>>}
<1>1. KV(m_ghost_values)[<<Fold[g], Fold[k]>>] = v
  BY CellRead
<1>2. Told("property", of)
  BY DEF property_get
<1> HIDE DEF v
<1>3. told = {<<Fold[of[i][1]], of[i][2]>> : i \in DOMAIN of}
  <2>1. CASE v = Empty
    BY <1>1, <2>1
  <2>2. CASE v # Empty
    <3>1. of = <<<<k, v>>>>
      BY <2>2
    <3>2. DOMAIN of = {1} /\ of[1][1] = k /\ of[1][2] = v
      BY <3>1
    <3>3. told = {<<Fold[k], v>>}
      BY <1>1, <2>2
    <3> HIDE DEF of, told
    <3>. QED BY <3>2, <3>3
  <2>. QED BY <2>1, <2>2
<1> HIDE DEF of, told
<1>4. /\ up /\ reply'.kind = "property" /\ StoreReply(reply') = [kind |-> "property", of |-> told]
      /\ UNCHANGED <<up, m_ghost_values, saved, whole>>
  BY <1>2, <1>3, ToldIsTell
<1>. QED BY <1>4 DEF Store!Property, Store!Tell, StoreReply, told

LEMMA ListIsList ==
  ASSUME Inv, OnSharedValueGhostList
  PROVE  Store!List
<1> DEFINE m == m_ghost_values
           of == [i \in DOMAIN m |-> <<m[i].ghost, Empty>>]
           told == {<<Fold[of[i][1]], of[i][2]>> : i \in DOMAIN of}
<1>1. m \in Areas /\ \A i \in DOMAIN m : m[i].ghost \in Texts
  BY AreasType DEF Inv
<1>2. Told("list", of)
  BY DEF OnSharedValueGhostList
<1>3. DOMAIN of = DOMAIN m /\ \A i \in DOMAIN m : of[i][1] = m[i].ghost /\ of[i][2] = Empty
  OBVIOUS
<1> HIDE DEF of, m
<1>4. told \in SUBSET {<<Fold[t], Empty>> : t \in Texts}
  BY <1>1, <1>3
<1>5. ASSUME NEW c \in Store!Cells, KV(m)[c] # Empty PROVE <<c[1], Empty>> \in told
  <2>1. Value(m, c[1], c[2]) # Empty
    BY <1>1, <1>5, KVIs
  <2>2. PICK i \in DOMAIN m : Same(m[i].ghost, c[1])
    BY <1>1, <2>1, ValueIs
  <2>3. Fold[of[i][1]] = c[1] /\ of[i][2] = Empty
    BY <1>3, <2>2, CellsAre DEF Same
  <2>. QED BY <1>3, <2>2, <2>3
<1> HIDE DEF told
<1>6. /\ up /\ reply'.kind = "list" /\ StoreReply(reply') = [kind |-> "list", of |-> told]
      /\ UNCHANGED <<up, m_ghost_values, saved, whole>>
  BY <1>2, ToldIsTell DEF told
<1>7. [kind |-> "list", of |-> told] \in [kind : {"list"}, of : SUBSET {<<Fold[t], Empty>> : t \in Texts}]
  BY <1>4
<1>. QED BY <1>5, <1>6, <1>7 DEF Store!List, StoreReply, m

-----------------------------------------------------------------------------
(* The saves and the ends. *)

LEMMA SaveIsSaved ==
  ASSUME NEW how \in {"all", "none", "part"}, Save(how)
  PROVE  /\ Store!Saved
         /\ how = "part" => saved' = m_ghost_values /\ whole' = FALSE
<1>1. \/ saved' = saved /\ whole' = whole
      \/ saved' = m_ghost_values /\ whole' = TRUE
      \/ saved' = m_ghost_values /\ whole' = FALSE
  BY DEF Save
<1>2. how = "part" => saved' = m_ghost_values /\ whole' = FALSE
  BY DEF Save
<1>3. CASE saved' = saved /\ whole' = whole
  BY <1>2, <1>3 DEF Store!Saved
<1>4. CASE saved' = m_ghost_values /\ whole' = TRUE
  BY <1>2, <1>4 DEF Store!Saved
<1>5. CASE saved' = m_ghost_values /\ whole' = FALSE
  BY <1>2, <1>5 DEF Store!Saved
<1>. QED BY <1>1, <1>3, <1>4, <1>5

LEMMA GoneIs ==
  ASSUME Gone
  PROVE  ~up' /\ StoreReply(reply') = Store!NoReply /\ KV(m_ghost_values') = Store!Nothing
<1>1. up' = FALSE /\ m_ghost_values' = <<>> /\ reply' = NoReply
  BY DEF Gone
<1>. QED BY <1>1, NoReplyIs, NothingIs

LEMMA EndIsStop ==
  ASSUME NEW how \in {"all", "none", "part"}, unload(how)
  PROVE  Store!Stop
<1>1. up /\ Save(how) /\ Gone
  BY DEF unload
<1>2. Store!Saved
  BY <1>1, SaveIsSaved
<1>. QED BY <1>1, <1>2, GoneIs DEF Store!Stop, StoreReply, Gone

LEMMA SecondIsSave ==
  ASSUME NEW how \in {"all", "none", "part"}, OnSecondChange(how)
  PROVE  Store!Save
<1>1. up /\ Save(how) /\ reply' = NoReply /\ UNCHANGED <<up, m_ghost_values>>
  BY DEF OnSecondChange
<1>2. Store!Saved
  BY <1>1, SaveIsSaved
<1>3. StoreReply(reply') = Store!NoReply
  BY <1>1, NoReplyIs
<1>. QED BY <1>1, <1>2, <1>3 DEF Store!Save, StoreReply

LEMMA CrashIsCrash ==
  ASSUME Crash \/ CrashInSave
  PROVE  Store!Crash
<1>1. up /\ Gone
  BY DEF Crash, CrashInSave
<1>2. \/ saved' = saved /\ whole' = whole
      \/ saved' = m_ghost_values /\ whole' = FALSE
  BY SaveIsSaved DEF Crash, CrashInSave
<1>3. [kv |-> KV(saved'), whole |-> whole'] \in
         {[kv |-> KV(saved), whole |-> whole], [kv |-> KV(m_ghost_values), whole |-> FALSE]}
  BY <1>2
<1>. QED BY <1>1, <1>3, GoneIs DEF Store!Crash, StoreReply, Gone

\* The plugin implements SharedStore: whatever the ghosts, variables, texts and
\* batches are, and wherever a save stops, what a read tells is what was written
\* last, and what a start brings back is what was saved last, but for one value
\* cut short (shared_value.cpp 150-262, 283-451).
THEOREM StoreIsImplemented == Spec => ImplementsStore
<1>1. Init => Store!Init
  <2> SUFFICES ASSUME Init PROVE Store!Init
    OBVIOUS
  <2>1. StoreReply(reply) = Store!NoReply
    BY NoReplyIs DEF Init
  <2>2. KV(m_ghost_values) = Store!Nothing /\ KV(saved) = Store!Nothing
    BY NothingIs DEF Init
  <2>. QED BY <2>1, <2>2 DEF Init, Store!Init, StoreReply
<1>2. Inv /\ [Next]_vars => [Store!Next]_(Store!vars)
  <2> SUFFICES ASSUME Inv, [Next]_vars PROVE [Store!Next]_(Store!vars)
    OBVIOUS
  <2>1. CASE Crash \/ CrashInSave
    BY <2>1, CrashIsCrash DEF Store!Next
  <2>2. CASE OnSharedValueGhostList
    BY <2>2, ListIsList DEF Store!Next
  <2>3. CASE \E opens \in BOOLEAN : load(opens)
    BY <2>3, LoadIsStart DEF Store!Next
  <2>4. CASE \E how \in {"all", "none", "part"} : unload(how) \/ OnSecondChange(how)
    BY <2>4, EndIsStop, SecondIsSave DEF Store!Next
  <2>5. ASSUME NEW g \in Ghosts, NEW b \in Batches,
               OnSharedValueWrite(g, b) \/ OnSharedValueWriteEx(g, b)
        PROVE  Store!Next
    <3>1. Store!Write(g, b)
      BY <2>5, BatchIsWrite DEF OnSharedValueWrite, OnSharedValueWriteEx
    <3>. QED BY <3>1 DEF Store!Next
  <2>6. ASSUME NEW g \in Ghosts, NEW b \in Batches, Len(b) = 1,
               property_set(g, b[1].name, b[1].value)
        PROVE  Store!Next
    <3>1. Store!Write(g, b)
      BY <2>6, PropertySetIsWrite
    <3>. QED BY <3>1 DEF Store!Next
  <2>7. ASSUME NEW g \in Ghosts, NEW q \in Queries, OnSharedValueRead(g, q)
        PROVE  Store!Next
    <3>1. Store!Read(g, q)
      BY <2>7, ReadIsRead
    <3>. QED BY <3>1 DEF Store!Next
  <2>8. ASSUME NEW g \in Ghosts, NEW k \in Keys, property_get(g, k)
        PROVE  Store!Next
    <3>1. Store!Property(g, k)
      BY <2>8, GetIsProperty
    <3>. QED BY <3>1 DEF Store!Next
  <2>9. ASSUME NEW g \in Ghosts, OnGhostBoot(g) \/ OnSharedValueReadAll(g)
        PROVE  Store!Next
    <3>1. Store!ReadAll(g)
      BY <2>9, ReadAllIsReadAll DEF OnGhostBoot, OnSharedValueReadAll
    <3>. QED BY <3>1 DEF Store!Next
  <2>10. CASE UNCHANGED vars
    BY <2>10 DEF vars, Store!vars
  <2>11. CASE Next
    BY <2>1, <2>2, <2>3, <2>4, <2>5, <2>6, <2>7, <2>8, <2>9, <2>11 DEF Next, Change, Question
  <2>. QED BY <2>10, <2>11
<1>. QED BY <1>1, <1>2, InvHolds, PTL DEF Spec, ImplementsStore, Store!Spec

-----------------------------------------------------------------------------
(* By the clock. *)

\* Whatever the clock says, the plugin does what SharedValue lets it do: what is
\* proved of Spec holds of TimedSpec (shared_value.cpp 405-414).
LEMMA TimedIsPlugin == TimedSpec => Spec
<1>1. TimedInit => Init
  BY DEF TimedInit
<1>2. [TimedNext]_timedVars => [Next]_vars
  <2> SUFFICES ASSUME [TimedNext]_timedVars PROVE [Next]_vars
    OBVIOUS
  <2>1. CASE TimedEnd
    BY <2>1 DEF TimedEnd, Next
  <2>2. CASE TimedChange \/ TimedQuestion
    BY <2>2 DEF TimedChange, TimedQuestion, Next
  <2>3. CASE TimedSecond
    <3>1. \E how \in {"all", "none", "part"} : OnSecondChange(how)
      BY <2>3 DEF TimedSecond, SaveNow
    <3>. QED BY <3>1 DEF Next
  <2>4. CASE \E opens \in BOOLEAN : TimedLoad(opens)
    BY <2>4 DEF TimedLoad, Next
  <2>5. CASE Tick \/ \E d \in Jumps : SetClock(d)
    BY <2>5 DEF Tick, SetClock
  <2>6. CASE UNCHANGED timedVars
    BY <2>6 DEF timedVars
  <2>. QED BY <2>1, <2>2, <2>3, <2>4, <2>5, <2>6 DEF TimedNext
<1>. QED BY <1>1, <1>2, PTL DEF TimedSpec, Spec

\* While the plugin is up: the host has kept its interval; the clock has lost
\* at most back since m_last_time; at the last event it was not yet time to
\* save, or it saved; the oldest change is younger than the save.
InTime ==
  up => /\ now <= heard + Interval
        /\ clock - m_last_time >= now - tried - back
        /\ heard - tried <= SaveAfter - 1 + back
        /\ dirty /\ misses = 0 => tried <= since

\* What nobody has changed since a load, or since a save that went well, is on
\* the disk.
CleanIsSaved == ~dirty /\ misses = 0 => ~Unsaved

TimedInv == TimedTypeOK /\ InTime /\ CleanIsSaved

LEMMA InitTimedInv == TimedInit => TimedInv
<1> SUFFICES ASSUME TimedInit PROVE TimedInv
  OBVIOUS
<1>1. dirty \in BOOLEAN /\ ~dirty
  BY DEF TimedInit
<1>2. TimedTypeOK
  BY <1>1, TimeAssumption DEF TimedInit, TimedTypeOK
<1>3. ~up
  BY DEF TimedInit, Init
<1>. QED BY <1>2, <1>3 DEF TimedInv, InTime, CleanIsSaved, Unsaved

\* What the clock sees of a step of the plugin.
LEMMA StepsSeen ==
  /\ \A opens \in BOOLEAN : load(opens) => /\ up' /\ file' = file
                                           /\ m_ghost_values' \in {<<>>, LoadLines(file)}
  /\ Crash \/ CrashInSave \/ (\E how \in {"all", "none", "part"} : unload(how)) => ~up'
  /\ up \in BOOLEAN /\ Change => up /\ up'
  /\ Question => UNCHANGED <<up, m_ghost_values, file>>
  /\ \A how : OnSecondChange(how) => /\ up /\ UNCHANGED <<up, m_ghost_values>>
                                     /\ how = "all" => file' = SaveLines(m_ghost_values)
                                     /\ how = "none" => file' = file
<1>1. ASSUME NEW opens \in BOOLEAN, load(opens)
      PROVE  up' /\ file' = file /\ m_ghost_values' \in {<<>>, LoadLines(file)}
  BY <1>1 DEF load
<1>2. Crash \/ CrashInSave \/ (\E how \in {"all", "none", "part"} : unload(how)) => ~up'
  BY DEF Crash, CrashInSave, unload, Gone
<1>3. up \in BOOLEAN /\ Change => up /\ up'
  BY DEF Change, OnSharedValueWrite, OnSharedValueWriteEx, property_set, Changed
<1>4. Question => UNCHANGED <<up, m_ghost_values, file>>
  BY DEF Question, OnSharedValueGhostList, OnSharedValueRead, property_get, OnGhostBoot,
         OnSharedValueReadAll, Told
<1>5. ASSUME NEW how, OnSecondChange(how)
      PROVE  /\ up /\ UNCHANGED <<up, m_ghost_values>>
             /\ how = "all" => file' = SaveLines(m_ghost_values)
             /\ how = "none" => file' = file
  BY <1>5 DEF OnSecondChange, Save
<1>. QED BY <1>1, <1>2, <1>3, <1>4, <1>5

\* The lists of areas that are the same are saved, or not, together.
LEMMA UnsavedStays == UNCHANGED <<up, m_ghost_values, file>> => Unsaved' = Unsaved
BY DEF Unsaved

LEMMA NextTimedInv == up \in BOOLEAN /\ TimedInv /\ [TimedNext]_timedVars => TimedInv'
<1> SUFFICES ASSUME up \in BOOLEAN, TimedInv, [TimedNext]_timedVars PROVE TimedInv'
  OBVIOUS
<1> USE TimeAssumption DEF TimedInv, TimedTypeOK, InTime, CleanIsSaved
<1>1. ASSUME NEW opens \in BOOLEAN, TimedLoad(opens) PROVE TimedInv'
  <2>1. up' /\ file' = file /\ m_ghost_values' \in {<<>>, LoadLines(file)}
    BY <1>1, StepsSeen DEF TimedLoad
  <2>2. ~Unsaved'
    BY <2>1 DEF Unsaved
  <2>3. dirty' \in BOOLEAN /\ ~dirty'
    BY <1>1 DEF TimedLoad
  <2>4. TimedTypeOK' /\ InTime'
    BY <1>1, <2>3 DEF TimedLoad
  <2>. QED BY <2>2, <2>4
<1>2. CASE TimedEnd
  <2>1. ~up'
    BY <1>2, StepsSeen DEF TimedEnd
  <2>2. dirty' \in BOOLEAN
    BY <1>2 DEF TimedEnd
  <2>. QED BY <1>2, <2>1, <2>2 DEF TimedEnd, Unsaved
<1>3. CASE TimedChange
  <2>1. up /\ up'
    BY <1>3, StepsSeen DEF TimedChange
  <2>2. dirty' \in BOOLEAN /\ dirty'
    BY <1>3 DEF TimedChange
  <2>3. since' = IF dirty THEN since ELSE now
    BY <1>3 DEF TimedChange
  <2>4. UNCHANGED <<now, clock, heard, m_last_time, tried, back, misses>>
    BY <1>3 DEF TimedChange
  <2>5. since' \in 0 .. now /\ (misses = 0 => tried <= since')
    <3>1. CASE dirty
      BY <2>1, <2>3, <3>1
    <3>2. CASE ~dirty
      BY <2>3, <3>2
    <3>. QED BY <3>1, <3>2
  <2>. QED BY <2>1, <2>2, <2>4, <2>5
<1>4. CASE TimedQuestion
  BY <1>4, StepsSeen, UnsavedStays DEF TimedQuestion, timing, saving
<1>5. ASSUME heard' = now, UNCHANGED <<now, clock, since>>, Due,
             NEW how \in {"all", "none", "part"}, SaveNow(how)
      PROVE  TimedInv'
  <2>1. /\ up /\ up' /\ m_last_time' = clock /\ tried' = now /\ back' = 0
    BY <1>5, StepsSeen DEF SaveNow
  <2>2. CASE how = "all"
    <3>1. dirty' = FALSE /\ misses' = 0 /\ OnSecondChange(how)
      BY <1>5, <2>2 DEF SaveNow
    <3>2. dirty' \in BOOLEAN /\ ~dirty'
      BY <3>1
    <3>3. m_ghost_values' = m_ghost_values /\ file' = SaveLines(m_ghost_values)
      BY <2>2, <3>1, StepsSeen
    <3>4. ~Unsaved'
      BY <3>3 DEF Unsaved
    <3>5. misses' = 0
      BY <3>1
    <3>. QED BY <1>5, <2>1, <3>2, <3>4, <3>5
  <2>3. CASE how # "all"
    <3>1. misses < MaxMisses /\ misses' = misses + 1 /\ dirty' = dirty
      BY <1>5, <2>3 DEF SaveNow
    <3>. QED BY <1>5, <2>1, <3>1
  <2>. QED BY <2>2, <2>3
<1>6. ASSUME heard' = now, UNCHANGED <<now, clock, since>>, ~Due,
             OnSecondChange("none"), UNCHANGED saving
      PROVE  TimedInv'
  <2>1. clock - m_last_time < SaveAfter
    BY <1>6 DEF Due
  <2>2. UNCHANGED <<up, m_ghost_values, file>>
    BY <1>6, StepsSeen
  <2>. QED BY <1>6, <2>1, <2>2, UnsavedStays DEF saving
<1>7. CASE Tick
  BY <1>7, UnsavedStays DEF Tick, vars, saving
<1>8. ASSUME NEW d \in Jumps, SetClock(d)
      PROVE  TimedInv'
  <2>1. d \in Int /\ back' \in Nat /\ back' >= back /\ back' >= back - d
    BY <1>8 DEF SetClock
  <2>2. UNCHANGED <<up, m_ghost_values, file>>
    BY <1>8 DEF SetClock, vars
  <2>. QED BY <1>8, <2>1, <2>2, UnsavedStays DEF SetClock
<1>9. CASE UNCHANGED timedVars
  BY <1>9, UnsavedStays DEF timedVars, timing, saving, vars
<1>. QED BY <1>1, <1>2, <1>3, <1>4, <1>5, <1>6, <1>7, <1>8, <1>9 DEF TimedNext, TimedSecond

LEMMA TimedInvHolds == TimedSpec => []TimedInv
<1>1. Inv => up \in BOOLEAN
  BY DEF Inv
<1>. QED BY <1>1, InvHolds, TimedIsPlugin, InitTimedInv, NextTimedInv, PTL DEF TimedSpec

\* The variables of the autosave keep their types; m_last_time is only taken in
\* an event of the host (shared_value.cpp 281, 410).
THEOREM TimedTypeCorrect == TimedSpec => []TimedTypeOK
<1>1. TimedInv => TimedTypeOK
  BY DEF TimedInv
<1>. QED BY <1>1, TimedInvHolds, PTL

\* A crash loses the changes of one save period and one event interval at most,
\* plus what the clock was set back; before and after there is nothing in memory
\* that the file does not have (shared_value.cpp 279-281, 369-398, 405-414).
THEOREM LossIsBounded == TimedSpec => []BoundedLoss
<1>1. TimedInv => BoundedLoss
  <2> SUFFICES ASSUME TimedInv, Unsaved, misses = 0
               PROVE  dirty /\ now - since <= SaveAfter + Interval - 1 + back
    BY DEF BoundedLoss
  <2>1. dirty /\ up
    BY DEF TimedInv, CleanIsSaved, Unsaved
  <2>. QED BY <2>1, TimeAssumption DEF TimedInv, TimedTypeOK, InTime
<1>. QED BY <1>1, TimedInvHolds, PTL

=============================================================================
