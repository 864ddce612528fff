----------------------------- MODULE NadProofs -----------------------------
(***************************************************************************)
(* Proofs about nads (Nad), for every number of elements and every depth.  *)
(***************************************************************************)
EXTENDS Nad, TLAPS, WellFoundedInduction, SequenceTheorems, FiniteSetTheorems

-----------------------------------------------------------------------------
(* Minima, maxima and induction                                            *)

LEMMA MinIn ==
    ASSUME NEW S \in SUBSET Nat, S # {}
    PROVE  Min(S) \in S /\ \A k \in S : Min(S) <= k
<1>1. PICK x \in S : \A y \in S : ~(<<y, x>> \in OpToRel(<, Nat))
  BY WFMin, NatLessThanWellFounded
<1>2. ASSUME NEW y \in S PROVE x <= y
  <2> DEFINE z == <<y, x>>
  <2>1. z \in Nat \X Nat /\ z[1] = y /\ z[2] = x
    OBVIOUS
  <2>2. ~(z \in OpToRel(<, Nat))
    BY <1>1
  <2> HIDE DEF z
  <2>3. ~(z[1] < z[2])
    BY <2>1, <2>2 DEF OpToRel
  <2>4. QED
    BY <2>1, <2>3
<1>3. QED
  BY <1>1, <1>2 DEF Min

(* A set of naturals with 0 that is closed under successor is all of them. *)
LEMMA NatSet ==
    ASSUME NEW S \in SUBSET Nat, 0 \in S, \A n \in S : n + 1 \in S
    PROVE  S = Nat
<1> DEFINE T == Nat \ S
           x == Min(T)
<1> SUFFICES ASSUME T # {} PROVE FALSE
  OBVIOUS
<1>1. T \in SUBSET Nat /\ \A k \in Nat : k \notin T <=> k \in S
  OBVIOUS
<1> HIDE DEF T
<1>2. x \in T /\ \A k \in T : x <= k
  BY <1>1, MinIn
<1> HIDE DEF x
<1>3. x \in Nat /\ x # 0 /\ x - 1 \in Nat
  <2>1. x \in Nat /\ x \notin S
    BY <1>1, <1>2
  <2>2. x # 0
    BY <2>1
  <2>3. QED
    BY <2>1, <2>2
<1>4. x - 1 \in S
  <2>1. ~(x <= x - 1)
    BY <1>3
  <2>2. QED
    BY <1>1, <1>2, <1>3, <2>1
<1>5. (x - 1) + 1 \in S
  BY <1>4
<1>6. (x - 1) + 1 = x
  BY <1>3
<1>7. QED
  BY <1>1, <1>2, <1>3, <1>5, <1>6

LEMMA MaxIn ==
    ASSUME NEW n \in Nat, NEW S \in SUBSET (1..n), S # {}
    PROVE  Max(S) \in S /\ \A k \in S : k <= Max(S)
<1> DEFINE T == {n - k : k \in S}
           t == Min(T)
<1>1. T \in SUBSET Nat /\ T # {}
  <2>1. \A k \in S : n - k \in Nat
    OBVIOUS
  <2>2. T \in SUBSET Nat
    BY <2>1
  <2>3. QED
    BY <2>2
<1>2. t \in T /\ \A k \in T : t <= k
  BY <1>1, MinIn
<1>3. PICK m \in S : t = n - m
  BY <1>2
<1>4. ASSUME NEW k \in S PROVE m >= k
  <2>1. n - k \in T
    OBVIOUS
  <2>2. t <= n - k
    BY <1>2, <2>1
  <2>3. m \in 1..n /\ k \in 1..n
    OBVIOUS
  <2> HIDE DEF t, T
  <2>4. QED
    BY <1>3, <2>2, <2>3
<1>5. Max(S) \in S /\ \A k \in S : Max(S) >= k
  BY <1>4 DEF Max
<1>6. QED
  BY <1>5

-----------------------------------------------------------------------------
(* The shape of an array of elements: one root, and no element more than   *)
(* one deeper than the one before it.                                      *)

ElemRec == [name : Names, depth : Nat, parent : Int, attrs : Seq(Names \cup {Zapped}), text : Nat, tail : Nat]
Shaped(es) ==
    /\ es \in Seq(ElemRec)
    /\ es # <<>> => es[1].depth = 0
    /\ \A i \in 2..Len(es) : 1 <= es[i].depth /\ es[i].depth <= es[i - 1].depth + 1

LEMMA ShapeParts ==
    ASSUME NEW es, Shaped(es)
    PROVE  /\ Len(es) \in Nat /\ DOMAIN es = 1..Len(es)
           /\ \A i \in 1..Len(es) : es[i] \in ElemRec /\ Depth(es, i) \in Nat /\ Depth(es, i) = es[i].depth
           /\ \A i \in 1..Len(es) : Depth(es, i) = 0 <=> i = 1
           /\ \A i \in 2..Len(es) : i - 1 \in 1..Len(es) /\ Depth(es, i) <= Depth(es, i - 1) + 1
<1>1. Len(es) \in Nat /\ DOMAIN es = 1..Len(es)
  BY DEF Shaped
<1>2. ASSUME NEW i \in 1..Len(es)
      PROVE  es[i] \in ElemRec /\ Depth(es, i) \in Nat /\ Depth(es, i) = es[i].depth
  <2>1. es[i] \in ElemRec
    BY DEF Shaped
  <2>2. QED
    BY <2>1 DEF ElemRec, Depth
<1>3. ASSUME NEW i \in 1..Len(es)
      PROVE  Depth(es, i) = 0 <=> i = 1
  <2>1. CASE i = 1
    <3>1. es # <<>>
      BY <1>1, <2>1
    <3>2. QED
      BY <2>1, <3>1 DEF Shaped, Depth
  <2>2. CASE i # 1
    <3>1. i \in 2..Len(es)
      BY <1>1, <2>2
    <3>2. 1 <= Depth(es, i)
      BY <3>1 DEF Shaped, Depth
    <3>3. QED
      BY <1>2, <2>2, <3>2
  <2>3. QED
    BY <2>1, <2>2
<1>4. ASSUME NEW i \in 2..Len(es)
      PROVE  i - 1 \in 1..Len(es) /\ Depth(es, i) <= Depth(es, i - 1) + 1
  BY <1>1 DEF Shaped, Depth
<1>5. QED
  BY <1>1, <1>2, <1>3, <1>4

(* On the way down to a depth every depth before it is met.                *)
LEMMA Climb ==
    ASSUME NEW es, Shaped(es), NEW j \in 1..Len(es), NEW i \in 1..Len(es), j < i, NEW v \in Nat,
           Depth(es, j) < v, v <= Depth(es, i)
    PROVE  \E k \in (j + 1)..i : Depth(es, k) = v
<1> DEFINE l == Len(es)
           G == {n \in Nat : \A k \in 1..l : j < k /\ k <= j + n /\ v <= Depth(es, k) => \E m \in (j + 1)..k : Depth(es, m) = v}
<1>1. l \in Nat /\ (\A k \in 1..l : Depth(es, k) \in Nat)
      /\ \A k \in 2..l : k - 1 \in 1..l /\ Depth(es, k) <= Depth(es, k - 1) + 1
  BY ShapeParts
<1> HIDE DEF l
<1>0. j \in 1..l /\ i \in 1..l
  BY DEF l
<1>2. 0 \in G
  BY <1>0, <1>1
<1>3. ASSUME NEW n \in G PROVE n + 1 \in G
  <2> SUFFICES ASSUME NEW k \in 1..l, j < k, k <= j + (n + 1), v <= Depth(es, k)
               PROVE  \E m \in (j + 1)..k : Depth(es, m) = v
    OBVIOUS
  <2>0. n \in Nat /\ \A x \in 1..l : j < x /\ x <= j + n /\ v <= Depth(es, x) => \E m \in (j + 1)..x : Depth(es, m) = v
    OBVIOUS
  <2>1. k \in 2..l /\ k - 1 \in 1..l /\ Depth(es, k) <= Depth(es, k - 1) + 1
    BY <1>0, <1>1
  <2>2. CASE Depth(es, k) = v
    <3>1. k \in (j + 1)..k
      BY <1>0
    <3>2. QED
      BY <2>2, <3>1
  <2>3. CASE Depth(es, k) # v
    <3>1. v <= Depth(es, k - 1)
      BY <1>1, <2>1, <2>3
    <3>2. j < k - 1 /\ k - 1 <= j + n
      <4>1. j # k - 1
        BY <1>1, <3>1
      <4>2. QED
        BY <1>0, <2>0, <4>1
    <3>3. PICK m \in (j + 1)..(k - 1) : Depth(es, m) = v
      BY <2>0, <2>1, <3>1, <3>2
    <3>4. m \in (j + 1)..k
      BY <1>0
    <3>5. QED
      BY <3>3, <3>4
  <2>4. QED
    BY <2>2, <2>3
<1>4. G = Nat
  <2>1. G \in SUBSET Nat
    OBVIOUS
  <2> HIDE DEF G
  <2>2. QED
    BY <1>2, <1>3, <2>1, NatSet
<1>5. i - j \in Nat /\ i <= j + (i - j)
  BY <1>0
<1>6. i - j \in G
  BY <1>4, <1>5
<1>7. QED
  BY <1>0, <1>5, <1>6

(* The parent of an element by depth: the last one before it that is one   *)
(* less deep, with nothing between that is not deeper.                     *)
Up(es, i) == IF Depth(es, i) = 0 THEN 0 ELSE Ancestor(es, i, Depth(es, i) - 1)
Above(es, e, i) == e < i /\ Depth(es, e) + 1 = Depth(es, i) /\ \A j \in (e + 1)..i : Depth(es, j) >= Depth(es, i)

LEMMA UpIs ==
    ASSUME NEW es, Shaped(es), NEW i \in 1..Len(es)
    PROVE  /\ i = 1 => Up(es, i) = 0
           /\ i # 1 => Up(es, i) \in 1..Len(es) /\ Above(es, Up(es, i), i)
           /\ \A e \in 1..Len(es) : Up(es, i) = e <=> Above(es, e, i)
<1> DEFINE l == Len(es)
           d == Depth(es, i)
           S == {j \in 1..i : Depth(es, j) = d - 1}
           u == Max(S)
<1>1. l \in Nat /\ (\A k \in 1..l : Depth(es, k) \in Nat /\ (Depth(es, k) = 0 <=> k = 1))
  BY ShapeParts
<1> HIDE DEF l
<1>0. i \in 1..l
  BY DEF l
<1>2. CASE i = 1
  <2>1. Up(es, i) = 0
    BY <1>0, <1>1, <1>2 DEF Up
  <2>2. \A e \in 1..l : ~Above(es, e, i)
    BY <1>1, <1>2 DEF Above
  <2>3. QED
    BY <1>2, <2>1, <2>2 DEF l
<1>3. CASE i # 1
  <2>1. d \in Nat /\ d # 0 /\ Up(es, i) = u
    BY <1>0, <1>1, <1>3 DEF Up, Ancestor
  <2>2. S # {}
    <3>1. Depth(es, 1) = 0 /\ 1 \in 1..i /\ 1 \in 1..l
      BY <1>0, <1>1
    <3>2. CASE d = 1
      BY <3>1, <3>2
    <3>3. CASE d # 1
      <4>1. d - 1 \in Nat /\ 0 < d - 1 /\ d - 1 <= d /\ 1 < i
        BY <1>0, <1>3, <2>1, <3>3
      <4>2. PICK k \in (1 + 1)..i : Depth(es, k) = d - 1
        BY <1>0, <3>1, <4>1, Climb DEF l
      <4>3. k \in 1..i
        BY <1>0
      <4>4. QED
        BY <4>2, <4>3
    <3>4. QED
      BY <3>2, <3>3
  <2>3. S \in SUBSET (1..i) /\ i \in Nat
    BY <1>0
  <2>4. u \in S /\ \A k \in S : k <= u
    BY <2>2, <2>3, MaxIn
  <2>5. u \in 1..i /\ Depth(es, u) = d - 1 /\ u # i /\ u \in 1..l
    BY <1>0, <1>1, <2>1, <2>4
  <2> HIDE DEF u
  <2>6. ASSUME NEW j \in (u + 1)..i PROVE Depth(es, j) >= d
    <3> SUFFICES ASSUME ~(Depth(es, j) >= d) PROVE FALSE
      OBVIOUS
    <3>1. j \in 1..i /\ u < j /\ j \in 1..l
      BY <1>0, <1>1, <2>5
    <3>2. j \notin S
      BY <2>4, <2>5, <3>1
    <3>3. Depth(es, j) \in Nat /\ Depth(es, j) # d - 1 /\ j # i
      BY <1>1, <2>1, <3>1, <3>2
    <3>4. Depth(es, j) < d - 1 /\ d - 1 \in Nat /\ d - 1 <= d /\ j < i
      BY <2>1, <3>1, <3>3
    <3>5. PICK k \in (j + 1)..i : Depth(es, k) = d - 1
      BY <1>0, <3>1, <3>4, Climb DEF l
    <3>6. k \in S /\ u < k
      BY <2>5, <3>1, <3>5
    <3>7. QED
      BY <2>4, <2>5, <3>6
  <2>7. Above(es, u, i)
    BY <1>0, <2>1, <2>5, <2>6 DEF Above
  <2>8. ASSUME NEW e \in 1..l, Above(es, e, i) PROVE e = u
    <3>1. e \in S
      BY <1>0, <1>1, <2>1, <2>8 DEF Above
    <3>2. e <= u
      BY <2>4, <3>1
    <3>3. CASE e < u
      <4>1. u \in (e + 1)..i
        BY <2>5, <3>3
      <4>2. Depth(es, u) >= d
        BY <2>8, <4>1 DEF Above
      <4>3. QED
        BY <2>1, <2>5, <4>2
    <3>4. QED
      BY <2>5, <3>2, <3>3
  <2>9. QED
    BY <1>3, <2>1, <2>5, <2>7, <2>8 DEF l
<1>4. QED
  BY <1>2, <1>3

-----------------------------------------------------------------------------
(* Searching                                                               *)

First(S) == IF S = {} THEN 0 ELSE Min(S)
Below(es, e) == {i \in DOMAIN es : Up(es, i) = e}
Called(es, n) == {i \in DOMAIN es : es[i].name = n}
Having(es, a) == {i \in DOMAIN es : a \in ToSet(es[i].attrs)}

LEMMA FirstIs ==
    ASSUME NEW n \in Nat, NEW S \in SUBSET (1..n)
    PROVE  /\ First(S) = 0 <=> S = {}
           /\ First(S) # 0 => First(S) \in S /\ \A k \in S : First(S) <= k
           /\ \A x \in S : (\A k \in S : x <= k) => First(S) = x
<1>1. CASE S = {}
  BY <1>1 DEF First
<1>2. CASE S # {}
  <2>1. S \in SUBSET Nat
    OBVIOUS
  <2>2. Min(S) \in S /\ \A k \in S : Min(S) <= k
    BY <1>2, <2>1, MinIn
  <2>3. PICK m : m = Min(S)
    OBVIOUS
  <2>7. First(S) = m /\ m \in S /\ \A k \in S : m <= k
    BY <1>2, <2>2, <2>3 DEF First
  <2>4. First(S) = m /\ m \in S /\ m \in Nat /\ m # 0 /\ \A k \in S : m <= k
    BY <2>7
  <2>5. ASSUME NEW x \in S, \A k \in S : x <= k PROVE m = x
    <3>1. x <= m /\ m <= x /\ x \in Nat
      BY <2>4, <2>5
    <3>2. QED
      BY <2>4, <3>1
  <2>6. QED
    BY <1>2, <2>4, <2>5
<1>3. QED
  BY <1>1, <1>2

(* nad_find_elem: the first child of a name,                               *)
LEMMA ChildIs ==
    ASSUME NEW es, Shaped(es), NEW e \in 1..Len(es), NEW n
    PROVE  FindElem(es, e, n, 1) = First(Below(es, e) \cap Called(es, n))
<1> DEFINE l == Len(es)
           stop == {i \in (e + 1)..l : Depth(es, i) < Depth(es, e) + 1}
           hits == {i \in (e + 1)..l : Depth(es, i) = Depth(es, e) + 1 /\ es[i].name = n /\ \A j \in stop : i < j}
<1>1. FindElem(es, e, n, 1) = First(hits)
  BY DEF FindElem, First
<1>2. l \in Nat /\ DOMAIN es = 1..l /\ \A k \in 1..l : Depth(es, k) \in Nat
  BY ShapeParts
<1>3. \A i \in 1..l : Up(es, i) = e <=> Above(es, e, i)
  BY UpIs
<1> HIDE DEF l
<1>4. e \in 1..l
  BY DEF l
<1>5. ASSUME NEW i \in hits PROVE i \in Below(es, e) \cap Called(es, n)
  <2>1. i \in 1..l /\ e < i /\ Depth(es, i) = Depth(es, e) + 1 /\ es[i].name = n /\ \A j \in stop : i < j
    BY <1>2, <1>4
  <2>2. ASSUME NEW j \in (e + 1)..i PROVE Depth(es, j) >= Depth(es, i)
    <3>1. j \in (e + 1)..l /\ j \in 1..l
      BY <1>2, <1>4, <2>1
    <3>2. j \notin stop
      BY <2>1, <3>1
    <3>3. QED
      BY <1>2, <1>4, <2>1, <3>1, <3>2
  <2>3. Above(es, e, i)
    BY <2>1, <2>2 DEF Above
  <2>4. QED
    BY <1>2, <1>3, <2>1, <2>3 DEF Below, Called
<1>6. ASSUME NEW i \in Below(es, e) \cap Called(es, n) PROVE i \in hits
  <2>1. i \in 1..l /\ Above(es, e, i) /\ es[i].name = n
    BY <1>2, <1>3 DEF Below, Called
  <2>2. e < i /\ i \in (e + 1)..l /\ Depth(es, e) + 1 = Depth(es, i) /\ \A j \in (e + 1)..i : Depth(es, j) >= Depth(es, i)
    BY <1>2, <1>4, <2>1 DEF Above
  <2>3. ASSUME NEW j \in stop PROVE i < j
    <3>1. j \in 1..l /\ e < j /\ Depth(es, j) < Depth(es, e) + 1
      BY <1>2, <1>4
    <3>2. ~(j \in (e + 1)..i)
      BY <1>2, <1>4, <2>1, <2>2, <3>1
    <3>3. QED
      BY <1>2, <1>4, <2>1, <3>1, <3>2
  <2>4. QED
    BY <2>1, <2>2, <2>3
<1>7. hits = Below(es, e) \cap Called(es, n)
  <2> HIDE DEF hits
  <2>1. QED
    BY <1>5, <1>6
<1>8. QED
  BY <1>1, <1>7

(* and the next sibling of a name.                                         *)
LEMMA SiblingIs ==
    ASSUME NEW es, Shaped(es), NEW e \in 1..Len(es), NEW n
    PROVE  FindElem(es, e, n, 0) = First({i \in Below(es, Up(es, e)) \cap Called(es, n) : i > e})
<1> DEFINE l == Len(es)
           stop == {i \in (e + 1)..l : Depth(es, i) < Depth(es, e) + 0}
           hits == {i \in (e + 1)..l : Depth(es, i) = Depth(es, e) + 0 /\ es[i].name = n /\ \A j \in stop : i < j}
           next == {i \in Below(es, Up(es, e)) \cap Called(es, n) : i > e}
           u == Up(es, e)
<1>1. FindElem(es, e, n, 0) = First(hits)
  BY DEF FindElem, First
<1>2. l \in Nat /\ DOMAIN es = 1..l /\ \A k \in 1..l : Depth(es, k) \in Nat /\ (Depth(es, k) = 0 <=> k = 1)
  BY ShapeParts
<1>3. \A i \in 1..l : (i = 1 => Up(es, i) = 0) /\ (i # 1 => Up(es, i) \in 1..l) /\ \A x \in 1..l : Up(es, i) = x <=> Above(es, x, i)
  BY UpIs
<1> HIDE DEF l
<1>4. e \in 1..l
  BY DEF l
<1>5. CASE e = 1
  <2>1. Depth(es, e) = 0 /\ u = 0
    BY <1>2, <1>3, <1>4, <1>5
  <2>2. hits = {}
    <3> SUFFICES ASSUME NEW i \in hits PROVE FALSE
      OBVIOUS
    <3>1. i \in 1..l /\ e < i /\ Depth(es, i) = Depth(es, e) + 0
      BY <1>2, <1>4
    <3>2. QED
      BY <1>2, <1>4, <1>5, <2>1, <3>1
  <2>3. next = {}
    <3> SUFFICES ASSUME NEW i \in next PROVE FALSE
      OBVIOUS
    <3>1. i \in 1..l /\ i > e /\ Up(es, i) = u
      BY <1>2 DEF Below
    <3>2. i # 1
      BY <1>4, <1>5, <3>1
    <3>3. u \in 1..l
      BY <1>3, <3>1, <3>2
    <3>4. QED
      BY <1>2, <2>1, <3>3
  <2>4. QED
    BY <1>1, <2>2, <2>3
<1>6. CASE e # 1
  <2>1. u \in 1..l /\ Above(es, u, e)
    BY <1>3, <1>4, <1>6
  <2> HIDE DEF u
  <2>2. u < e /\ Depth(es, u) + 1 = Depth(es, e) /\ \A j \in (u + 1)..e : Depth(es, j) >= Depth(es, e)
    BY <2>1 DEF Above
  <2>3. ASSUME NEW i \in hits PROVE i \in next
    <3>1. i \in 1..l /\ e < i /\ Depth(es, i) = Depth(es, e) /\ es[i].name = n /\ \A j \in stop : i < j
      BY <1>2, <1>4
    <3>2. ASSUME NEW j \in (u + 1)..i PROVE Depth(es, j) >= Depth(es, i)
      <4>1. j \in 1..l /\ u < j
        BY <1>2, <2>1, <3>1
      <4>2. CASE j <= e
        <5>1. j \in (u + 1)..e
          BY <1>4, <2>1, <4>1, <4>2
        <5>2. QED
          BY <2>2, <3>1, <5>1
      <4>3. CASE ~(j <= e)
        <5>1. j \in (e + 1)..l
          BY <1>2, <1>4, <4>1, <4>3
        <5>2. j \notin stop
          BY <3>1, <5>1
        <5>3. QED
          BY <1>2, <1>4, <3>1, <4>1, <5>1, <5>2
      <4>4. QED
        BY <4>2, <4>3
    <3>3. Above(es, u, i)
      BY <1>2, <1>4, <2>1, <2>2, <3>1, <3>2 DEF Above
    <3>4. Up(es, i) = u
      BY <1>3, <2>1, <3>1, <3>3
    <3>5. i > e
      BY <1>4, <3>1
    <3>6. QED
      BY <1>2, <3>1, <3>4, <3>5 DEF Below, Called, u
  <2>4. ASSUME NEW i \in next PROVE i \in hits
    <3>1. i \in 1..l /\ Up(es, i) = u /\ es[i].name = n /\ i > e
      BY <1>2 DEF Below, Called, u
    <3>2. Depth(es, u) + 1 = Depth(es, i) /\ \A j \in (u + 1)..i : Depth(es, j) >= Depth(es, i)
      BY <1>3, <2>1, <3>1 DEF Above
    <3>3. Depth(es, i) = Depth(es, e) + 0 /\ i \in (e + 1)..l
      BY <1>2, <1>4, <2>1, <2>2, <3>1, <3>2
    <3>4. ASSUME NEW j \in stop PROVE i < j
      <4>1. j \in 1..l /\ e < j /\ Depth(es, j) < Depth(es, e)
        BY <1>2, <1>4
      <4>2. ~(j \in (u + 1)..i)
        BY <1>2, <1>4, <3>1, <3>2, <3>3, <4>1
      <4>3. QED
        BY <1>2, <1>4, <2>1, <2>2, <3>1, <4>1, <4>2
    <3>5. QED
      BY <3>1, <3>3, <3>4
  <2>5. hits = next
    <3> HIDE DEF hits, next
    <3>1. QED
      BY <2>3, <2>4
  <2>6. QED
    BY <1>1, <2>5 DEF u
<1>7. QED
  BY <1>5, <1>6

LEMMA SeqLen ==
    ASSUME NEW S, NEW q \in Seq(S)
    PROVE  Len(q) \in Nat /\ DOMAIN q = 1..Len(q)
  OBVIOUS

LEMMA AttrFound ==
    ASSUME NEW es, Shaped(es), NEW i \in 1..Len(es), NEW a
    PROVE  FindAttr(es, i, a) # 0 <=> i \in Having(es, a)
<1>1. PICK al : al = es[i].attrs
  OBVIOUS
<1>2. al \in Seq(Names \cup {Zapped}) /\ DOMAIN es = 1..Len(es)
  BY <1>1, ShapeParts DEF ElemRec
<1> DEFINE hits == {k \in DOMAIN al : al[k] = a}
<1>3. FindAttr(es, i, a) = First(hits)
  BY <1>1 DEF FindAttr, First
<1>4. PICK l \in Nat : DOMAIN al = 1..l
  <2>1. Len(al) \in Nat /\ DOMAIN al = 1..Len(al)
    BY <1>2, SeqLen
  <2>2. QED
    BY <2>1
<1>5. hits \in SUBSET (1..l)
  BY <1>4
<1>6. hits # {} <=> a \in ToSet(al)
  BY DEF ToSet
<1> HIDE DEF hits
<1>7. First(hits) # 0 <=> hits # {}
  BY <1>5, FirstIs
<1>8. QED
  BY <1>1, <1>2, <1>3, <1>6, <1>7 DEF Having

(* nad_find_elem_path goes from sibling to sibling.                        *)
Hop(es, n, i) == IF i = 0 THEN 0 ELSE FindElem(es, i, n, 0)
Hops(g, es, e, n, l) == g = [k \in 1..l |-> IF k = 1 THEN FindElem(es, e, n, 1) ELSE Hop(es, n, g[k - 1])]

LEMMA HopsExist ==
    ASSUME NEW es, NEW e, NEW n
    PROVE  \A l \in Nat : \E g : Hops(g, es, e, n, l)
<1> DEFINE G == {l \in Nat : \E g : Hops(g, es, e, n, l)}
<1>1. 0 \in G
  <2> DEFINE g == [k \in 1..0 |-> 0]
  <2>1. 1..0 = {}
    OBVIOUS
  <2>2. Hops(g, es, e, n, 0)
    BY <2>1 DEF Hops
  <2>3. QED
    BY <2>2
<1>2. ASSUME NEW l \in G PROVE l + 1 \in G
  <2>1. PICK g : Hops(g, es, e, n, l)
    OBVIOUS
  <2>2. l \in Nat
    OBVIOUS
  <2> DEFINE last == IF l + 1 = 1 THEN FindElem(es, e, n, 1) ELSE Hop(es, n, g[l])
             h == [k \in 1..(l + 1) |-> IF k = l + 1 THEN last ELSE g[k]]
  <2>3. ASSUME NEW k \in 1..(l + 1) PROVE h[k] = IF k = 1 THEN FindElem(es, e, n, 1) ELSE Hop(es, n, h[k - 1])
    <3>1. CASE k = l + 1
      <4>1. CASE l = 0
        BY <3>1, <4>1
      <4>2. CASE l # 0
        <5>1. h[l] = g[l] /\ (l + 1) - 1 = l /\ l + 1 # 1
          BY <2>2, <4>2
        <5>2. h[k] = last
          BY <3>1
        <5>3. QED
          BY <3>1, <5>1, <5>2
      <4>3. QED
        BY <4>1, <4>2
    <3>2. CASE k # l + 1
      <4>1. k \in 1..l /\ h[k] = g[k]
        BY <2>2, <3>2
      <4>2. g[k] = IF k = 1 THEN FindElem(es, e, n, 1) ELSE Hop(es, n, g[k - 1])
        BY <2>1, <4>1 DEF Hops
      <4>3. k # 1 => h[k - 1] = g[k - 1]
        BY <2>2, <4>1
      <4>4. QED
        BY <4>1, <4>2, <4>3
    <3>3. QED
      BY <3>1, <3>2
  <2>4. h = [k \in 1..(l + 1) |-> h[k]]
    OBVIOUS
  <2> HIDE DEF h
  <2>5. Hops(h, es, e, n, l + 1)
    BY <2>3, <2>4 DEF Hops
  <2>6. QED
    BY <2>2, <2>5
<1>3. G \in SUBSET Nat
  OBVIOUS
<1> HIDE DEF G
<1>4. G = Nat
  BY <1>1, <1>2, <1>3, NatSet
<1>5. QED
  BY <1>4 DEF G

LEMMA SiblingsAre ==
    ASSUME NEW es, NEW e, NEW n, Len(es) \in Nat
    PROVE  LET g == Siblings(es, e, n)
           IN  \A k \in 1..Len(es) : g[k] = IF k = 1 THEN FindElem(es, e, n, 1) ELSE Hop(es, n, g[k - 1])
<1> DEFINE g == Siblings(es, e, n)
<1>1. g = CHOOSE f : Hops(f, es, e, n, Len(es))
  BY Zenon DEF Siblings, Hops, Hop
<1>2. \E f : Hops(f, es, e, n, Len(es))
  BY HopsExist
<1>3. Hops(g, es, e, n, Len(es))
  BY <1>1, <1>2
<1> HIDE DEF g
<1>4. QED
  BY <1>3 DEF Hops, g

\* the first k siblings of the name
Seen(g, k, c) == \E j \in 1..k : g[j] = c

LEMMA SiblingsInOrder ==
    ASSUME NEW es, Shaped(es), NEW e \in 1..Len(es), NEW n
    PROVE  LET g == Siblings(es, e, n)
               C == Below(es, e) \cap Called(es, n)
           IN  \A k \in 1..Len(es) :
                 /\ g[k] # 0 => g[k] \in C /\ k <= g[k] /\ \A c \in C : c < g[k] => Seen(g, k - 1, c)
                 /\ g[k] = 0 => \A c \in C : Seen(g, k - 1, c)
<1> DEFINE g == Siblings(es, e, n)
           C == Below(es, e) \cap Called(es, n)
           l == Len(es)
           Right(k) == /\ g[k] # 0 => g[k] \in C /\ k <= g[k] /\ \A c \in C : c < g[k] => Seen(g, k - 1, c)
                       /\ g[k] = 0 => \A c \in C : Seen(g, k - 1, c)
           G == {k \in Nat : k + 1 <= l => Right(k + 1)}
<1>1. l \in Nat /\ DOMAIN es = 1..l /\ e \in 1..l
  BY ShapeParts
<1>2. \A k \in 1..l : g[k] = IF k = 1 THEN FindElem(es, e, n, 1) ELSE Hop(es, n, g[k - 1])
  BY <1>1, SiblingsAre
<1>3. C \in SUBSET (1..l) /\ \A c \in C : Up(es, c) = e /\ C = Below(es, Up(es, c)) \cap Called(es, n)
  BY <1>1 DEF Below
<1>4. FindElem(es, e, n, 1) = First(C)
  BY ChildIs
<1>5. ASSUME NEW c \in C
      PROVE  FindElem(es, c, n, 0) = First({i \in C : i > c})
  <2>1. FindElem(es, c, n, 0) = First({i \in Below(es, Up(es, c)) \cap Called(es, n) : i > c})
    BY <1>3, SiblingIs
  <2>2. Below(es, Up(es, c)) \cap Called(es, n) = C
    BY <1>3
  <2> HIDE DEF C
  <2>3. QED
    BY <2>1, <2>2
<1> HIDE DEF g, C, l
<1>6. 0 \in G
  <2> SUFFICES ASSUME 0 + 1 <= l PROVE Right(1)
    OBVIOUS
  <2>1. g[1] = First(C) /\ 1 \in 1..l
    BY <1>1, <1>2, <1>4
  <2>2. CASE First(C) = 0
    <3>1. C = {}
      BY <1>1, <1>3, <2>2, FirstIs
    <3>2. QED
      BY <2>1, <2>2, <3>1
  <2>3. CASE First(C) # 0
    <3>1. First(C) \in C /\ \A c \in C : First(C) <= c
      BY <1>1, <1>3, <2>3, FirstIs
    <3>2. PICK f : f = First(C)
      OBVIOUS
    <3>3. f \in C /\ f \in 1..l /\ g[1] = f /\ \A c \in C : c \in 1..l /\ f <= c
      BY <1>3, <2>1, <3>1, <3>2
    <3>4. f # 0 /\ 1 <= f /\ \A c \in C : ~(c < f)
      BY <1>1, <3>3
    <3>5. QED
      BY <3>3, <3>4
  <2>4. QED
    BY <2>2, <2>3
<1>7. ASSUME NEW k \in G PROVE k + 1 \in G
  <2> SUFFICES ASSUME (k + 1) + 1 <= l PROVE Right((k + 1) + 1)
    OBVIOUS
  <2>1. PICK m : m = k + 1
    OBVIOUS
  <2>2. m \in 1..l /\ m + 1 \in 1..l /\ m + 1 # 1 /\ (m + 1) - 1 = m /\ m \in Nat /\ (k + 1) + 1 = m + 1
    BY <1>1, <2>1
  <2>3. Right(m)
    <3>1. k + 1 <= l
      BY <1>1, <2>1, <2>2
    <3>2. QED
      BY <2>1, <3>1
  <2>4. g[m + 1] = Hop(es, n, g[m])
    BY <1>2, <2>2
  <2>5. \A c : Seen(g, m - 1, c) \/ g[m] = c => Seen(g, m, c)
    <3>1. \A j : j \in 1..(m - 1) => j \in 1..m
      BY <2>2
    <3>2. m \in 1..m
      BY <2>2
    <3>3. QED
      BY <3>1, <3>2 DEF Seen
  <2>6. CASE g[m] = 0
    <3>1. g[m + 1] = 0
      BY <2>4, <2>6 DEF Hop
    <3>2. \A c \in C : Seen(g, m, c)
      BY <2>3, <2>5, <2>6
    <3>3. Right(m + 1)
      BY <2>2, <3>1, <3>2
    <3>4. QED
      BY <2>2, <3>3
  <2>7. CASE g[m] # 0
    <3>1. PICK c0 : c0 = g[m]
      OBVIOUS
    <3>2. c0 \in C /\ m <= c0 /\ c0 \in 1..l /\ \A c \in C : c < c0 => Seen(g, m - 1, c)
      BY <1>3, <2>3, <2>7, <3>1
    <3> DEFINE N == {i \in C : i > c0}
               f == First(N)
    <3>3. g[m + 1] = f
      BY <1>5, <2>4, <2>7, <3>1, <3>2 DEF Hop
    <3>4. N \in SUBSET (1..l) /\ N \in SUBSET C /\ \A c \in C : c \in N <=> c > c0
      BY <1>3
    <3>5. \A c \in C : ~(c > c0) => Seen(g, m, c)
      <4>1. ASSUME NEW c \in C, ~(c > c0) PROVE c < c0 \/ c = c0
        BY <1>3, <3>2, <4>1
      <4>2. QED
        BY <2>5, <3>1, <3>2, <4>1
    <3> HIDE DEF N
    <3>6. /\ f = 0 <=> N = {}
          /\ f # 0 => f \in N /\ \A c \in N : f <= c
      BY <1>1, <3>4, FirstIs
    <3> HIDE DEF f
    <3>7. CASE f = 0
      <4>1. \A c \in C : Seen(g, m, c)
        BY <3>4, <3>5, <3>6, <3>7
      <4>2. Right(m + 1)
        BY <2>2, <3>3, <3>7, <4>1
      <4>3. QED
        BY <2>2, <4>2
    <3>8. CASE f # 0
      <4>1. f \in C /\ f \in 1..l /\ f > c0
        BY <1>3, <3>4, <3>6, <3>8
      <4>2. m + 1 <= f
        BY <1>1, <2>2, <3>2, <4>1
      <4>3. ASSUME NEW c \in C, c < f PROVE Seen(g, m, c)
        <5>1. c \in 1..l
          BY <1>3
        <5>2. c \notin N
          BY <1>1, <3>6, <3>8, <4>1, <4>3, <5>1
        <5>3. QED
          BY <3>4, <3>5, <5>2
      <4>4. Right(m + 1)
        BY <2>2, <3>3, <3>8, <4>1, <4>2, <4>3
      <4>5. QED
        BY <2>2, <4>4
    <3>9. QED
      BY <3>7, <3>8
  <2>8. QED
    BY <2>6, <2>7
<1>8. G \in SUBSET Nat
  OBVIOUS
<1>9. G = Nat
  <2> HIDE DEF G
  <2>1. QED
    BY <1>6, <1>7, <1>8, NatSet
<1>10. ASSUME NEW k \in 1..l PROVE Right(k)
  <2>1. k - 1 \in Nat /\ (k - 1) + 1 = k /\ k <= l
    BY <1>1
  <2>2. k - 1 \in G
    BY <1>9, <2>1
  <2>3. (k - 1) + 1 <= l => Right((k - 1) + 1)
    BY <2>2
  <2>4. QED
    BY <2>1, <2>3
<1>11. QED
  BY <1>10 DEF g, C, l

Suits(es, a, has, i) == a = Zapped \/ has = (FindAttr(es, i, a) # 0)
Suiting(es, a, has, F) == \A i \in 1..Len(es) : Suits(es, a, has, i) <=> i \in F

(* nad_find_elem_path with an attribute takes the first sibling that fits. *)
LEMMA MatchIs ==
    ASSUME NEW es, Shaped(es), NEW e \in 1..Len(es), NEW n, NEW a, NEW has, NEW F,
           Suiting(es, a, has, F)
    PROVE  Match(es, e, n, a, has) = First((Below(es, e) \cap Called(es, n)) \cap F)
<1> DEFINE g == Siblings(es, e, n)
           C == Below(es, e) \cap Called(es, n)
           l == Len(es)
           ok(i) == i = 0 \/ Suits(es, a, has, i)
           K == {k \in 1..l : ok(g[k])} \cup {l}
<1>1. l \in Nat /\ DOMAIN es = 1..l /\ e \in 1..l
  BY ShapeParts
<1>2. PICK k : k = Min(K)
  OBVIOUS
<1>3. Match(es, e, n, a, has) = IF ok(g[k]) THEN g[k] ELSE 0
  BY <1>2 DEF Match, Suits
<1>4. C \in SUBSET (1..l)
  BY <1>1 DEF Below
<1>5. \A j \in 1..l :
        /\ g[j] # 0 => g[j] \in C /\ j <= g[j] /\ \A c \in C : c < g[j] => Seen(g, j - 1, c)
        /\ g[j] = 0 => \A c \in C : Seen(g, j - 1, c)
  BY SiblingsInOrder
<1>6. \A i \in 1..l : ok(i) <=> i \in F
  <2>1. \A i \in 1..l : i # 0
    BY <1>1
  <2>2. QED
    BY <2>1 DEF Suiting
<1>7. ok(0)
  OBVIOUS
<1> HIDE DEF g, C, l, ok
<1>8. l \in K /\ K \in SUBSET (1..l)
  BY <1>1
<1>9. k \in K /\ k \in 1..l /\ \A j \in K : k <= j
  <2>1. K \in SUBSET Nat /\ K # {}
    BY <1>1, <1>8
  <2> HIDE DEF K
  <2>2. QED
    BY <1>2, <1>8, <2>1, MinIn
<1>10. ASSUME NEW c, Seen(g, k - 1, c), c \in C PROVE c \notin F
  <2>1. PICK j \in 1..(k - 1) : g[j] = c
    BY <1>10 DEF Seen
  <2>2. j \in 1..l /\ ~(k <= j)
    BY <1>1, <1>9, <2>1
  <2>3. ~ok(g[j])
    BY <1>9, <2>2
  <2>4. QED
    BY <1>4, <1>6, <1>10, <2>1, <2>3
<1> DEFINE S == C \cap F
<1>11. S \in SUBSET (1..l)
  BY <1>4
<1>12. CASE g[k] = 0
  <2>1. S = {}
    BY <1>5, <1>9, <1>10, <1>12
  <2>2. First(S) = 0
    BY <1>1, <1>11, <2>1, FirstIs
  <2>3. QED
    BY <1>3, <1>7, <1>12, <2>2 DEF C
<1>13. CASE g[k] # 0
  <2>1. PICK c0 : c0 = g[k]
    OBVIOUS
  <2>2. c0 \in C /\ c0 \in 1..l /\ k <= c0 /\ \A c \in C : c < c0 => Seen(g, k - 1, c)
    BY <1>4, <1>5, <1>9, <1>13, <2>1
  <2>3. \A c \in S : c0 <= c
    BY <1>1, <1>4, <1>10, <2>2
  <2>4. CASE ok(c0)
    <3>1. c0 \in S
      BY <1>6, <2>2, <2>4
    <3> HIDE DEF S
    <3>2. First(S) = c0
      BY <1>1, <1>11, <2>3, <3>1, FirstIs
    <3>3. QED
      BY <1>3, <2>1, <2>4, <3>2 DEF S, C
  <2>5. CASE ~ok(c0)
    <3>1. k = l
      BY <1>9, <2>1, <2>5
    <3>2. c0 = l /\ c0 \notin F
      BY <1>1, <1>6, <2>2, <2>5, <3>1
    <3>3. S = {}
      <4>1. ASSUME NEW c \in S PROVE FALSE
        <5>1. c \in 1..l /\ c0 <= c /\ c # c0
          BY <1>11, <2>3, <3>2
        <5>2. QED
          BY <1>1, <3>2, <5>1
      <4>2. QED
        BY <4>1
    <3> HIDE DEF S
    <3>4. First(S) = 0
      BY <1>1, <1>11, <3>3, FirstIs
    <3>5. QED
      BY <1>3, <2>1, <2>5, <3>4 DEF S, C
  <2>6. QED
    BY <2>4, <2>5
<1>14. QED
  BY <1>12, <1>13

(* The names of the path but the last: none, or one.                       *)
Steps(g, es, e, q, T) == g = [s \in T |-> IF s = {} THEN e ELSE IF g[s \ {Max(s)}] = 0 THEN 0 ELSE FindElem(es, g[s \ {Max(s)}], q[Max(s)], 1)]

LEMMA DownFold ==
    ASSUME NEW es, NEW e, NEW q
    PROVE  Down(es, e, q) = (CHOOSE g : Steps(g, es, e, q, SUBSET (DOMAIN q)))[DOMAIN q]
  BY Zenon DEF Down, FoldLeft, MapThenFoldSet, Steps

LEMMA DownNone ==
    ASSUME NEW es, NEW e
    PROVE  Down(es, e, <<>>) = e
<1> DEFINE h == [s \in SUBSET {} |-> e]
           g == CHOOSE f : Steps(f, es, e, <<>>, SUBSET {})
<1>1. DOMAIN <<>> = {}
  OBVIOUS
<1>2. Steps(h, es, e, <<>>, SUBSET {})
  BY DEF Steps
<1>3. Steps(g, es, e, <<>>, SUBSET {})
  BY <1>2
<1>4. Down(es, e, <<>>) = g[{}]
  BY Zenon, <1>1, DownFold
<1> HIDE DEF g
<1>5. QED
  BY <1>3, <1>4 DEF Steps

LEMMA DownOne ==
    ASSUME NEW es, NEW e, e # 0, NEW n
    PROVE  Down(es, e, <<n>>) = FindElem(es, e, n, 1)
<1>1. PICK q : q = <<n>>
  OBVIOUS
<1>2. DOMAIN q = {1} /\ q[1] = n
  BY <1>1
<1> DEFINE x == FindElem(es, e, n, 1)
           h == [s \in SUBSET {1} |-> IF s = {} THEN e ELSE x]
           g == CHOOSE f : Steps(f, es, e, q, SUBSET {1})
<1>3. Max({1}) = 1
  <2>1. {1} \in SUBSET (1..1) /\ {1} # {}
    OBVIOUS
  <2>2. QED
    BY <2>1, MaxIn
<1>4. \A s \in SUBSET {1} : s = {} \/ s = {1}
  OBVIOUS
<1> HIDE DEF x
<1>5. Steps(h, es, e, q, SUBSET {1})
  <2>1. ASSUME NEW s \in SUBSET {1}
        PROVE  h[s] = IF s = {} THEN e ELSE IF h[s \ {Max(s)}] = 0 THEN 0 ELSE FindElem(es, h[s \ {Max(s)}], q[Max(s)], 1)
    <3>1. CASE s = {}
      BY <3>1
    <3>2. CASE s # {}
      <4>1. s = {1} /\ Max(s) = 1 /\ s \ {Max(s)} = {}
        <5>1. s = {1}
          BY <1>4, <3>2
        <5>2. Max(s) = 1
          BY <1>3, <5>1
        <5>3. QED
          BY <5>1, <5>2
      <4>2. h[{}] = e /\ h[s] = x
        BY <3>2
      <4>3. FindElem(es, h[s \ {Max(s)}], q[Max(s)], 1) = x
        BY <1>2, <4>1, <4>2 DEF x
      <4>4. h[s \ {Max(s)}] = e
        BY <4>1, <4>2
      <4> HIDE DEF h
      <4>5. QED
        BY <3>2, <4>2, <4>3, <4>4
    <3>3. QED
      BY <3>1, <3>2
  <2>2. h = [s \in SUBSET {1} |-> h[s]]
    OBVIOUS
  <2> HIDE DEF h
  <2>3. QED
    BY <2>1, <2>2 DEF Steps
<1>6. Steps(g, es, e, q, SUBSET {1})
  BY <1>5
<1>7. Down(es, e, q) = g[{1}]
  BY Zenon, <1>2, DownFold
<1> HIDE DEF g
<1>8. g[{}] = e
  BY <1>6 DEF Steps
<1>9. {1} \ {Max({1})} = {} /\ {1} # {}
  BY <1>3
<1>10. g[{1}] = IF g[{1} \ {Max({1})}] = 0 THEN 0 ELSE FindElem(es, g[{1} \ {Max({1})}], q[Max({1})], 1)
  BY <1>6, <1>9 DEF Steps
<1>11. g[{1}] = FindElem(es, e, n, 1)
  BY <1>2, <1>3, <1>8, <1>9, <1>10
<1>12. QED
  BY <1>1, <1>7, <1>11

(* On a nad of the shape, searching finds what the document has.           *)
LEMMA PathOne ==
    ASSUME NEW es, NEW e, e # 0, NEW n, NEW a, NEW has
    PROVE  FindElemPath(es, e, <<n>>, a, has) = Match(es, e, n, a, has)
<1>1. Front(<<n>>) = <<>> /\ Last(<<n>>) = n
  BY DEF Front, Last
<1>2. QED
  BY <1>1, DownNone DEF FindElemPath

LEMMA PathTwo ==
    ASSUME NEW es, NEW e, e # 0, NEW n, NEW a, NEW b, NEW has
    PROVE  FindElemPath(es, e, <<n, a>>, b, has) =
             IF FindElem(es, e, n, 1) = 0 THEN 0 ELSE Match(es, FindElem(es, e, n, 1), a, b, has)
<1>1. Front(<<n, a>>) = <<n>> /\ Last(<<n, a>>) = a
  <2>1. PICK q : q = <<n, a>>
    OBVIOUS
  <2>2. Len(q) = 2 /\ q[1] = n /\ q[2] = a
    BY <2>1
  <2>3. SubSeq(q, 1, 1) = <<n>>
    <3>1. q \in Seq({n, a}) /\ 1 \in 1..(Len(q) + 1) /\ 1 \in (1 - 1)..Len(q)
      BY <2>1, <2>2
    <3>2. PICK r : r = SubSeq(q, 1, 1)
      OBVIOUS
    <3>3. r \in Seq({n, a}) /\ Len(r) = (1 - 1) + 1 /\ \A i \in 1..((1 - 1) + 1) : r[i] = q[(1 + i) - 1]
      BY <3>1, <3>2, SubSeqProperties
    <3>4. Len(r) = 1 /\ r[1] = n
      BY <2>2, <3>3
    <3>5. r = <<n>>
      BY <3>3, <3>4
    <3>6. QED
      BY <3>2, <3>5
  <2>4. Front(q) = <<n>>
    BY <2>2, <2>3 DEF Front
  <2>5. QED
    BY <2>1, <2>2, <2>4 DEF Last
<1>2. QED
  BY <1>1, DownOne DEF FindElemPath

LEMMA ShapeFinds ==
    ASSUME Shaped(Es), NadAssumption
    PROVE  FindsFirst
<1> DEFINE l == Len(Es)
<1>1. l \in Nat /\ DOMAIN Es = 1..l /\ Indices = 1..l
  BY ShapeParts DEF Indices
<1>2. ASSUME NEW e \in Indices, NEW n \in Names
      PROVE  LET child == Below(Es, e) \cap Called(Es, n)
             IN  /\ FindElem(Es, e, n, 1) = First(child)
                 /\ FindElem(Es, e, n, 0) = First({i \in Below(Es, Up(Es, e)) \cap Called(Es, n) : i > e})
                 /\ \A a \in Names :
                       /\ FindElemPath(Es, e, <<n>>, a, TRUE) = First(child \cap Having(Es, a))
                       /\ FindElemPath(Es, e, <<n>>, a, FALSE) = First(child \ Having(Es, a))
                       /\ FindElemPath(Es, e, <<n, a>>, Zapped, TRUE) =
                             IF child = {} THEN 0 ELSE First(Below(Es, First(child)) \cap Called(Es, a))
  <2> DEFINE child == Below(Es, e) \cap Called(Es, n)
  <2>1. e \in 1..Len(Es) /\ e # 0
    BY <1>1
  <2>2. FindElem(Es, e, n, 1) = First(child)
    BY <2>1, ChildIs
  <2>3. FindElem(Es, e, n, 0) = First({i \in Below(Es, Up(Es, e)) \cap Called(Es, n) : i > e})
    BY <2>1, SiblingIs
  <2>4. child \in SUBSET (1..l)
    BY <1>1 DEF Called
  <2>5. ASSUME NEW a \in Names
        PROVE  /\ FindElemPath(Es, e, <<n>>, a, TRUE) = First(child \cap Having(Es, a))
               /\ FindElemPath(Es, e, <<n>>, a, FALSE) = First(child \ Having(Es, a))
               /\ FindElemPath(Es, e, <<n, a>>, Zapped, TRUE) =
                     IF child = {} THEN 0 ELSE First(Below(Es, First(child)) \cap Called(Es, a))
    <3>1. a # Zapped
      BY DEF NadAssumption
    <3>2. \A i \in 1..Len(Es) : FindAttr(Es, i, a) # 0 <=> i \in Having(Es, a)
      BY AttrFound
    <3> DEFINE N == (1..l) \ Having(Es, a)
               H == Having(Es, a)
    <3>3. FindElemPath(Es, e, <<n>>, a, TRUE) = First(child \cap H)
      <4>1. Suiting(Es, a, TRUE, H)
        BY <3>1, <3>2 DEF Suits, Suiting
      <4> HIDE DEF H
      <4>2. Match(Es, e, n, a, TRUE) = First(child \cap H)
        <5>1. PICK t : t = TRUE
          OBVIOUS
        <5>2. Suiting(Es, a, t, H)
          BY Zenon, <4>1, <5>1
        <5>3. Match(Es, e, n, a, t) = First(child \cap H)
          BY <2>1, <5>2, MatchIs
        <5>4. QED
          BY Zenon, <5>1, <5>3
      <4>3. QED
        BY <2>1, <4>2, PathOne
    <3>4. FindElemPath(Es, e, <<n>>, a, FALSE) = First(child \ H)
      <4>1. Suiting(Es, a, FALSE, N)
        BY <3>1, <3>2 DEF Suits, Suiting
      <4>2. child \cap N = child \ H
        BY <2>4
      <4> HIDE DEF H, N
      <4>3. Match(Es, e, n, a, FALSE) = First(child \cap N)
        <5>1. PICK t : t = FALSE
          OBVIOUS
        <5>2. Suiting(Es, a, t, N)
          BY Zenon, <4>1, <5>1
        <5>3. Match(Es, e, n, a, t) = First(child \cap N)
          BY <2>1, <5>2, MatchIs
        <5>4. QED
          BY Zenon, <5>1, <5>3
      <4>4. QED
        BY <2>1, <4>2, <4>3, PathOne
    <3>5. FindElemPath(Es, e, <<n, a>>, Zapped, TRUE) =
            IF child = {} THEN 0 ELSE First(Below(Es, First(child)) \cap Called(Es, a))
      <4>1. PICK c : c = First(child)
        OBVIOUS
      <4>2. FindElemPath(Es, e, <<n, a>>, Zapped, TRUE) = IF c = 0 THEN 0 ELSE Match(Es, c, a, Zapped, TRUE)
        BY <2>1, <2>2, <4>1, PathTwo
      <4> HIDE DEF child
      <4>3. (c = 0 <=> child = {}) /\ (c # 0 => c \in 1..l)
        BY <1>1, <2>4, <4>1, FirstIs
      <4>4. CASE c = 0
        BY <4>2, <4>3, <4>4
      <4>5. CASE c # 0
        <5> DEFINE F == 1..l
                   C == Below(Es, c) \cap Called(Es, a)
        <5>1. Suiting(Es, Zapped, TRUE, F)
          BY DEF Suits, Suiting
        <5>2. C \cap F = C
          BY <1>1 DEF Called
        <5> HIDE DEF F
        <5>3. Match(Es, c, a, Zapped, TRUE) = First(C \cap F)
          <6>1. PICK t : t = TRUE
            OBVIOUS
          <6>2. Suiting(Es, Zapped, t, F)
            BY Zenon, <5>1, <6>1
          <6>3. Match(Es, c, a, Zapped, t) = First(C \cap F)
            BY <4>3, <4>5, <6>2, MatchIs
          <6>4. QED
            BY Zenon, <6>1, <6>3
        <5> HIDE DEF C
        <5>4. Match(Es, c, a, Zapped, TRUE) = First(C)
          BY <5>2, <5>3
        <5>5. QED
          BY <4>1, <4>2, <4>3, <4>5, <5>4 DEF C
      <4>6. QED
        BY <4>4, <4>5
    <3>6. QED
      BY <3>3, <3>4, <3>5
  <2>6. QED
    BY <2>2, <2>3, <2>5
<1>3. QED
  BY Zenon, <1>2 DEF FindsFirst, Below, Up, Called, Having, First, Indices

-----------------------------------------------------------------------------
(* Operations keep the shape                                               *)

NadRec == [elems : Seq(ElemRec), depths : [0..MaxDepth -> Int]]
Good(m) == m \in NadRec /\ Shaped(m.elems)
With(m, fs) == [m EXCEPT !.elems = fs]

LEMMA WithGood ==
    ASSUME NEW m, Good(m), NEW fs, Shaped(fs)
    PROVE  Good(With(m, fs))
<1>1. m \in NadRec /\ fs \in Seq(ElemRec)
  BY DEF Good, Shaped
<1>2. With(m, fs) \in NadRec /\ With(m, fs).elems = fs
  BY <1>1 DEF With, NadRec
<1>3. QED
  BY <1>2 DEF Good

(* Where a nad has its elements.                                           *)
LEMMA GoodParts ==
    ASSUME NEW m, Good(m)
    PROVE  /\ m \in NadRec /\ Shaped(m.elems) /\ m.elems \in Seq(ElemRec)
           /\ Len(m.elems) \in Nat /\ DOMAIN m.elems = 1..Len(m.elems)
           /\ \A i \in 1..Len(m.elems) : m.elems[i] \in ElemRec
<1>1. Shaped(m.elems) /\ m \in NadRec
  BY DEF Good
<1>2. QED
  BY <1>1, ShapeParts DEF Shaped

LEMMA NewGood ==
    ASSUME NadAssumption
    PROVE  Good(NadNew)
<1>1. NadNew.elems = <<>> /\ NadNew \in NadRec
  BY DEF NadNew, NadRec, NadAssumption
<1>2. Shaped(<<>>)
  <2>1. Len(<<>>) = 0 /\ 2..0 = {} /\ <<>> \in Seq(ElemRec)
    OBVIOUS
  <2>2. QED
    BY <2>1 DEF Shaped
<1>3. QED
  BY <1>1, <1>2 DEF Good

LEMMA CopiedGood ==
    ASSUME NEW m, Good(m), NadAssumption
    PROVE  Good(Copied(m))
<1>1. m.elems \in Seq(ElemRec)
  BY DEF Good, NadRec
<1>2. Copied(m).elems = m.elems /\ Copied(m) \in NadRec
  BY <1>1 DEF Copied, NadNew, NadRec, NadAssumption
<1>3. QED
  BY <1>2 DEF Good

(* Attributes and text: the elements stay where they are.                  *)
LEMMA SameDepths ==
    ASSUME NEW m, Good(m), NEW e \in 1..Len(m.elems), NEW x \in ElemRec, x.depth = m.elems[e].depth
    PROVE  Good(With(m, [m.elems EXCEPT ![e] = x]))
<1>1. PICK es : es = m.elems
  OBVIOUS
<1>2. Shaped(es) /\ es \in Seq(ElemRec)
  BY <1>1, GoodParts
<1>3. PICK l : l = Len(es)
  OBVIOUS
<1>4. l \in Nat /\ DOMAIN es = 1..l /\ es \in [1..l -> ElemRec] /\ e \in 1..l
  BY <1>1, <1>2, <1>3
<1>5. PICK fs : fs = [es EXCEPT ![e] = x]
  OBVIOUS
<1>6. fs \in Seq(ElemRec) /\ Len(fs) = l /\ \A i \in 1..l : fs[i] = IF i = e THEN x ELSE es[i]
  BY <1>2, <1>3, <1>4, <1>5, ExceptSeq
<1>8. \A i \in 1..l : fs[i].depth = es[i].depth
  BY <1>1, <1>6
<1>9. Shaped(fs)
  <2>1. fs[1].depth = 0
    <3>1. es # <<>> /\ 1 \in 1..l
      BY <1>3, <1>4
    <3>2. QED
      BY <1>2, <1>8, <3>1 DEF Shaped
  <2>2. ASSUME NEW i \in 2..Len(fs) PROVE 1 <= fs[i].depth /\ fs[i].depth <= fs[i - 1].depth + 1
    <3>1. i \in 1..l /\ i - 1 \in 1..l /\ i \in 2..Len(es)
      BY <1>3, <1>4, <1>6
    <3>2. 1 <= es[i].depth /\ es[i].depth <= es[i - 1].depth + 1
      BY <1>2, <3>1 DEF Shaped
    <3>3. QED
      BY <1>8, <3>1, <3>2
  <2>3. QED
    BY <1>6, <2>1, <2>2 DEF Shaped
<1>10. Good(With(m, fs))
  BY <1>9, WithGood
<1>11. QED
  BY <1>1, <1>5, <1>10

LEMMA AttrGood ==
    ASSUME NEW m, Good(m), NEW e \in 1..Len(m.elems), NEW a \in Names
    PROVE  Good(Attr(m, e, a))
<1> DEFINE x == [m.elems[e] EXCEPT !.attrs = <<a>> \o m.elems[e].attrs]
<1>1. m \in NadRec /\ m.elems[e] \in ElemRec
  BY GoodParts
<1>2. Attr(m, e, a) = With(m, [m.elems EXCEPT ![e] = x])
  BY <1>1 DEF With, Attr, NadRec
<1>3. x \in ElemRec /\ x.depth = m.elems[e].depth
  <2>1. PICK q : q = m.elems[e].attrs
    OBVIOUS
  <2>2. q \in Seq(Names \cup {Zapped})
    BY <1>1, <2>1 DEF ElemRec
  <2>3. <<a>> \o q \in Seq(Names \cup {Zapped})
    BY <2>2
  <2>4. QED
    BY <1>1, <2>1, <2>3 DEF ElemRec
<1> HIDE DEF x
<1>4. QED
  BY <1>2, <1>3, SameDepths

LEMMA SetAttrGood ==
    ASSUME NEW m, Good(m), NEW e \in 1..Len(m.elems), NEW a \in Names
    PROVE  Good(SetAttr(m, e, a))
  BY AttrGood DEF SetAttr

LEMMA ZapAttrGood ==
    ASSUME NEW m, Good(m), NEW e \in 1..Len(m.elems), NEW a \in Names
    PROVE  Good(ZapAttr(m, e, a))
<1>1. m \in NadRec /\ m.elems[e] \in ElemRec
  BY GoodParts
<1>2. PICK k : k = FindAttr(m.elems, e, a)
  OBVIOUS
<1>3. PICK q : q = m.elems[e].attrs
  OBVIOUS
<1>4. q \in Seq(Names \cup {Zapped})
  BY <1>1, <1>3 DEF ElemRec
<1> DEFINE r == [q EXCEPT ![k] = Zapped]
           x == [m.elems[e] EXCEPT !.attrs = r]
<1>5. ZapAttr(m, e, a) = IF k = 0 THEN m ELSE With(m, [m.elems EXCEPT ![e] = x])
  BY <1>1, <1>2, <1>3 DEF ZapAttr, With, NadRec
<1>6. CASE k = 0
  BY <1>5, <1>6
<1>7. CASE k # 0
  <2>1. k \in 1..Len(q)
    <3> DEFINE hits == {j \in DOMAIN q : q[j] = a}
    <3>1. k = First(hits)
      BY <1>2, <1>3 DEF FindAttr, First
    <3>2. PICK l \in Nat : DOMAIN q = 1..l /\ l = Len(q)
      <4>1. Len(q) \in Nat /\ DOMAIN q = 1..Len(q)
        BY <1>4, SeqLen
      <4>2. QED
        BY <4>1
    <3>3. hits \in SUBSET (1..l)
      BY <3>2
    <3> HIDE DEF hits
    <3>4. k \in hits
      BY <1>7, <3>1, <3>3, FirstIs
    <3>5. QED
      BY <3>2, <3>3, <3>4
  <2>2. r \in Seq(Names \cup {Zapped})
    BY <1>4, <2>1, ExceptSeq
  <2> HIDE DEF r
  <2>3. x \in ElemRec /\ x.depth = m.elems[e].depth
    BY <1>1, <2>2 DEF ElemRec
  <2> HIDE DEF x
  <2>4. Good(With(m, [m.elems EXCEPT ![e] = x]))
    BY <2>3, SameDepths
  <2>5. QED
    BY <1>5, <1>7, <2>4
<1>8. QED
  BY <1>6, <1>7

LEMMA CdataGood ==
    ASSUME NEW m, Good(m), NEW d, Len(m.elems) # 0
    PROVE  Good(AppendCdata(m, d))
<1>1. m \in NadRec /\ Len(m.elems) \in Nat /\ DOMAIN m.elems = 1..Len(m.elems)
  BY GoodParts
<1>2. PICK l : l = Len(m.elems)
  OBVIOUS
<1>3. PICK k : k = m.depths[d]
  OBVIOUS
<1> DEFINE x == [m.elems[l] EXCEPT !.text = m.elems[l].text + 1]
           v == [m.elems[k] EXCEPT !.tail = m.elems[k].tail + 1]
<1>4. l \in 1..l /\ l \in 1..Len(m.elems)
  BY <1>1, <1>2
<1>5. Good(With(m, [m.elems EXCEPT ![l] = x]))
  <2>1. m.elems[l] \in ElemRec
    BY <1>4, GoodParts
  <2>2. x \in ElemRec /\ x.depth = m.elems[l].depth
    BY <2>1 DEF ElemRec
  <2> HIDE DEF x
  <2>3. QED
    BY <1>4, <2>2, SameDepths
<1>6. Good(With(m, [m.elems EXCEPT ![k] = v]))
  <2>1. CASE k \in 1..Len(m.elems)
    <3>1. m.elems[k] \in ElemRec
      BY <2>1, GoodParts
    <3>2. v \in ElemRec /\ v.depth = m.elems[k].depth
      BY <3>1 DEF ElemRec
    <3> HIDE DEF v
    <3>3. QED
      BY <2>1, <3>2, SameDepths
  <2>2. CASE k \notin 1..Len(m.elems)
    <3>1. [m.elems EXCEPT ![k] = v] = m.elems
      BY <1>1, <2>2 DEF NadRec
    <3>2. Shaped(m.elems)
      BY DEF Good
    <3>3. QED
      BY <3>1, <3>2, WithGood
  <2>3. QED
    BY <2>1, <2>2
<1>7. AppendCdata(m, d) = IF Depth(m.elems, l) = d - 1 THEN With(m, [m.elems EXCEPT ![l] = x])
                          ELSE With(m, [m.elems EXCEPT ![k] = v])
  BY <1>1, <1>2, <1>3 DEF AppendCdata, With, NadRec
<1>8. QED
  BY <1>5, <1>6, <1>7

(* nad_append_elem: no deeper than just below the last one.                *)
LEMMA AppendGood ==
    ASSUME NEW m, Good(m), NEW n \in Names, NEW d \in 0..MaxDepth, MaxDepth \in Nat,
           IF m.elems = <<>> THEN d = 0 ELSE d \in 1..(Depth(m.elems, Len(m.elems)) + 1)
    PROVE  Good(AppendElem(m, n, d))
<1>1. PICK es : es = m.elems
  OBVIOUS
<1>2. m \in NadRec /\ Shaped(es) /\ es \in Seq(ElemRec) /\ m.depths \in [0..MaxDepth -> Int]
  BY <1>1 DEF Good, NadRec
<1>3. PICK l : l = Len(es)
  OBVIOUS
<1>4. l \in Nat /\ DOMAIN es = 1..l
  BY <1>2, <1>3
<1>5. PICK p : p = IF d = 0 THEN 0 ELSE m.depths[d - 1]
  OBVIOUS
<1>6. p \in Int
  <2>1. d # 0 => d - 1 \in 0..MaxDepth
    OBVIOUS
  <2>2. QED
    BY <1>2, <1>5, <2>1
<1> DEFINE x == Elem(n, d, p)
           fs == Append(es, x)
           z == AppendElem(m, n, d)
           ds == [m.depths EXCEPT ![d] = l + 1]
<1>7. x \in ElemRec /\ x.depth = d
  <2>1. <<>> \in Seq(Names \cup {Zapped}) /\ d \in Nat
    OBVIOUS
  <2>2. QED
    BY <1>6, <2>1 DEF Elem, ElemRec
<1>8. z = [m EXCEPT !.elems = fs, !.depths = ds]
  BY <1>1, <1>2, <1>3, <1>5 DEF AppendElem, NadRec
<1>9. ds \in [0..MaxDepth -> Int]
  BY <1>2, <1>4
<1> HIDE DEF x
<1>10. fs \in Seq(ElemRec) /\ Len(fs) = l + 1 /\ (\A i \in 1..l : fs[i] = es[i]) /\ fs[l + 1] = x
  BY <1>2, <1>3, <1>7, AppendProperties
<1> HIDE DEF fs, ds, z
<1>11. Shaped(fs)
  <2>1. CASE l = 0
    <3>1. es = <<>>
      BY <1>2, <1>3, <2>1, EmptySeq
    <3>2. d = 0 /\ Len(fs) = 1 /\ fs[1].depth = 0 /\ 2..1 = {}
      BY <1>1, <1>7, <1>10, <2>1, <3>1
    <3>3. QED
      BY <1>10, <3>2 DEF Shaped
  <2>2. CASE l # 0
    <3>1. es # <<>> /\ 1 \in 1..l /\ l \in 1..l
      BY <1>3, <1>4, <2>2
    <3>2. PICK k : k = es[l].depth
      OBVIOUS
    <3>3. k \in Nat /\ d \in 1..(k + 1)
      <4>1. es[l] \in ElemRec
        BY <1>2, <1>3, <3>1
      <4>2. k \in Nat
        BY <3>2, <4>1 DEF ElemRec
      <4>3. Depth(m.elems, Len(m.elems)) = k /\ m.elems # <<>>
        BY <1>1, <1>3, <3>1, <3>2 DEF Depth
      <4>4. QED
        BY <4>2, <4>3
    <3>4. fs[1].depth = 0
      BY <1>2, <1>10, <3>1 DEF Shaped
    <3>5. ASSUME NEW i \in 2..Len(fs) PROVE 1 <= fs[i].depth /\ fs[i].depth <= fs[i - 1].depth + 1
      <4>1. CASE i = l + 1
        <5>1. fs[i].depth = d /\ i - 1 = l /\ fs[l].depth = k
          BY <1>4, <1>7, <1>10, <3>1, <3>2, <4>1
        <5>2. QED
          BY <3>3, <5>1
      <4>2. CASE i # l + 1
        <5>1. i \in 1..l /\ i - 1 \in 1..l /\ i \in 2..Len(es)
          BY <1>3, <1>4, <1>10, <4>2
        <5>2. 1 <= es[i].depth /\ es[i].depth <= es[i - 1].depth + 1
          BY <1>2, <5>1 DEF Shaped
        <5>3. QED
          BY <1>10, <5>1, <5>2
      <4>3. QED
        BY <4>1, <4>2
    <3>6. QED
      BY <1>10, <3>4, <3>5 DEF Shaped
  <2>3. QED
    BY <2>1, <2>2
<1>12. z \in NadRec /\ z.elems = fs
  BY <1>2, <1>8, <1>9, <1>10 DEF NadRec
<1>13. QED
  BY <1>11, <1>12 DEF Good, z

(* Sequences cut and put together.                                         *)
LEMMA SubIs ==
    ASSUME NEW S, NEW q \in Seq(S), NEW a \in 1..(Len(q) + 1), NEW b \in (a - 1)..Len(q)
    PROVE  LET r == SubSeq(q, a, b)
           IN  r \in Seq(S) /\ Len(r) = (b - a) + 1 /\ \A i \in 1..((b - a) + 1) : r[i] = q[(a + i) - 1]
<1>1. PICK l : l = Len(q)
  OBVIOUS
<1>2. l \in Nat /\ a \in Int /\ b \in Int /\ DOMAIN q = 1..l
  BY <1>1
<1>3. \A i \in a..b : i \in 1..l
  BY <1>1, <1>2
<1>4. \A i \in a..b : q[i] \in S
  BY <1>2, <1>3
<1>5. PICK r : r = SubSeq(q, a, b)
  OBVIOUS
<1>6. r \in Seq(S) /\ Len(r) = (IF a <= b THEN b - a + 1 ELSE 0) /\ \A i \in 1..(b - a + 1) : r[i] = q[a + i - 1]
  BY SMTT(30), <1>2, <1>4, <1>5, SubSeqProperties
<1>7. Len(r) = (b - a) + 1
  BY <1>1, <1>2, <1>6
<1>8. QED
  BY <1>5, <1>6, <1>7

LEMMA FunSeq ==
    ASSUME NEW S, NEW k \in Nat, NEW f \in [1..k -> S]
    PROVE  f \in Seq(S) /\ Len(f) = k
  OBVIOUS

LEMMA ShapeBy ==
    ASSUME NEW fs \in Seq(ElemRec), Len(fs) # 0 => Depth(fs, 1) = 0,
           \A i \in 1..Len(fs) : i # 1 => 1 <= Depth(fs, i) /\ Depth(fs, i) <= Depth(fs, i - 1) + 1
    PROVE  Shaped(fs)
<1>1. PICK l : l = Len(fs)
  OBVIOUS
<1>2. l \in Nat /\ (fs # <<>> => l # 0)
  BY <1>1, EmptySeq
<1>3. \A i \in 2..l : i \in 1..l /\ i # 1
  BY <1>2
<1>4. QED
  BY <1>1, <1>2, <1>3 DEF Shaped, Depth

LEMMA HeadIs ==
    ASSUME NEW S, NEW q \in Seq(S), NEW k \in 0..Len(q)
    PROVE  LET r == SubSeq(q, 1, k) IN  r \in Seq(S) /\ Len(r) = k /\ \A i \in 1..k : r[i] = q[i]
<1>1. Len(q) \in Nat
  OBVIOUS
<1>2. 1 \in 1..(Len(q) + 1) /\ k \in (1 - 1)..Len(q)
  BY <1>1
<1>3. PICK r : r = SubSeq(q, 1, k)
  OBVIOUS
<1>4. r \in Seq(S) /\ Len(r) = (k - 1) + 1 /\ \A i \in 1..((k - 1) + 1) : r[i] = q[(1 + i) - 1]
  BY <1>2, <1>3, SubIs
<1>5. k = (k - 1) + 1 /\ \A i \in 1..k : i \in 1..((k - 1) + 1) /\ (1 + i) - 1 = i
  BY <1>1
<1>6. QED
  BY <1>3, <1>4, <1>5

LEMMA TailIs ==
    ASSUME NEW S, NEW q \in Seq(S), NEW k \in 0..Len(q)
    PROVE  LET r == SubSeq(q, k + 1, Len(q))
           IN  r \in Seq(S) /\ Len(r) = Len(q) - k /\ \A i \in 1..(Len(q) - k) : r[i] = q[k + i]
<1>1. PICK l : l = Len(q)
  OBVIOUS
<1>2. l \in Nat /\ k \in 0..l
  BY <1>1
<1>3. k + 1 \in 1..(Len(q) + 1) /\ l \in ((k + 1) - 1)..Len(q)
  BY <1>1, <1>2
<1>4. PICK r : r = SubSeq(q, k + 1, l)
  OBVIOUS
<1>5. r \in Seq(S) /\ Len(r) = (l - (k + 1)) + 1 /\ \A i \in 1..((l - (k + 1)) + 1) : r[i] = q[((k + 1) + i) - 1]
  BY <1>3, <1>4, SubIs
<1>6. (l - (k + 1)) + 1 = l - k /\ \A i \in 1..(l - k) : i \in 1..((l - (k + 1)) + 1) /\ ((k + 1) + i) - 1 = k + i
  BY <1>2
<1>7. QED
  BY <1>1, <1>4, <1>5, <1>6

(* nad_insert_elem                                                         *)
LEMMA InsertGood ==
    ASSUME NEW m, Good(m), NEW p \in 1..Len(m.elems), NEW n \in Names
    PROVE  Good(InsertElem(m, p, n))
<1>1. PICK es : es = m.elems
  OBVIOUS
<1>2. PICK l : l = Len(es)
  OBVIOUS
<1>3. m \in NadRec /\ Shaped(es) /\ es \in Seq(ElemRec) /\ l \in Nat /\ p \in 1..l
  BY <1>1, <1>2, GoodParts
<1>4. /\ \A i \in 1..l : es[i] \in ElemRec /\ Depth(es, i) \in Nat
      /\ \A i \in 1..l : Depth(es, i) = 0 <=> i = 1
      /\ \A i \in 2..l : Depth(es, i) <= Depth(es, i - 1) + 1
  BY <1>2, <1>3, ShapeParts
<1>5. PICK x : x = Elem(n, Depth(es, p) + 1, p)
  OBVIOUS
<1>6. x \in ElemRec /\ x.depth = Depth(es, p) + 1
  <2>1. Depth(es, p) + 1 \in Nat /\ p \in Int /\ <<>> \in Seq(Names \cup {Zapped})
    BY <1>3, <1>4
  <2>2. QED
    BY <1>5, <2>1 DEF Elem, ElemRec
<1>7. PICK q, r, fs : q = SubSeq(es, 1, p) /\ r = SubSeq(es, p + 1, l) /\ fs = (q \o <<x>>) \o r
  OBVIOUS
<1>8. q \in Seq(ElemRec) /\ Len(q) = p /\ \A i \in 1..p : q[i] = es[i]
  <2>1. p \in 0..Len(es)
    BY <1>2, <1>3
  <2>2. QED
    BY <1>3, <1>7, <2>1, HeadIs
<1>9. r \in Seq(ElemRec) /\ Len(r) = l - p /\ \A i \in 1..(l - p) : r[i] = es[p + i]
  <2>1. p \in 0..Len(es)
    BY <1>2, <1>3
  <2>2. QED
    BY <1>2, <1>3, <1>7, <2>1, TailIs
<1>10. PICK o : o = q \o <<x>>
  OBVIOUS
<1>11. o \in Seq(ElemRec) /\ Len(o) = p + 1 /\ o[p + 1] = x /\ \A i \in 1..p : o[i] = es[i]
  <2>1. <<x>> \in Seq(ElemRec) /\ Len(<<x>>) = 1 /\ <<x>>[1] = x
    BY <1>6
  <2>2. PICK y : y = <<x>>
    OBVIOUS
  <2>3. /\ o \in Seq(ElemRec) /\ Len(o) = Len(q) + Len(y)
        /\ \A i \in 1..(Len(q) + Len(y)) : o[i] = IF i <= Len(q) THEN q[i] ELSE y[i - Len(q)]
    BY <1>8, <1>10, <2>1, <2>2, ConcatProperties
  <2>4. Len(y) = 1 /\ y[1] = x
    BY <2>1, <2>2
  <2>5. p + 1 \in 1..(p + 1) /\ ~(p + 1 <= p) /\ (p + 1) - p = 1 /\ \A i \in 1..p : i \in 1..(p + 1) /\ i <= p
    BY <1>3
  <2>6. QED
    BY <1>8, <2>3, <2>4, <2>5
<1>12. /\ fs \in Seq(ElemRec) /\ Len(fs) = l + 1
       /\ \A i \in 1..(l + 1) : fs[i] = IF i <= p THEN es[i] ELSE IF i = p + 1 THEN x ELSE es[i - 1]
  <2>1. /\ fs \in Seq(ElemRec) /\ Len(fs) = Len(o) + Len(r)
        /\ \A i \in 1..(Len(o) + Len(r)) : fs[i] = IF i <= Len(o) THEN o[i] ELSE r[i - Len(o)]
    BY <1>7, <1>9, <1>10, <1>11, ConcatProperties
  <2>2. (p + 1) + (l - p) = l + 1
    BY <1>3
  <2>3. ASSUME NEW i \in 1..(l + 1)
        PROVE  fs[i] = IF i <= p THEN es[i] ELSE IF i = p + 1 THEN x ELSE es[i - 1]
    <3>1. fs[i] = IF i <= p + 1 THEN o[i] ELSE r[i - (p + 1)]
      BY <1>9, <1>11, <2>1, <2>2
    <3>2. CASE i <= p
      <4>1. i \in 1..p /\ i <= p + 1
        BY <1>3, <3>2
      <4>2. QED
        BY <1>11, <3>1, <3>2, <4>1
    <3>3. CASE i = p + 1
      <4>1. ~(p + 1 <= p) /\ p + 1 <= p + 1
        BY <1>3
      <4>2. QED
        BY <1>11, <3>1, <3>3, <4>1
    <3>4. CASE ~(i <= p) /\ i # p + 1
      <4>1. ~(i <= p + 1) /\ i - (p + 1) \in 1..(l - p) /\ p + (i - (p + 1)) = i - 1
        BY <1>3, <3>4
      <4>2. QED
        BY <1>9, <3>1, <3>4, <4>1
    <3>5. QED
      BY <3>2, <3>3, <3>4
  <2>4. QED
    BY <1>9, <1>11, <2>1, <2>2, <2>3
<1>13. \A i \in 1..(l + 1) : Depth(fs, i) = IF i <= p THEN Depth(es, i) ELSE IF i = p + 1 THEN Depth(es, p) + 1 ELSE Depth(es, i - 1)
  BY <1>6, <1>12 DEF Depth
<1>14. Shaped(fs)
  <2>1. Depth(fs, 1) = 0
    <3>1. 1 \in 1..(l + 1) /\ 1 <= p /\ 1 \in 1..l
      BY <1>3
    <3>2. QED
      BY <1>4, <1>13, <3>1
  <2>2. ASSUME NEW i \in 1..(l + 1), i # 1
        PROVE  1 <= Depth(fs, i) /\ Depth(fs, i) <= Depth(fs, i - 1) + 1
    <3>1. i - 1 \in 1..(l + 1)
      BY <1>3, <2>2
    <3>2. CASE i <= p
      <4>1. i \in 1..l /\ i - 1 \in 1..l /\ i \in 2..l /\ i - 1 <= p
        BY <1>3, <2>2, <3>2
      <4>2. Depth(fs, i) = Depth(es, i) /\ Depth(fs, i - 1) = Depth(es, i - 1)
        BY <1>13, <3>1, <3>2, <4>1
      <4>3. QED
        BY <1>4, <2>2, <4>1, <4>2
    <3>3. CASE i = p + 1
      <4>1. i - 1 = p /\ p <= p /\ ~(i <= p)
        BY <1>3, <3>3
      <4>2. Depth(fs, i) = Depth(es, p) + 1 /\ Depth(fs, i - 1) = Depth(es, p) /\ Depth(es, p) \in Nat
        BY <1>3, <1>4, <1>13, <3>1, <3>3, <4>1
      <4>3. QED
        BY <4>2
    <3>4. CASE ~(i <= p) /\ i # p + 1
      <4>1. i - 1 \in 1..l /\ i - 1 \in 2..l /\ ~(i - 1 <= p) /\ i - 1 # 1
        BY <1>3, <3>4
      <4>2. Depth(fs, i) = Depth(es, i - 1) /\ Depth(es, i - 1) \in Nat /\ Depth(es, i - 1) # 0
        BY <1>4, <1>13, <3>4, <4>1
      <4>3. Depth(es, i - 1) <= Depth(es, (i - 1) - 1) + 1
        BY <1>4, <4>1
      <4>4. CASE i - 1 = p + 1
        <5>1. (i - 1) - 1 = p
          BY <1>3, <4>4
        <5>2. Depth(fs, i - 1) = Depth(es, p) + 1 /\ Depth(es, p) \in Nat
          BY <1>3, <1>4, <1>13, <3>1, <4>1, <4>4
        <5>3. QED
          BY <4>2, <4>3, <5>1, <5>2
      <4>5. CASE i - 1 # p + 1
        <5>1. Depth(fs, i - 1) = Depth(es, (i - 1) - 1)
          BY <1>13, <3>1, <4>1, <4>5
        <5>2. QED
          BY <4>2, <4>3, <5>1
      <4>6. QED
        BY <4>4, <4>5
    <3>5. QED
      BY <3>2, <3>3, <3>4
  <2>3. QED
    BY <1>12, <2>1, <2>2, ShapeBy
<1>15. InsertElem(m, p, n) = With(m, fs)
  <2>1. (p + 1) - 1 = p
    BY <1>3
  <2>2. InsertElem(m, p, n) = [m EXCEPT !.elems = (SubSeq(es, 1, (p + 1) - 1) \o <<x>>) \o SubSeq(es, p + 1, l)]
    BY <1>1, <1>2, <1>5 DEF InsertElem, InsertAt
  <2>3. QED
    BY <1>7, <2>1, <2>2 DEF With
<1>16. QED
  BY <1>14, <1>15, WithGood

(* Where what is below an element ends.                                    *)
LEMMA AfterIs ==
    ASSUME NEW es, Shaped(es), NEW e \in 1..Len(es)
    PROVE  LET t == After(es, e)
           IN  /\ t \in (e + 1)..(Len(es) + 1)
               /\ \A j \in (e + 1)..(t - 1) : Depth(es, j) > Depth(es, e)
               /\ t <= Len(es) => Depth(es, t) <= Depth(es, e)
<1>1. PICK l : l = Len(es)
  OBVIOUS
<1>2. l \in Nat /\ e \in 1..l /\ \A i \in 1..l : Depth(es, i) \in Nat
  BY <1>1, ShapeParts
<1> DEFINE T == {i \in (e + 1)..(l + 1) : i > l \/ Depth(es, i) <= Depth(es, e)}
<1>3. PICK t : t = After(es, e)
  OBVIOUS
<1>4. t = Min(T)
  BY <1>1, <1>3 DEF After
<1>5. l + 1 \in T /\ T \in SUBSET Nat
  BY <1>2
<1> HIDE DEF T
<1>6. t \in T /\ \A k \in T : t <= k
  BY <1>4, <1>5, MinIn
<1>7. t \in (e + 1)..(l + 1) /\ (t <= l => Depth(es, t) <= Depth(es, e))
  BY <1>2, <1>6 DEF T
<1>8. ASSUME NEW j \in (e + 1)..(t - 1) PROVE Depth(es, j) > Depth(es, e)
  <2>1. j \in (e + 1)..(l + 1) /\ j \in 1..l /\ ~(t <= j)
    BY <1>2, <1>7
  <2>2. j \notin T
    BY <1>6, <2>1
  <2>3. ~(Depth(es, j) <= Depth(es, e))
    BY <2>1, <2>2 DEF T
  <2>4. QED
    BY <1>2, <2>1, <2>3
<1>9. QED
  BY <1>1, <1>3, <1>7, <1>8

(* A new parent: nothing else of the element.                              *)
LEMMA Relinked ==
    ASSUME NEW x \in ElemRec, NEW p \in Int
    PROVE  [x EXCEPT !.parent = p] \in ElemRec /\ [x EXCEPT !.parent = p].depth = x.depth
  BY DEF ElemRec

(* nad_drop_elem                                                           *)
LEMMA DropGood ==
    ASSUME NEW m, Good(m), NEW e \in 1..Len(m.elems)
    PROVE  Good(DropElem(m, e))
<1>1. PICK es : es = m.elems
  OBVIOUS
<1>2. PICK l : l = Len(es)
  OBVIOUS
<1>3. m \in NadRec /\ Shaped(es) /\ es \in Seq(ElemRec) /\ l \in Nat /\ e \in 1..l
  BY <1>1, <1>2, GoodParts
<1>4. /\ \A i \in 1..l : es[i] \in ElemRec /\ Depth(es, i) \in Nat
      /\ \A i \in 1..l : Depth(es, i) = 0 <=> i = 1
      /\ \A i \in 2..l : Depth(es, i) <= Depth(es, i - 1) + 1
  BY <1>2, <1>3, ShapeParts
<1>5. PICK t : t = After(es, e)
  OBVIOUS
<1>6. t \in (e + 1)..(l + 1) /\ (t <= l => Depth(es, t) <= Depth(es, e))
  BY <1>2, <1>3, <1>5, AfterIs
<1> DEFINE link(x) == [x EXCEPT !.parent = IF @ > t THEN @ - (t - e) ELSE @]
<1>7. PICK q, v : q = SubSeq(es, 1, e - 1) /\ v = SubSeq(es, t, l)
  OBVIOUS
<1>8. q \in Seq(ElemRec) /\ Len(q) = e - 1 /\ \A i \in 1..(e - 1) : q[i] = es[i]
  <2>1. e - 1 \in 0..Len(es)
    BY <1>2, <1>3
  <2>2. QED
    BY <1>3, <1>7, <2>1, HeadIs
<1>9. PICK k : k = (l - t) + 1
  OBVIOUS
<1>10. v \in Seq(ElemRec) /\ Len(v) = k /\ k \in Nat /\ DOMAIN v = 1..k /\ \A i \in 1..k : v[i] = es[(t - 1) + i]
  <2>1. t - 1 \in 0..Len(es) /\ (t - 1) + 1 = t /\ l - (t - 1) = k /\ k \in Nat
    BY <1>2, <1>3, <1>6, <1>9
  <2>2. PICK u : u = t - 1
    OBVIOUS
  <2>3. v = SubSeq(es, u + 1, Len(es)) /\ u \in 0..Len(es)
    BY <1>2, <1>7, <2>1, <2>2
  <2>4. v \in Seq(ElemRec) /\ Len(v) = Len(es) - u /\ \A i \in 1..(Len(es) - u) : v[i] = es[u + i]
    BY <1>3, <2>3, TailIs
  <2>5. QED
    BY <1>2, <2>1, <2>2, <2>4
<1>11. PICK r : r = [i \in DOMAIN v |-> link(v[i])]
  OBVIOUS
<1>12. \A i \in 1..k : r[i] = link(v[i]) /\ link(v[i]) \in ElemRec /\ link(v[i]).depth = v[i].depth
  <2>1. ASSUME NEW i \in 1..k PROVE link(v[i]) \in ElemRec /\ link(v[i]).depth = v[i].depth
    <3>1. PICK y : y = v[i]
      OBVIOUS
    <3>2. y \in ElemRec /\ y.parent \in Int
      <4>1. y \in ElemRec
        BY <1>10, <3>1
      <4>2. QED
        BY <4>1 DEF ElemRec
    <3>3. PICK p : p = IF y.parent > t THEN y.parent - (t - e) ELSE y.parent
      OBVIOUS
    <3>4. p \in Int
      BY <1>3, <1>6, <3>2, <3>3
    <3>5. link(y) = [y EXCEPT !.parent = p]
      BY <3>3
    <3> HIDE DEF link
    <3>6. link(y) \in ElemRec /\ link(y).depth = y.depth
      BY <3>2, <3>4, <3>5, Relinked
    <3>7. QED
      BY <3>1, <3>6
  <2> HIDE DEF link
  <2>2. QED
    BY <1>10, <1>11, <2>1
<1>13. r \in Seq(ElemRec) /\ Len(r) = k
  <2> HIDE DEF link
  <2>1. r \in [1..k -> ElemRec]
    BY <1>10, <1>11, <1>12
  <2>2. QED
    BY <1>10, <2>1, FunSeq
<1>14. \A i \in 1..k : r[i].depth = Depth(es, (t - 1) + i)
  <2> HIDE DEF link
  <2>1. QED
    BY <1>10, <1>12 DEF Depth
<1>15. PICK fs : fs = q \o r
  OBVIOUS
<1>16. /\ fs \in Seq(ElemRec) /\ Len(fs) = (e - 1) + k
       /\ \A i \in 1..((e - 1) + k) : fs[i] = IF i <= e - 1 THEN q[i] ELSE r[i - (e - 1)]
  BY <1>8, <1>13, <1>15, ConcatProperties
<1>17. \A i \in 1..((e - 1) + k) : Depth(fs, i) = IF i <= e - 1 THEN Depth(es, i) ELSE Depth(es, (t - 1) + (i - (e - 1)))
  <2>1. ASSUME NEW i \in 1..((e - 1) + k)
        PROVE  Depth(fs, i) = IF i <= e - 1 THEN Depth(es, i) ELSE Depth(es, (t - 1) + (i - (e - 1)))
    <3>1. CASE i <= e - 1
      <4>1. i \in 1..(e - 1)
        BY <1>3, <3>1
      <4>2. fs[i] = es[i]
        BY <1>8, <1>16, <3>1, <4>1
      <4>3. QED
        BY <3>1, <4>2 DEF Depth
    <3>2. CASE ~(i <= e - 1)
      <4>1. PICK j : j = i - (e - 1)
        OBVIOUS
      <4>2. j \in 1..k
        BY <1>3, <1>10, <3>2, <4>1
      <4>3. fs[i] = r[j]
        BY <1>16, <3>2, <4>1
      <4>4. fs[i].depth = Depth(es, (t - 1) + j)
        BY <1>14, <4>2, <4>3
      <4>5. Depth(fs, i) = Depth(es, (t - 1) + j)
        BY <4>4 DEF Depth
      <4>6. QED
        BY <3>2, <4>1, <4>5
    <3>3. QED
      BY <3>1, <3>2
  <2>2. QED
    BY <2>1
<1>18. e = 1 => k = 0
  <2>1. SUFFICES ASSUME e = 1, k # 0 PROVE FALSE
    OBVIOUS
  <2>2. t \in 1..l /\ t # 1 /\ t <= l
    BY <1>3, <1>6, <1>9, <1>10, <2>1
  <2>3. Depth(es, t) \in Nat /\ Depth(es, t) # 0 /\ Depth(es, t) <= Depth(es, e) /\ Depth(es, e) = 0
    BY <1>3, <1>4, <1>6, <2>1, <2>2
  <2>4. QED
    BY <2>3
<1>19. Shaped(fs)
  <2>1. Len(fs) # 0 => Depth(fs, 1) = 0
    <3>1. SUFFICES ASSUME Len(fs) # 0 PROVE Depth(fs, 1) = 0
      OBVIOUS
    <3>2. e # 1
      BY <1>3, <1>10, <1>16, <1>18, <3>1
    <3>3. 1 \in 1..((e - 1) + k) /\ 1 <= e - 1 /\ 1 \in 1..l
      BY <1>3, <1>10, <3>2
    <3>4. QED
      BY <1>4, <1>17, <3>3
  <2>2. ASSUME NEW i \in 1..((e - 1) + k), i # 1
        PROVE  1 <= Depth(fs, i) /\ Depth(fs, i) <= Depth(fs, i - 1) + 1
    <3>1. i - 1 \in 1..((e - 1) + k)
      BY <1>3, <1>10, <2>2
    <3>2. CASE i <= e - 1
      <4>1. i \in 1..l /\ i - 1 \in 1..l /\ i \in 2..l /\ i - 1 <= e - 1
        BY <1>3, <2>2, <3>2
      <4>2. Depth(fs, i) = Depth(es, i) /\ Depth(fs, i - 1) = Depth(es, i - 1)
        BY <1>17, <3>1, <3>2, <4>1
      <4>3. QED
        BY <1>4, <2>2, <4>1, <4>2
    <3>3. CASE ~(i <= e - 1)
      <4>1. PICK j : j = (t - 1) + (i - (e - 1))
        OBVIOUS
      <4>2. j \in 1..l /\ j \in 2..l /\ j # 1 /\ j >= t
        BY <1>3, <1>6, <1>9, <1>10, <3>3, <4>1
      <4>3. Depth(fs, i) = Depth(es, j) /\ Depth(es, j) \in Nat /\ Depth(es, j) # 0
        BY <1>4, <1>17, <3>3, <4>1, <4>2
      <4>4. CASE i - 1 <= e - 1
        <5>1. j = t /\ i - 1 = e - 1 /\ t <= l /\ e \in 2..l /\ e - 1 \in 1..l
          BY <1>3, <1>6, <2>2, <3>3, <4>1, <4>2, <4>4
        <5>2. Depth(fs, i - 1) = Depth(es, e - 1) /\ Depth(es, e - 1) \in Nat
          BY <1>4, <1>17, <3>1, <4>4, <5>1
        <5>3. Depth(es, j) <= Depth(es, e) /\ Depth(es, e) <= Depth(es, e - 1) + 1 /\ Depth(es, e) \in Nat
          BY <1>3, <1>4, <1>6, <5>1
        <5>4. QED
          BY <4>3, <5>2, <5>3
      <4>5. CASE ~(i - 1 <= e - 1)
        <5>1. (t - 1) + ((i - 1) - (e - 1)) = j - 1
          BY <1>3, <1>6, <4>1
        <5>2. Depth(fs, i - 1) = Depth(es, j - 1)
          BY <1>17, <3>1, <4>5, <5>1
        <5>3. Depth(es, j) <= Depth(es, j - 1) + 1
          BY <1>4, <4>2
        <5>4. QED
          BY <4>3, <5>2, <5>3
      <4>6. QED
        BY <4>4, <4>5
    <3>4. QED
      BY <3>2, <3>3
  <2>3. QED
    BY <1>16, <2>1, <2>2, ShapeBy
<1>20. DropElem(m, e) = With(m, fs)
  <2>1. DropElem(m, e) = [m EXCEPT !.elems = SubSeq(es, 1, e - 1) \o [i \in DOMAIN v |-> link(v[i])]]
    BY <1>1, <1>2, <1>5, <1>7 DEF DropElem
  <2> HIDE DEF link
  <2>2. QED
    BY <1>7, <1>11, <1>15, <2>1 DEF With
<1>21. QED
  BY <1>19, <1>20, WithGood

(* nad_wrap_elem                                                           *)
LEMMA WrapGood ==
    ASSUME NEW m, Good(m), NEW e \in 1..Len(m.elems), NEW n \in Names
    PROVE  Good(WrapElem(m, e, n))
<1>1. PICK es : es = m.elems
  OBVIOUS
<1>2. PICK l : l = Len(es)
  OBVIOUS
<1>3. m \in NadRec /\ Shaped(es) /\ es \in Seq(ElemRec) /\ l \in Nat /\ e \in 1..l
  BY <1>1, <1>2, GoodParts
<1>4. /\ \A i \in 1..l : es[i] \in ElemRec /\ Depth(es, i) \in Nat
      /\ \A i \in 1..l : Depth(es, i) = 0 <=> i = 1
      /\ \A i \in 2..l : Depth(es, i) <= Depth(es, i - 1) + 1
  BY <1>2, <1>3, ShapeParts
<1> DEFINE deeper(i) == i = e \/ Inside(es, e, i)
           link(x) == [x EXCEPT !.parent = IF @ = 0 \/ @ >= e THEN @ + 1 ELSE @]
           put(i) == LET x == link(es[e + i - 1]) IN  IF deeper(e + i - 1) THEN [x EXCEPT !.depth = @ + 1] ELSE x
           k == (l - e) + 1
<1>5. PICK x0 : x0 = Elem(n, Depth(es, e), es[e].parent)
  OBVIOUS
<1>6. x0 \in ElemRec /\ x0.depth = Depth(es, e)
  <2>1. Depth(es, e) \in Nat /\ es[e].parent \in Int /\ <<>> \in Seq(Names \cup {Zapped})
    <3>1. es[e] \in ElemRec /\ Depth(es, e) \in Nat
      BY <1>3, <1>4
    <3>2. es[e].parent \in Int
      BY <3>1 DEF ElemRec
    <3>3. QED
      BY <3>1, <3>2
  <2>2. QED
    BY <1>5, <2>1 DEF Elem, ElemRec
<1>7. ASSUME NEW i \in 1..k
      PROVE  put(i) \in ElemRec /\ put(i).depth = IF deeper((e + i) - 1) THEN Depth(es, (e + i) - 1) + 1 ELSE Depth(es, (e + i) - 1)
  <2>1. PICK j : j = e + i - 1
    OBVIOUS
  <2>2. j \in 1..l /\ (e + i) - 1 = j
    BY <1>3, <2>1
  <2>3. PICK y : y = es[j]
    OBVIOUS
  <2>4. y \in ElemRec /\ y.depth = Depth(es, j) /\ Depth(es, j) \in Nat
    BY <1>4, <2>2, <2>3 DEF Depth
  <2>5. y.parent \in Int
    BY <2>4 DEF ElemRec
  <2>6. PICK p : p = IF y.parent = 0 \/ y.parent >= e THEN y.parent + 1 ELSE y.parent
    OBVIOUS
  <2>7. p \in Int
    BY <1>3, <2>5, <2>6
  <2>8. PICK z : z = [y EXCEPT !.parent = p]
    OBVIOUS
  <2>9. link(y) = z
    BY <2>6, <2>8
  <2>10. z \in ElemRec /\ z.depth = Depth(es, j)
    BY <2>4, <2>7, <2>8, Relinked
  <2> HIDE DEF link, deeper
  <2>11. put(i) = IF deeper(j) THEN [z EXCEPT !.depth = @ + 1] ELSE z
    BY <2>1, <2>3, <2>9
  <2>12. [z EXCEPT !.depth = @ + 1] \in ElemRec /\ [z EXCEPT !.depth = @ + 1].depth = Depth(es, j) + 1
    <3>1. PICK b : b = z.depth + 1
      OBVIOUS
    <3>2. b \in Nat /\ b = Depth(es, j) + 1
      BY <2>4, <2>10, <3>1
    <3>3. [z EXCEPT !.depth = b] \in ElemRec /\ [z EXCEPT !.depth = b].depth = b
      BY <2>10, <3>2 DEF ElemRec
    <3>4. [z EXCEPT !.depth = @ + 1] = [z EXCEPT !.depth = b]
      BY <3>1
    <3>5. QED
      BY <3>2, <3>3, <3>4
  <2> HIDE DEF put
  <2>13. QED
    BY <2>2, <2>10, <2>11, <2>12
<1>8. k \in Nat /\ k # 0 /\ l - e + 1 = k
  BY <1>3
<1>9. deeper(e) /\ \A i \in e..l : i # e /\ deeper(i) => deeper(i - 1)
  <2>1. ASSUME NEW i \in e..l, i # e, Inside(es, e, i), i - 1 # e PROVE Inside(es, e, i - 1)
    <3>1. i - 1 > e /\ \A j \in (e + 1)..(i - 1) : j \in (e + 1)..i
      BY <1>3, <2>1
    <3>2. QED
      BY <2>1, <3>1 DEF Inside
  <2>2. QED
    BY <2>1
<1> HIDE DEF deeper, link
<1>10. PICK q, r : q = SubSeq(es, 1, e - 1) /\ r = [i \in 1..k |-> put(i)]
  OBVIOUS
<1>11. q \in Seq(ElemRec) /\ Len(q) = e - 1 /\ \A i \in 1..(e - 1) : q[i] = es[i]
  <2>1. e - 1 \in 0..Len(es)
    BY <1>2, <1>3
  <2>2. QED
    BY <1>3, <1>10, <2>1, HeadIs
<1>12. WrapElem(m, e, n) = With(m, (q \o <<x0>>) \o r)
  BY ZenonT(40), <1>1, <1>2, <1>5, <1>8, <1>10 DEF WrapElem, With, deeper, link
<1> HIDE DEF put, k
<1>13. r \in Seq(ElemRec) /\ Len(r) = k /\ \A i \in 1..k : r[i] = put(i)
  <2>1. r \in [1..k -> ElemRec]
    BY <1>7, <1>10
  <2>2. QED
    BY <1>8, <1>10, <2>1, FunSeq
<1>14. PICK o : o = q \o <<x0>>
  OBVIOUS
<1>15. o \in Seq(ElemRec) /\ Len(o) = e /\ o[e] = x0 /\ \A i \in 1..(e - 1) : o[i] = es[i]
  <2>1. <<x0>> \in Seq(ElemRec) /\ Len(<<x0>>) = 1 /\ <<x0>>[1] = x0
    BY <1>6
  <2>2. PICK y : y = <<x0>>
    OBVIOUS
  <2>3. /\ o \in Seq(ElemRec) /\ Len(o) = Len(q) + Len(y)
        /\ \A i \in 1..(Len(q) + Len(y)) : o[i] = IF i <= Len(q) THEN q[i] ELSE y[i - Len(q)]
    BY <1>11, <1>14, <2>1, <2>2, ConcatProperties
  <2>4. Len(y) = 1 /\ y[1] = x0
    BY <2>1, <2>2
  <2>5. e \in 1..e /\ ~(e <= e - 1) /\ e - (e - 1) = 1 /\ (e - 1) + 1 = e /\ \A i \in 1..(e - 1) : i \in 1..e /\ i <= e - 1
    BY <1>3
  <2>6. Len(o) = e
    BY <1>11, <2>3, <2>4, <2>5
  <2>7. \A i \in 1..e : o[i] = IF i <= e - 1 THEN q[i] ELSE y[i - (e - 1)]
    <3>1. Len(q) + Len(y) = e /\ Len(q) = e - 1
      BY <1>11, <2>4, <2>5
    <3>2. QED
      BY <2>3, <3>1
  <2>8. QED
    BY <1>11, <2>3, <2>4, <2>5, <2>6, <2>7
<1>16. PICK fs : fs = o \o r
  OBVIOUS
<1>17. /\ fs \in Seq(ElemRec) /\ Len(fs) = e + k
       /\ \A i \in 1..(e + k) : fs[i] = IF i <= e THEN o[i] ELSE r[i - e]
  BY SMTT(30), <1>13, <1>15, <1>16, ConcatProperties
<1>18. \A i \in 1..e : Depth(fs, i) = Depth(es, i)
  <2>1. ASSUME NEW i \in 1..e PROVE fs[i].depth = Depth(es, i)
    <3>1. i \in 1..(e + k) /\ i <= e
      BY <1>3, <1>8
    <3>2. CASE i = e
      BY <1>6, <1>15, <1>17, <3>1, <3>2
    <3>3. CASE i # e
      <4>1. i \in 1..(e - 1)
        BY <1>3, <3>3
      <4>2. QED
        BY <1>15, <1>17, <3>1, <4>1 DEF Depth
    <3>4. QED
      BY <3>2, <3>3
  <2>2. QED
    BY <2>1 DEF Depth
<1>19. \A i \in e..l : Depth(fs, i + 1) = IF deeper(i) THEN Depth(es, i) + 1 ELSE Depth(es, i)
  <2>1. ASSUME NEW i \in e..l PROVE fs[i + 1].depth = IF deeper(i) THEN Depth(es, i) + 1 ELSE Depth(es, i)
    <3>1. PICK j : j = (i - e) + 1
      OBVIOUS
    <3>2. i + 1 \in 1..(e + k) /\ ~(i + 1 <= e) /\ (i + 1) - e = j /\ j \in 1..k /\ (e + j) - 1 = i
      BY <1>3, <3>1 DEF k
    <3>3. fs[i + 1] = put(j)
      BY <1>13, <1>17, <3>2
    <3>4. QED
      BY <1>7, <3>2, <3>3
  <2>2. QED
    BY <2>1 DEF Depth
<1>20. Shaped(fs)
  <2>1. Depth(fs, 1) = 0
    BY <1>3, <1>4, <1>18
  <2>2. ASSUME NEW i \in 1..(e + k), i # 1
        PROVE  1 <= Depth(fs, i) /\ Depth(fs, i) <= Depth(fs, i - 1) + 1
    <3>1. CASE i <= e
      <4>1. i \in 1..e /\ i - 1 \in 1..e /\ i \in 1..l /\ i - 1 \in 1..l /\ i \in 2..l
        BY <1>3, <2>2, <3>1
      <4>2. Depth(fs, i) = Depth(es, i) /\ Depth(fs, i - 1) = Depth(es, i - 1)
        BY <1>18, <4>1
      <4>3. QED
        BY <1>4, <2>2, <4>1, <4>2
    <3>2. CASE ~(i <= e)
      <4>1. PICK j : j = i - 1
        OBVIOUS
      <4>2. j \in e..l /\ j \in 1..l /\ i = j + 1
        BY <1>3, <3>2, <4>1 DEF k
      <4>3. Depth(fs, i) = (IF deeper(j) THEN Depth(es, j) + 1 ELSE Depth(es, j)) /\ Depth(es, j) \in Nat
        BY <1>4, <1>19, <4>2
      <4>4. CASE j = e
        <5>1. Depth(fs, j) = Depth(es, j) /\ Depth(fs, i) = Depth(es, j) + 1
          BY <1>3, <1>9, <1>18, <4>3, <4>4
        <5>2. QED
          BY <4>1, <4>3, <5>1
      <4>5. CASE j # e
        <5>1. PICK h : h = j - 1
          OBVIOUS
        <5>2. h \in e..l /\ h \in 1..l /\ j = h + 1 /\ j \in 2..l /\ j # 1
          BY <1>3, <4>2, <4>5, <5>1
        <5>3. Depth(fs, j) = (IF deeper(h) THEN Depth(es, h) + 1 ELSE Depth(es, h)) /\ Depth(es, h) \in Nat
          BY <1>4, <1>19, <5>2
        <5>4. (deeper(j) => deeper(h)) /\ Depth(es, j) <= Depth(es, h) + 1 /\ Depth(es, j) # 0
          BY <1>4, <1>9, <4>2, <4>5, <5>1, <5>2
        <5>5. QED
          BY <4>1, <4>3, <5>3, <5>4
      <4>6. QED
        BY <4>4, <4>5
    <3>3. QED
      BY <3>1, <3>2
  <2>3. QED
    BY <1>17, <2>1, <2>2, ShapeBy
<1>21. QED
  BY <1>12, <1>14, <1>16, <1>20, WithGood

(* nad_insert_nad                                                          *)
LEMMA GraftGood ==
    ASSUME NEW m, Good(m), NEW p \in 1..Len(m.elems), NEW s \in 1..Len(m.elems)
    PROVE  Good(InsertNad(m, p, m.elems, s))
<1>1. PICK es : es = m.elems
  OBVIOUS
<1>2. PICK l : l = Len(es)
  OBVIOUS
<1>3. m \in NadRec /\ Shaped(es) /\ es \in Seq(ElemRec) /\ l \in Nat /\ p \in 1..l /\ s \in 1..l
  BY <1>1, <1>2, GoodParts
<1>4. /\ \A i \in 1..l : es[i] \in ElemRec /\ Depth(es, i) \in Nat
      /\ \A i \in 1..l : Depth(es, i) = 0 <=> i = 1
      /\ \A i \in 2..l : Depth(es, i) <= Depth(es, i - 1) + 1
  BY <1>2, <1>3, ShapeParts
<1>5. PICK k : k = After(es, s) - s
  OBVIOUS
<1>6. /\ k \in Nat /\ k # 0 /\ s + k <= l + 1
      /\ \A i \in 1..k : (s + i) - 1 \in 1..l /\ Depth(es, (s + i) - 1) >= Depth(es, s)
  <2>1. PICK t : t = After(es, s)
    OBVIOUS
  <2>2. t \in (s + 1)..(l + 1) /\ \A j \in (s + 1)..(t - 1) : Depth(es, j) > Depth(es, s)
    BY <1>2, <1>3, <2>1, AfterIs
  <2>3. k = t - s
    BY <1>5, <2>1
  <2>4. ASSUME NEW i \in 1..k PROVE (s + i) - 1 \in 1..l /\ Depth(es, (s + i) - 1) >= Depth(es, s)
    <3>1. PICK j : j = (s + i) - 1
      OBVIOUS
    <3>2. j \in 1..l /\ (j = s \/ j \in (s + 1)..(t - 1))
      BY <1>3, <2>2, <2>3, <3>1
    <3>3. Depth(es, j) \in Nat /\ Depth(es, s) \in Nat
      BY <1>3, <1>4, <3>2
    <3>4. Depth(es, j) >= Depth(es, s)
      BY <2>2, <3>2, <3>3
    <3>5. QED
      BY <3>1, <3>2, <3>4
  <2>5. QED
    BY <1>3, <2>2, <2>3, <2>4
<1> DEFINE put(i) == LET x == es[s + i - 1]
                     IN  [x EXCEPT !.parent = p + (@ - es[s].parent),
                                   !.depth = Depth(es, p) + (@ - Depth(es, s)) + 1,
                                   !.attrs = Reverse(@)]
           link(x) == [x EXCEPT !.parent = IF @ > p THEN @ + k ELSE @]
<1>7. ASSUME NEW i \in 1..k
      PROVE  put(i) \in ElemRec /\ put(i).depth = (Depth(es, p) + (Depth(es, (s + i) - 1) - Depth(es, s))) + 1
  <2>1. PICK j : j = s + i - 1
    OBVIOUS
  <2>2. j \in 1..l /\ (s + i) - 1 = j /\ Depth(es, j) >= Depth(es, s)
    <3>1. (s + i) - 1 = j
      BY <1>3, <1>6, <2>1
    <3>2. QED
      BY <1>6, <3>1
  <2>3. PICK y : y = es[j]
    OBVIOUS
  <2>4. y \in ElemRec /\ y.depth = Depth(es, j) /\ Depth(es, j) \in Nat /\ Depth(es, s) \in Nat /\ Depth(es, p) \in Nat /\ es[s] \in ElemRec
    BY <1>3, <1>4, <2>2, <2>3 DEF Depth
  <2>5. y.parent \in Int /\ es[s].parent \in Int /\ y.attrs \in Seq(Names \cup {Zapped})
    BY <2>4 DEF ElemRec
  <2>6. PICK a, b, c : a = p + (y.parent - es[s].parent) /\ b = Depth(es, p) + (y.depth - Depth(es, s)) + 1 /\ c = Reverse(y.attrs)
    OBVIOUS
  <2>7. a \in Int
    BY <1>3, <2>5, <2>6
  <2>8. b \in Nat /\ b = (Depth(es, p) + (Depth(es, j) - Depth(es, s))) + 1
    BY <2>2, <2>4, <2>6
  <2>9. c \in Seq(Names \cup {Zapped})
    <3>1. PICK v : v = y.attrs
      OBVIOUS
    <3>2. PICK w : w = Len(v)
      OBVIOUS
    <3>3. w \in Nat /\ v \in [1..w -> Names \cup {Zapped}]
      BY <2>5, <3>1, <3>2
    <3>4. c = [h \in 1..w |-> v[(w - h) + 1]]
      BY <2>6, <3>1, <3>2 DEF Reverse
    <3>5. \A h \in 1..w : (w - h) + 1 \in 1..w
      BY <3>3
    <3>6. c \in [1..w -> Names \cup {Zapped}]
      BY <3>3, <3>4, <3>5
    <3>7. QED
      BY <3>3, <3>6, FunSeq
  <2>10. put(i) = [y EXCEPT !.parent = a, !.depth = b, !.attrs = c]
    BY <2>1, <2>3, <2>4, <2>6
  <2>11. [y EXCEPT !.parent = a, !.depth = b, !.attrs = c] \in ElemRec /\ [y EXCEPT !.parent = a, !.depth = b, !.attrs = c].depth = b
    BY <2>4, <2>7, <2>8, <2>9 DEF ElemRec
  <2> HIDE DEF put
  <2>12. QED
    BY <2>2, <2>8, <2>10, <2>11
<1>8. ASSUME NEW x \in ElemRec PROVE link(x) \in ElemRec /\ link(x).depth = x.depth
  <2>1. x.parent \in Int
    BY DEF ElemRec
  <2>2. PICK a : a = IF x.parent > p THEN x.parent + k ELSE x.parent
    OBVIOUS
  <2>3. a \in Int
    BY <1>3, <1>6, <2>1, <2>2
  <2>4. link(x) = [x EXCEPT !.parent = a]
    BY <2>2
  <2> HIDE DEF link
  <2>5. QED
    BY <2>3, <2>4, Relinked
<1>9. PICK q, c, v, r : /\ q = SubSeq(es, 1, p) /\ c = [i \in 1..k |-> put(i)]
                        /\ v = SubSeq(es, p + 1, l) /\ r = [i \in DOMAIN v |-> link(v[i])]
  OBVIOUS
<1>10. InsertNad(m, p, m.elems, s) = With(m, (q \o c) \o r)
  BY <1>1, <1>2, <1>5, <1>9 DEF InsertNad, With
<1> HIDE DEF put, link
<1>11. q \in Seq(ElemRec) /\ Len(q) = p /\ \A i \in 1..p : q[i] = es[i]
  <2>1. p \in 0..Len(es)
    BY <1>2, <1>3
  <2>2. QED
    BY <1>3, <1>9, <2>1, HeadIs
<1>12. v \in Seq(ElemRec) /\ Len(v) = l - p /\ \A i \in 1..(l - p) : v[i] = es[p + i]
  <2>1. p \in 0..Len(es)
    BY <1>2, <1>3
  <2>2. QED
    BY <1>2, <1>3, <1>9, <2>1, TailIs
<1>13. r \in Seq(ElemRec) /\ Len(r) = l - p /\ \A i \in 1..(l - p) : r[i].depth = Depth(es, p + i)
  <2>1. l - p \in Nat /\ DOMAIN v = 1..(l - p) /\ \A i \in 1..(l - p) : v[i] \in ElemRec
    BY <1>3, <1>12
  <2>2. r \in [1..(l - p) -> ElemRec] /\ \A i \in 1..(l - p) : r[i] = link(v[i])
    BY <1>8, <1>9, <2>1
  <2>3. r \in Seq(ElemRec) /\ Len(r) = l - p
    BY <2>1, <2>2, FunSeq
  <2>4. QED
    BY <1>8, <1>12, <2>1, <2>2, <2>3 DEF Depth
<1>14. c \in Seq(ElemRec) /\ Len(c) = k /\ \A i \in 1..k : c[i] = put(i)
  <2>1. c \in [1..k -> ElemRec]
    BY <1>7, <1>9
  <2>2. QED
    BY <1>6, <1>9, <2>1, FunSeq
<1>15. PICK o, fs : o = q \o c /\ fs = o \o r
  OBVIOUS
<1>16. o \in Seq(ElemRec) /\ Len(o) = p + k /\ \A i \in 1..(p + k) : o[i] = IF i <= p THEN q[i] ELSE c[i - p]
  <2>1. q \in Seq(ElemRec) /\ c \in Seq(ElemRec) /\ o = q \o c /\ Len(q) = p /\ Len(c) = k
    BY <1>11, <1>14, <1>15
  <2>2. /\ o \in Seq(ElemRec) /\ Len(o) = Len(q) + Len(c)
        /\ \A i \in 1..(Len(q) + Len(c)) : o[i] = IF i <= Len(q) THEN q[i] ELSE c[i - Len(q)]
    BY <2>1, ConcatProperties
  <2>3. QED
    BY <2>1, <2>2
<1>17. PICK w : w = (p + k) + (l - p)
  OBVIOUS
<1>18. fs \in Seq(ElemRec) /\ Len(fs) = w /\ w = l + k /\ \A i \in 1..w : fs[i] = IF i <= p + k THEN o[i] ELSE r[i - (p + k)]
  <2>1. /\ fs \in Seq(ElemRec) /\ Len(fs) = (p + k) + (l - p)
        /\ \A i \in 1..((p + k) + (l - p)) : fs[i] = IF i <= p + k THEN o[i] ELSE r[i - (p + k)]
    <3>1. /\ fs \in Seq(ElemRec) /\ Len(fs) = Len(o) + Len(r)
          /\ \A i \in 1..(Len(o) + Len(r)) : fs[i] = IF i <= Len(o) THEN o[i] ELSE r[i - Len(o)]
      <4>1. o \in Seq(ElemRec) /\ r \in Seq(ElemRec) /\ fs = o \o r
        BY <1>13, <1>15, <1>16
      <4>2. QED
        BY <4>1, ConcatProperties
    <3>2. QED
      BY <1>13, <1>16, <3>1
  <2>2. w = l + k
    BY <1>3, <1>6, <1>17
  <2>3. QED
    BY <1>17, <2>1, <2>2
<1>19. \A i \in 1..p : Depth(fs, i) = Depth(es, i)
  <2>1. ASSUME NEW i \in 1..p PROVE fs[i] = es[i]
    <3>1. i \in 1..w /\ i \in 1..(p + k) /\ i <= p + k /\ i <= p
      BY <1>3, <1>6, <1>18
    <3>2. QED
      BY <1>11, <1>16, <1>18, <3>1
  <2>2. QED
    BY <2>1 DEF Depth
<1>20. \A i \in 1..k : Depth(fs, p + i) = (Depth(es, p) + (Depth(es, (s + i) - 1) - Depth(es, s))) + 1
  <2>1. ASSUME NEW i \in 1..k PROVE fs[p + i] = put(i)
    <3>1. p + i \in 1..w /\ p + i \in 1..(p + k) /\ p + i <= p + k /\ ~(p + i <= p) /\ (p + i) - p = i
      BY <1>3, <1>6, <1>18
    <3>2. QED
      BY <1>14, <1>16, <1>18, <3>1
  <2>2. QED
    BY <1>7, <2>1 DEF Depth
<1>21. \A i \in (p + 1)..l : Depth(fs, i + k) = Depth(es, i)
  <2>1. ASSUME NEW i \in (p + 1)..l PROVE fs[i + k].depth = Depth(es, i)
    <3>1. PICK j : j = i - p
      OBVIOUS
    <3>2. i + k \in 1..w /\ ~(i + k <= p + k) /\ (i + k) - (p + k) = j /\ j \in 1..(l - p) /\ p + j = i
      <4>1. w = l + k
        BY <1>18
      <4>2. k \in Nat
        BY <1>6
      <4>3. QED
        BY <1>3, <3>1, <4>1, <4>2
    <3>3. fs[i + k] = r[j]
      BY <1>18, <3>2
    <3>4. QED
      BY <1>13, <3>2, <3>3
  <2>2. QED
    BY <2>1 DEF Depth
<1>22. Shaped(fs)
  <2>1. Depth(fs, 1) = 0
    BY <1>3, <1>4, <1>19
  <2>2. \A i \in 1..k : Depth(fs, p + i) >= Depth(es, p) + 1 /\ Depth(fs, p + i) \in Nat
    <3>1. ASSUME NEW i \in 1..k PROVE Depth(fs, p + i) >= Depth(es, p) + 1 /\ Depth(fs, p + i) \in Nat
      <4>1. PICK j : j = (s + i) - 1
        OBVIOUS
      <4>2. j \in 1..l /\ Depth(es, j) >= Depth(es, s) /\ Depth(es, j) \in Nat /\ Depth(es, s) \in Nat /\ Depth(es, p) \in Nat
        BY <1>3, <1>4, <1>6, <4>1
      <4>3. Depth(fs, p + i) = (Depth(es, p) + (Depth(es, j) - Depth(es, s))) + 1
        BY <1>20, <4>1
      <4>4. QED
        BY <4>2, <4>3
    <3>2. QED
      BY <3>1
  <2>3. ASSUME NEW i \in 1..w, i # 1
        PROVE  1 <= Depth(fs, i) /\ Depth(fs, i) <= Depth(fs, i - 1) + 1
    <3>1. CASE i <= p
      <4>1. i \in 1..p /\ i - 1 \in 1..p /\ i \in 1..l /\ i - 1 \in 1..l /\ i \in 2..l
        BY <1>3, <2>3, <3>1
      <4>2. Depth(fs, i) = Depth(es, i) /\ Depth(fs, i - 1) = Depth(es, i - 1)
        BY <1>19, <4>1
      <4>3. QED
        BY <1>4, <2>3, <4>1, <4>2
    <3>2. CASE i = p + 1
      <4>1. 1 \in 1..k /\ (s + 1) - 1 = s /\ i - 1 = p /\ p \in 1..p
        BY <1>3, <1>6, <3>2
      <4>2. Depth(fs, i) = (Depth(es, p) + (Depth(es, s) - Depth(es, s))) + 1 /\ Depth(fs, i - 1) = Depth(es, p)
        BY <1>19, <1>20, <3>2, <4>1
      <4>3. Depth(es, s) \in Nat /\ Depth(es, p) \in Nat
        BY <1>3, <1>4
      <4>4. QED
        BY <4>2, <4>3
    <3>3. CASE i > p + 1 /\ i <= p + k
      <4>1. PICK j, h : j = i - p /\ h = (s + j) - 1
        OBVIOUS
      <4>2. j \in 1..k /\ j - 1 \in 1..k /\ p + j = i /\ p + (j - 1) = i - 1 /\ (s + (j - 1)) - 1 = h - 1
        BY <1>3, <1>6, <3>3, <4>1
      <4>3. h \in 1..l /\ h - 1 \in 1..l /\ h \in 2..l
        BY <1>3, <1>6, <4>1, <4>2
      <4>4. /\ Depth(fs, i) = (Depth(es, p) + (Depth(es, h) - Depth(es, s))) + 1
            /\ Depth(fs, i - 1) = (Depth(es, p) + (Depth(es, h - 1) - Depth(es, s))) + 1
        BY <1>20, <4>1, <4>2
      <4>5. /\ Depth(es, h) <= Depth(es, h - 1) + 1 /\ Depth(es, h) \in Nat /\ Depth(es, h - 1) \in Nat
            /\ Depth(es, s) \in Nat /\ Depth(es, p) \in Nat
        BY <1>3, <1>4, <4>3
      <4>6. Depth(fs, i) >= Depth(es, p) + 1
        BY <2>2, <4>2
      <4>7. QED
        BY SMTT(30), <4>4, <4>5, <4>6
    <3>4. CASE i > p + k
      <4>1. PICK j : j = i - k
        OBVIOUS
      <4>2. j \in (p + 1)..l /\ j \in 1..l /\ j \in 2..l /\ j # 1 /\ j + k = i
        BY <1>3, <1>6, <1>18, <3>4, <4>1
      <4>3. Depth(fs, i) = Depth(es, j) /\ Depth(es, j) # 0 /\ Depth(es, j) \in Nat /\ Depth(es, j) <= Depth(es, j - 1) + 1
        BY <1>4, <1>21, <4>2
      <4>4. CASE j = p + 1
        <5>1. k \in 1..k /\ i - 1 = p + k /\ j - 1 = p
          BY <1>3, <1>6, <4>2, <4>4
        <5>2. Depth(fs, i - 1) >= Depth(es, p) + 1 /\ Depth(fs, i - 1) \in Nat /\ Depth(es, p) \in Nat
          BY <1>3, <1>4, <2>2, <5>1
        <5>3. QED
          BY <4>3, <5>1, <5>2
      <4>5. CASE j # p + 1
        <5>1. j - 1 \in (p + 1)..l /\ (j - 1) + k = i - 1
          BY <1>3, <1>6, <4>2, <4>5
        <5>2. Depth(fs, i - 1) = Depth(es, j - 1)
          BY <1>21, <5>1
        <5>3. QED
          BY <4>3, <5>2
      <4>6. QED
        BY <4>4, <4>5
    <3>5. i <= p \/ i = p + 1 \/ (i > p + 1 /\ i <= p + k) \/ i > p + k
      BY <1>3, <1>6, <1>18
    <3>6. QED
      BY <3>1, <3>2, <3>3, <3>4, <3>5
  <2>4. QED
    BY <1>18, <2>1, <2>3, ShapeBy
<1>23. QED
  BY <1>10, <1>15, <1>22, WithGood

-----------------------------------------------------------------------------
(* The theorem                                                             *)

LEMMA InitGood ==
    ASSUME Init, NadAssumption
    PROVE  Good(nad)
  BY NewGood DEF Init

LEMMA NextGood ==
    ASSUME Good(nad), [Next]_vars, NadAssumption
    PROVE  Good(nad')
<1>1. /\ Len(Es) \in Nat /\ Indices = 1..Len(nad.elems) /\ Es = nad.elems /\ MaxDepth \in Nat
      /\ (Es # <<>> => Len(nad.elems) # 0 /\ Len(nad.elems) \in 1..Len(nad.elems))
  <2>1. nad.elems \in Seq(ElemRec) /\ Len(nad.elems) \in Nat /\ DOMAIN nad.elems = 1..Len(nad.elems)
    BY GoodParts
  <2>2. nad.elems # <<>> => Len(nad.elems) # 0
    BY <2>1, EmptySeq
  <2>3. MaxDepth \in Nat
    BY DEF NadAssumption
  <2>4. QED
    BY <2>1, <2>2, <2>3 DEF Es, Indices
<1>2. ASSUME NEW n \in Names, NEW d \in 0..MaxDepth, Build(n, d) PROVE Good(nad')
  <2>1. IF nad.elems = <<>> THEN d = 0 ELSE d \in 1..(Depth(nad.elems, Len(nad.elems)) + 1)
    BY <1>1, <1>2 DEF Build
  <2>2. QED
    BY <1>1, <1>2, <2>1, AppendGood DEF Build
<1>3. ASSUME NEW a \in Names, BuildAttr(a) PROVE Good(nad')
  BY <1>1, <1>3, AttrGood DEF BuildAttr, AppendAttr
<1>4. ASSUME NEW d \in 1..MaxDepth, BuildText(d) PROVE Good(nad')
  BY <1>1, <1>4, CdataGood DEF BuildText
<1>5. CASE Finish
  BY <1>5, CopiedGood DEF Finish
<1>6. ASSUME NEW e \in Indices, NEW n \in Names, Wrap(e, n) PROVE Good(nad')
  BY <1>1, <1>6, WrapGood DEF Wrap
<1>7. ASSUME NEW e \in Indices, NEW a \in Names, EditAttr(SetAttr(nad, e, a)) \/ EditAttr(ZapAttr(nad, e, a)) PROVE Good(nad')
  BY <1>1, <1>7, SetAttrGood, ZapAttrGood DEF EditAttr
<1>8. ASSUME NEW e \in Indices, NEW n \in Names, Edit(InsertElem(nad, e, n)) PROVE Good(nad')
  BY <1>1, <1>8, InsertGood DEF Edit
<1>9. ASSUME NEW e \in Indices, Edit(DropElem(nad, e)) PROVE Good(nad')
  BY <1>1, <1>9, DropGood DEF Edit
<1>10. ASSUME NEW p \in Indices, NEW s \in Indices, Edit(InsertNad(nad, p, Es, s)) PROVE Good(nad')
  BY <1>1, <1>10, GraftGood DEF Edit
<1>11. CASE UNCHANGED vars
  BY <1>11 DEF vars
<1>12. QED
  BY <1>2, <1>3, <1>4, <1>5, <1>6, <1>7, <1>8, <1>9, <1>10, <1>11 DEF Next

(* Whatever is built, edited, wrapped, dropped or grafted, nad_find_elem   *)
(* and nad_find_elem_path, which walk the array by depth, find the first   *)
(* child, sibling or descendant that the document has, and none only if it *)
(* has none: in nads of any size and depth.                                *)
THEOREM FirstIsFound == Spec => []FindsFirst
<1>1. Init => Good(nad)
  BY InitGood, NadAssumption
<1>2. Good(nad) /\ [Next]_vars => Good(nad)'
  <2>1. SUFFICES ASSUME Good(nad), [Next]_vars PROVE Good(nad')
    BY DEF Good, Shaped
  <2>2. QED
    BY <2>1, NextGood, NadAssumption
<1>3. Good(nad) => FindsFirst
  <2>1. SUFFICES ASSUME Good(nad) PROVE FindsFirst
    OBVIOUS
  <2>2. Shaped(Es)
    BY <2>1 DEF Good, Es
  <2>3. QED
    BY <2>2, ShapeFinds, NadAssumption
<1>4. QED
  BY <1>1, <1>2, <1>3, PTL DEF Spec
-----------------------------------------------------------------------------
(* What the parser makes of tokens that follow each other                  *)

LEMMA MaxTop ==
    ASSUME NEW k \in Nat, NEW s \in SUBSET (1..(k+1)), k + 1 \in s
    PROVE  Max(s) = k + 1 /\ s \ {k + 1} \in SUBSET (1..k)
<1>1. Max(s) \in s /\ \A j \in s : j <= Max(s)
  <2>1. k + 1 \in Nat /\ s # {}
    OBVIOUS
  <2>2. QED
    BY <2>1, MaxIn
<1> DEFINE m == Max(s)
<1> HIDE DEF m
<1>2. m \in 1..(k+1) /\ k + 1 <= m
  BY <1>1 DEF m
<1>3. m = k + 1
  BY <1>2
<1>4. QED
  BY <1>3 DEF m

Run(w, toks) == FoldLeft(Reported, w, toks)
AttrsAdded(m, as) == FoldLeft(AppendAttr, m, as)

(* A report after the other, as the fold of Parse has it.                   *)
ReportIter(g, b, q, T) == g = [s \in T |-> IF s = {} THEN b ELSE Reported(g[s \ {Max(s)}], q[Max(s)])]

LEMMA ReportExists ==
    ASSUME NEW b, NEW q
    PROVE  \A n \in Nat : \E g : ReportIter(g, b, q, SUBSET (1..n))
<1> DEFINE G == {n \in Nat : \E g : ReportIter(g, b, q, SUBSET (1..n))}
<1>1. 0 \in G
  <2>1. SUBSET (1..0) = {{}}
    OBVIOUS
  <2> DEFINE g == [s \in SUBSET (1..0) |-> b]
  <2>2. ReportIter(g, b, q, SUBSET (1..0))
    BY <2>1 DEF ReportIter
  <2>3. QED
    BY <2>2
<1>2. ASSUME NEW n \in G PROVE n + 1 \in G
  <2>1. PICK g : ReportIter(g, b, q, SUBSET (1..n))
    OBVIOUS
  <2> DEFINE T == SUBSET (1..(n+1))
             h == [s \in T |-> IF n + 1 \in s THEN Reported(g[s \ {n + 1}], q[n + 1]) ELSE g[s]]
  <2>2. ASSUME NEW s \in T PROVE h[s] = IF s = {} THEN b ELSE Reported(h[s \ {Max(s)}], q[Max(s)])
    <3>1. CASE n + 1 \in s
      <4>1. Max(s) = n + 1 /\ s \ {n + 1} \in SUBSET (1..n)
        BY <3>1, MaxTop
      <4>2. h[s \ {n + 1}] = g[s \ {n + 1}]
        BY <4>1
      <4>3. QED
        BY <3>1, <4>1, <4>2
    <3>2. CASE n + 1 \notin s
      <4>1. s \in SUBSET (1..n)
        BY <3>2
      <4>2. g[s] = IF s = {} THEN b ELSE Reported(g[s \ {Max(s)}], q[Max(s)])
        BY <4>1, <2>1 DEF ReportIter
      <4>3. h[s] = g[s]
        BY <3>2
      <4>4. h[s \ {Max(s)}] = g[s \ {Max(s)}]
        BY <3>2, <4>1
      <4>5. QED
        BY <4>2, <4>3, <4>4
    <3>3. QED
      BY <3>1, <3>2
  <2>3. h = [s \in T |-> h[s]]
    OBVIOUS
  <2> HIDE DEF h, T
  <2>4. ReportIter(h, b, q, T)
    BY <2>2, <2>3 DEF ReportIter
  <2>5. QED
    BY <2>4 DEF T
<1>3. G \in SUBSET Nat
  OBVIOUS
<1> HIDE DEF G
<1>4. G = Nat
  BY <1>1, <1>2, <1>3, NatSet
<1>5. QED
  BY <1>4 DEF G

LEMMA ReportTrace ==
    ASSUME NEW b, NEW S, NEW q \in Seq(S)
    PROVE  \E e : /\ e[0] = b
                  /\ \A i \in 1..Len(q) : e[i] = Reported(e[i - 1], q[i])
                  /\ Run(b, q) = e[Len(q)]
<1> DEFINE n == Len(q)
<1>1. n \in Nat /\ DOMAIN q = 1..n
  OBVIOUS
<1> HIDE DEF n
<1> DEFINE g == CHOOSE f : ReportIter(f, b, q, SUBSET (1..n))
<1>2. ReportIter(g, b, q, SUBSET (1..n))
  BY <1>1, ReportExists
<1>3. Run(b, q) = (CHOOSE f : ReportIter(f, b, q, SUBSET DOMAIN q))[DOMAIN q]
  BY Zenon DEF Run, FoldLeft, MapThenFoldSet, ReportIter
<1>4. Run(b, q) = g[1..n]
  BY <1>1, <1>3
<1> HIDE DEF g
<1> DEFINE e == [i \in 0..n |-> g[1..i]]
<1>5. e[0] = b
  <2>1. 1..0 = {} /\ e[0] = g[1..0] /\ {} \in SUBSET (1..n)
    BY <1>1
  <2>2. QED
    BY <1>2, <2>1 DEF ReportIter
<1>6. ASSUME NEW i \in 1..n PROVE e[i] = Reported(e[i - 1], q[i])
  <2>1. i - 1 \in Nat /\ (i - 1) + 1 = i /\ i - 1 \in 0..n /\ i \in 0..n /\ i \in 1..i
    BY <1>1
  <2> DEFINE s == 1..i
  <2>2. s \in SUBSET (1..((i - 1) + 1)) /\ (i - 1) + 1 \in s
    BY <2>1
  <2>3. Max(s) = i /\ s # {}
    BY <2>1, <2>2, MaxTop
  <2>4. s \ {i} = 1..(i - 1) /\ s \in SUBSET (1..n)
    BY <1>1, <2>1
  <2> HIDE DEF s
  <2>5. g[s] = Reported(g[1..(i - 1)], q[i])
    BY <1>2, <2>3, <2>4 DEF ReportIter
  <2>6. e[i] = g[s] /\ e[i - 1] = g[1..(i - 1)]
    BY <2>1 DEF s
  <2>7. QED
    BY <2>5, <2>6
<1>7. e[n] = g[1..n]
  BY <1>1
<1> HIDE DEF e
<1>8. QED
  BY <1>4, <1>5, <1>6, <1>7 DEF n

(* An attribute after the other.                                            *)
AddIter(g, b, q, T) == g = [s \in T |-> IF s = {} THEN b ELSE AppendAttr(g[s \ {Max(s)}], q[Max(s)])]

LEMMA AddExists ==
    ASSUME NEW b, NEW q
    PROVE  \A n \in Nat : \E g : AddIter(g, b, q, SUBSET (1..n))
<1> DEFINE G == {n \in Nat : \E g : AddIter(g, b, q, SUBSET (1..n))}
<1>1. 0 \in G
  <2>1. SUBSET (1..0) = {{}}
    OBVIOUS
  <2> DEFINE g == [s \in SUBSET (1..0) |-> b]
  <2>2. AddIter(g, b, q, SUBSET (1..0))
    BY <2>1 DEF AddIter
  <2>3. QED
    BY <2>2
<1>2. ASSUME NEW n \in G PROVE n + 1 \in G
  <2>1. PICK g : AddIter(g, b, q, SUBSET (1..n))
    OBVIOUS
  <2> DEFINE T == SUBSET (1..(n+1))
             h == [s \in T |-> IF n + 1 \in s THEN AppendAttr(g[s \ {n + 1}], q[n + 1]) ELSE g[s]]
  <2>2. ASSUME NEW s \in T PROVE h[s] = IF s = {} THEN b ELSE AppendAttr(h[s \ {Max(s)}], q[Max(s)])
    <3>1. CASE n + 1 \in s
      <4>1. Max(s) = n + 1 /\ s \ {n + 1} \in SUBSET (1..n)
        BY <3>1, MaxTop
      <4>2. h[s \ {n + 1}] = g[s \ {n + 1}]
        BY <4>1
      <4>3. QED
        BY <3>1, <4>1, <4>2
    <3>2. CASE n + 1 \notin s
      <4>1. s \in SUBSET (1..n)
        BY <3>2
      <4>2. g[s] = IF s = {} THEN b ELSE AppendAttr(g[s \ {Max(s)}], q[Max(s)])
        BY <4>1, <2>1 DEF AddIter
      <4>3. h[s] = g[s]
        BY <3>2
      <4>4. h[s \ {Max(s)}] = g[s \ {Max(s)}]
        BY <3>2, <4>1
      <4>5. QED
        BY <4>2, <4>3, <4>4
    <3>3. QED
      BY <3>1, <3>2
  <2>3. h = [s \in T |-> h[s]]
    OBVIOUS
  <2> HIDE DEF h, T
  <2>4. AddIter(h, b, q, T)
    BY <2>2, <2>3 DEF AddIter
  <2>5. QED
    BY <2>4 DEF T
<1>3. G \in SUBSET Nat
  OBVIOUS
<1> HIDE DEF G
<1>4. G = Nat
  BY <1>1, <1>2, <1>3, NatSet
<1>5. QED
  BY <1>4 DEF G

LEMMA AddTrace ==
    ASSUME NEW b, NEW S, NEW q \in Seq(S)
    PROVE  \E e : /\ e[0] = b
                  /\ \A i \in 1..Len(q) : e[i] = AppendAttr(e[i - 1], q[i])
                  /\ AttrsAdded(b, q) = e[Len(q)]
<1> DEFINE n == Len(q)
<1>1. n \in Nat /\ DOMAIN q = 1..n
  OBVIOUS
<1> HIDE DEF n
<1> DEFINE g == CHOOSE f : AddIter(f, b, q, SUBSET (1..n))
<1>2. AddIter(g, b, q, SUBSET (1..n))
  BY <1>1, AddExists
<1>3. AttrsAdded(b, q) = (CHOOSE f : AddIter(f, b, q, SUBSET DOMAIN q))[DOMAIN q]
  BY Zenon DEF AttrsAdded, FoldLeft, MapThenFoldSet, AddIter
<1>4. AttrsAdded(b, q) = g[1..n]
  BY <1>1, <1>3
<1> HIDE DEF g
<1> DEFINE e == [i \in 0..n |-> g[1..i]]
<1>5. e[0] = b
  <2>1. 1..0 = {} /\ e[0] = g[1..0] /\ {} \in SUBSET (1..n)
    BY <1>1
  <2>2. QED
    BY <1>2, <2>1 DEF AddIter
<1>6. ASSUME NEW i \in 1..n PROVE e[i] = AppendAttr(e[i - 1], q[i])
  <2>1. i - 1 \in Nat /\ (i - 1) + 1 = i /\ i - 1 \in 0..n /\ i \in 0..n /\ i \in 1..i
    BY <1>1
  <2> DEFINE s == 1..i
  <2>2. s \in SUBSET (1..((i - 1) + 1)) /\ (i - 1) + 1 \in s
    BY <2>1
  <2>3. Max(s) = i /\ s # {}
    BY <2>1, <2>2, MaxTop
  <2>4. s \ {i} = 1..(i - 1) /\ s \in SUBSET (1..n)
    BY <1>1, <2>1
  <2> HIDE DEF s
  <2>5. g[s] = AppendAttr(g[1..(i - 1)], q[i])
    BY <1>2, <2>3, <2>4 DEF AddIter
  <2>6. e[i] = g[s] /\ e[i - 1] = g[1..(i - 1)]
    BY <2>1 DEF s
  <2>7. QED
    BY <2>5, <2>6
<1>7. e[n] = g[1..n]
  BY <1>1
<1> HIDE DEF e
<1>8. QED
  BY <1>4, <1>5, <1>6, <1>7 DEF n

Traced(e, w, q) == e[0] = w /\ \A i \in 1..Len(q) : e[i] = Reported(e[i - 1], q[i])

LEMMA TraceOne ==
    ASSUME NEW q, Len(q) \in Nat, NEW w, NEW e, NEW f, Traced(e, w, q), Traced(f, w, q)
    PROVE  e[Len(q)] = f[Len(q)]
<1>0. PICK n \in Nat : n = Len(q)
  OBVIOUS
<1> DEFINE G == {i \in Nat : i <= n => e[i] = f[i]}
<1>1. 0 \in G
  BY DEF Traced
<1>2. ASSUME NEW i \in G PROVE i + 1 \in G
  <2>1. CASE i + 1 <= n
    <3>1. i + 1 \in 1..n /\ (i + 1) - 1 = i /\ i <= n
      BY <2>1
    <3>2. e[i] = f[i]
      BY <3>1
    <3>3. e[i + 1] = Reported(e[i], q[i + 1]) /\ f[i + 1] = Reported(f[i], q[i + 1])
      BY <1>0, <3>1 DEF Traced
    <3>4. QED
      BY <3>2, <3>3
  <2>2. CASE ~(i + 1 <= n)
    BY <2>2
  <2>3. QED
    BY <2>1, <2>2
<1>3. G = Nat
  <2>1. G \in SUBSET Nat
    OBVIOUS
  <2> HIDE DEF G
  <2>2. QED
    BY <1>1, <1>2, <2>1, NatSet
<1>4. n \in G
  BY <1>3
<1>5. QED
  BY <1>0, <1>4

LEMMA RunIs ==
    ASSUME NEW S, NEW q \in Seq(S), NEW w, NEW e, e[0] = w,
           \A i \in 1..Len(q) : e[i] = Reported(e[i - 1], q[i])
    PROVE  Run(w, q) = e[Len(q)]
<1>1. PICK f : /\ f[0] = w
               /\ \A i \in 1..Len(q) : f[i] = Reported(f[i - 1], q[i])
               /\ Run(w, q) = f[Len(q)]
  BY ReportTrace
<1>2. Len(q) \in Nat
  OBVIOUS
<1>3. Traced(f, w, q) /\ Traced(e, w, q)
  BY <1>1 DEF Traced
<1>4. QED
  BY <1>1, <1>2, <1>3, TraceOne

LEMMA RunConcat ==
    ASSUME NEW S, NEW q \in Seq(S), NEW r \in Seq(S), NEW w
    PROVE  Run(w, q \o r) = Run(Run(w, q), r)
<1>1. PICK f : /\ f[0] = w
               /\ \A i \in 1..Len(q) : f[i] = Reported(f[i - 1], q[i])
               /\ Run(w, q) = f[Len(q)]
  BY ReportTrace
<1>2. PICK g : /\ g[0] = Run(w, q)
               /\ \A i \in 1..Len(r) : g[i] = Reported(g[i - 1], r[i])
               /\ Run(Run(w, q), r) = g[Len(r)]
  BY ReportTrace
<1> DEFINE m == Len(q)
           n == Len(r)
           p == q \o r
<1>3. m \in Nat /\ n \in Nat /\ p \in Seq(S) /\ Len(p) = m + n
      /\ (\A i \in 1..m : p[i] = q[i]) /\ \A i \in (m + 1)..(m + n) : p[i] = r[i - m]
  BY ConcatProperties
<1> HIDE DEF m, n, p
<1> DEFINE e == [i \in 0..(m + n) |-> IF i <= m THEN f[i] ELSE g[i - m]]
<1>4. e[0] = w
  BY <1>1, <1>3
<1>5. ASSUME NEW i \in 1..(m + n) PROVE e[i] = Reported(e[i - 1], p[i])
  <2>0. i \in 0..(m + n) /\ i - 1 \in 0..(m + n)
    BY <1>3
  <2>1. CASE i <= m
    <3>1. i \in 1..m /\ i - 1 <= m /\ i \in 1..Len(q)
      BY <2>1, <1>3 DEF m
    <3>2. e[i] = f[i] /\ e[i - 1] = f[i - 1] /\ p[i] = q[i]
      BY <1>3, <2>0, <2>1, <3>1
    <3>3. QED
      BY <1>1, <3>1, <3>2
  <2>2. CASE i > m
    <3>1. i - m \in 1..Len(r) /\ i \in (m + 1)..(m + n)
      BY <2>2, <1>3 DEF n
    <3>2. e[i] = g[i - m] /\ p[i] = r[i - m]
      BY <1>3, <2>0, <2>2, <3>1
    <3>3. e[i - 1] = g[(i - m) - 1]
      <4>1. CASE i = m + 1
        <5>1. i - 1 = m /\ (i - m) - 1 = 0 /\ i - 1 <= m
          BY <1>3, <4>1
        <5>2. e[i - 1] = f[m]
          BY <2>0, <5>1
        <5>3. QED
          BY <1>1, <1>2, <5>1, <5>2 DEF m
      <4>2. CASE i # m + 1
        <5>1. ~(i - 1 <= m) /\ (i - 1) - m = (i - m) - 1
          BY <1>3, <2>2, <4>2
        <5>2. QED
          BY <2>0, <5>1
      <4>3. QED
        BY <4>1, <4>2
    <3>4. QED
      BY <1>2, <3>1, <3>2, <3>3
  <2>3. QED
    BY <1>3, <2>1, <2>2
<1>6. e[m + n] = g[n]
  <2>1. m + n \in 0..(m + n) /\ (m + n) - m = n
    BY <1>3
  <2>2. CASE n = 0
    <3>1. e[m + n] = f[m] /\ g[n] = Run(w, q)
      BY <1>2, <1>3, <2>1, <2>2
    <3>2. QED
      BY <1>1, <3>1 DEF m
  <2>3. CASE n # 0
    <3>1. ~(m + n <= m)
      BY <1>3, <2>3
    <3>2. QED
      BY <2>1, <3>1
  <2>4. QED
    BY <2>2, <2>3
<1> HIDE DEF e
<1>7. Run(w, p) = e[Len(p)]
  BY <1>3, <1>4, <1>5, RunIs
<1>8. QED
  BY <1>2, <1>3, <1>6, <1>7 DEF n, p

LEMMA RunNone ==
    ASSUME NEW w
    PROVE  Run(w, <<>>) = w
<1>1. <<>> \in Seq({}) /\ Len(<<>>) = 0
  OBVIOUS
<1> DEFINE q == <<>>
<1> HIDE DEF q
<1>2. q \in Seq({}) /\ Len(q) = 0
  BY <1>1 DEF q
<1>3. PICK f : /\ f[0] = w
               /\ \A i \in 1..Len(q) : f[i] = Reported(f[i - 1], q[i])
               /\ Run(w, q) = f[Len(q)]
  BY <1>2, ReportTrace
<1>4. QED
  BY <1>2, <1>3 DEF q

LEMMA RunOne ==
    ASSUME NEW w, NEW t
    PROVE  Run(w, <<t>>) = Reported(w, t)
<1> DEFINE q == <<t>>
<1>1. q \in Seq({t}) /\ Len(q) = 1 /\ q[1] = t /\ 1 \in 1..1 /\ 1 - 1 = 0
  OBVIOUS
<1> HIDE DEF q
<1>2. PICK f : f[0] = w /\ (\A i \in 1..Len(q) : f[i] = Reported(f[i - 1], q[i])) /\ Run(w, q) = f[Len(q)]
  BY <1>1, ReportTrace
<1>3. f[1] = Reported(f[0], t)
  BY <1>1, <1>2
<1>4. QED
  BY <1>1, <1>2, <1>3 DEF q

(* Blocks of tokens, put together, are reported block by block.            *)
Flat(g, b, l) == g = [i \in 1..l |-> IF i = 1 THEN b[i] ELSE g[i - 1] \o b[i]]

LEMMA FlatExists ==
    ASSUME NEW b
    PROVE  \A l \in Nat : \E g : Flat(g, b, l)
<1> DEFINE G == {l \in Nat : \E g : Flat(g, b, l)}
<1>1. 0 \in G
  <2> DEFINE g == [i \in 1..0 |-> 0]
  <2>1. 1..0 = {}
    OBVIOUS
  <2>2. Flat(g, b, 0)
    BY <2>1 DEF Flat
  <2>3. QED
    BY <2>2
<1>2. ASSUME NEW l \in G PROVE l + 1 \in G
  <2>1. PICK g : Flat(g, b, l)
    OBVIOUS
  <2>2. l \in Nat
    OBVIOUS
  <2> DEFINE last == IF l + 1 = 1 THEN b[l + 1] ELSE g[l] \o b[l + 1]
             h == [i \in 1..(l + 1) |-> IF i = l + 1 THEN last ELSE g[i]]
  <2>3. ASSUME NEW i \in 1..(l + 1) PROVE h[i] = IF i = 1 THEN b[i] ELSE h[i - 1] \o b[i]
    <3>1. CASE i = l + 1
      <4>1. CASE l = 0
        BY <3>1, <4>1
      <4>2. CASE l # 0
        <5>1. h[l] = g[l] /\ (l + 1) - 1 = l /\ l + 1 # 1
          BY <2>2, <4>2
        <5>2. h[i] = last
          BY <3>1
        <5>3. QED
          BY <3>1, <5>1, <5>2
      <4>3. QED
        BY <4>1, <4>2
    <3>2. CASE i # l + 1
      <4>1. i \in 1..l /\ h[i] = g[i]
        BY <2>2, <3>2
      <4>2. g[i] = IF i = 1 THEN b[i] ELSE g[i - 1] \o b[i]
        BY <2>1, <4>1 DEF Flat
      <4>3. i # 1 => h[i - 1] = g[i - 1]
        BY <2>2, <4>1
      <4>4. QED
        BY <4>1, <4>2, <4>3
    <3>3. QED
      BY <3>1, <3>2
  <2>4. h = [i \in 1..(l + 1) |-> h[i]]
    OBVIOUS
  <2> HIDE DEF h
  <2>5. Flat(h, b, l + 1)
    BY <2>3, <2>4 DEF Flat
  <2>6. QED
    BY <2>2, <2>5
<1>3. G \in SUBSET Nat
  OBVIOUS
<1> HIDE DEF G
<1>4. G = Nat
  BY <1>1, <1>2, <1>3, NatSet
<1>5. QED
  BY <1>4 DEF G

Flattens(f, S, n, b) ==
    /\ f[0] = <<>>
    /\ \A i \in 0..n : f[i] \in Seq(S)
    /\ \A i \in 1..n : f[i] = f[i - 1] \o b[i]

LEMMA FlattenIs ==
    ASSUME NEW S, NEW n \in Nat, NEW b \in [1..n -> Seq(S)]
    PROVE  \E f : Flattens(f, S, n, b) /\ FlattenSeq(b) = f[n]
<1>1. Len(b) = n /\ b \in Seq(Seq(S))
  OBVIOUS
<1>2. CASE n = 0
  <2>1. b = <<>> /\ FlattenSeq(b) = b
    BY <1>1, <1>2 DEF FlattenSeq
  <2> DEFINE f == [i \in 0..0 |-> <<>>]
  <2>2. f[0] = <<>> /\ <<>> \in Seq(S) /\ 0..n = {0} /\ 1..n = {}
    BY <1>2
  <2> HIDE DEF f
  <2>3. QED
    BY <1>2, <2>1, <2>2 DEF Flattens
<1>3. CASE n # 0
  <2> DEFINE g == CHOOSE h : Flat(h, b, n)
  <2>1. Flat(g, b, n)
    BY FlatExists
  <2>2. FlattenSeq(b) = (CHOOSE h : Flat(h, b, Len(b)))[Len(b)]
    BY <1>1, <1>3, Zenon DEF FlattenSeq, Flat
  <2>3. FlattenSeq(b) = g[n]
    BY <1>1, <2>2
  <2> HIDE DEF g
  <2> DEFINE f == [i \in 0..n |-> IF i = 0 THEN <<>> ELSE g[i]]
  <2>4. f[0] = <<>> /\ FlattenSeq(b) = f[n]
    BY <1>3, <2>3
  <2>5. ASSUME NEW i \in 1..n PROVE f[i] = IF i = 1 THEN b[i] ELSE f[i - 1] \o b[i]
    <3>1. g[i] = IF i = 1 THEN b[i] ELSE g[i - 1] \o b[i]
      BY <2>1 DEF Flat
    <3>2. f[i] = g[i] /\ (i # 1 => f[i - 1] = g[i - 1])
      OBVIOUS
    <3>3. QED
      BY <3>1, <3>2
  <2> HIDE DEF f
  <2> DEFINE G == {i \in Nat : i <= n => f[i] \in Seq(S)}
  <2>6. 0 \in G
    <3>1. <<>> \in Seq(S)
      OBVIOUS
    <3>2. QED
      BY <2>4, <3>1
  <2>7. ASSUME NEW i \in G PROVE i + 1 \in G
    <3>1. CASE i + 1 <= n
      <4>1. i + 1 \in 1..n /\ (i + 1) - 1 = i /\ f[i] \in Seq(S) /\ b[i + 1] \in Seq(S)
        BY <3>1
      <4>2. f[i + 1] = b[i + 1] \/ f[i + 1] = f[i] \o b[i + 1]
        BY <2>5, <4>1
      <4>3. f[i] \o b[i + 1] \in Seq(S)
        BY <4>1
      <4>4. f[i + 1] \in Seq(S)
        BY <4>1, <4>2, <4>3
      <4>5. QED
        BY <4>4
    <3>2. CASE ~(i + 1 <= n)
      BY <3>2
    <3>3. QED
      BY <3>1, <3>2
  <2>8. \A i \in 0..n : f[i] \in Seq(S)
    <3>1. G \in SUBSET Nat
      OBVIOUS
    <3>2. G = Nat
      <4> HIDE DEF G
      <4>1. QED
        BY <2>6, <2>7, <3>1, NatSet
    <3>3. QED
      BY <3>2
  <2>9. ASSUME NEW i \in 1..n PROVE f[i] = f[i - 1] \o b[i]
    <3>1. CASE i = 1
      <4>1. i - 1 = 0 /\ b[i] \in Seq(S)
        BY <3>1
      <4>2. <<>> \o b[i] = b[i]
        BY <4>1
      <4>3. QED
        BY <2>4, <2>5, <3>1, <4>1, <4>2
    <3>2. CASE i # 1
      BY <2>5, <3>2
    <3>3. QED
      BY <3>1, <3>2
  <2>10. Flattens(f, S, n, b)
    BY <2>4, <2>8, <2>9 DEF Flattens
  <2>11. QED
    BY <2>4, <2>10
<1>4. QED
  BY <1>2, <1>3

(* What each block of tokens makes of the parser.                          *)
Trail(r, w, b, n) == r[0] = w /\ Run(w, FlattenSeq(b)) = r[n] /\ \A i \in 1..n : r[i] = Run(r[i - 1], b[i])

LEMMA RunFlat ==
    ASSUME NEW S, NEW n \in Nat, NEW b \in [1..n -> Seq(S)], NEW w
    PROVE  \E r : Trail(r, w, b, n)
<1>1. PICK f : Flattens(f, S, n, b) /\ FlattenSeq(b) = f[n]
  BY FlattenIs
<1> DEFINE r == [i \in 0..n |-> Run(w, f[i])]
<1>2. r[0] = w /\ Run(w, FlattenSeq(b)) = r[n]
  <2>1. 0 \in 0..n /\ n \in 0..n
    OBVIOUS
  <2>2. QED
    BY <1>1, <2>1, RunNone DEF Flattens
<1>3. ASSUME NEW i \in 1..n PROVE r[i] = Run(r[i - 1], b[i])
  <2>0. i \in 0..n /\ i - 1 \in 0..n /\ b[i] \in Seq(S)
    OBVIOUS
  <2>1. f[i - 1] \in Seq(S) /\ f[i] = f[i - 1] \o b[i]
    BY <1>1, <2>0, Zenon DEF Flattens
  <2>2. Run(w, f[i - 1] \o b[i]) = Run(Run(w, f[i - 1]), b[i])
    BY <2>0, <2>1, RunConcat
  <2>3. QED
    BY <2>0, <2>1, <2>2
<1> HIDE DEF r
<1>4. QED
  BY <1>2, <1>3 DEF Trail

LEMMA FlattenSeqIn ==
    ASSUME NEW S, NEW n \in Nat, NEW b \in [1..n -> Seq(S)]
    PROVE  FlattenSeq(b) \in Seq(S)
<1>1. PICK f : Flattens(f, S, n, b) /\ FlattenSeq(b) = f[n]
  BY FlattenIs
<1>2. n \in 0..n
  OBVIOUS
<1>3. QED
  BY <1>1, <1>2 DEF Flattens
-----------------------------------------------------------------------------
(* One token                                                               *)

ParseRec == [nad : NadRec, depth : Int]
Tokens ==
    [kind : {"end", "text"}] \cup [kind : {"start"}, name : Names, attrs : SUBSET Names]

(* The parser with another element in place of one of its nad.             *)
Put(w, k, x) == [w EXCEPT !.nad = With(w.nad, [w.nad.elems EXCEPT ![k] = x])]

Replaced(z, w, k, x) ==
    /\ z \in ParseRec /\ z.depth = w.depth /\ z.nad.depths = w.nad.depths
    /\ Len(z.nad.elems) = Len(w.nad.elems)
    /\ \A j \in 1..Len(w.nad.elems) : z.nad.elems[j] = IF j = k THEN x ELSE w.nad.elems[j]

LEMMA PutParts ==
    ASSUME NEW w \in ParseRec, NEW k \in 1..Len(w.nad.elems), NEW x \in ElemRec
    PROVE  Replaced(Put(w, k, x), w, k, x)
<1>1. PICK m \in NadRec : m = w.nad
  BY DEF ParseRec
<1>2. PICK es \in Seq(ElemRec) : es = m.elems
  BY DEF NadRec
<1>3. PICK fs : fs = [es EXCEPT ![k] = x]
  OBVIOUS
<1>4. fs \in Seq(ElemRec) /\ Len(fs) = Len(es) /\ \A j \in 1..Len(es) : fs[j] = IF j = k THEN x ELSE es[j]
  BY <1>1, <1>2, <1>3, ExceptSeq
<1>5. PICK z : z = With(m, fs)
  OBVIOUS
<1>6. z \in NadRec /\ z.elems = fs /\ z.depths = m.depths
  BY <1>4, <1>5 DEF With, NadRec
<1>7. Put(w, k, x) = [w EXCEPT !.nad = z]
  BY <1>1, <1>2, <1>3, <1>5 DEF Put
<1>8. [w EXCEPT !.nad = z] \in ParseRec /\ [w EXCEPT !.nad = z].depth = w.depth /\ [w EXCEPT !.nad = z].nad = z
  BY <1>6 DEF ParseRec
<1>9. QED
  BY <1>1, <1>2, <1>4, <1>6, <1>7, <1>8 DEF Replaced

LEMMA PutPut ==
    ASSUME NEW w \in ParseRec, NEW k \in 1..Len(w.nad.elems), NEW x \in ElemRec, NEW y \in ElemRec
    PROVE  Put(Put(w, k, x), k, y) = Put(w, k, y)
<1>1. PICK m \in NadRec : m = w.nad
  BY DEF ParseRec
<1>2. PICK es \in Seq(ElemRec) : es = m.elems
  BY DEF NadRec
<1>3. [[es EXCEPT ![k] = x] EXCEPT ![k] = y] = [es EXCEPT ![k] = y]
  OBVIOUS
<1>4. PICK fs : fs = [es EXCEPT ![k] = x]
  OBVIOUS
<1>5. PICK gs : gs = [es EXCEPT ![k] = y]
  OBVIOUS
<1>6. [fs EXCEPT ![k] = y] = gs
  BY <1>3, <1>4, <1>5
<1>7. With(m, fs).elems = fs /\ With(With(m, fs), gs) = With(m, gs)
  BY DEF With, NadRec
<1>8. PICK z : z = With(m, fs)
  OBVIOUS
<1>9. PICK v : v = [w EXCEPT !.nad = z]
  OBVIOUS
<1>10. v.nad = z /\ \A u : [v EXCEPT !.nad = u] = [w EXCEPT !.nad = u]
  BY <1>9 DEF ParseRec
<1>11. Put(w, k, x) = v
  BY <1>1, <1>2, <1>4, <1>8, <1>9 DEF Put
<1>12. Put(v, k, y) = [v EXCEPT !.nad = With(z, gs)]
  BY <1>6, <1>7, <1>8, <1>10 DEF Put
<1>13. Put(w, k, y) = [w EXCEPT !.nad = With(m, gs)]
  BY <1>1, <1>2, <1>5 DEF Put
<1>14. QED
  BY <1>7, <1>8, <1>10, <1>11, <1>12, <1>13

LEMMA PutSame ==
    ASSUME NEW w \in ParseRec, NEW k \in 1..Len(w.nad.elems)
    PROVE  Put(w, k, w.nad.elems[k]) = w
<1>1. PICK m \in NadRec : m = w.nad
  BY DEF ParseRec
<1>2. PICK es \in Seq(ElemRec) : es = m.elems
  BY DEF NadRec
<1>3. [es EXCEPT ![k] = es[k]] = es
  OBVIOUS
<1>4. With(m, es) = m
  BY <1>2 DEF With, NadRec
<1>5. [w EXCEPT !.nad = m] = w
  BY <1>1 DEF ParseRec
<1>6. QED
  BY <1>1, <1>2, <1>3, <1>4, <1>5 DEF Put

(* n pieces of text more, in an element or on its tail.                    *)
InText(x, n) == [x EXCEPT !.text = x.text + n]
OnTail(x, n) == [x EXCEPT !.tail = x.tail + n]

LEMMA TextIs ==
    ASSUME NEW x \in ElemRec, NEW n \in Nat
    PROVE  /\ InText(x, n) \in ElemRec /\ OnTail(x, n) \in ElemRec
           /\ InText(x, n).depth = x.depth /\ OnTail(x, n).depth = x.depth
           /\ InText(InText(x, n), 1) = InText(x, n + 1) /\ OnTail(OnTail(x, n), 1) = OnTail(x, n + 1)
           /\ InText(x, 0) = x /\ OnTail(x, 0) = x
<1>1. InText(x, n) \in ElemRec /\ OnTail(x, n) \in ElemRec /\ InText(x, n).depth = x.depth /\ OnTail(x, n).depth = x.depth
  BY DEF InText, OnTail, ElemRec
<1>2. InText(InText(x, n), 1) = InText(x, n + 1) /\ OnTail(OnTail(x, n), 1) = OnTail(x, n + 1)
  <2>1. PICK t \in Nat : t = x.text + n
    BY DEF ElemRec
  <2>2. PICK u \in Nat : u = x.tail + n
    BY DEF ElemRec
  <2>3. x.text + (n + 1) = t + 1 /\ x.tail + (n + 1) = u + 1
    BY <2>1, <2>2 DEF ElemRec
  <2>4. [x EXCEPT !.text = t].text = t /\ [x EXCEPT !.tail = u].tail = u
    BY DEF ElemRec
  <2>5. [[x EXCEPT !.text = t] EXCEPT !.text = t + 1] = [x EXCEPT !.text = t + 1]
    BY DEF ElemRec
  <2>6. [[x EXCEPT !.tail = u] EXCEPT !.tail = u + 1] = [x EXCEPT !.tail = u + 1]
    BY DEF ElemRec
  <2>7. QED
    BY <2>1, <2>2, <2>3, <2>4, <2>5, <2>6 DEF InText, OnTail
<1>3. InText(x, 0) = x /\ OnTail(x, 0) = x
  BY DEF InText, OnTail, ElemRec
<1>4. QED
  BY <1>1, <1>2, <1>3

LEMMA OneText ==
    ASSUME NEW w \in ParseRec, Len(w.nad.elems) # 0
    PROVE  Reported(w, Token("text")) =
             LET l == Len(w.nad.elems)
                 k == w.nad.depths[w.depth]
             IN  IF Depth(w.nad.elems, l) = w.depth - 1 THEN Put(w, l, InText(w.nad.elems[l], 1))
                 ELSE Put(w, k, OnTail(w.nad.elems[k], 1))
<1>1. PICK m \in NadRec : m = w.nad
  BY DEF ParseRec
<1>2. PICK d \in Int : d = w.depth
  BY DEF ParseRec
<1>3. PICK es \in Seq(ElemRec) : es = m.elems
  BY DEF NadRec
<1>4. Token("text").kind = "text" /\ "text" # "end"
  BY DEF Token
<1>5. Reported(w, Token("text")) = [w EXCEPT !.nad = AppendCdata(w.nad, w.depth)]
  BY <1>4 DEF Reported
<1>6. Len(m.elems) = Len(es)
  BY <1>3
<1>7. PICK k : k = m.depths[d]
  OBVIOUS
<1>8. PICK l \in 1..Len(es) : l = Len(es)
  BY <1>1, <1>3
<1>9. AppendCdata(m, d) = IF Depth(es, l) = d - 1 THEN With(m, [es EXCEPT ![l] = InText(es[l], 1)])
                          ELSE With(m, [es EXCEPT ![k] = OnTail(es[k], 1)])
  BY <1>3, <1>7, <1>8 DEF AppendCdata, With, NadRec, InText, OnTail
<1>10. QED
  BY <1>1, <1>2, <1>3, <1>5, <1>7, <1>8, <1>9 DEF Put

LEMMA TextsIn ==
    ASSUME NEW n \in Nat
    PROVE  /\ Texts(n) \in Seq(Tokens) /\ Len(Texts(n)) = n
           /\ \A i \in 1..n : Texts(n)[i] = Token("text")
<1>1. Token("text") \in Tokens
  BY DEF Token, Tokens
<1>2. QED
  BY <1>1 DEF Texts

LEMMA ManyInText ==
    ASSUME NEW w \in ParseRec, NEW n \in Nat, NEW l \in 1..Len(w.nad.elems), l = Len(w.nad.elems),
           Depth(w.nad.elems, l) = w.depth - 1
    PROVE  Run(w, Texts(n)) = Put(w, l, InText(w.nad.elems[l], n))
<1>1. PICK x \in ElemRec : x = w.nad.elems[l]
  BY DEF ParseRec, NadRec
<1> DEFINE e == [i \in 0..n |-> Put(w, l, InText(x, i))]
<1>2. e[0] = w
  <2>1. e[0] = Put(w, l, InText(x, 0)) /\ InText(x, 0) = x
    BY TextIs
  <2>2. QED
    BY <1>1, <2>1, PutSame
<1>3. ASSUME NEW i \in 1..n PROVE e[i] = Reported(e[i - 1], Texts(n)[i])
  <2>1. i - 1 \in Nat /\ (i - 1) + 1 = i /\ i - 1 \in 0..n /\ i \in 0..n
    OBVIOUS
  <2>2. PICK y : y = InText(x, i - 1)
    OBVIOUS
  <2>3. y \in ElemRec /\ y.depth = x.depth /\ InText(y, 1) = InText(x, i) /\ InText(y, 1) \in ElemRec
    <3>1. y \in ElemRec /\ y.depth = x.depth /\ InText(y, 1) = InText(x, (i - 1) + 1)
      BY <2>1, <2>2, TextIs
    <3>2. InText(y, 1) \in ElemRec
      BY <3>1, TextIs
    <3>3. QED
      BY <2>1, <3>1, <3>2
  <2>4. PICK v : v = Put(w, l, y)
    OBVIOUS
  <2>5. v \in ParseRec /\ v.depth = w.depth /\ Len(v.nad.elems) = l /\ v.nad.elems[l] = y /\ l # 0
    BY <2>3, <2>4, PutParts DEF Replaced
  <2>6. Depth(v.nad.elems, l) = v.depth - 1
    BY <1>1, <2>3, <2>5 DEF Depth
  <2>7. Reported(v, Token("text")) = Put(v, l, InText(y, 1))
    BY <2>5, <2>6, OneText
  <2>8. Put(v, l, InText(y, 1)) = Put(w, l, InText(y, 1))
    BY <2>3, <2>4, PutPut
  <2>9. e[i] = Put(w, l, InText(x, i)) /\ e[i - 1] = v
    BY <2>1, <2>2, <2>4
  <2>10. Texts(n)[i] = Token("text")
    BY TextsIn
  <2>11. QED
    BY <2>3, <2>7, <2>8, <2>9, <2>10
<1>4. e[n] = Put(w, l, InText(w.nad.elems[l], n))
  BY <1>1
<1> HIDE DEF e
<1>5. Texts(n) \in Seq(Tokens) /\ Len(Texts(n)) = n
  BY TextsIn
<1>6. QED
  BY <1>2, <1>3, <1>4, <1>5, RunIs

LEMMA ManyOnTail ==
    ASSUME NEW w \in ParseRec, NEW n \in Nat, NEW k \in 1..Len(w.nad.elems), k = w.nad.depths[w.depth],
           Depth(w.nad.elems, Len(w.nad.elems)) # w.depth - 1
    PROVE  Run(w, Texts(n)) = Put(w, k, OnTail(w.nad.elems[k], n))
<1>0. PICK l \in 1..Len(w.nad.elems) : l = Len(w.nad.elems)
  BY DEF ParseRec, NadRec
<1>1. PICK x \in ElemRec : x = w.nad.elems[k]
  BY DEF ParseRec, NadRec
<1> DEFINE e == [i \in 0..n |-> Put(w, k, OnTail(x, i))]
<1>2. e[0] = w
  <2>1. e[0] = Put(w, k, OnTail(x, 0)) /\ OnTail(x, 0) = x
    BY TextIs
  <2>2. QED
    BY <1>1, <2>1, PutSame
<1>3. ASSUME NEW i \in 1..n PROVE e[i] = Reported(e[i - 1], Texts(n)[i])
  <2>1. i - 1 \in Nat /\ (i - 1) + 1 = i /\ i - 1 \in 0..n /\ i \in 0..n
    OBVIOUS
  <2>2. PICK y : y = OnTail(x, i - 1)
    OBVIOUS
  <2>3. y \in ElemRec /\ y.depth = x.depth /\ OnTail(y, 1) = OnTail(x, i) /\ OnTail(y, 1) \in ElemRec
    <3>1. y \in ElemRec /\ y.depth = x.depth /\ OnTail(y, 1) = OnTail(x, (i - 1) + 1)
      BY <2>1, <2>2, TextIs
    <3>2. OnTail(y, 1) \in ElemRec
      BY <3>1, TextIs
    <3>3. QED
      BY <2>1, <3>1, <3>2
  <2>4. PICK v : v = Put(w, k, y)
    OBVIOUS
  <2>5. /\ v \in ParseRec /\ v.depth = w.depth /\ v.nad.depths = w.nad.depths
        /\ Len(v.nad.elems) = l /\ v.nad.elems[k] = y /\ l # 0
        /\ v.nad.elems[l] = IF l = k THEN y ELSE w.nad.elems[l]
    <3>1. /\ v \in ParseRec /\ v.depth = w.depth /\ v.nad.depths = w.nad.depths
          /\ Len(v.nad.elems) = Len(w.nad.elems)
          /\ \A j \in 1..Len(w.nad.elems) : v.nad.elems[j] = IF j = k THEN y ELSE w.nad.elems[j]
      BY <2>3, <2>4, PutParts DEF Replaced
    <3>2. QED
      BY <1>0, <3>1
  <2>6. Depth(v.nad.elems, l) # v.depth - 1
    <3>1. v.nad.elems[l].depth = w.nad.elems[l].depth
      BY <1>1, <2>3, <2>5
    <3>2. QED
      BY <1>0, <2>5, <3>1 DEF Depth
  <2>7. Reported(v, Token("text")) = Put(v, k, OnTail(y, 1))
    BY <2>5, <2>6, OneText
  <2>8. Put(v, k, OnTail(y, 1)) = Put(w, k, OnTail(y, 1))
    BY <2>3, <2>4, PutPut
  <2>9. e[i] = Put(w, k, OnTail(x, i)) /\ e[i - 1] = v
    BY <2>1, <2>2, <2>4
  <2>10. Texts(n)[i] = Token("text")
    BY TextsIn
  <2>11. QED
    BY <2>3, <2>7, <2>8, <2>9, <2>10
<1>4. e[n] = Put(w, k, OnTail(w.nad.elems[k], n))
  BY <1>1
<1> HIDE DEF e
<1>5. Texts(n) \in Seq(Tokens) /\ Len(Texts(n)) = n
  BY TextsIn
<1>6. QED
  BY <1>2, <1>3, <1>4, <1>5, RunIs
-----------------------------------------------------------------------------
(* The attributes of an element that starts                                *)

(* A list made of a finite set has each of its members.                    *)
LEMMA SetSeq ==
    ASSUME NEW S, IsFiniteSet(S)
    PROVE  /\ SetToSeq(S) \in Seq(S)
           /\ \A x \in S : \E i \in DOMAIN SetToSeq(S) : SetToSeq(S)[i] = x
<1> DEFINE n == Cardinality(S)
<1>1. n \in Nat /\ ExistsBijection(1..n, S)
  BY FS_CardinalityType
<1> HIDE DEF n
<1>2. PICK g : g \in Bijection(1..n, S)
  BY <1>1 DEF ExistsBijection
<1>3. g \in [1..n -> S] /\ IsInjective(g)
  BY <1>2 DEF Bijection, Injection, IsInjective
<1> DEFINE f == SetToSeq(S)
<1>4. f \in [1..n -> S] /\ IsInjective(f)
  BY <1>3 DEF SetToSeq, n
<1> HIDE DEF f
<1>5. f \in Injection(1..n, S)
  BY <1>4 DEF Injection, IsInjective
<1>6. IsFiniteSet(1..n) /\ Cardinality(1..n) = n
  <2>1. 1 \in Int /\ n \in Int
    BY <1>1
  <2>2. IsFiniteSet(1..n) /\ Cardinality(1..n) = IF 1 > n THEN 0 ELSE n - 1 + 1
    BY <2>1, FS_Interval
  <2>3. QED
    BY <1>1, <2>2
<1>7. f \in Surjection(1..n, S)
  BY <1>5, <1>6, FS_Injection DEF n
<1>8. f \in Seq(S) /\ DOMAIN f = 1..n
  BY <1>1, <1>4
<1>9. \A x \in S : \E i \in 1..n : f[i] = x
  BY <1>7 DEF Surjection
<1>10. QED
  BY <1>8, <1>9 DEF f

AttrList == Seq(Names \cup {Zapped})

LEMMA MoreAttrs ==
    ASSUME NEW y \in AttrList, NEW a \in Names
    PROVE  <<a>> \o y \in AttrList /\ ToSet(<<a>> \o y) = {a} \cup ToSet(y)
<1>1. y \in Seq(Names \cup {Zapped}) /\ <<a>> \in Seq(Names \cup {Zapped}) /\ Len(<<a>>) = 1 /\ <<a>>[1] = a
  BY DEF AttrList
<1> DEFINE p == <<a>> \o y
<1>2. /\ p \in Seq(Names \cup {Zapped}) /\ Len(p) = 1 + Len(y) /\ Len(y) \in Nat /\ DOMAIN y = 1..Len(y)
      /\ (\A i \in 1..1 : p[i] = <<a>>[i]) /\ \A i \in 2..(1 + Len(y)) : p[i] = y[i - 1]
  BY <1>1, ConcatProperties
<1> HIDE DEF p
<1>3. DOMAIN p = 1..(1 + Len(y)) /\ p[1] = a
  BY <1>1, <1>2
<1>4. ASSUME NEW z PROVE z \in ToSet(p) <=> z = a \/ z \in ToSet(y)
  <2>1. ASSUME NEW i \in 1..(1 + Len(y)), z = p[i] PROVE z = a \/ z \in ToSet(y)
    <3>1. CASE i = 1
      BY <1>3, <2>1, <3>1
    <3>2. CASE i # 1
      <4>1. i - 1 \in 1..Len(y) /\ i \in 2..(1 + Len(y))
        BY <1>2, <3>2
      <4>2. z = y[i - 1]
        BY <1>2, <2>1, <4>1
      <4>3. QED
        BY <1>2, <4>1, <4>2 DEF ToSet
    <3>3. QED
      BY <3>1, <3>2
  <2>2. ASSUME NEW i \in 1..Len(y), z = y[i] PROVE z \in ToSet(p)
    <3>1. i + 1 \in 2..(1 + Len(y)) /\ (i + 1) - 1 = i /\ i + 1 \in 1..(1 + Len(y))
      BY <1>2
    <3>2. z = p[i + 1]
      BY <1>2, <2>2, <3>1
    <3>3. QED
      BY <1>3, <3>1, <3>2 DEF ToSet
  <2>3. a \in ToSet(p)
    <3>1. 1 \in 1..(1 + Len(y))
      BY <1>2
    <3>2. QED
      BY <1>3, <3>1 DEF ToSet
  <2>4. z \in ToSet(p) => \E i \in 1..(1 + Len(y)) : z = p[i]
    BY <1>3 DEF ToSet
  <2>5. z \in ToSet(y) => \E i \in 1..Len(y) : z = y[i]
    BY <1>2 DEF ToSet
  <2>6. QED
    BY <2>1, <2>2, <2>3, <2>4, <2>5
<1>5. ToSet(p) = {a} \cup ToSet(y)
  BY <1>4
<1>6. QED
  BY <1>2, <1>5 DEF p, AttrList

(* The nad with y as the attributes of its element l.                      *)
Carrying(m, l, y) == With(m, [m.elems EXCEPT ![l] = [m.elems[l] EXCEPT !.attrs = y]])

LEMMA OneAttr ==
    ASSUME NEW m \in NadRec, NEW l \in 1..Len(m.elems), l = Len(m.elems), NEW y \in AttrList, NEW a \in Names
    PROVE  AppendAttr(Carrying(m, l, y), a) = Carrying(m, l, <<a>> \o y)
<1>1. PICK es \in Seq(ElemRec) : es = m.elems
  BY DEF NadRec
<1>2. PICK x \in ElemRec : x = es[l]
  BY <1>1
<1>3. PICK v : v = [x EXCEPT !.attrs = y]
  OBVIOUS
<1>4. PICK q : q = <<a>> \o y
  OBVIOUS
<1>5. v \in ElemRec /\ v.attrs = y /\ [v EXCEPT !.attrs = q] = [x EXCEPT !.attrs = q]
  BY <1>3 DEF ElemRec, AttrList
<1>6. PICK fs : fs = [es EXCEPT ![l] = v]
  OBVIOUS
<1>7. fs[l] = v /\ Len(fs) = l /\ \A u : [fs EXCEPT ![l] = u] = [es EXCEPT ![l] = u]
  BY <1>1, <1>5, <1>6, ExceptSeq
<1>8. Carrying(m, l, y) = With(m, fs) /\ Carrying(m, l, q) = With(m, [es EXCEPT ![l] = [x EXCEPT !.attrs = q]])
  BY <1>1, <1>2, <1>3, <1>6 DEF Carrying
<1>9. With(m, fs).elems = fs /\ \A gs : [With(m, fs) EXCEPT !.elems = gs] = With(m, gs)
  BY DEF With, NadRec
<1>10. PICK z : z = With(m, fs)
  OBVIOUS
<1>11. AppendAttr(z, a) = [z EXCEPT !.elems = [z.elems EXCEPT ![l] = [z.elems[l] EXCEPT !.attrs = <<a>> \o z.elems[l].attrs]]]
  <2>1. z.elems = fs /\ Len(z.elems) = l
    BY <1>7, <1>9, <1>10
  <2>2. QED
    BY <1>7, <1>9, <1>10, <2>1 DEF AppendAttr, Attr
<1>12. AppendAttr(z, a) = With(m, [fs EXCEPT ![l] = [v EXCEPT !.attrs = q]])
  BY <1>4, <1>5, <1>7, <1>9, <1>10, <1>11
<1>13. QED
  BY <1>4, <1>5, <1>7, <1>8, <1>10, <1>12

LEMMA AddedIs ==
    ASSUME NEW m \in NadRec, NEW l \in 1..Len(m.elems), l = Len(m.elems), m.elems[l].attrs = <<>>,
           NEW A \in SUBSET Names, IsFiniteSet(A)
    PROVE  \E y \in AttrList : ToSet(y) = A /\ AttrsAdded(m, SetToSeq(A)) = Carrying(m, l, y)
<1>1. PICK q \in Seq(A) : q = SetToSeq(A) /\ \A x \in A : \E i \in DOMAIN q : q[i] = x
  BY SetSeq
<1>2. PICK n \in Nat : n = Len(q) /\ DOMAIN q = 1..n
  OBVIOUS
<1>3. PICK e : e[0] = m /\ (\A i \in 1..Len(q) : e[i] = AppendAttr(e[i - 1], q[i])) /\ AttrsAdded(m, q) = e[Len(q)]
  BY AddTrace
<1> DEFINE Right(i, y) == (\A z : z \in ToSet(y) <=> \E j \in 1..i : q[j] = z) /\ e[i] = Carrying(m, l, y)
           G == {i \in Nat : i <= n => \E y \in AttrList : Right(i, y)}
<1>4. 0 \in G
  <2>1. <<>> \in AttrList /\ ToSet(<<>>) = {} /\ 1..0 = {}
    BY DEF AttrList, ToSet
  <2>2. Carrying(m, l, <<>>) = m
    <3>1. PICK es \in Seq(ElemRec) : es = m.elems
      BY DEF NadRec
    <3>2. es[l] \in ElemRec /\ es[l].attrs = <<>>
      BY <3>1
    <3>3. [es[l] EXCEPT !.attrs = <<>>] = es[l]
      BY <3>2 DEF ElemRec
    <3>4. [es EXCEPT ![l] = es[l]] = es
      BY <3>1
    <3>5. With(m, es) = m
      BY <3>1 DEF With, NadRec
    <3>6. QED
      BY <3>1, <3>3, <3>4, <3>5 DEF Carrying
  <2>3. Right(0, <<>>)
    BY <1>3, <2>1, <2>2
  <2>4. QED
    BY <2>1, <2>3
<1>5. ASSUME NEW i \in G PROVE i + 1 \in G
  <2>1. CASE i + 1 <= n
    <3>1. i \in Nat /\ i <= n /\ i + 1 \in 1..n /\ (i + 1) - 1 = i
      BY <2>1
    <3>2. PICK y \in AttrList : Right(i, y)
      BY <3>1
    <3>3. PICK a \in Names : a = q[i + 1]
      BY <1>2, <3>1
    <3>4. e[i + 1] = AppendAttr(e[i], a)
      BY <1>2, <1>3, <3>1, <3>3
    <3>5. e[i + 1] = Carrying(m, l, <<a>> \o y)
      BY <3>2, <3>4, OneAttr
    <3>6. <<a>> \o y \in AttrList /\ ToSet(<<a>> \o y) = {a} \cup ToSet(y)
      BY MoreAttrs
    <3>7. ASSUME NEW z PROVE z \in ToSet(<<a>> \o y) <=> \E j \in 1..(i + 1) : q[j] = z
      <4>1. z \in ToSet(y) <=> \E j \in 1..i : q[j] = z
        BY <3>2
      <4>2. (\E j \in 1..(i + 1) : q[j] = z) <=> z = a \/ \E j \in 1..i : q[j] = z
        <5>1. \A j \in 1..(i + 1) : j = i + 1 \/ j \in 1..i
          BY <3>1
        <5>2. i + 1 \in 1..(i + 1) /\ \A j \in 1..i : j \in 1..(i + 1)
          BY <3>1
        <5>3. QED
          BY <3>3, <5>1, <5>2
      <4>3. QED
        BY <3>6, <4>1, <4>2
    <3>8. Right(i + 1, <<a>> \o y)
      BY <3>5, <3>7
    <3> HIDE DEF Right
    <3>9. QED
      BY <3>1, <3>6, <3>8
  <2>2. CASE ~(i + 1 <= n)
    BY <2>2
  <2>3. QED
    BY <2>1, <2>2
<1> HIDE DEF Right
<1>6. \E y \in AttrList : Right(n, y)
  <2>1. G \in SUBSET Nat
    OBVIOUS
  <2>2. G = Nat
    <3> HIDE DEF G
    <3>1. QED
      BY <1>4, <1>5, <2>1, NatSet
  <2>3. n \in G
    BY <2>2
  <2>4. QED
    BY <2>3
<1>7. PICK y \in AttrList : Right(n, y)
  BY <1>6
<1>8. \A z : z \in ToSet(y) <=> z \in A
  <2>1. \A z : z \in ToSet(y) <=> \E j \in 1..n : q[j] = z
    BY <1>7 DEF Right
  <2>2. \A j \in 1..n : q[j] \in A
    BY <1>2
  <2>3. QED
    BY <1>1, <1>2, <2>1, <2>2
<1>9. ToSet(y) = A
  BY <1>8
<1>10. AttrsAdded(m, SetToSeq(A)) = Carrying(m, l, y)
  BY <1>1, <1>2, <1>3, <1>7 DEF Right
<1>11. QED
  BY <1>9, <1>10

(* What an element carries can be listed.                                  *)
LEMMA AttrsFinite ==
    ASSUME NEW y \in AttrList
    PROVE  ToSet(y) \ {Zapped} \in SUBSET Names /\ IsFiniteSet(ToSet(y) \ {Zapped})
<1>1. PICK n \in Nat : n = Len(y) /\ DOMAIN y = 1..n
  BY DEF AttrList
<1>2. ToSet(y) = {y[i] : i \in 1..n} /\ ToSet(y) \subseteq Names \cup {Zapped}
  BY <1>1 DEF ToSet, AttrList
<1>3. IsFiniteSet(1..n)
  <2>1. 1 \in Int /\ n \in Int
    OBVIOUS
  <2>2. QED
    BY <2>1, FS_Interval
<1>4. y \in [1..n -> ToSet(y)]
  BY <1>1, <1>2 DEF AttrList
<1>5. y \in Surjection(1..n, ToSet(y))
  BY <1>2, <1>4 DEF Surjection
<1>6. IsFiniteSet(ToSet(y))
  BY <1>3, <1>5, FS_Surjection
<1>7. QED
  BY <1>2, <1>6, FS_Subset
-----------------------------------------------------------------------------
(* The element of each depth above an element                              *)

LEMMA AncestorIs ==
    ASSUME NEW es, Shaped(es), NEW i \in 1..Len(es), NEW d \in 0..Depth(es, i)
    PROVE  /\ Ancestor(es, i, d) \in 1..i /\ Depth(es, Ancestor(es, i, d)) = d
           /\ \A j \in 1..i : Depth(es, j) = d => j <= Ancestor(es, i, d)
<1> DEFINE S == {j \in 1..i : Depth(es, j) = d}
<1>1. /\ Len(es) \in Nat /\ i \in Nat /\ 1 \in 1..Len(es) /\ Depth(es, 1) = 0 /\ Depth(es, i) \in Nat /\ d \in Nat
      /\ i \in 1..i /\ 1 \in 1..i
  BY ShapeParts
<1>2. S # {}
  <2>1. CASE d = Depth(es, i)
    BY <1>1, <2>1
  <2>2. CASE d = 0
    BY <1>1, <2>2
  <2>3. CASE d # Depth(es, i) /\ d # 0
    <3>1. 1 < i
      BY <1>1, <2>3
    <3>2. PICK k \in 2..i : Depth(es, k) = d
      BY <1>1, <2>3, <3>1, Climb
    <3>3. k \in 1..i
      OBVIOUS
    <3>4. QED
      BY <3>2, <3>3
  <2>4. QED
    BY <2>1, <2>2, <2>3
<1>3. S \in SUBSET (1..i)
  OBVIOUS
<1>4. Ancestor(es, i, d) = Max(S)
  BY DEF Ancestor
<1>5. \A j : j \in S <=> j \in 1..i /\ Depth(es, j) = d
  OBVIOUS
<1> HIDE DEF S
<1>6. Max(S) \in S /\ \A k \in S : k <= Max(S)
  BY <1>1, <1>2, <1>3, MaxIn
<1>7. QED
  BY <1>4, <1>5, <1>6

LEMMA AncestorSelf ==
    ASSUME NEW es, Shaped(es), NEW i \in 1..Len(es)
    PROVE  Ancestor(es, i, Depth(es, i)) = i
<1>1. Depth(es, i) \in 0..Depth(es, i) /\ i \in 1..i /\ i \in Nat
  BY ShapeParts
<1>2. Ancestor(es, i, Depth(es, i)) \in 1..i /\ i <= Ancestor(es, i, Depth(es, i))
  BY <1>1, AncestorIs
<1>3. QED
  BY <1>1, <1>2

LEMMA AncestorNext ==
    ASSUME NEW es, NEW i \in Nat, NEW d, Depth(es, i + 1) # d
    PROVE  Ancestor(es, i + 1, d) = Ancestor(es, i, d)
<1>1. \A j \in 1..(i + 1) : j = i + 1 \/ j \in 1..i
  OBVIOUS
<1>2. \A j \in 1..i : j \in 1..(i + 1)
  OBVIOUS
<1>3. {j \in 1..(i + 1) : Depth(es, j) = d} = {j \in 1..i : Depth(es, j) = d}
  BY <1>1, <1>2
<1>4. QED
  BY <1>3 DEF Ancestor

LEMMA UpNext ==
    ASSUME NEW es, Shaped(es), NEW i \in Nat, i # 0, i + 1 \in 1..Len(es)
    PROVE  /\ Depth(es, i + 1) \in 1..(Depth(es, i) + 1) /\ i \in 1..Len(es)
           /\ Up(es, i + 1) = Ancestor(es, i, Depth(es, i + 1) - 1)
<1>1. Len(es) \in Nat /\ i \in 1..Len(es) /\ i + 1 \in 2..Len(es) /\ (i + 1) - 1 = i /\ i + 1 # 1
  BY ShapeParts
<1>2. Depth(es, i) \in Nat /\ Depth(es, i + 1) \in Nat /\ Depth(es, i + 1) # 0 /\ Depth(es, i + 1) <= Depth(es, i) + 1
  BY <1>1, ShapeParts
<1>3. Depth(es, i + 1) # Depth(es, i + 1) - 1
  BY <1>2
<1>4. Up(es, i + 1) = Ancestor(es, i, Depth(es, i + 1) - 1)
  BY <1>2, <1>3, AncestorNext DEF Up
<1>5. QED
  BY <1>1, <1>2, <1>4

(* Of the first i elements of es, element j has not ended when those of    *)
(* depth v and more have.                                                  *)
Open(es, i, v, j) == Depth(es, j) < v /\ j = Ancestor(es, i, Depth(es, j))

LEMMA OpenNext ==
    ASSUME NEW es, Shaped(es), NEW i \in Nat, i + 1 \in 1..Len(es), NEW j \in 1..i
    PROVE  Open(es, i + 1, Depth(es, i + 1) + 1, j) <=> Open(es, i, Depth(es, i + 1), j)
<1> DEFINE v == Depth(es, i + 1)
           c == Depth(es, j)
<1>1. v \in Nat /\ c \in Nat /\ j \in 1..Len(es) /\ j # i + 1
  <2>1. Len(es) \in Nat /\ j \in 1..Len(es)
    BY ShapeParts
  <2>2. QED
    BY <2>1, ShapeParts
<1>2. CASE c = v
  <2>1. Ancestor(es, i + 1, c) = i + 1
    BY <1>2, AncestorSelf
  <2>2. ~Open(es, i + 1, v + 1, j)
    BY <1>1, <2>1 DEF Open
  <2>3. ~Open(es, i, v, j)
    BY <1>1, <1>2 DEF Open
  <2>4. QED
    BY <2>2, <2>3
<1>3. CASE c # v
  <2>1. Ancestor(es, i + 1, c) = Ancestor(es, i, c)
    BY <1>3, AncestorNext
  <2>2. c < v + 1 <=> c < v
    BY <1>1, <1>3
  <2>3. QED
    BY <2>1, <2>2 DEF Open
<1>4. QED
  BY <1>2, <1>3

LEMMA OpenNew ==
    ASSUME NEW es, Shaped(es), NEW i \in 1..Len(es)
    PROVE  Open(es, i, Depth(es, i) + 1, i)
  BY ShapeParts, AncestorSelf DEF Open

LEMMA OpenEnd ==
    ASSUME NEW es, Shaped(es), NEW i \in 1..Len(es), NEW k \in 0..Depth(es, i), NEW j \in 1..i
    PROVE  /\ Open(es, i, k, j) <=> Open(es, i, k + 1, j) /\ j # Ancestor(es, i, k)
           /\ Open(es, i, k + 1, Ancestor(es, i, k))
<1>1. j \in 1..Len(es) /\ Depth(es, j) \in Nat /\ k \in Nat
  <2>1. Len(es) \in Nat /\ j \in 1..Len(es) /\ Depth(es, i) \in Nat
    BY ShapeParts
  <2>2. QED
    BY <2>1, ShapeParts
<1>2. Depth(es, Ancestor(es, i, k)) = k
  BY AncestorIs
<1>3. Depth(es, j) < k + 1 <=> Depth(es, j) < k \/ Depth(es, j) = k
  BY <1>1
<1>4. Depth(es, j) = k => ~(Depth(es, j) < k)
  BY <1>1
<1>5. k < k + 1
  BY <1>1
<1>6. QED
  BY <1>2, <1>3, <1>4, <1>5 DEF Open

-----------------------------------------------------------------------------
(* What has been read back                                                 *)

Low(es) == \A i \in 1..Len(es) : Depth(es, i) <= MaxDepth

(* What an element that is read has of the one that was printed.           *)
Like(y, x) ==
    /\ y.name = x.name /\ y.depth = x.depth /\ y.text = x.text
    /\ ToSet(y.attrs) = ToSet(x.attrs) \ {Zapped}

(* The first i elements of es have been read, and the ends of those of     *)
(* depth v and more.                                                       *)
Partial(w, es, i, v) ==
    /\ w \in ParseRec /\ w.depth = v /\ Len(w.nad.elems) = i
    /\ \A j \in 1..i : Like(w.nad.elems[j], es[j]) /\ w.nad.elems[j].parent = Up(es, j)
    /\ \A j \in 1..i : w.nad.elems[j].tail = IF Open(es, i, v, j) THEN 0 ELSE es[j].tail
    /\ i # 0 => \A d \in 0..Depth(es, i) : w.nad.depths[d] = Ancestor(es, i, d)

StartTok(x) == [kind |-> "start", name |-> x.name, attrs |-> ToSet(x.attrs) \ {Zapped}]

Appended(z, m, n, d, p) ==
    /\ z \in NadRec /\ Len(z.elems) = Len(m.elems) + 1 /\ z.elems[Len(m.elems) + 1] = Elem(n, d, p)
    /\ \A j \in 1..Len(m.elems) : z.elems[j] = m.elems[j]
    /\ z.depths = [m.depths EXCEPT ![d] = Len(m.elems) + 1]

LEMMA AppendIs ==
    ASSUME NEW m \in NadRec, NEW n \in Names, NEW d \in 0..MaxDepth, NEW p \in Int,
           p = IF d = 0 THEN 0 ELSE m.depths[d - 1]
    PROVE  Appended(AppendElem(m, n, d), m, n, d, p)
<1>1. PICK es \in Seq(ElemRec) : es = m.elems
  BY DEF NadRec
<1>2. PICK l \in Nat : l = Len(es)
  OBVIOUS
<1>3. PICK x : x = Elem(n, d, p)
  OBVIOUS
<1>4. x \in ElemRec
  <2>1. <<>> \in Seq(Names \cup {Zapped}) /\ d \in Nat
    OBVIOUS
  <2>2. QED
    BY <1>3, <2>1 DEF Elem, ElemRec
<1>5. PICK fs : fs = Append(es, x)
  OBVIOUS
<1>6. fs \in Seq(ElemRec) /\ Len(fs) = l + 1 /\ (\A i \in 1..l : fs[i] = es[i]) /\ fs[l + 1] = x
  BY <1>2, <1>4, <1>5, AppendProperties
<1>7. PICK ds : ds = [m.depths EXCEPT ![d] = l + 1]
  OBVIOUS
<1>8. ds \in [0..MaxDepth -> Int]
  BY <1>2, <1>7 DEF NadRec
<1>9. AppendElem(m, n, d) = [m EXCEPT !.elems = fs, !.depths = ds]
  BY <1>1, <1>2, <1>3, <1>5, <1>7 DEF AppendElem, NadRec
<1>10. [m EXCEPT !.elems = fs, !.depths = ds] \in NadRec /\ [m EXCEPT !.elems = fs, !.depths = ds].elems = fs
       /\ [m EXCEPT !.elems = fs, !.depths = ds].depths = ds
  BY <1>6, <1>8 DEF NadRec
<1>11. QED
  BY <1>1, <1>2, <1>3, <1>6, <1>7, <1>9, <1>10 DEF Appended

(* An element starts.                                                      *)
Started(z, w, x, p) ==
    LET l == Len(w.nad.elems)
        y == z.nad.elems[l + 1]
    IN  /\ z \in ParseRec /\ z.depth = w.depth + 1 /\ Len(z.nad.elems) = l + 1
        /\ y \in ElemRec /\ y.name = x.name /\ y.depth = w.depth /\ y.parent = p /\ y.text = 0 /\ y.tail = 0
        /\ ToSet(y.attrs) = ToSet(x.attrs) \ {Zapped}
        /\ \A j \in 1..l : z.nad.elems[j] = w.nad.elems[j]
        /\ z.nad.depths = [w.nad.depths EXCEPT ![w.depth] = l + 1]

LEMMA StartIs ==
    ASSUME NEW w \in ParseRec, NEW x \in ElemRec, NEW p \in Int, w.depth \in 0..MaxDepth,
           p = IF w.depth = 0 THEN 0 ELSE w.nad.depths[w.depth - 1]
    PROVE  Started(Reported(w, StartTok(x)), w, x, p)
<1>1. PICK m \in NadRec : m = w.nad
  BY DEF ParseRec
<1>2. PICK d \in 0..MaxDepth : d = w.depth
  OBVIOUS
<1>3. PICK l \in Nat : l = Len(m.elems)
  BY DEF NadRec
<1>4. PICK A : A = ToSet(x.attrs) \ {Zapped}
  OBVIOUS
<1>5. x.name \in Names /\ A \in SUBSET Names /\ IsFiniteSet(A)
  <2>1. x.name \in Names /\ x.attrs \in AttrList
    BY DEF ElemRec, AttrList
  <2>2. QED
    BY <1>4, <2>1, AttrsFinite
<1>6. PICK u : u = AppendElem(m, x.name, d)
  OBVIOUS
<1>7. PICK v : v = Elem(x.name, d, p)
  OBVIOUS
<1>8. u \in NadRec /\ Len(u.elems) = l + 1 /\ u.elems[l + 1] = v /\ (\A j \in 1..l : u.elems[j] = m.elems[j])
      /\ u.depths = [m.depths EXCEPT ![d] = l + 1]
  <2>1. p = IF d = 0 THEN 0 ELSE m.depths[d - 1]
    BY <1>1, <1>2
  <2>2. PICK n \in Names : n = x.name
    BY <1>5
  <2>3. u = AppendElem(m, n, d) /\ v = Elem(n, d, p)
    BY <1>6, <1>7, <2>2
  <2>4. Appended(u, m, n, d, p)
    BY <2>1, <2>3, AppendIs
  <2>5. QED
    BY <1>3, <2>3, <2>4 DEF Appended
<1>9. v.name = x.name /\ v.depth = d /\ v.parent = p /\ v.attrs = <<>> /\ v.text = 0 /\ v.tail = 0
  BY <1>7 DEF Elem
<1>10. l + 1 \in 1..Len(u.elems)
  BY <1>8
<1>11. PICK q \in AttrList : ToSet(q) = A /\ AttrsAdded(u, SetToSeq(A)) = Carrying(u, l + 1, q)
  BY <1>5, <1>8, <1>9, <1>10, AddedIs
<1>12. PICK y : y = [v EXCEPT !.attrs = q]
  OBVIOUS
<1>13. PICK es \in Seq(ElemRec) : es = u.elems
  BY <1>8 DEF NadRec
<1>14. y \in ElemRec /\ y.attrs = q /\ y.name = v.name /\ y.depth = v.depth /\ y.parent = v.parent
       /\ y.text = v.text /\ y.tail = v.tail
  <2>1. v \in ElemRec
    BY <1>8, <1>10, <1>13
  <2>2. QED
    BY <1>12, <2>1 DEF ElemRec, AttrList
<1>15. PICK fs : fs = [es EXCEPT ![l + 1] = y]
  OBVIOUS
<1>16. fs \in Seq(ElemRec) /\ Len(fs) = l + 1 /\ \A j \in 1..(l + 1) : fs[j] = IF j = l + 1 THEN y ELSE es[j]
  BY <1>8, <1>10, <1>13, <1>14, <1>15, ExceptSeq
<1>17. PICK z : z = With(u, fs)
  OBVIOUS
<1>18. z \in NadRec /\ z.elems = fs /\ z.depths = u.depths
  BY <1>8, <1>16, <1>17 DEF With, NadRec
<1>19. Carrying(u, l + 1, q) = z
  BY <1>8, <1>12, <1>13, <1>15, <1>17 DEF Carrying
<1>20. PICK t : t = StartTok(x)
  OBVIOUS
<1>21. t.kind = "start" /\ t.name = x.name /\ t.attrs = A /\ "start" # "end" /\ "start" # "text"
  BY <1>4, <1>20 DEF StartTok
<1>22. Reported(w, t) = [w EXCEPT !.nad = AttrsAdded(AppendElem(m, x.name, d), SetToSeq(A)), !.depth = d + 1]
  BY <1>1, <1>2, <1>21 DEF Reported, AttrsAdded, ParseRec
<1>23. Reported(w, t) = [w EXCEPT !.nad = z, !.depth = d + 1]
  BY <1>6, <1>11, <1>19, <1>22
<1>24. PICK b : b = Reported(w, t)
  OBVIOUS
<1>27. b \in ParseRec /\ b.nad = z /\ b.depth = d + 1
  <2>1. d + 1 \in Int
    OBVIOUS
  <2>2. QED
    BY <1>18, <1>23, <1>24, <2>1 DEF ParseRec
<1>25. fs[l + 1] = y /\ \A j \in 1..l : fs[j] = m.elems[j]
  BY <1>8, <1>13, <1>16
<1>26. /\ b.nad.elems = fs /\ b.nad.depths = [w.nad.depths EXCEPT ![w.depth] = Len(w.nad.elems) + 1]
       /\ b = Reported(w, StartTok(x)) /\ l = Len(w.nad.elems) /\ b.depth = w.depth + 1
  BY <1>1, <1>2, <1>3, <1>8, <1>18, <1>20, <1>24, <1>27
<1>28. y.name = x.name /\ y.depth = w.depth /\ y.parent = p /\ y.text = 0 /\ y.tail = 0 /\ ToSet(y.attrs) = ToSet(x.attrs) \ {Zapped}
  BY <1>2, <1>4, <1>9, <1>11, <1>14
<1>29. QED
  BY <1>1, <1>14, <1>16, <1>25, <1>26, <1>27, <1>28 DEF Started
(* The start of an element and its text are read.                          *)
LEMMA StartStep ==
    ASSUME NadAssumption, NEW es, Shaped(es), Low(es), NEW i \in Nat, i + 1 \in 1..Len(es),
           NEW w, Partial(w, es, i, Depth(es, i + 1))
    PROVE  Partial(Run(w, <<StartTok(es[i + 1])>> \o Texts(es[i + 1].text)), es, i + 1, Depth(es, i + 1) + 1)
<1>1. PICK x \in ElemRec : x = es[i + 1]
  BY ShapeParts
<1>2. PICK v \in 0..MaxDepth : v = Depth(es, i + 1)
  BY ShapeParts DEF Low, NadAssumption
<1>3. PICK n \in Nat : n = x.text
  BY DEF ElemRec
<1>4. w \in ParseRec /\ w.depth = v /\ Len(w.nad.elems) = i /\ x.depth = v /\ v \in Nat
  BY <1>1, <1>2, ShapeParts DEF Partial
<1>5. v # 0 => /\ i # 0 /\ i \in 1..Len(es) /\ Depth(es, i) \in Nat /\ v - 1 \in 0..Depth(es, i)
  <2>1. v = 0 <=> i + 1 = 1
    BY <1>2, ShapeParts
  <2>2. Len(es) \in Nat
    BY ShapeParts
  <2>3. CASE v # 0
    <3>1. i # 0 /\ i \in 1..Len(es)
      BY <2>1, <2>2, <2>3
    <3>2. Depth(es, i) \in Nat
      BY <3>1, ShapeParts
    <3>3. v <= Depth(es, i) + 1
      BY <1>2, <3>1, UpNext
    <3>4. QED
      BY <1>4, <2>3, <3>1, <3>2, <3>3
  <2>4. QED
    BY <2>3
<1>6. PICK p \in Int : p = Up(es, i + 1)
  <2>1. Len(es) \in Nat
    BY ShapeParts
  <2>2. Up(es, i + 1) \in 1..Len(es) \/ Up(es, i + 1) = 0
    BY UpIs
  <2>3. QED
    BY <2>1, <2>2
<1>7. p = IF v = 0 THEN 0 ELSE w.nad.depths[v - 1]
  <2>1. CASE v = 0
    BY <1>2, <1>6, <2>1 DEF Up
  <2>2. CASE v # 0
    <3>1. p = Ancestor(es, i, v - 1)
      BY <1>2, <1>5, <1>6, <2>2, UpNext
    <3>2. w.nad.depths[v - 1] = Ancestor(es, i, v - 1)
      BY <1>5, <2>2 DEF Partial
    <3>3. QED
      BY <2>2, <3>1, <3>2
  <2>3. QED
    BY <2>1, <2>2
<1>8. PICK b : b = Reported(w, StartTok(x))
  OBVIOUS
<1>9. PICK y : y = b.nad.elems[i + 1]
  OBVIOUS
<1>10. /\ b \in ParseRec /\ b.depth = v + 1 /\ Len(b.nad.elems) = i + 1
       /\ y \in ElemRec /\ y.name = x.name /\ y.depth = v /\ y.parent = p /\ y.text = 0 /\ y.tail = 0
       /\ ToSet(y.attrs) = ToSet(x.attrs) \ {Zapped}
       /\ \A j \in 1..i : b.nad.elems[j] = w.nad.elems[j]
       /\ b.nad.depths = [w.nad.depths EXCEPT ![v] = i + 1]
  <2>1. w.depth \in 0..MaxDepth /\ p = IF w.depth = 0 THEN 0 ELSE w.nad.depths[w.depth - 1]
    BY <1>4, <1>7
  <2>2. Started(b, w, x, p)
    BY <1>4, <1>8, <2>1, StartIs
  <2>3. QED
    BY <1>4, <1>9, <2>2 DEF Started
<1>11. PICK c : c = InText(y, n)
  OBVIOUS
<1>12. /\ c \in ElemRec /\ c.name = x.name /\ c.depth = x.depth /\ c.parent = p /\ c.text = x.text /\ c.tail = 0
       /\ ToSet(c.attrs) = ToSet(x.attrs) \ {Zapped}
  <2>1. c \in ElemRec
    BY <1>10, <1>11, TextIs
  <2>2. c.name = y.name /\ c.depth = y.depth /\ c.parent = y.parent /\ c.text = y.text + n /\ c.tail = y.tail /\ c.attrs = y.attrs
    BY <1>10, <1>11 DEF InText, ElemRec
  <2>3. QED
    BY <1>3, <1>4, <1>10, <2>1, <2>2
<1>13. PICK z : z = Put(b, i + 1, c)
  OBVIOUS
<1>14. Run(w, <<StartTok(es[i + 1])>> \o Texts(es[i + 1].text)) = z
  <2>1. <<StartTok(x)>> \in Seq(Tokens)
    <3>1. x.name \in Names /\ x.attrs \in AttrList
      BY DEF ElemRec, AttrList
    <3>2. ToSet(x.attrs) \ {Zapped} \in SUBSET Names
      BY <3>1, AttrsFinite
    <3>3. StartTok(x) \in Tokens
      BY <3>1, <3>2 DEF StartTok, Tokens
    <3>4. QED
      BY <3>3
  <2>2. Texts(n) \in Seq(Tokens)
    BY TextsIn
  <2>3. Run(w, <<StartTok(x)>> \o Texts(n)) = Run(Run(w, <<StartTok(x)>>), Texts(n))
    BY <2>1, <2>2, RunConcat
  <2>4. Run(w, <<StartTok(x)>>) = b
    BY <1>8, RunOne
  <2>5. i + 1 \in 1..Len(b.nad.elems) /\ i + 1 = Len(b.nad.elems) /\ Depth(b.nad.elems, i + 1) = b.depth - 1
    BY <1>4, <1>9, <1>10 DEF Depth
  <2>6. Run(b, Texts(n)) = Put(b, i + 1, InText(b.nad.elems[i + 1], n))
    BY <1>10, <2>5, ManyInText
  <2>7. QED
    BY <1>1, <1>3, <1>9, <1>11, <1>13, <2>3, <2>4, <2>6
<1>15. /\ z \in ParseRec /\ z.depth = v + 1 /\ z.nad.depths = [w.nad.depths EXCEPT ![v] = i + 1] /\ Len(z.nad.elems) = i + 1
       /\ z.nad.elems[i + 1] = c /\ \A j \in 1..i : z.nad.elems[j] = w.nad.elems[j]
  <2>1. i + 1 \in 1..Len(b.nad.elems)
    BY <1>10
  <2>2. Replaced(z, b, i + 1, c)
    BY <1>10, <1>12, <1>13, <2>1, PutParts
  <2>3. \A j \in 1..i : j \in 1..(i + 1) /\ j # i + 1
    OBVIOUS
  <2>4. i + 1 \in 1..(i + 1)
    OBVIOUS
  <2>5. QED
    BY <1>10, <2>2, <2>3, <2>4 DEF Replaced
<1>16. \A j \in 1..(i + 1) : j = i + 1 \/ j \in 1..i
  OBVIOUS
<1>17. ASSUME NEW j \in 1..(i + 1)
       PROVE  Like(z.nad.elems[j], es[j]) /\ z.nad.elems[j].parent = Up(es, j)
  <2>1. CASE j = i + 1
    BY <1>1, <1>6, <1>12, <1>15, <2>1 DEF Like
  <2>2. CASE j \in 1..i
    <3>1. Like(w.nad.elems[j], es[j]) /\ w.nad.elems[j].parent = Up(es, j)
      BY <2>2 DEF Partial
    <3>2. QED
      BY <1>15, <2>2, <3>1
  <2>3. QED
    BY <1>16, <2>1, <2>2
<1>18. ASSUME NEW j \in 1..(i + 1)
       PROVE  z.nad.elems[j].tail = IF Open(es, i + 1, v + 1, j) THEN 0 ELSE es[j].tail
  <2>1. CASE j = i + 1
    <3>1. Open(es, i + 1, v + 1, i + 1)
      BY <1>2, OpenNew
    <3>2. QED
      BY <1>12, <1>15, <2>1, <3>1
  <2>2. CASE j \in 1..i
    <3>1. w.nad.elems[j].tail = IF Open(es, i, v, j) THEN 0 ELSE es[j].tail
      BY <1>2, <2>2 DEF Partial
    <3>2. Open(es, i + 1, v + 1, j) <=> Open(es, i, v, j)
      BY <1>2, <2>2, OpenNext
    <3>3. QED
      BY <1>15, <2>2, <3>1, <3>2
  <2>3. QED
    BY <1>16, <2>1, <2>2
<1>19. ASSUME NEW d \in 0..v
       PROVE  z.nad.depths[d] = Ancestor(es, i + 1, d)
  <2>1. w.nad.depths \in [0..MaxDepth -> Int] /\ d \in 0..MaxDepth
    BY <1>4 DEF ParseRec, NadRec, NadAssumption
  <2>2. CASE d = v
    <3>1. Ancestor(es, i + 1, v) = i + 1
      BY <1>2, AncestorSelf
    <3>2. QED
      BY <1>15, <2>1, <2>2, <3>1
  <2>3. CASE d # v
    <3>1. v # 0 /\ d < v
      BY <1>4, <2>3
    <3>2. i # 0 /\ d \in 0..Depth(es, i)
      BY <1>4, <1>5, <3>1
    <3>3. w.nad.depths[d] = Ancestor(es, i, d)
      BY <3>2 DEF Partial
    <3>4. Ancestor(es, i + 1, d) = Ancestor(es, i, d)
      BY <1>2, <2>3, AncestorNext
    <3>5. QED
      BY <1>15, <2>1, <2>3, <3>3, <3>4
  <2>4. QED
    BY <2>2, <2>3
<1>20. Partial(z, es, i + 1, v + 1)
  BY <1>2, <1>15, <1>17, <1>18, <1>19 DEF Partial
<1>21. QED
  BY <1>2, <1>14, <1>20

(* An element ends, and the text behind it is read.                        *)
LEMMA EndStep ==
    ASSUME NadAssumption, NEW es, Shaped(es), Low(es), NEW i \in 1..Len(es), NEW k \in 0..Depth(es, i),
           NEW w, Partial(w, es, i, k + 1)
    PROVE  Ends(es, i, k) \in Seq(Tokens) /\ Partial(Run(w, Ends(es, i, k)), es, i, k)
<1>1. PICK a \in 1..i : a = Ancestor(es, i, k)
  BY AncestorIs
<1>2. Len(es) \in Nat /\ i \in Nat /\ Depth(es, i) \in Nat /\ k \in Nat /\ a \in 1..Len(es) /\ Depth(es, i) <= MaxDepth /\ k \in 0..MaxDepth
  <2>1. Len(es) \in Nat /\ i \in Nat /\ Depth(es, i) \in Nat /\ Depth(es, i) <= MaxDepth
    BY ShapeParts DEF Low
  <2>2. QED
    BY <2>1 DEF NadAssumption
<1>3. PICK n \in Nat : n = es[a].tail
  <2>1. es[a] \in ElemRec
    BY <1>2, ShapeParts
  <2>2. QED
    BY <2>1 DEF ElemRec
<1>4. Ends(es, i, k) = <<Token("end")>> \o Texts(n)
  BY <1>1, <1>3 DEF Ends, Ancestor
<1>5. <<Token("end")>> \in Seq(Tokens) /\ Texts(n) \in Seq(Tokens)
  <2>1. Token("end") \in Tokens
    BY DEF Token, Tokens
  <2>2. QED
    BY <2>1, TextsIn
<1>6. PICK b : b = [w EXCEPT !.depth = k]
  OBVIOUS
<1>7. w \in ParseRec /\ w.depth = k + 1 /\ Len(w.nad.elems) = i
  BY DEF Partial
<1>8. b \in ParseRec /\ b.nad = w.nad /\ b.depth = k
  BY <1>2, <1>6, <1>7 DEF ParseRec
<1>9. Reported(w, Token("end")) = b
  <2>1. Token("end").kind = "end"
    BY DEF Token
  <2>2. Reported(w, Token("end")) = [w EXCEPT !.depth = w.depth - 1]
    BY <2>1 DEF Reported
  <2>3. w.depth - 1 = k
    BY <1>2, <1>7
  <2>4. QED
    BY <1>6, <2>2, <2>3
<1>10. PICK y : y = b.nad.elems[a]
  OBVIOUS
<1>11. y \in ElemRec /\ Like(y, es[a]) /\ y.parent = Up(es, a) /\ y.tail = 0
  <2>1. y \in ElemRec
    BY <1>2, <1>7, <1>8, <1>10 DEF ParseRec, NadRec
  <2>2. y = w.nad.elems[a]
    BY <1>8, <1>10
  <2>3. Open(es, i, k + 1, a)
    BY <1>1, OpenEnd
  <2>4. QED
    BY <2>1, <2>2, <2>3 DEF Partial
<1>12. PICK c : c = OnTail(y, n)
  OBVIOUS
<1>13. c \in ElemRec /\ Like(c, es[a]) /\ c.parent = Up(es, a) /\ c.tail = es[a].tail
  <2>1. c \in ElemRec
    BY <1>11, <1>12, TextIs
  <2>2. c.name = y.name /\ c.depth = y.depth /\ c.parent = y.parent /\ c.text = y.text /\ c.tail = y.tail + n /\ c.attrs = y.attrs
    BY <1>11, <1>12 DEF OnTail, ElemRec
  <2>3. QED
    BY <1>3, <1>11, <2>1, <2>2 DEF Like
<1>14. PICK z : z = Put(b, a, c)
  OBVIOUS
<1>15. Run(w, Ends(es, i, k)) = z
  <2>1. Run(w, Ends(es, i, k)) = Run(Run(w, <<Token("end")>>), Texts(n))
    <3>1. PICK q \in Seq(Tokens), t \in Seq(Tokens) : q = <<Token("end")>> /\ t = Texts(n)
      BY <1>5
    <3>2. Run(w, q \o t) = Run(Run(w, q), t)
      BY RunConcat
    <3>3. QED
      BY <1>4, <3>1, <3>2
  <2>2. Run(w, <<Token("end")>>) = b
    BY <1>9, RunOne
  <2>3. a \in 1..Len(b.nad.elems) /\ a = b.nad.depths[b.depth]
    <3>1. i # 0
      BY <1>2
    <3>2. w.nad.depths[k] = Ancestor(es, i, k)
      BY <3>1 DEF Partial
    <3>3. QED
      BY <1>1, <1>7, <1>8, <3>2
  <2>4. Depth(b.nad.elems, Len(b.nad.elems)) # b.depth - 1
    <3>1. i \in 1..i
      BY <1>2
    <3>2. w.nad.elems[i].depth = es[i].depth
      BY <3>1 DEF Partial, Like
    <3>3. Depth(b.nad.elems, Len(b.nad.elems)) = Depth(es, i)
      BY <1>7, <1>8, <3>2 DEF Depth
    <3>4. QED
      BY <1>2, <1>8, <3>3
  <2>5. Run(b, Texts(n)) = Put(b, a, OnTail(b.nad.elems[a], n))
    BY <1>8, <2>3, <2>4, ManyOnTail
  <2>6. QED
    BY <1>10, <1>12, <1>14, <2>1, <2>2, <2>5
<1>16. /\ z \in ParseRec /\ z.depth = k /\ z.nad.depths = w.nad.depths /\ Len(z.nad.elems) = i
       /\ \A j \in 1..i : z.nad.elems[j] = IF j = a THEN c ELSE w.nad.elems[j]
  <2>1. a \in 1..Len(b.nad.elems)
    BY <1>7, <1>8
  <2>2. Replaced(z, b, a, c)
    BY <1>8, <1>13, <1>14, <2>1, PutParts
  <2>3. QED
    BY <1>7, <1>8, <2>2 DEF Replaced
<1>17. ASSUME NEW j \in 1..i
       PROVE  /\ Like(z.nad.elems[j], es[j]) /\ z.nad.elems[j].parent = Up(es, j)
              /\ z.nad.elems[j].tail = IF Open(es, i, k, j) THEN 0 ELSE es[j].tail
  <2>1. Open(es, i, k, j) <=> Open(es, i, k + 1, j) /\ j # a
    BY <1>1, OpenEnd
  <2>2. CASE j = a
    BY <1>13, <1>16, <2>1, <2>2
  <2>3. CASE j # a
    <3>1. z.nad.elems[j] = w.nad.elems[j]
      BY <1>16, <2>3
    <3>2. /\ Like(w.nad.elems[j], es[j]) /\ w.nad.elems[j].parent = Up(es, j)
          /\ w.nad.elems[j].tail = IF Open(es, i, k + 1, j) THEN 0 ELSE es[j].tail
      BY DEF Partial
    <3>3. QED
      BY <2>1, <2>3, <3>1, <3>2
  <2>4. QED
    BY <2>2, <2>3
<1>18. i # 0 => \A d \in 0..Depth(es, i) : z.nad.depths[d] = Ancestor(es, i, d)
  BY <1>16 DEF Partial
<1>19. Partial(z, es, i, k)
  BY <1>16, <1>17, <1>18 DEF Partial
<1>20. Ends(es, i, k) \in Seq(Tokens)
  BY <1>4, <1>5
<1>21. QED
  BY <1>15, <1>19, <1>20
LEMMA EndsIn ==
    ASSUME NEW es, Shaped(es), NEW i \in 1..Len(es), NEW k \in 0..Depth(es, i)
    PROVE  Ends(es, i, k) \in Seq(Tokens)
<1>1. PICK a \in 1..i : a = Ancestor(es, i, k)
  BY AncestorIs
<1>2. a \in 1..Len(es)
  BY ShapeParts
<1>3. PICK n \in Nat : n = es[a].tail
  <2>1. es[a] \in ElemRec
    BY <1>2, ShapeParts
  <2>2. QED
    BY <2>1 DEF ElemRec
<1>4. Ends(es, i, k) = <<Token("end")>> \o Texts(n)
  BY <1>1, <1>3 DEF Ends, Ancestor
<1>5. Token("end") \in Tokens
  BY DEF Token, Tokens
<1>6. <<Token("end")>> \in Seq(Tokens) /\ Texts(n) \in Seq(Tokens)
  BY <1>5, TextsIn
<1>7. QED
  BY <1>4, <1>6

(* All elements down to depth v end behind element i.                      *)
EndsTo(es, i, v) == FlattenSeq([j \in 1..(1 + Depth(es, i) - v) |-> Ends(es, i, Depth(es, i) - j + 1)])

LEMMA EndsToIn ==
    ASSUME NEW es, Shaped(es), NEW i \in 1..Len(es), NEW v \in 0..(Depth(es, i) + 1)
    PROVE  EndsTo(es, i, v) \in Seq(Tokens)
<1>1. PICK d \in Nat : d = Depth(es, i)
  BY ShapeParts
<1>2. PICK n \in Nat : n = 1 + d - v /\ v \in Nat
  BY <1>1
<1>3. PICK b : b = [j \in 1..n |-> Ends(es, i, d - j + 1)]
  OBVIOUS
<1>4. ASSUME NEW j \in 1..n PROVE Ends(es, i, d - j + 1) \in Seq(Tokens)
  <2>1. j \in Nat /\ 1 <= j /\ j <= 1 + d
    BY <1>2
  <2>2. d - j + 1 \in 0..d
    BY <2>1
  <2>3. d - j + 1 \in 0..Depth(es, i)
    BY <1>1, <2>2
  <2>4. QED
    BY <2>3, EndsIn
<1>5. b \in [1..n -> Seq(Tokens)]
  BY <1>3, <1>4
<1>6. EndsTo(es, i, v) = FlattenSeq(b)
  BY <1>1, <1>2, <1>3 DEF EndsTo
<1>7. QED
  BY <1>5, <1>6, FlattenSeqIn

LEMMA EndsStep ==
    ASSUME NadAssumption, NEW es, Shaped(es), Low(es), NEW i \in 1..Len(es), NEW v \in 0..(Depth(es, i) + 1),
           NEW w, Partial(w, es, i, Depth(es, i) + 1)
    PROVE  Partial(Run(w, EndsTo(es, i, v)), es, i, v)
<1>1. PICK d \in Nat : d = Depth(es, i)
  BY ShapeParts
<1>2. PICK n \in Nat : n = 1 + d - v /\ v \in Nat
  BY <1>1
<1>3. PICK b : b = [j \in 1..n |-> Ends(es, i, d - j + 1)]
  OBVIOUS
<1>4. ASSUME NEW j \in 1..n PROVE d - j + 1 \in 0..Depth(es, i) /\ Ends(es, i, d - j + 1) \in Seq(Tokens)
  <2>1. j \in Nat /\ 1 <= j /\ j <= 1 + d
    BY <1>2
  <2>2. d - j + 1 \in 0..d
    BY <2>1
  <2>3. d - j + 1 \in 0..Depth(es, i)
    BY <1>1, <2>2
  <2>4. QED
    BY <2>3, EndsIn
<1>5. b \in [1..n -> Seq(Tokens)]
  BY <1>3, <1>4
<1>6. EndsTo(es, i, v) = FlattenSeq(b)
  BY <1>1, <1>2, <1>3 DEF EndsTo
<1>7. PICK r : /\ r[0] = w /\ Run(w, FlattenSeq(b)) = r[n]
               /\ \A j \in 1..n : r[j] = Run(r[j - 1], b[j])
  <2>1. PICK r : Trail(r, w, b, n)
    BY <1>5, RunFlat
  <2>2. QED
    BY <2>1 DEF Trail
<1> DEFINE G == {j \in Nat : j <= n => Partial(r[j], es, i, d + 1 - j)}
<1>8. 0 \in G
  <2>1. d + 1 - 0 = d + 1
    BY <1>1
  <2>2. QED
    BY <1>1, <1>7, <2>1
<1>9. ASSUME NEW j \in G PROVE j + 1 \in G
  <2>1. j \in Nat /\ j + 1 \in Nat
    OBVIOUS
  <2>2. CASE j + 1 <= n
    <3>1. j + 1 \in 1..n /\ (j + 1) - 1 = j /\ j <= n
      BY <2>1, <2>2
    <3>2. PICK k \in 0..Depth(es, i) : k = d - j
      <4>1. v \in Nat
        BY <1>1
      <4>2. d - j \in 0..d
        BY <1>2, <2>1, <2>2, <4>1
      <4>3. QED
        BY <1>1, <4>2
    <3>3. k = d - (j + 1) + 1 /\ d + 1 - j = k + 1 /\ d + 1 - (j + 1) = k
      BY <2>1, <3>2
    <3>4. Partial(r[j], es, i, k + 1)
      BY <3>1, <3>3
    <3>5. b[j + 1] = Ends(es, i, k)
      BY <1>3, <3>1, <3>3
    <3>6. r[j + 1] = Run(r[j], Ends(es, i, k))
      BY <1>7, <3>1, <3>5
    <3>7. Partial(r[j + 1], es, i, k)
      BY <3>4, <3>6, EndStep
    <3>8. QED
      BY <2>1, <3>3, <3>7
  <2>3. QED
    BY <2>1, <2>2
<1>10. G = Nat
  <2> HIDE DEF G
  <2>1. G \in SUBSET Nat
    BY DEF G
  <2>2. QED
    BY <1>8, <1>9, <2>1, NatSet
<1>11. n \in G /\ n <= n
  BY <1>10
<1>12. d + 1 - n = v
  BY <1>2
<1>13. Partial(r[n], es, i, v)
  BY <1>11, <1>12
<1>14. QED
  BY <1>6, <1>7, <1>13

(* All that is printed for one element.                                    *)
Follow(es, i) == IF i = Len(es) THEN 0 ELSE Depth(es, i + 1)
Block(es, i) == <<StartTok(es[i])>> \o Texts(es[i].text) \o EndsTo(es, i, Follow(es, i))

LEMMA FollowIs ==
    ASSUME NEW es, Shaped(es), NEW i \in 1..Len(es)
    PROVE  Follow(es, i) \in 0..(Depth(es, i) + 1)
<1>1. Len(es) \in Nat /\ i \in Nat /\ i # 0 /\ Depth(es, i) \in Nat
  BY ShapeParts
<1>2. CASE i = Len(es)
  BY <1>1, <1>2 DEF Follow
<1>3. CASE i # Len(es)
  <2>1. i + 1 \in 1..Len(es)
    BY <1>1, <1>3
  <2>2. Depth(es, i + 1) \in 1..(Depth(es, i) + 1)
    BY <1>1, <2>1, UpNext
  <2>3. QED
    BY <1>1, <1>3, <2>2 DEF Follow
<1>4. QED
  BY <1>2, <1>3

LEMMA HeadIn ==
    ASSUME NEW es, Shaped(es), NEW i \in 1..Len(es)
    PROVE  <<StartTok(es[i])>> \o Texts(es[i].text) \in Seq(Tokens)
<1>1. PICK x \in ElemRec : x = es[i]
  BY ShapeParts
<1>2. x.name \in Names /\ x.attrs \in AttrList /\ x.text \in Nat
  BY DEF ElemRec, AttrList
<1>3. ToSet(x.attrs) \ {Zapped} \in SUBSET Names
  BY <1>2, AttrsFinite
<1>4. StartTok(x) \in Tokens
  BY <1>2, <1>3 DEF StartTok, Tokens
<1>5. <<StartTok(x)>> \in Seq(Tokens) /\ Texts(x.text) \in Seq(Tokens)
  BY <1>2, <1>4, TextsIn
<1>6. <<StartTok(x)>> \o Texts(x.text) \in Seq(Tokens)
  BY <1>5
<1>7. QED
  BY <1>1, <1>6

LEMMA BlockIn ==
    ASSUME NEW es, Shaped(es), NEW i \in 1..Len(es)
    PROVE  Block(es, i) \in Seq(Tokens)
<1>1. EndsTo(es, i, Follow(es, i)) \in Seq(Tokens)
  BY FollowIs, EndsToIn
<1>2. <<StartTok(es[i])>> \o Texts(es[i].text) \in Seq(Tokens)
  BY HeadIn
<1>3. QED
  BY <1>1, <1>2 DEF Block

LEMMA BlockStep ==
    ASSUME NadAssumption, NEW es, Shaped(es), Low(es), NEW i \in Nat, i + 1 \in 1..Len(es),
           NEW w, Partial(w, es, i, Depth(es, i + 1))
    PROVE  Partial(Run(w, Block(es, i + 1)), es, i + 1, Follow(es, i + 1))
<1>1. PICK h \in Seq(Tokens) : h = <<StartTok(es[i + 1])>> \o Texts(es[i + 1].text)
  BY HeadIn
<1>2. PICK t \in Seq(Tokens) : t = EndsTo(es, i + 1, Follow(es, i + 1))
  BY FollowIs, EndsToIn
<1>3. Partial(Run(w, h), es, i + 1, Depth(es, i + 1) + 1)
  BY <1>1, StartStep
<1>4. Partial(Run(Run(w, h), t), es, i + 1, Follow(es, i + 1))
  BY <1>2, <1>3, FollowIs, EndsStep
<1>5. Run(w, h \o t) = Run(Run(w, h), t)
  BY RunConcat
<1>6. Block(es, i + 1) = h \o t
  BY <1>1, <1>2 DEF Block
<1>7. QED
  BY <1>4, <1>5, <1>6

LEMMA PrintedIs ==
    ASSUME NEW es, Shaped(es)
    PROVE  Printed(es) = FlattenSeq([i \in 1..Len(es) |-> Block(es, i)])
<1>1. DOMAIN es = 1..Len(es)
  BY ShapeParts
<1>2. QED
  BY <1>1, Zenon DEF Printed, Block, EndsTo, Follow, StartTok

(* All that is printed is read.                                            *)
LEMMA AllRead ==
    ASSUME NadAssumption, NEW es, Shaped(es), Low(es)
    PROVE  \E w : Partial(w, es, Len(es), 0) /\ w.nad = Parse(Printed(es))
<1>1. PICK n \in Nat : n = Len(es)
  BY ShapeParts
<1>2. PICK b : b = [i \in 1..n |-> Block(es, i)]
  OBVIOUS
<1>3. b \in [1..n -> Seq(Tokens)]
  BY <1>1, <1>2, BlockIn
<1>4. Printed(es) = FlattenSeq(b)
  BY <1>1, <1>2, PrintedIs
<1>5. PICK s : s = [nad |-> NadNew, depth |-> 0]
  OBVIOUS
<1>6. PICK r : Trail(r, s, b, n)
  BY <1>3, RunFlat
<1> DEFINE v(i) == IF i = n THEN 0 ELSE Depth(es, i + 1)
           G == {i \in Nat : i <= n => Partial(r[i], es, i, v(i))}
<1>7. 0 \in G
  <2>1. v(0) = 0
    <3>1. n # 0 => 1 \in 1..n /\ 0 + 1 = 1
      OBVIOUS
    <3>2. \A i \in 1..n : Depth(es, i) = 0 <=> i = 1
      BY <1>1, ShapeParts
    <3>3. QED
      BY <3>1, <3>2
  <2>2. NadNew.elems = <<>> /\ NadNew.depths = [d \in 0..MaxDepth |-> 0]
    BY DEF NadNew
  <2>3. s.nad = NadNew /\ s.depth = 0
    BY <1>5
  <2>4. NadNew \in NadRec
    BY NewGood DEF Good
  <2>5. s \in ParseRec
    BY <1>5, <2>4 DEF ParseRec
  <2>6. Len(s.nad.elems) = 0 /\ \A j : j \notin 1..0
    BY <2>2, <2>3
  <2>7. Partial(s, es, 0, 0)
    BY <2>3, <2>5, <2>6 DEF Partial
  <2>8. QED
    BY <1>6, <2>1, <2>7 DEF Trail
<1>8. ASSUME NEW i \in G PROVE i + 1 \in G
  <2>1. i \in Nat /\ i + 1 \in Nat
    OBVIOUS
  <2>2. CASE i + 1 <= n
    <3>1. i + 1 \in 1..n /\ (i + 1) - 1 = i /\ i <= n /\ i # n
      BY <2>1, <2>2
    <3>2. Partial(r[i], es, i, Depth(es, i + 1))
      BY <3>1
    <3>3. r[i + 1] = Run(r[i], Block(es, i + 1))
      BY <1>2, <1>6, <3>1 DEF Trail
    <3>4. Partial(r[i + 1], es, i + 1, Follow(es, i + 1))
      BY <1>1, <2>1, <3>1, <3>2, <3>3, BlockStep
    <3>5. Follow(es, i + 1) = v(i + 1)
      BY <1>1 DEF Follow
    <3>6. QED
      BY <2>1, <3>4, <3>5
  <2>3. QED
    BY <2>1, <2>2
<1>9. G = Nat
  <2> HIDE DEF G
  <2>1. G \in SUBSET Nat
    BY DEF G
  <2>2. QED
    BY <1>7, <1>8, <2>1, NatSet
<1>10. n \in G /\ n <= n /\ v(n) = 0
  BY <1>9
<1>11. Partial(r[n], es, n, 0)
  BY <1>10
<1>12. r[n].nad = Parse(Printed(es))
  BY <1>4, <1>5, <1>6 DEF Trail, Parse, Run
<1>13. QED
  BY <1>1, <1>11, <1>12

LEMMA ReadBack ==
    ASSUME NadAssumption, Shaped(Es), Low(Es), phase # "edited" => \A i \in 1..Len(Es) : Es[i].parent = Up(Es, i)
    PROVE  RoundTrip
<1>1. PICK es : es = Es /\ Shaped(es) /\ Low(es)
  OBVIOUS
<1>2. PICK w : Partial(w, es, Len(es), 0) /\ w.nad = Parse(Printed(es))
  BY <1>1, AllRead
<1>3. PICK fs : fs = Parse(Printed(es)).elems
  OBVIOUS
<1>4. Len(fs) = Len(es)
  BY <1>2, <1>3 DEF Partial
<1>5. DOMAIN es = 1..Len(es)
  BY <1>1, ShapeParts
<1>6. ASSUME NEW i \in 1..Len(es)
      PROVE  /\ es[i].name = fs[i].name /\ es[i].depth = fs[i].depth /\ es[i].text = fs[i].text
             /\ es[i].tail = fs[i].tail
             /\ ToSet(es[i].attrs) \ {Zapped} = ToSet(fs[i].attrs)
             /\ phase # "edited" => es[i].parent = fs[i].parent
  <2>1. Like(fs[i], es[i]) /\ fs[i].parent = Up(es, i) /\ fs[i].tail = IF Open(es, Len(es), 0, i) THEN 0 ELSE es[i].tail
    BY <1>2, <1>3 DEF Partial
  <2>2. Depth(es, i) \in Nat
    BY <1>1, ShapeParts
  <2>3. ~Open(es, Len(es), 0, i)
    BY <2>2 DEF Open
  <2>4. phase # "edited" => es[i].parent = Up(es, i)
    BY <1>1
  <2>5. QED
    BY <2>1, <2>3, <2>4 DEF Like
<1>7. QED
  BY <1>1, <1>3, <1>4, <1>5, <1>6 DEF RoundTrip, Indices
-----------------------------------------------------------------------------
(* The parents that a nad keeps while it is built                          *)

(* Each parent is true; the depths name the last element and all above it. *)
Linked(es) == \A i \in 1..Len(es) : es[i].parent = Up(es, i)
Tracked(m) ==
    m.elems # <<>> => \A d \in 0..Depth(m.elems, Len(m.elems)) : m.depths[d] = Ancestor(m.elems, Len(m.elems), d)

LEMMA SameUps ==
    ASSUME NEW es, NEW fs, NEW i \in Nat, \A j \in 1..i : Depth(fs, j) = Depth(es, j)
    PROVE  /\ \A d : Ancestor(fs, i, d) = Ancestor(es, i, d)
           /\ i # 0 => Up(fs, i) = Up(es, i)
<1>1. ASSUME NEW d PROVE Ancestor(fs, i, d) = Ancestor(es, i, d)
  <2>1. {j \in 1..i : Depth(fs, j) = d} = {j \in 1..i : Depth(es, j) = d}
    OBVIOUS
  <2>2. QED
    BY <2>1 DEF Ancestor
<1>2. i # 0 => i \in 1..i
  OBVIOUS
<1>3. QED
  BY <1>1, <1>2 DEF Up

(* The elements stay where they are.                                       *)
Kept(m, z) ==
    /\ Len(z.elems) = Len(m.elems) /\ z.depths = m.depths
    /\ \A i \in 1..Len(m.elems) : z.elems[i].depth = m.elems[i].depth /\ z.elems[i].parent = m.elems[i].parent

LEMMA KeptLinks ==
    ASSUME NEW m, Good(m), NEW z, Kept(m, z), Linked(m.elems), m.elems # <<>>
    PROVE  Linked(z.elems) /\ (Tracked(m) => Tracked(z))
<1>1. PICK es, fs : es = m.elems /\ fs = z.elems
  OBVIOUS
<1>2. PICK l \in Nat : l = Len(es)
  BY <1>1, GoodParts
<1>3. Len(fs) = l /\ \A i \in 1..l : Depth(fs, i) = Depth(es, i) /\ fs[i].parent = es[i].parent
  BY <1>1, <1>2 DEF Kept, Depth
<1>4. ASSUME NEW i \in 1..l PROVE Up(fs, i) = Up(es, i)
  <2>1. i \in Nat /\ i # 0 /\ \A j \in 1..i : j \in 1..l
    OBVIOUS
  <2>2. QED
    BY <1>3, <2>1, SameUps
<1>5. Linked(fs)
  BY <1>1, <1>2, <1>3, <1>4 DEF Linked
<1>6. \A d : Ancestor(fs, l, d) = Ancestor(es, l, d)
  BY <1>3, SameUps
<1>7. l # 0 /\ l \in 1..l
  <2>1. es \in Seq(ElemRec)
    BY <1>1, GoodParts
  <2>2. l # 0
    BY <1>1, <1>2, <2>1, EmptySeq
  <2>3. QED
    BY <2>2
<1>8. Depth(fs, l) = Depth(es, l) /\ z.depths = m.depths
  BY <1>3, <1>7 DEF Kept
<1>9. ASSUME Tracked(m) PROVE Tracked(z)
  <2>1. \A d \in 0..Depth(es, l) : m.depths[d] = Ancestor(es, l, d)
    BY <1>1, <1>2, <1>9 DEF Tracked
  <2>2. \A d \in 0..Depth(fs, l) : z.depths[d] = Ancestor(fs, l, d)
    BY <1>6, <1>8, <2>1
  <2>3. QED
    BY <1>1, <1>3, <2>2 DEF Tracked
<1>10. QED
  BY <1>1, <1>5, <1>9

LEMMA KeptOne ==
    ASSUME NEW m, Good(m), NEW e \in 1..Len(m.elems), NEW x,
           x.depth = m.elems[e].depth, x.parent = m.elems[e].parent
    PROVE  Kept(m, With(m, [m.elems EXCEPT ![e] = x]))
<1>1. PICK es \in Seq(ElemRec) : es = m.elems
  BY GoodParts
<1>2. PICK l \in Nat : l = Len(es)
  OBVIOUS
<1>3. PICK fs : fs = [es EXCEPT ![e] = x]
  OBVIOUS
<1>4. Len(fs) = l /\ \A i \in 1..l : fs[i] = IF i = e THEN x ELSE es[i]
  <2>1. DOMAIN es = 1..l
    BY <1>2
  <2>2. DOMAIN fs = 1..l /\ \A i \in 1..l : fs[i] = IF i = e THEN x ELSE es[i]
    BY <1>3, <2>1
  <2>3. es \in Seq(ElemRec \cup {x}) /\ x \in ElemRec \cup {x} /\ e \in 1..Len(es)
    BY <1>1
  <2>4. Len(fs) = l
    BY <1>2, <1>3, <2>3, ExceptSeq
  <2>5. QED
    BY <2>2, <2>4
<1>5. With(m, fs).elems = fs /\ With(m, fs).depths = m.depths
  <2>1. m \in NadRec
    BY GoodParts
  <2>2. QED
    BY <2>1 DEF With, NadRec
<1>6. QED
  BY <1>1, <1>2, <1>3, <1>4, <1>5 DEF Kept

LEMMA KeptAttr ==
    ASSUME NEW m, Good(m), NEW e \in 1..Len(m.elems), NEW a
    PROVE  Kept(m, Attr(m, e, a)) /\ Kept(m, SetAttr(m, e, a)) /\ Kept(m, ZapAttr(m, e, a))
<1>1. m \in NadRec /\ m.elems[e] \in ElemRec
  BY GoodParts
<1>2. Kept(m, m)
  BY DEF Kept
<1>3. Kept(m, Attr(m, e, a))
  <2> DEFINE x == [m.elems[e] EXCEPT !.attrs = <<a>> \o m.elems[e].attrs]
  <2>1. Attr(m, e, a) = With(m, [m.elems EXCEPT ![e] = x])
    BY <1>1 DEF With, Attr, NadRec
  <2>2. x.depth = m.elems[e].depth /\ x.parent = m.elems[e].parent
    BY <1>1 DEF ElemRec
  <2> HIDE DEF x
  <2>3. QED
    BY <2>1, <2>2, KeptOne
<1>4. Kept(m, ZapAttr(m, e, a))
  <2>1. PICK k : k = FindAttr(m.elems, e, a)
    OBVIOUS
  <2>2. PICK q : q = m.elems[e].attrs
    OBVIOUS
  <2> DEFINE r == [q EXCEPT ![k] = Zapped]
             x == [m.elems[e] EXCEPT !.attrs = r]
  <2>3. ZapAttr(m, e, a) = IF k = 0 THEN m ELSE With(m, [m.elems EXCEPT ![e] = x])
    BY <1>1, <2>1, <2>2 DEF ZapAttr, With, NadRec
  <2> HIDE DEF r
  <2>4. x.depth = m.elems[e].depth /\ x.parent = m.elems[e].parent
    BY <1>1 DEF ElemRec
  <2> HIDE DEF x
  <2>5. Kept(m, With(m, [m.elems EXCEPT ![e] = x]))
    BY <2>4, KeptOne
  <2>6. QED
    BY <1>2, <2>3, <2>5
<1>5. Kept(m, SetAttr(m, e, a))
  BY <1>2, <1>3 DEF SetAttr
<1>6. QED
  BY <1>3, <1>4, <1>5

LEMMA KeptCdata ==
    ASSUME NEW m, Good(m), NEW d, Len(m.elems) # 0
    PROVE  Kept(m, AppendCdata(m, d))
<1>1. m \in NadRec /\ Len(m.elems) \in Nat /\ DOMAIN m.elems = 1..Len(m.elems)
  BY GoodParts
<1>2. PICK l : l = Len(m.elems)
  OBVIOUS
<1>3. PICK k : k = m.depths[d]
  OBVIOUS
<1> DEFINE x == [m.elems[l] EXCEPT !.text = m.elems[l].text + 1]
           v == [m.elems[k] EXCEPT !.tail = m.elems[k].tail + 1]
<1>4. l \in 1..Len(m.elems)
  BY <1>1, <1>2
<1>5. Kept(m, With(m, [m.elems EXCEPT ![l] = x]))
  <2>1. m.elems[l] \in ElemRec
    BY <1>4, GoodParts
  <2>2. x.depth = m.elems[l].depth /\ x.parent = m.elems[l].parent
    BY <2>1 DEF ElemRec
  <2> HIDE DEF x
  <2>3. QED
    BY <1>4, <2>2, KeptOne
<1>6. Kept(m, With(m, [m.elems EXCEPT ![k] = v]))
  <2>1. CASE k \in 1..Len(m.elems)
    <3>1. m.elems[k] \in ElemRec
      BY <2>1, GoodParts
    <3>2. v.depth = m.elems[k].depth /\ v.parent = m.elems[k].parent
      BY <3>1 DEF ElemRec
    <3> HIDE DEF v
    <3>3. QED
      BY <2>1, <3>2, KeptOne
  <2>2. CASE k \notin 1..Len(m.elems)
    <3>1. [m.elems EXCEPT ![k] = v] = m.elems
      BY <1>1, <2>2 DEF NadRec
    <3>2. With(m, m.elems).elems = m.elems /\ With(m, m.elems).depths = m.depths
      BY <1>1 DEF With, NadRec
    <3>3. QED
      BY <3>1, <3>2 DEF Kept
  <2>3. QED
    BY <2>1, <2>2
<1>7. AppendCdata(m, d) = IF Depth(m.elems, l) = d - 1 THEN With(m, [m.elems EXCEPT ![l] = x])
                          ELSE With(m, [m.elems EXCEPT ![k] = v])
  BY <1>1, <1>2, <1>3 DEF AppendCdata, With, NadRec
<1>8. QED
  BY <1>5, <1>6, <1>7

(* "Our parent is the previous guy in the depth array": he is.             *)
LEMMA AppendLinks ==
    ASSUME NadAssumption, NEW m, Good(m), NEW n \in Names, NEW d \in 0..MaxDepth,
           IF m.elems = <<>> THEN d = 0 ELSE d \in 1..(Depth(m.elems, Len(m.elems)) + 1),
           Linked(m.elems), Tracked(m)
    PROVE  Linked(AppendElem(m, n, d).elems) /\ Tracked(AppendElem(m, n, d))
<1>1. PICK es : es = m.elems /\ Shaped(es) /\ m \in NadRec
  BY GoodParts
<1>2. PICK l \in Nat : l = Len(es)
  BY <1>1, GoodParts
<1>3. PICK z : z = AppendElem(m, n, d)
  OBVIOUS
<1>4. PICK fs : fs = z.elems
  OBVIOUS
<1>5. Shaped(fs)
  <2>1. MaxDepth \in Nat
    BY DEF NadAssumption
  <2>2. Good(z)
    BY <1>3, <2>1, AppendGood
  <2>3. QED
    BY <1>4, <2>2 DEF Good
<1>6. /\ l = 0 => es = <<>> /\ d = 0
      /\ l # 0 => /\ es # <<>> /\ l \in 1..l /\ Depth(es, l) \in Nat /\ d \in 1..(Depth(es, l) + 1)
                  /\ d - 1 \in 0..Depth(es, l) /\ d - 1 \in 0..MaxDepth
  <2>1. l = 0 <=> es = <<>>
    BY <1>1, <1>2, EmptySeq DEF Shaped
  <2>2. CASE l = 0
    BY <1>1, <2>1, <2>2
  <2>3. CASE l # 0
    <3>1. l \in 1..l /\ es # <<>>
      BY <2>1, <2>3
    <3>2. Depth(es, l) \in Nat
      BY <1>1, <1>2, <3>1, ShapeParts
    <3>3. d \in 1..(Depth(es, l) + 1)
      BY <1>1, <1>2, <3>1
    <3>4. d - 1 \in 0..Depth(es, l) /\ d - 1 \in 0..MaxDepth
      BY <3>2, <3>3 DEF NadAssumption
    <3>5. QED
      BY <2>3, <3>1, <3>2, <3>3, <3>4
  <2>4. QED
    BY <2>2, <2>3
<1>7. PICK p \in Int : p = IF d = 0 THEN 0 ELSE m.depths[d - 1]
  <2>1. CASE d = 0
    BY <2>1
  <2>2. CASE d # 0
    <3>1. d - 1 \in 0..MaxDepth
      BY <1>6, <2>2
    <3>2. m.depths[d - 1] \in Int
      BY <1>1, <3>1 DEF NadRec
    <3>3. QED
      BY <2>2, <3>2
  <2>3. QED
    BY <2>1, <2>2
<1>8. /\ Len(fs) = l + 1 /\ fs[l + 1] = Elem(n, d, p) /\ (\A j \in 1..l : fs[j] = es[j])
      /\ z.depths = [m.depths EXCEPT ![d] = l + 1]
  <2>1. m \in NadRec /\ p = IF d = 0 THEN 0 ELSE m.depths[d - 1]
    BY <1>1, <1>7
  <2>2. Appended(z, m, n, d, p)
    BY <1>3, <2>1, AppendIs
  <2>3. QED
    BY <1>1, <1>2, <1>4, <2>2 DEF Appended
<1>9. fs[l + 1].parent = p /\ Depth(fs, l + 1) = d /\ \A j \in 1..l : Depth(fs, j) = Depth(es, j)
  BY <1>8 DEF Elem, Depth
<1>10. l + 1 \in 1..Len(fs)
  BY <1>8
<1>11. \A c : Ancestor(fs, l, c) = Ancestor(es, l, c)
  <2>1. \A j \in 1..l : Depth(fs, j) = Depth(es, j)
    BY <1>9
  <2>2. QED
    BY ONLY l \in Nat, <2>1, SameUps
<1>12. ASSUME l # 0 PROVE \A c \in 0..Depth(es, l) : m.depths[c] = Ancestor(es, l, c)
  BY <1>1, <1>2, <1>6, <1>12 DEF Tracked
<1>13. p = Up(fs, l + 1)
  <2>1. CASE d = 0
    BY <1>7, <1>9, <2>1 DEF Up
  <2>2. CASE d # 0
    <3>1. l # 0
      BY <1>6, <2>2
    <3>2. Up(fs, l + 1) = Ancestor(fs, l, d - 1)
      BY <1>5, <1>9, <1>10, <3>1, UpNext
    <3>3. p = Ancestor(es, l, d - 1)
      BY <1>6, <1>7, <1>12, <2>2, <3>1
    <3>4. QED
      BY <1>11, <3>2, <3>3
  <2>3. QED
    BY <2>1, <2>2
<1>14. ASSUME NEW i \in 1..(l + 1) PROVE fs[i].parent = Up(fs, i)
  <2>1. CASE i = l + 1
    BY <1>9, <1>13, <2>1
  <2>2. CASE i # l + 1
    <3>1. i \in 1..l /\ i \in Nat /\ i # 0 /\ \A j \in 1..i : j \in 1..l
      BY <2>2
    <3>2. Up(fs, i) = Up(es, i)
      BY <1>9, <3>1, SameUps
    <3>3. es[i].parent = Up(es, i)
      BY <1>1, <1>2, <3>1 DEF Linked
    <3>4. QED
      BY <1>8, <3>1, <3>2, <3>3
  <2>3. QED
    BY <2>1, <2>2
<1>15. ASSUME NEW c \in 0..d PROVE z.depths[c] = Ancestor(fs, l + 1, c)
  <2>1. m.depths \in [0..MaxDepth -> Int] /\ c \in 0..MaxDepth
    BY <1>1 DEF NadRec, NadAssumption
  <2>2. CASE c = d
    <3>1. Ancestor(fs, l + 1, d) = l + 1
      BY <1>5, <1>9, <1>10, AncestorSelf
    <3>2. QED
      BY <1>8, <2>1, <2>2, <3>1
  <2>3. CASE c # d
    <3>1. l # 0 /\ c \in 0..Depth(es, l)
      BY <1>6, <2>3
    <3>2. m.depths[c] = Ancestor(es, l, c)
      BY <1>12, <3>1
    <3>3. Ancestor(fs, l + 1, c) = Ancestor(fs, l, c)
      BY <1>9, <2>3, AncestorNext
    <3>4. QED
      BY <1>8, <1>11, <2>1, <2>3, <3>2, <3>3
  <2>4. QED
    BY <2>2, <2>3
<1>16. Linked(fs)
  BY <1>8, <1>14 DEF Linked
<1>17. Tracked(z)
  BY <1>4, <1>8, <1>9, <1>15 DEF Tracked
<1>18. QED
  BY <1>3, <1>4, <1>16, <1>17
(* nad_wrap_elem around the whole: every element one deeper and one later, *)
(* and every parent with it, the new one for the first.                    *)
WrapTop(es, fs) ==
    /\ Len(fs) = Len(es) + 1 /\ Depth(fs, 1) = 0 /\ fs[1].parent = es[1].parent
    /\ \A i \in 1..Len(es) :
          /\ Depth(fs, i + 1) = Depth(es, i) + 1
          /\ fs[i + 1].parent = IF es[i].parent = 0 \/ es[i].parent >= 1 THEN es[i].parent + 1 ELSE es[i].parent

LEMMA WrapIs ==
    ASSUME NEW m, Good(m), NEW n \in Names, 1 \in 1..Len(m.elems)
    PROVE  WrapTop(m.elems, WrapElem(m, 1, n).elems)
<1>1. PICK es \in Seq(ElemRec) : es = m.elems
  BY GoodParts
<1>2. PICK l \in Nat : l = Len(es)
  OBVIOUS
<1>3. m \in NadRec /\ Shaped(es) /\ 1 \in 1..l
  BY <1>1, <1>2, GoodParts
<1>4. /\ \A i \in 1..l : es[i] \in ElemRec /\ Depth(es, i) \in Nat /\ Depth(es, i) = es[i].depth
      /\ \A i \in 1..l : Depth(es, i) = 0 <=> i = 1
  BY <1>2, <1>3, ShapeParts
<1> DEFINE deeper(i) == i = 1 \/ Inside(es, 1, i)
           link(x) == [x EXCEPT !.parent = IF @ = 0 \/ @ >= 1 THEN @ + 1 ELSE @]
           put(i) == LET x == link(es[1 + i - 1]) IN  IF deeper(1 + i - 1) THEN [x EXCEPT !.depth = @ + 1] ELSE x
           k == (l - 1) + 1
<1>5. PICK x0 : x0 = Elem(n, Depth(es, 1), es[1].parent)
  OBVIOUS
<1>6. x0.depth = 0 /\ x0.parent = es[1].parent
  BY <1>3, <1>4, <1>5 DEF Elem
<1>7. ASSUME NEW i \in 1..l
      PROVE  /\ put(i).depth = Depth(es, i) + 1
             /\ put(i).parent = IF es[i].parent = 0 \/ es[i].parent >= 1 THEN es[i].parent + 1 ELSE es[i].parent
  <2>1. (1 + i) - 1 = i
    OBVIOUS
  <2>2. deeper(i)
    <3>1. ASSUME i # 1 PROVE Inside(es, 1, i)
      <4>1. i > 1
        BY <3>1
      <4>2. ASSUME NEW j \in (1 + 1)..i PROVE Depth(es, j) > Depth(es, 1)
        <5>1. j \in 1..l /\ j # 1
          OBVIOUS
        <5>2. Depth(es, j) \in Nat /\ Depth(es, j) # 0 /\ Depth(es, 1) = 0
          BY <1>3, <1>4, <5>1
        <5>3. QED
          BY <5>2
      <4>3. QED
        BY <4>1, <4>2 DEF Inside
    <3>2. QED
      BY <3>1
  <2>3. PICK y \in ElemRec : y = es[i]
    BY <1>4
  <2>4. PICK p : p = IF y.parent = 0 \/ y.parent >= 1 THEN y.parent + 1 ELSE y.parent
    OBVIOUS
  <2>5. PICK z : z = [y EXCEPT !.parent = p]
    OBVIOUS
  <2>6. link(y) = z
    BY <2>4, <2>5
  <2>7. z.depth = y.depth /\ z.parent = p /\ [z EXCEPT !.depth = @ + 1].depth = y.depth + 1 /\ [z EXCEPT !.depth = @ + 1].parent = p
    BY <2>5 DEF ElemRec
  <2> HIDE DEF link, deeper
  <2>8. put(i) = [z EXCEPT !.depth = @ + 1]
    BY <2>1, <2>2, <2>3, <2>6
  <2> HIDE DEF put
  <2>9. y.depth = Depth(es, i)
    BY <1>4, <2>3
  <2>10. QED
    BY <2>3, <2>4, <2>7, <2>8, <2>9
<1> HIDE DEF deeper, link
<1>8. k = l /\ l - 1 + 1 = k
  OBVIOUS
<1>9. PICK q, r : q = SubSeq(es, 1, 1 - 1) /\ r = [i \in 1..k |-> put(i)]
  OBVIOUS
<1>10. WrapElem(m, 1, n) = With(m, (q \o <<x0>>) \o r)
  BY ZenonT(40), <1>1, <1>2, <1>5, <1>8, <1>9 DEF WrapElem, With, deeper, link
<1> HIDE DEF put, k
<1>11. q = <<>>
  BY <1>9
<1>12. PICK S : S = {x0} \cup {put(i) : i \in 1..l}
  OBVIOUS
<1>13. r \in Seq(S) /\ Len(r) = l /\ \A i \in 1..l : r[i] = put(i)
  <2>1. r \in [1..l -> S]
    BY <1>8, <1>9, <1>12
  <2>2. r \in Seq(S) /\ Len(r) = l
    BY <2>1, FunSeq
  <2>3. QED
    BY <1>8, <1>9, <2>2
<1>14. <<x0>> \in Seq(S) /\ Len(<<x0>>) = 1 /\ <<x0>>[1] = x0 /\ q \o <<x0>> = <<x0>>
  <2>1. x0 \in S
    BY <1>12
  <2>2. <<x0>> \in Seq(S) /\ Len(<<x0>>) = 1 /\ <<x0>>[1] = x0
    BY <2>1
  <2>3. <<>> \o <<x0>> = <<x0>>
    OBVIOUS
  <2>4. QED
    BY <1>11, <2>2, <2>3
<1>15. PICK o, fs : o = <<x0>> /\ fs = o \o r
  OBVIOUS
<1>16. Len(fs) = 1 + l /\ \A i \in 1..(1 + l) : fs[i] = IF i <= 1 THEN o[i] ELSE r[i - 1]
  <2>1. o \in Seq(S) /\ Len(o) = 1
    BY <1>14, <1>15
  <2>2. Len(fs) = Len(o) + Len(r) /\ \A i \in 1..(Len(o) + Len(r)) : fs[i] = IF i <= Len(o) THEN o[i] ELSE r[i - Len(o)]
    BY <1>13, <1>15, <2>1, ConcatProperties
  <2>3. QED
    BY <1>13, <2>1, <2>2
<1>17. fs[1] = x0
  <2>1. 1 \in 1..(1 + l) /\ 1 <= 1
    OBVIOUS
  <2>2. QED
    BY <1>14, <1>15, <1>16, <2>1
<1>18. ASSUME NEW i \in 1..l PROVE fs[i + 1] = put(i)
  <2>1. i + 1 \in 1..(1 + l) /\ ~(i + 1 <= 1) /\ (i + 1) - 1 = i
    OBVIOUS
  <2>2. QED
    BY <1>13, <1>16, <2>1
<1>19. WrapElem(m, 1, n).elems = fs
  <2>1. WrapElem(m, 1, n) = With(m, fs)
    BY <1>10, <1>14, <1>15
  <2>2. QED
    BY <1>3, <2>1 DEF With, NadRec
<1>20. Len(fs) = l + 1
  BY <1>16
<1>21. Depth(fs, 1) = 0 /\ fs[1].parent = es[1].parent
  BY <1>6, <1>17 DEF Depth
<1>22. ASSUME NEW i \in 1..l
       PROVE  /\ Depth(fs, i + 1) = Depth(es, i) + 1
              /\ fs[i + 1].parent = IF es[i].parent = 0 \/ es[i].parent >= 1 THEN es[i].parent + 1 ELSE es[i].parent
  <2>1. Depth(fs, i + 1) = put(i).depth
    BY <1>18 DEF Depth
  <2>2. QED
    BY <1>7, <1>18, <2>1
<1>23. WrapTop(es, fs)
  BY <1>2, <1>20, <1>21, <1>22 DEF WrapTop
<1>24. QED
  BY <1>1, <1>19, <1>23

LEMMA WrapLinks ==
    ASSUME NEW es, NEW fs, Shaped(es), Shaped(fs), 1 \in 1..Len(es), Linked(es), WrapTop(es, fs)
    PROVE  Linked(fs)
<1>1. PICK l \in Nat : l = Len(es) /\ Len(fs) = l + 1
  BY ShapeParts DEF WrapTop
<1>2. 1 \in 1..l /\ 1 \in 1..(l + 1)
  BY <1>1
<1>3. fs[1].parent = Up(fs, 1)
  <2>1. Up(es, 1) = 0 /\ Up(fs, 1) = 0
    <3>1. Up(es, 1) = 0
      BY <1>1, <1>2, UpIs
    <3>2. Up(fs, 1) = 0
      BY <1>1, <1>2, UpIs
    <3>3. QED
      BY <3>1, <3>2
  <2>2. es[1].parent = Up(es, 1)
    BY <1>1, <1>2 DEF Linked
  <2>3. QED
    BY <2>1, <2>2 DEF WrapTop
<1>4. \A j \in 1..l : Depth(fs, j + 1) = Depth(es, j) + 1 /\ Depth(es, j) \in Nat
  BY <1>1, ShapeParts DEF WrapTop
<1>5. ASSUME NEW i \in 1..l PROVE fs[i + 1].parent = Up(fs, i + 1)
  <2>1. es[i].parent = Up(es, i)
    BY <1>1 DEF Linked
  <2>2. i + 1 \in 1..Len(fs)
    BY <1>1
  <2>3. CASE i = 1
    <3>1. Up(es, 1) = 0 /\ Depth(es, 1) = 0
      <4>1. 1 \in 1..Len(es)
        OBVIOUS
      <4>2. Up(es, 1) = 0
        BY <4>1, UpIs
      <4>3. Depth(es, 1) = 0
        BY <4>1, ShapeParts
      <4>4. QED
        BY <4>2, <4>3
    <3>2. fs[2].parent = 1
      <4>1. es[1].parent = 0
        BY <2>1, <2>3, <3>1
      <4>2. fs[1 + 1].parent = es[1].parent + 1
        BY <4>1 DEF WrapTop
      <4>3. QED
        BY <4>1, <4>2
    <3>3. Above(fs, 1, 2)
      <4>1. Depth(fs, 1) = 0 /\ Depth(fs, 1 + 1) = 1
        <5>1. Depth(fs, 1 + 1) = Depth(es, 1) + 1
          BY <1>2, <1>4
        <5>2. QED
          BY <3>1, <5>1 DEF WrapTop
      <4>2. Depth(fs, 2) = 1 /\ 1 < 2 /\ \A j \in (1 + 1)..2 : j = 2
        BY <4>1
      <4>3. QED
        BY <4>1, <4>2 DEF Above
    <3>4. 2 \in 1..Len(fs) /\ 1 \in 1..Len(fs)
      BY <1>1, <1>2, <2>2, <2>3
    <3>5. Up(fs, 2) = 1
      BY <3>3, <3>4, UpIs
    <3>6. QED
      BY <2>3, <3>2, <3>5
  <2>4. CASE i # 1
    <3>1. i \in 1..Len(es)
      BY <1>1
    <3>2. Up(es, i) \in 1..Len(es) /\ Above(es, Up(es, i), i)
      BY <2>4, <3>1, UpIs
    <3>3. PICK p \in 1..l : p = Up(es, i) /\ Above(es, p, i)
      BY <1>1, <3>2
    <3>4. fs[i + 1].parent = p + 1
      <4>1. es[i].parent >= 1
        BY <2>1, <3>3
      <4>2. fs[i + 1].parent = es[i].parent + 1
        BY <3>1, <4>1 DEF WrapTop
      <4>3. QED
        BY <2>1, <3>3, <4>2
    <3>5. Above(fs, p + 1, i + 1)
      <4>1. p < i /\ Depth(es, p) + 1 = Depth(es, i) /\ \A j \in (p + 1)..i : Depth(es, j) >= Depth(es, i)
        BY <3>3 DEF Above
      <4>2. Depth(fs, p + 1) = Depth(es, p) + 1 /\ Depth(fs, i + 1) = Depth(es, i) + 1
        BY <1>4
      <4>3. ASSUME NEW j \in ((p + 1) + 1)..(i + 1) PROVE Depth(fs, j) >= Depth(fs, i + 1)
        <5>1. PICK h : h = j - 1
          OBVIOUS
        <5>2. h \in (p + 1)..i /\ h \in 1..l /\ j = h + 1
          BY <5>1
        <5>3. Depth(fs, j) = Depth(es, h) + 1 /\ Depth(es, h) \in Nat /\ Depth(es, i) \in Nat
          BY <1>4, <5>2
        <5>4. Depth(es, h) >= Depth(es, i)
          BY <4>1, <5>2
        <5>5. QED
          BY <4>2, <5>3, <5>4
      <4>4. p + 1 < i + 1 /\ Depth(fs, p + 1) + 1 = Depth(fs, i + 1)
        BY <1>4, <4>1, <4>2
      <4>5. QED
        BY <4>3, <4>4 DEF Above
    <3>6. p + 1 \in 1..Len(fs)
      BY <1>1
    <3>7. Up(fs, i + 1) = p + 1
      BY <2>2, <3>5, <3>6, UpIs
    <3>8. QED
      BY <3>4, <3>7
  <2>5. QED
    BY <2>3, <2>4
<1>6. ASSUME NEW i \in 1..Len(fs) PROVE fs[i].parent = Up(fs, i)
  <2>1. CASE i = 1
    BY <1>3, <2>1
  <2>2. CASE i # 1
    <3>1. PICK j : j = i - 1
      OBVIOUS
    <3>2. j \in 1..l /\ i = j + 1
      BY <1>1, <2>2, <3>1
    <3>3. QED
      BY <1>5, <3>2
  <2>3. QED
    BY <2>1, <2>2
<1>7. QED
  BY <1>6 DEF Linked
-----------------------------------------------------------------------------
(* Every nad that is built, edited and wrapped is printed and read back    *)

(* While a nad is built, the depths lead to the parents; until elements    *)
(* are put in or taken out, the parents are true.                          *)
Faithful(m, ph) ==
    /\ Good(m) /\ Low(m.elems)
    /\ ph = "building" => Tracked(m)
    /\ ph # "edited" => Linked(m.elems)

LEMMA InitFaithful ==
    ASSUME Init, NadAssumption
    PROVE  Faithful(nad, phase)
<1>1. Good(nad)
  BY InitGood
<1>2. nad.elems = <<>> /\ phase = "building"
  BY DEF Init, NadNew
<1>3. Len(nad.elems) = 0 /\ \A i : i \notin 1..0
  BY <1>2
<1>4. QED
  BY <1>1, <1>2, <1>3 DEF Faithful, Low, Tracked, Linked

LEMMA NextFaithful ==
    ASSUME Faithful(nad, phase), [Next]_vars, NadAssumption
    PROVE  Faithful(nad', phase')
<1>1. Good(nad) /\ Low(nad.elems) /\ (phase = "building" => Tracked(nad)) /\ (phase # "edited" => Linked(nad.elems))
  BY DEF Faithful
<1>2. Good(nad')
  BY <1>1, NextGood
<1>3. CASE UNCHANGED vars
  BY <1>3 DEF vars
<1>4. CASE Next
  <2>1. Low(nad'.elems)
    <3>1. Fits(nad')
      BY <1>4 DEF Next
    <3>2. DOMAIN nad'.elems = 1..Len(nad'.elems)
      BY <1>2, GoodParts
    <3>3. QED
      BY <3>1, <3>2 DEF Fits, Low, Depth
  <2>2. /\ Es = nad.elems /\ Indices = 1..Len(nad.elems) /\ Len(nad.elems) \in Nat
        /\ (nad.elems # <<>> => Len(nad.elems) # 0 /\ Len(nad.elems) \in 1..Len(nad.elems))
        /\ (Indices # {} => nad.elems # <<>> /\ 1 \in 1..Len(nad.elems))
    <3>1. nad.elems \in Seq(ElemRec) /\ Len(nad.elems) \in Nat /\ DOMAIN nad.elems = 1..Len(nad.elems)
      BY <1>1, GoodParts
    <3>2. nad.elems # <<>> <=> Len(nad.elems) # 0
      BY <3>1, EmptySeq
    <3>3. QED
      BY <3>1, <3>2 DEF Es, Indices
  <2>3. SUFFICES (phase' = "building" => Tracked(nad')) /\ (phase' # "edited" => Linked(nad'.elems))
    BY <1>2, <2>1 DEF Faithful
  <2>4. ASSUME NEW n \in Names, NEW d \in 0..MaxDepth, Build(n, d)
        PROVE  Tracked(nad') /\ Linked(nad'.elems)
    <3>1. IF nad.elems = <<>> THEN d = 0 ELSE d \in 1..(Depth(nad.elems, Len(nad.elems)) + 1)
      BY <2>2, <2>4 DEF Build
    <3>2. Linked(nad.elems) /\ Tracked(nad) /\ nad' = AppendElem(nad, n, d)
      BY <1>1, <2>4 DEF Build
    <3>3. QED
      BY <1>1, <3>1, <3>2, AppendLinks
  <2>5. ASSUME NEW a \in Names, BuildAttr(a)
        PROVE  Tracked(nad') /\ Linked(nad'.elems)
    <3>1. Linked(nad.elems) /\ Tracked(nad) /\ nad.elems # <<>> /\ nad' = Attr(nad, Len(nad.elems), a)
      BY <1>1, <2>2, <2>5 DEF BuildAttr, AppendAttr
    <3>2. Kept(nad, nad')
      BY <1>1, <2>2, <3>1, KeptAttr
    <3>3. QED
      BY <1>1, <3>1, <3>2, KeptLinks
  <2>6. ASSUME NEW d \in 1..MaxDepth, BuildText(d)
        PROVE  Tracked(nad') /\ Linked(nad'.elems)
    <3>1. Linked(nad.elems) /\ Tracked(nad) /\ nad.elems # <<>> /\ nad' = AppendCdata(nad, d)
      BY <1>1, <2>2, <2>6 DEF BuildText
    <3>2. Kept(nad, nad')
      BY <1>1, <2>2, <3>1, KeptCdata
    <3>3. QED
      BY <1>1, <3>1, <3>2, KeptLinks
  <2>7. ASSUME Finish
        PROVE  phase' # "building" /\ Linked(nad'.elems)
    <3>1. Linked(nad.elems) /\ nad' = Copied(nad) /\ phase' = "built"
      BY <1>1, <2>7 DEF Finish
    <3>2. nad'.elems = nad.elems
      BY <3>1 DEF Copied, NadNew
    <3>3. QED
      BY <3>1, <3>2
  <2>8. ASSUME NEW e \in Indices, NEW n \in Names, Wrap(e, n)
        PROVE  phase' # "building" /\ (phase' # "edited" => Linked(nad'.elems))
    <3>1. phase # "building" /\ nad' = WrapElem(nad, e, n) /\ phase' = IF e = 1 THEN phase ELSE "edited"
      BY <2>8 DEF Wrap
    <3>2. ASSUME e = 1, phase # "edited" PROVE Linked(nad'.elems)
      <4>1. 1 \in 1..Len(nad.elems) /\ Linked(nad.elems) /\ Shaped(nad.elems) /\ Shaped(nad'.elems)
        BY <1>1, <1>2, <2>2, <3>2 DEF Good
      <4>2. WrapTop(nad.elems, nad'.elems)
        BY <1>1, <3>1, <3>2, <4>1, WrapIs
      <4>3. QED
        BY <4>1, <4>2, WrapLinks
    <3>3. QED
      BY <3>1, <3>2
  <2>9. ASSUME NEW e \in Indices, NEW a \in Names, EditAttr(SetAttr(nad, e, a)) \/ EditAttr(ZapAttr(nad, e, a))
        PROVE  phase' # "building" /\ (phase' # "edited" => Linked(nad'.elems))
    <3>1. phase # "building" /\ phase' = phase /\ (nad' = SetAttr(nad, e, a) \/ nad' = ZapAttr(nad, e, a))
      BY <2>9 DEF EditAttr
    <3>2. Kept(nad, nad')
      BY <1>1, <2>2, <3>1, KeptAttr
    <3>3. ASSUME phase # "edited" PROVE Linked(nad'.elems)
      BY <1>1, <2>2, <3>2, <3>3, KeptLinks
    <3>4. QED
      BY <3>1, <3>3
  <2>10. ASSUME NEW m, Edit(m) PROVE phase' = "edited"
    BY <2>10 DEF Edit
  <2>11. QED
    BY <1>4, <2>4, <2>5, <2>6, <2>7, <2>8, <2>9, <2>10 DEF Next
<1>5. QED
  BY <1>3, <1>4

(* Whatever is built, copied, given attributes, wrapped and edited, what   *)
(* nad_print writes of it is read back by nad_parse as the same packet,    *)
(* with the same parents too until elements are put in or taken out: in    *)
(* nads of any size and depth.                                             *)
THEOREM PrintedIsRead == Spec => []RoundTrip
<1>1. Init => Faithful(nad, phase)
  BY InitFaithful, NadAssumption
<1>2. Faithful(nad, phase) /\ [Next]_vars => Faithful(nad, phase)'
  <2>1. SUFFICES ASSUME Faithful(nad, phase), [Next]_vars PROVE Faithful(nad', phase')
    BY DEF Faithful, Good, Shaped, Low, Tracked, Linked, Up, Ancestor, Depth
  <2>2. QED
    BY <2>1, NextFaithful, NadAssumption
<1>3. Faithful(nad, phase) => RoundTrip
  <2>1. SUFFICES ASSUME Faithful(nad, phase) PROVE RoundTrip
    OBVIOUS
  <2>2. Shaped(Es) /\ Low(Es) /\ (phase # "edited" => \A i \in 1..Len(Es) : Es[i].parent = Up(Es, i))
    BY <2>1 DEF Faithful, Good, Linked, Es
  <2>3. QED
    BY <2>2, ReadBack, NadAssumption
<1>4. QED
  BY <1>1, <1>2, <1>3, PTL DEF Spec
=============================================================================
