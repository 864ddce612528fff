--------------------------- MODULE ManagerProofs ---------------------------
(***************************************************************************)
(* Proofs about the session manager (Manager), for every set of resources, *)
(* peers, contacts, services and scenes.  A handler of the model maps a    *)
(* work state to a work state, so most lemmas here say that a handler      *)
(* keeps the work states that are in order; the last part shows that what  *)
(* the router makes of the packets written keeps the rest of the state in  *)
(* order.                                                                  *)
(***************************************************************************)
EXTENDS Manager, TLAPS, WellFoundedInduction, SequenceTheorems, FiniteSetTheorems

-----------------------------------------------------------------------------
(* Induction, maxima and folds                                             *)

(* A set of naturals with 0 that is closed under successor is all of them. *)
LEMMA NatSet ==
    ASSUME NEW S \in SUBSET Nat, 0 \in S, \A n \in S : n + 1 \in S
    PROVE  S = Nat
<1> SUFFICES ASSUME Nat \ S # {} PROVE FALSE
  OBVIOUS
<1> DEFINE T == Nat \ S
<1>1. T \subseteq Nat /\ T # {}
  OBVIOUS
<1>2. \A k \in Nat : k \notin T <=> k \in S
  OBVIOUS
<1> HIDE DEF T
<1>3. PICK x \in T : \A y \in T : ~(<<y, x>> \in OpToRel(<, Nat))
  BY <1>1, WFMin, NatLessThanWellFounded
<1>4. x \in Nat /\ x # 0 /\ x - 1 \in Nat
  <2>1. x \in Nat /\ x \notin S
    BY <1>1, <1>2, <1>3
  <2>2. x # 0
    BY <2>1
  <2>3. QED
    BY <2>1, <2>2
<1>5. x - 1 \notin T
  <2> SUFFICES ASSUME x - 1 \in T PROVE FALSE
    OBVIOUS
  <2> DEFINE z == <<x - 1, x>>
  <2>1. z \in Nat \X Nat /\ z[1] = x - 1 /\ z[2] = x
    BY <1>4
  <2>2. ~(z \in OpToRel(<, Nat))
    BY <1>3
  <2> HIDE DEF z
  <2>3. ~(z[1] < z[2])
    BY <2>1, <2>2 DEF OpToRel
  <2>4. QED
    BY <1>4, <2>1, <2>3
<1>6. QED
  <2>1. x - 1 \in S
    BY <1>2, <1>4, <1>5
  <2>2. (x - 1) + 1 \in S
    BY <2>1
  <2>3. (x - 1) + 1 = x
    BY <1>4
  <2>4. QED
    BY <1>2, <1>3, <1>4, <2>2, <2>3

(* A bounded set of indices that is not empty has one where a function of  *)
(* integer values is highest.                                              *)
LEMMA Highest ==
    ASSUME NEW f, NEW n \in Nat, \A i \in 1..n : f[i] \in Int
    PROVE  \A S \in SUBSET (1..n) : S # {} => \E m \in S : \A k \in S : f[k] <= f[m]
<1> DEFINE Good == {k \in Nat : k <= n => \A S \in SUBSET (1..k) : S # {} => \E m \in S : \A j \in S : f[j] <= f[m]}
<1>1. 0 \in Good
  <2>1. \A S \in SUBSET (1..0) : S = {}
    OBVIOUS
  <2>2. QED
    BY <2>1
<1>2. ASSUME NEW k \in Good PROVE k + 1 \in Good
  <2> SUFFICES ASSUME k + 1 <= n, NEW S \in SUBSET (1..(k+1)), S # {}
               PROVE  \E m \in S : \A j \in S : f[j] <= f[m]
    OBVIOUS
  <2>0. \A R \in SUBSET (1..k) : R # {} => \E m \in R : \A j \in R : f[j] <= f[m]
    OBVIOUS
  <2>1. \A j \in S : f[j] \in Int
    OBVIOUS
  <2>2. CASE k + 1 \notin S
    <3>1. S \in SUBSET (1..k)
      BY <2>2
    <3>2. QED
      BY <3>1
  <2>3. CASE S = {k + 1}
    BY <2>1, <2>3
  <2>4. CASE k + 1 \in S /\ S # {k + 1}
    <3> DEFINE R == S \ {k + 1}
    <3>1. R \in SUBSET (1..k) /\ R # {}
      BY <2>4
    <3>2. PICK m \in R : \A j \in R : f[j] <= f[m]
      BY <2>0, <3>1
    <3>3. CASE f[m] <= f[k + 1]
      <4>1. \A j \in S : f[j] <= f[k + 1]
        BY <2>1, <2>4, <3>2, <3>3
      <4>2. QED
        BY <2>4, <4>1
    <3>4. CASE ~(f[m] <= f[k + 1])
      <4>1. \A j \in S : f[j] <= f[m]
        BY <2>1, <2>4, <3>2, <3>4
      <4>2. QED
        BY <3>2, <4>1
    <3>5. QED
      BY <3>3, <3>4
  <2>5. QED
    BY <2>2, <2>3, <2>4
<1>3. Good = Nat
  <2>1. Good \subseteq Nat
    OBVIOUS
  <2> HIDE DEF Good
  <2>2. QED
    BY <1>1, <1>2, <2>1, NatSet
<1>4. n \in Good /\ n <= n
  BY <1>3
<1>5. QED
  BY <1>4

LEMMA MaxIn ==
    ASSUME NEW n \in Nat, NEW S \in SUBSET (1..n), S # {}
    PROVE  Max(S) \in S /\ \A k \in S : k <= Max(S)
<1> DEFINE f == [i \in 1..n |-> i]
<1>1. \A i \in 1..n : f[i] \in Int
  OBVIOUS
<1>2. \A k \in S : f[k] = k
  OBVIOUS
<1> HIDE DEF f
<1>3. \E m \in S : \A k \in S : f[k] <= f[m]
  BY <1>1, Highest
<1>4. \E m \in S : \A k \in S : m >= k
  BY <1>2, <1>3
<1>5. Max(S) \in S /\ \A k \in S : Max(S) >= k
  BY <1>4 DEF Max
<1>6. QED
  BY <1>5

LEMMA MaxTop ==
    ASSUME NEW k \in Nat, NEW s \in SUBSET (1..(k+1)), k + 1 \in s
    PROVE  Max(s) = k + 1 /\ s \ {k + 1} \in SUBSET (1..k)
<1>1. Max(s) \in s /\ \A j \in s : j <= Max(s)
  <2>1. k + 1 \in Nat /\ s # {}
    OBVIOUS
  <2>2. QED
    BY <2>1, MaxIn
<1> DEFINE m == Max(s)
<1> HIDE DEF m
<1>2. m \in 1..(k+1) /\ k + 1 <= m
  BY <1>1 DEF m
<1>3. m = k + 1
  BY <1>2
<1>4. QED
  BY <1>3 DEF m

(* A list made of a finite set has each of its members.                    *)
LEMMA SetSeq ==
    ASSUME NEW S, IsFiniteSet(S)
    PROVE  /\ SetToSeq(S) \in Seq(S)
           /\ \A x \in S : \E i \in DOMAIN SetToSeq(S) : SetToSeq(S)[i] = x
<1> DEFINE n == Cardinality(S)
<1>1. n \in Nat /\ ExistsBijection(1..n, S)
  BY FS_CardinalityType
<1> HIDE DEF n
<1>2. PICK g : g \in Bijection(1..n, S)
  BY <1>1 DEF ExistsBijection
<1>3. g \in [1..n -> S] /\ IsInjective(g)
  BY <1>2 DEF Bijection, Injection, IsInjective
<1> DEFINE f == SetToSeq(S)
<1>4. f \in [1..n -> S] /\ IsInjective(f)
  BY <1>3 DEF SetToSeq, n
<1> HIDE DEF f
<1>5. f \in Injection(1..n, S)
  BY <1>4 DEF Injection, IsInjective
<1>6. IsFiniteSet(1..n) /\ Cardinality(1..n) = n
  <2>1. 1 \in Int /\ n \in Int
    BY <1>1
  <2>2. IsFiniteSet(1..n) /\ Cardinality(1..n) = IF 1 > n THEN 0 ELSE n - 1 + 1
    BY <2>1, FS_Interval
  <2>3. QED
    BY <1>1, <2>2
<1>7. f \in Surjection(1..n, S)
  BY <1>5, <1>6, FS_Injection DEF n
<1>8. f \in Seq(S) /\ DOMAIN f = 1..n
  BY <1>1, <1>4
<1>9. \A x \in S : \E i \in 1..n : f[i] = x
  BY <1>7 DEF Surjection
<1>10. QED
  BY <1>8, <1>9 DEF f

(* The packets written are taken one after the other.                     *)
EmitIter(g, b, q, T, reach, on) == g = [s \in T |-> IF s = {} THEN b ELSE Emit(g[s \ {Max(s)}], q[Max(s)], reach, on)]

LEMMA EmitExists ==
    ASSUME NEW b, NEW q, NEW reach, NEW on
    PROVE  \A n \in Nat : \E g : EmitIter(g, b, q, SUBSET (1..n), reach, on)
<1> DEFINE G == {n \in Nat : \E g : EmitIter(g, b, q, SUBSET (1..n), reach, on)}
<1>1. 0 \in G
  <2>1. SUBSET (1..0) = {{}}
    OBVIOUS
  <2> DEFINE g == [s \in SUBSET (1..0) |-> b]
  <2>2. EmitIter(g, b, q, SUBSET (1..0), reach, on)
    BY <2>1 DEF EmitIter
  <2>3. QED
    BY <2>2
<1>2. ASSUME NEW n \in G PROVE n + 1 \in G
  <2>1. PICK g : EmitIter(g, b, q, SUBSET (1..n), reach, on)
    OBVIOUS
  <2> DEFINE T == SUBSET (1..(n+1))
             h == [s \in T |-> IF n + 1 \in s THEN Emit(g[s \ {n + 1}], q[n + 1], reach, on) ELSE g[s]]
  <2>2. ASSUME NEW s \in T PROVE h[s] = IF s = {} THEN b ELSE Emit(h[s \ {Max(s)}], q[Max(s)], reach, on)
    <3>1. CASE n + 1 \in s
      <4>1. Max(s) = n + 1 /\ s \ {n + 1} \in SUBSET (1..n)
        BY <3>1, MaxTop
      <4>2. h[s \ {n + 1}] = g[s \ {n + 1}]
        BY <4>1
      <4>3. QED
        BY <3>1, <4>1, <4>2
    <3>2. CASE n + 1 \notin s
      <4>1. s \in SUBSET (1..n)
        BY <3>2
      <4>2. g[s] = IF s = {} THEN b ELSE Emit(g[s \ {Max(s)}], q[Max(s)], reach, on)
        BY <4>1, <2>1 DEF EmitIter
      <4>3. h[s] = g[s]
        BY <3>2
      <4>4. h[s \ {Max(s)}] = g[s \ {Max(s)}]
        BY <3>2, <4>1
      <4>5. QED
        BY <4>2, <4>3, <4>4
    <3>3. QED
      BY <3>1, <3>2
  <2>3. h = [s \in T |-> h[s]]
    OBVIOUS
  <2> HIDE DEF h, T
  <2>4. EmitIter(h, b, q, T, reach, on)
    BY <2>2, <2>3 DEF EmitIter
  <2>5. QED
    BY <2>4 DEF T
<1>3. G \subseteq Nat
  OBVIOUS
<1> HIDE DEF G
<1>4. G = Nat
  BY <1>1, <1>2, <1>3, NatSet
<1>5. QED
  BY <1>4 DEF G

LEMMA EmitTrace ==
    ASSUME NEW b, NEW S, NEW q \in Seq(S), NEW reach, NEW on
    PROVE  \E e : /\ e[0] = b
                  /\ \A i \in 1..Len(q) : e[i] = Emit(e[i - 1], q[i], reach, on)
                  /\ Emitted(b, q, reach, on) = e[Len(q)]
<1> DEFINE n == Len(q)
<1>1. n \in Nat /\ DOMAIN q = 1..n
  OBVIOUS
<1> HIDE DEF n
<1> DEFINE g == CHOOSE f : EmitIter(f, b, q, SUBSET (1..n), reach, on)
<1>2. EmitIter(g, b, q, SUBSET (1..n), reach, on)
  BY <1>1, EmitExists
<1>3. Emitted(b, q, reach, on) = (CHOOSE f : EmitIter(f, b, q, SUBSET DOMAIN q, reach, on))[DOMAIN q]
  BY Zenon DEF Emitted, FoldLeft, MapThenFoldSet, EmitIter
<1>4. Emitted(b, q, reach, on) = g[1..n]
  BY <1>1, <1>3
<1> HIDE DEF g
<1> DEFINE e == [i \in 0..n |-> g[1..i]]
<1>5. e[0] = b
  <2>1. 1..0 = {} /\ e[0] = g[1..0] /\ {} \in SUBSET (1..n)
    BY <1>1
  <2>2. QED
    BY <1>2, <2>1 DEF EmitIter
<1>6. ASSUME NEW i \in 1..n PROVE e[i] = Emit(e[i - 1], q[i], reach, on)
  <2>1. i - 1 \in Nat /\ (i - 1) + 1 = i /\ i - 1 \in 0..n /\ i \in 0..n /\ i \in 1..i
    BY <1>1
  <2> DEFINE s == 1..i
  <2>2. s \in SUBSET (1..((i - 1) + 1)) /\ (i - 1) + 1 \in s
    BY <2>1
  <2>3. Max(s) = i /\ s # {}
    BY <2>1, <2>2, MaxTop
  <2>4. s \ {i} = 1..(i - 1) /\ s \in SUBSET (1..n)
    BY <1>1, <2>1
  <2> HIDE DEF s
  <2>5. g[s] = Emit(g[1..(i - 1)], q[i], reach, on)
    BY <1>2, <2>3, <2>4 DEF EmitIter
  <2>6. e[i] = g[s] /\ e[i - 1] = g[1..(i - 1)]
    BY <2>1 DEF s
  <2>7. QED
    BY <2>5, <2>6
<1>7. e[n] = g[1..n]
  BY <1>1
<1> HIDE DEF e
<1>8. QED
  BY <1>4, <1>5, <1>6, <1>7 DEF n

(* The sessions of a c2s that is lost end one after the other.            *)
EndIter(g, b, q, T) == g = [s \in T |-> IF s = {} THEN b ELSE SessEnd(g[s \ {Max(s)}], q[Max(s)])]

LEMMA EndExists ==
    ASSUME NEW b, NEW q
    PROVE  \A n \in Nat : \E g : EndIter(g, b, q, SUBSET (1..n))
<1> DEFINE G == {n \in Nat : \E g : EndIter(g, b, q, SUBSET (1..n))}
<1>1. 0 \in G
  <2>1. SUBSET (1..0) = {{}}
    OBVIOUS
  <2> DEFINE g == [s \in SUBSET (1..0) |-> b]
  <2>2. EndIter(g, b, q, SUBSET (1..0))
    BY <2>1 DEF EndIter
  <2>3. QED
    BY <2>2
<1>2. ASSUME NEW n \in G PROVE n + 1 \in G
  <2>1. PICK g : EndIter(g, b, q, SUBSET (1..n))
    OBVIOUS
  <2> DEFINE T == SUBSET (1..(n+1))
             h == [s \in T |-> IF n + 1 \in s THEN SessEnd(g[s \ {n + 1}], q[n + 1]) ELSE g[s]]
  <2>2. ASSUME NEW s \in T PROVE h[s] = IF s = {} THEN b ELSE SessEnd(h[s \ {Max(s)}], q[Max(s)])
    <3>1. CASE n + 1 \in s
      <4>1. Max(s) = n + 1 /\ s \ {n + 1} \in SUBSET (1..n)
        BY <3>1, MaxTop
      <4>2. h[s \ {n + 1}] = g[s \ {n + 1}]
        BY <4>1
      <4>3. QED
        BY <3>1, <4>1, <4>2
    <3>2. CASE n + 1 \notin s
      <4>1. s \in SUBSET (1..n)
        BY <3>2
      <4>2. g[s] = IF s = {} THEN b ELSE SessEnd(g[s \ {Max(s)}], q[Max(s)])
        BY <4>1, <2>1 DEF EndIter
      <4>3. h[s] = g[s]
        BY <3>2
      <4>4. h[s \ {Max(s)}] = g[s \ {Max(s)}]
        BY <3>2, <4>1
      <4>5. QED
        BY <4>2, <4>3, <4>4
    <3>3. QED
      BY <3>1, <3>2
  <2>3. h = [s \in T |-> h[s]]
    OBVIOUS
  <2> HIDE DEF h, T
  <2>4. EndIter(h, b, q, T)
    BY <2>2, <2>3 DEF EndIter
  <2>5. QED
    BY <2>4 DEF T
<1>3. G \subseteq Nat
  OBVIOUS
<1> HIDE DEF G
<1>4. G = Nat
  BY <1>1, <1>2, <1>3, NatSet
<1>5. QED
  BY <1>4 DEF G

LEMMA EndTrace ==
    ASSUME NEW b, NEW S, NEW q \in Seq(S)
    PROVE  \E e : /\ e[0] = b
                  /\ \A i \in 1..Len(q) : e[i] = SessEnd(e[i - 1], q[i])
                  /\ SessEnds(b, q) = e[Len(q)]
<1> DEFINE n == Len(q)
<1>1. n \in Nat /\ DOMAIN q = 1..n
  OBVIOUS
<1> HIDE DEF n
<1> DEFINE g == CHOOSE f : EndIter(f, b, q, SUBSET (1..n))
<1>2. EndIter(g, b, q, SUBSET (1..n))
  BY <1>1, EndExists
<1>3. SessEnds(b, q) = (CHOOSE f : EndIter(f, b, q, SUBSET DOMAIN q))[DOMAIN q]
  BY Zenon DEF SessEnds, FoldLeft, MapThenFoldSet, EndIter
<1>4. SessEnds(b, q) = g[1..n]
  BY <1>1, <1>3
<1> HIDE DEF g
<1> DEFINE e == [i \in 0..n |-> g[1..i]]
<1>5. e[0] = b
  <2>1. 1..0 = {} /\ e[0] = g[1..0] /\ {} \in SUBSET (1..n)
    BY <1>1
  <2>2. QED
    BY <1>2, <2>1 DEF EndIter
<1>6. ASSUME NEW i \in 1..n PROVE e[i] = SessEnd(e[i - 1], q[i])
  <2>1. i - 1 \in Nat /\ (i - 1) + 1 = i /\ i - 1 \in 0..n /\ i \in 0..n /\ i \in 1..i
    BY <1>1
  <2> DEFINE s == 1..i
  <2>2. s \in SUBSET (1..((i - 1) + 1)) /\ (i - 1) + 1 \in s
    BY <2>1
  <2>3. Max(s) = i /\ s # {}
    BY <2>1, <2>2, MaxTop
  <2>4. s \ {i} = 1..(i - 1) /\ s \in SUBSET (1..n)
    BY <1>1, <2>1
  <2> HIDE DEF s
  <2>5. g[s] = SessEnd(g[1..(i - 1)], q[i])
    BY <1>2, <2>3, <2>4 DEF EndIter
  <2>6. e[i] = g[s] /\ e[i - 1] = g[1..(i - 1)]
    BY <2>1 DEF s
  <2>7. QED
    BY <2>5, <2>6
<1>7. e[n] = g[1..n]
  BY <1>1
<1> HIDE DEF e
<1>8. QED
  BY <1>4, <1>5, <1>6, <1>7 DEF n

-----------------------------------------------------------------------------
(* Work states in order                                                    *)

Items(n) == [via : {"router", "sess", "none"}, r : Resources \cup {""}, p : Pkt(n)]
WorkSet(n) == [m : Mgr(n), pkt : Pkt(n), id : 0..n, out : Seq(Items(n)), ret : {"PASS", "HANDLED", "error"}, io : BOOLEAN]

\* the sessions there are, whether or not the top session is right
Takes(u, r) == u.s[r].avail /\ u.s[r].pri >= 0
Listed(u) ==
    /\ u \in UserRec
    /\ u.order # <<>> => u.loaded
    /\ \A r \in Resources : u.s[r].on <=> \E i \in DOMAIN u.order : u.order[i] = r
    /\ \A i, j \in DOMAIN u.order : u.order[i] = u.order[j] => i = j
    /\ \A r \in Resources : u.s[r].avail => u.s[r].on
TopOk(u) ==
    /\ u.avail <=> \E r \in Resources : u.s[r].avail
    /\ u.top = "" <=> ~\E r \in Resources : Takes(u, r)
    /\ u.top # "" => Takes(u, u.top) /\ \A r \in Resources : Takes(u, r) => u.s[r].pri <= u.s[u.top].pri
UserOk(u) == Listed(u) /\ TopOk(u)

\* only those who returned a presence are left out when one is withdrawn
ErrOk(u) == \A r \in Resources : u.s[r].E \cap Peers \subseteq bounced[r]

DiscoOk(m) == m.dyn \cap Services \subseteq online /\ (m.cache = <<>> \/ m.cache = <<m.dyn \cup Static>>)

\* peer c has reason to believe that session r is available, and will be told
\* when it is not
Believed(u, c, r) == u.s[r].on /\ (c \in u.s[r].A \/ (u.s[r].avail /\ c \in Roster))
Tells(p, c, r, t) == Is(p, t) /\ p.from = Full(r) /\ p.to[1] = c

\* a packet that may be written in a state u of the user
Writable(p, u, n) ==
    /\ p \in Pkt(n) /\ p.from[1] \in Ours /\ p.elem # "advert" /\ ~p.rerr
    /\ Is(p, "probe") /\ p.from[1] = "user" => p.from[2] = ""
    /\ Discreet => \A c \in Peers, r \in Resources : Tells(p, c, r, "presence") => Believed(u, c, r)
ItemOk(o, u, n) ==
    /\ o \in Items(n)
    /\ o.via = "router" => Writable(o.p, u, n)
    /\ o.via = "sess" => o.r \in Resources

\* a peer who believed it when the packet came in, and may no longer, is told
Withdrawn(out, c, r) == \E i \in DOMAIN out : out[i].via = "router" /\ Tells(out[i].p, c, r, "unavailable")
Told(w) ==
    \A c \in Peers, r \in Resources :
        Believed(U, c, r) /\ c \notin bounced[r] => Believed(w.m.u, c, r) \/ Withdrawn(w.out, c, r)

Ok(w, n) ==
    /\ n \in Nat /\ w \in WorkSet(n) /\ (n > Len(fate) => w.id = n)
    /\ UserOk(w.m.u) /\ ErrOk(w.m.u) /\ DiscoOk(w.m)
    /\ \A i \in DOMAIN w.out : ItemOk(w.out[i], w.m.u, n)
    /\ Told(w)

\* what a handler leaves alone: the packet and which sessions there are
SameOrder(w, v) == v.m.u.order = w.m.u.order /\ (v.m.u.loaded <=> w.m.u.loaded)
Same(w, v) == v.pkt = w.pkt /\ SameOrder(w, v)

LEMMA OkParts ==
    ASSUME NEW n, NEW w, Ok(w, n)
    PROVE  /\ n \in Nat /\ w \in WorkSet(n) /\ w.pkt \in Pkt(n) /\ w.out \in Seq(Items(n)) /\ w.m \in Mgr(n)
           /\ w.m.u \in UserRec /\ UserOk(w.m.u) /\ w.m.u.order \in Seq(Resources)
           /\ w.m.u.s \in [Resources -> Sess] /\ w.m.spool \in Seq(Pkt(n))
BY DEF Ok, WorkSet, Mgr, UserRec, UserOk, Listed

LEMMA RetOk ==
    ASSUME NEW n, NEW w, Ok(w, n), NEW t, t \in {"PASS", "HANDLED", "error"}, NEW v, v = [w EXCEPT !.ret = t]
    PROVE  Ok(v, n) /\ Same(w, v) /\ v.m = w.m /\ v.out = w.out /\ v.ret = t
<1>1. v \in WorkSet(n) /\ v.m = w.m /\ v.out = w.out /\ v.id = w.id /\ v.pkt = w.pkt /\ v.ret = t
  BY DEF Ok, WorkSet
<1>2. QED
  BY <1>1 DEF Ok, Told, Same, SameOrder

LEMMA RetsOk ==
    ASSUME NEW n, NEW w, Ok(w, n)
    PROVE  /\ Ok(Handled(w), n) /\ Same(w, Handled(w)) /\ Handled(w).m = w.m /\ Handled(w).out = w.out
           /\ Ok(Fails(w), n) /\ Same(w, Fails(w)) /\ Fails(w).m = w.m /\ Fails(w).out = w.out
           /\ Ok(Begin(w), n) /\ Same(w, Begin(w)) /\ Begin(w).m = w.m /\ Begin(w).out = w.out
           /\ ~Passes(Handled(w)) /\ ~Passes(Fails(w)) /\ Passes(Begin(w))
<1>1. /\ Ok(Handled(w), n) /\ Same(w, Handled(w)) /\ Handled(w).m = w.m /\ Handled(w).out = w.out
      /\ Handled(w).ret = "HANDLED"
  <2> DEFINE v == Handled(w)
  <2>1. v = [w EXCEPT !.ret = "HANDLED"] /\ "HANDLED" \in {"PASS", "HANDLED", "error"}
    BY DEF Handled
  <2> HIDE DEF v
  <2>2. Ok(v, n) /\ Same(w, v) /\ v.m = w.m /\ v.out = w.out /\ v.ret = "HANDLED"
    BY <2>1, RetOk
  <2>3. QED
    BY <2>2 DEF v
<1>2. Ok(Fails(w), n) /\ Same(w, Fails(w)) /\ Fails(w).m = w.m /\ Fails(w).out = w.out /\ Fails(w).ret = "error"
  <2> DEFINE v == Fails(w)
  <2>1. v = [w EXCEPT !.ret = "error"] /\ "error" \in {"PASS", "HANDLED", "error"}
    BY DEF Fails
  <2> HIDE DEF v
  <2>2. Ok(v, n) /\ Same(w, v) /\ v.m = w.m /\ v.out = w.out /\ v.ret = "error"
    BY <2>1, RetOk
  <2>3. QED
    BY <2>2 DEF v
<1>3. Ok(Begin(w), n) /\ Same(w, Begin(w)) /\ Begin(w).m = w.m /\ Begin(w).out = w.out /\ Begin(w).ret = "PASS"
  <2> DEFINE v == Begin(w)
  <2>1. v = [w EXCEPT !.ret = "PASS"] /\ "PASS" \in {"PASS", "HANDLED", "error"}
    BY DEF Begin
  <2> HIDE DEF v
  <2>2. Ok(v, n) /\ Same(w, v) /\ v.m = w.m /\ v.out = w.out /\ v.ret = "PASS"
    BY <2>1, RetOk
  <2>3. QED
    BY <2>2 DEF v
<1>4. QED
  BY <1>1, <1>2, <1>3 DEF Passes

LEMMA PktSet ==
    ASSUME NEW n, NEW w, Ok(w, n), NEW p \in Pkt(n)
    PROVE  /\ Ok([w EXCEPT !.pkt = p], n) /\ SameOrder(w, [w EXCEPT !.pkt = p])
           /\ [w EXCEPT !.pkt = p].m = w.m /\ [w EXCEPT !.pkt = p].pkt = p /\ [w EXCEPT !.pkt = p].out = w.out
           /\ [w EXCEPT !.pkt = p].ret = w.ret
<1> DEFINE v == [w EXCEPT !.pkt = p]
<1>1. v \in WorkSet(n) /\ v.m = w.m /\ v.out = w.out /\ v.id = w.id /\ v.pkt = p /\ v.ret = w.ret
  BY DEF Ok, WorkSet
<1> HIDE DEF v
<1>2. Ok(v, n) /\ SameOrder(w, v)
  BY <1>1 DEF Ok, Told, SameOrder
<1>3. QED
  BY <1>1, <1>2 DEF v

LEMMA PutAllOk ==
    ASSUME NEW n, NEW w, Ok(w, n), NEW items \in Seq(Items(n)),
           \A i \in DOMAIN items : ItemOk(items[i], w.m.u, n)
    PROVE  /\ Ok(PutAll(w, items), n) /\ Same(w, PutAll(w, items)) /\ PutAll(w, items).m = w.m
           /\ PutAll(w, items).ret = w.ret /\ PutAll(w, items).out = w.out \o items
<1> DEFINE v == PutAll(w, items)
<1>1. /\ v.m = w.m /\ v.id = w.id /\ v.pkt = w.pkt /\ v.ret = w.ret /\ v.out = w.out \o items
  BY DEF Ok, WorkSet, PutAll
<1>2. w.out \in Seq(Items(n)) /\ v.out \in Seq(Items(n))
  BY <1>1, OkParts
<1>3. v \in WorkSet(n)
  BY <1>1, <1>2 DEF Ok, WorkSet, PutAll
<1> HIDE DEF v
<1>4. /\ DOMAIN v.out = 1..(Len(w.out) + Len(items))
      /\ \A i \in DOMAIN w.out : i \in DOMAIN v.out /\ v.out[i] = w.out[i]
      /\ \A i \in DOMAIN v.out : i \notin DOMAIN w.out => v.out[i] = items[i - Len(w.out)] /\ i - Len(w.out) \in DOMAIN items
  BY <1>1, <1>2
<1>5. \A i \in DOMAIN v.out : ItemOk(v.out[i], v.m.u, n)
  BY <1>1, <1>4 DEF Ok
<1>6. Told(v)
  BY <1>1, <1>4 DEF Ok, Told, Withdrawn
<1>7. Ok(v, n) /\ Same(w, v)
  BY <1>1, <1>3, <1>5, <1>6 DEF Ok, Same, SameOrder
<1>8. QED
  BY <1>1, <1>7 DEF v

Put(w, o) == [w EXCEPT !.out = Append(@, o)]

LEMMA PutOneOk ==
    ASSUME NEW n, NEW w, Ok(w, n), NEW o, ItemOk(o, w.m.u, n)
    PROVE  /\ Ok(Put(w, o), n) /\ Same(w, Put(w, o)) /\ Put(w, o).m = w.m /\ Put(w, o).ret = w.ret
           /\ Put(w, o).out = w.out \o <<o>>
<1>1. <<o>> \in Seq(Items(n)) /\ DOMAIN <<o>> = {1} /\ <<o>>[1] = o
  BY DEF ItemOk
<1>2. w.out \in Seq(Items(n)) /\ o \in Items(n)
  BY OkParts DEF ItemOk
<1>3. Append(w.out, o) = w.out \o <<o>>
  BY <1>1, <1>2
<1>4. Put(w, o) = PutAll(w, <<o>>)
  BY <1>3 DEF PutAll, Put
<1> DEFINE q == <<o>>
<1> HIDE DEF q
<1>5. q \in Seq(Items(n)) /\ (\A i \in DOMAIN q : ItemOk(q[i], w.m.u, n)) /\ Put(w, o) = PutAll(w, q)
  BY <1>1, <1>4 DEF q
<1>6. /\ Ok(PutAll(w, q), n) /\ Same(w, PutAll(w, q)) /\ PutAll(w, q).m = w.m /\ PutAll(w, q).ret = w.ret
      /\ PutAll(w, q).out = w.out \o q
  BY <1>5, PutAllOk
<1>7. QED
  BY <1>5, <1>6, Zenon DEF q

LEMMA RouteOk ==
    ASSUME NEW n, NEW w, Ok(w, n), NEW p, Writable(p, w.m.u, n)
    PROVE  Ok(Route(w, p), n) /\ Same(w, Route(w, p)) /\ Route(w, p).m = w.m /\ Route(w, p).ret = w.ret
<1>1. CASE p.to = NoJid
  BY <1>1 DEF Route, Same, SameOrder
<1>2. CASE p.to # NoJid
  <2> DEFINE o == Item("router", "", p)
  <2>1. o \in Items(n) /\ o.via = "router" /\ o.p = p
    BY DEF Item, Items, Writable
  <2>2. Route(w, p) = Put(w, o)
    BY <1>2 DEF Route, Put
  <2> HIDE DEF o
  <2>3. ItemOk(o, w.m.u, n)
    BY <2>1 DEF ItemOk
  <2>4. Ok(Put(w, o), n) /\ Same(w, Put(w, o)) /\ Put(w, o).m = w.m /\ Put(w, o).ret = w.ret
    BY ZenonT(40), <2>3, PutOneOk
  <2>5. QED
    BY <2>2, <2>4, Zenon
<1>3. QED
  BY <1>1, <1>2

LEMMA PktSessOk ==
    ASSUME NEW n, NEW w, Ok(w, n), NEW p, p \in Pkt(n), NEW r, r \in Resources
    PROVE  /\ Ok(PktSess(w, p, r), n) /\ Same(w, PktSess(w, p, r))
           /\ PktSess(w, p, r).m = w.m /\ PktSess(w, p, r).ret = w.ret
<1> DEFINE o == Item("sess", r, p)
<1>1. o \in Items(n) /\ o.via = "sess" /\ o.r = r
  BY DEF Item, Items
<1>2. PktSess(w, p, r) = Put(w, o)
  BY DEF PktSess, Put
<1> HIDE DEF o
<1>3. ItemOk(o, w.m.u, n)
  BY <1>1 DEF ItemOk
<1>4. Ok(Put(w, o), n) /\ Same(w, Put(w, o)) /\ Put(w, o).m = w.m /\ Put(w, o).ret = w.ret
  BY ZenonT(40), <1>3, PutOneOk
<1>5. QED
  BY <1>2, <1>4, Zenon

-----------------------------------------------------------------------------
(* Packets                                                                 *)

PktRec(n) == [elem : Elems, type : Types, err : BOOLEAN, to : Jids, from : Jids, ns : Namespaces, node : Nodes,
              pri : Int, rule : Seq(Rule), id : 0..n, sess : Resources \cup {""}, rerr : BOOLEAN]

LEMMA PktParts ==
    ASSUME NEW n, NEW p, p \in Pkt(n)
    PROVE  /\ p \in PktRec(n) /\ p.to \in Jids /\ p.from \in Jids /\ p.elem \in Elems /\ p.type \in Types
           /\ p.err \in BOOLEAN /\ p.rerr \in BOOLEAN /\ p.id \in 0..n /\ p.pri \in Int
           /\ p.sess \in Resources \cup {""} /\ p.ns \in Namespaces /\ p.node \in Nodes
           /\ p.elem = "presence" => p.type \in PresTypes
BY DEF Pkt, PktRec

Tails == Resources \cup {"", "help", "echo"}
Heads == Known \cup Services \cup {"", "c2s"}

LEMMA Pair ==
    ASSUME NEW S, NEW T, NEW j, j \in S \X T
    PROVE  j = <<j[1], j[2]>>
OBVIOUS

LEMMA JidParts ==
    ASSUME NEW j, j \in Jids
    PROVE  /\ j[1] = "user" => j[2] \in Resources \cup {""}
           /\ j[1] = "" => j = NoJid
           /\ j = <<j[1], j[2]>> /\ j[2] \in Tails /\ j[1] \in Heads
<1>1. j \in Heads \X Tails /\ (j[1] = "" => j[2] = "")
      /\ (j[1] = "user" => j[2] \in Resources \cup {""})
  BY DEF Jids, Heads, Tails
<1>2. j = <<j[1], j[2]>>
  BY <1>1, Pair
<1>3. j[2] \in Tails /\ j[1] \in Heads
  BY <1>1
<1>4. QED
  BY <1>1, <1>2, <1>3 DEF NoJid

LEMMA JidsIn ==
    /\ NoJid \in Jids /\ Host \in Jids /\ SmId \in Jids /\ User \in Jids
    /\ \A r \in Resources : Full(r) \in Jids /\ Full(r)[1] = "user" /\ Full(r)[2] = r /\ r # ""
    /\ \A c \in Heads : Jid(c) \in Jids /\ Jid(c)[1] = c /\ Jid(c)[2] = ""
    /\ \A c \in {"host", "sm"}, x \in {"help", "echo"} : <<c, x>> \in Jids
    /\ NoJid[1] = "" /\ User[1] = "user" /\ User[2] = "" /\ SmId[1] = "sm" /\ Host[1] = "host"
<1>1. \A a, x : <<a, x>>[1] = a /\ <<a, x>>[2] = x
  OBVIOUS
<1>2. "" \notin Resources
  BY ManagerAssumption
<1>3. ASSUME NEW a \in Heads, NEW x \in Tails, a = "" => x = "", a = "user" => x \in Resources \cup {""}
      PROVE  <<a, x>> \in Jids
  <2> DEFINE j == <<a, x>>
  <2>1. j \in Heads \X Tails /\ j[1] = a /\ j[2] = x
    OBVIOUS
  <2> HIDE DEF j
  <2>2. j \in Jids
    BY <1>3, <2>1 DEF Jids, Heads, Tails
  <2>3. QED
    BY <2>2 DEF j
<1>4. "" \in Tails /\ "help" \in Tails /\ "echo" \in Tails /\ Resources \subseteq Tails
  BY DEF Tails
<1>5. "" \in Heads /\ "user" \in Heads /\ "host" \in Heads /\ "sm" \in Heads
  BY DEF Heads, Known, Ours
<1>6. QED
  BY <1>1, <1>2, <1>3, <1>4, <1>5 DEF NoJid, Host, SmId, User, Jid, Full

\* fields of a packet that the dispatcher and the router look at
Plain(q, p) == (q.err <=> p.err) /\ q.elem = p.elem /\ (q.rerr <=> p.rerr)

LEMMA PacketIn ==
    ASSUME NEW n, n \in Nat, NEW e, e \in Elems, NEW t, t \in Types, NEW a, a \in Jids, NEW b, b \in Jids,
           e = "presence" => t \in PresTypes
    PROVE  Packet(e, t, a, b) \in Pkt(n)
<1> DEFINE q == Packet(e, t, a, b)
<1>1. q.elem = e /\ q.type = t
  BY DEF Packet
<1>2. <<>> \in Seq(Rule) /\ 0 \in 0..n /\ 0 \in Int /\ "" \in Namespaces /\ "" \in Nodes /\ "" \in Resources \cup {""}
  BY DEF Namespaces, Nodes
<1>3. q \in PktRec(n)
  BY <1>2 DEF Packet, PktRec
<1> HIDE DEF q
<1>4. q \in Pkt(n)
  BY <1>1, <1>3 DEF Pkt, PktRec
<1>5. QED
  BY <1>4 DEF q

LEMMA DupIn ==
    ASSUME NEW n, NEW p, p \in Pkt(n), NEW a, a \in Jids, NEW b, b \in Jids
    PROVE  LET q == Dup(p, a, b)
           IN  q \in Pkt(n) /\ q.to = a /\ q.from = b /\ q.type = p.type /\ Plain(q, p) /\ q.id = p.id
<1> DEFINE q == Dup(p, a, b)
<1>0. p \in PktRec(n)
  BY PktParts
<1>1. q \in PktRec(n) /\ q.to = a /\ q.from = b /\ q.type = p.type /\ Plain(q, p) /\ q.id = p.id
  BY <1>0 DEF Dup, PktRec, Plain
<1> HIDE DEF q
<1>2. q \in Pkt(n)
  BY <1>1, PktParts DEF Pkt, PktRec, Plain
<1>3. QED
  BY <1>1, <1>2 DEF q

LEMMA SwapIn ==
    ASSUME NEW n, NEW p, p \in Pkt(n)
    PROVE  LET q == Swap(p)
           IN  q \in Pkt(n) /\ q.to = p.from /\ q.from = p.to /\ q.type = p.type /\ Plain(q, p) /\ q.id = p.id
<1>1. Swap(p) = Dup(p, p.from, p.to)
  BY DEF Swap, Dup
<1> DEFINE q == Dup(p, p.from, p.to)
<1> HIDE DEF q
<1>2. q \in Pkt(n) /\ q.to = p.from /\ q.from = p.to /\ q.type = p.type /\ Plain(q, p) /\ q.id = p.id
  <2>1. p.from \in Jids /\ p.to \in Jids
    BY PktParts
  <2>2. QED
    BY <2>1, DupIn DEF q
<1>3. Swap(p) = q
  BY <1>1 DEF q
<1>4. QED
  BY <1>2, <1>3, Zenon

LEMMA ErrorIn ==
    ASSUME NEW n, NEW p, p \in Pkt(n)
    PROVE  LET q == PktError(p)
           IN  /\ q \in Pkt(n) /\ q.to = p.from /\ q.from = p.to /\ q.type = p.type /\ q.err
               /\ q.elem = p.elem /\ (q.rerr <=> p.rerr) /\ q.id = p.id /\ q.sess = p.sess
<1> DEFINE s == Swap(p)
           q == [s EXCEPT !.err = TRUE]
<1>0. s.sess = p.sess
  BY PktParts DEF Swap, PktRec
<1>1. s \in Pkt(n) /\ s.to = p.from /\ s.from = p.to /\ s.type = p.type /\ Plain(s, p) /\ s.id = p.id
  BY SwapIn
<1> HIDE DEF s
<1>2. q \in PktRec(n) /\ q.to = s.to /\ q.from = s.from /\ q.type = s.type /\ q.err /\ q.elem = s.elem
      /\ (q.rerr <=> s.rerr) /\ q.id = s.id /\ q.sess = s.sess
  <2>1. s \in PktRec(n)
    BY <1>1, PktParts
  <2>2. QED
    BY <2>1 DEF PktRec
<1> HIDE DEF q
<1>3. q \in Pkt(n)
  BY <1>1, <1>2, PktParts DEF Pkt, PktRec
<1>4. PktError(p) = q
  BY DEF PktError, q, s
<1>5. QED
  BY <1>0, <1>1, <1>2, <1>3, <1>4 DEF Plain

\* the answer to a request is not presence
LEMMA ResultIn ==
    ASSUME NEW n, NEW p, p \in Pkt(n), p.type = "get"
    PROVE  LET q == Result(p)
           IN  q \in Pkt(n) /\ q.to = p.to /\ q.from = p.from /\ q.type = "result" /\ Plain(q, p)
<1> DEFINE q == Result(p)
<1>1. "result" \in Types /\ "get" \notin PresTypes
  BY DEF Types, PresTypes
<1>2. q \in PktRec(n) /\ q.to = p.to /\ q.from = p.from /\ q.type = "result" /\ Plain(q, p)
  <2>1. p \in PktRec(n)
    BY PktParts
  <2>2. PICK t : t = "result"
    OBVIOUS
  <2>3. t \in Types
    BY <1>1, <2>2
  <2>4. q = [p EXCEPT !.type = t]
    BY <2>2 DEF Result
  <2> HIDE DEF q
  <2>5. q \in PktRec(n)
    BY <2>1, <2>3, <2>4 DEF PktRec
  <2>6. q.to = p.to /\ q.from = p.from /\ q.type = t
    BY <2>1, <2>4 DEF PktRec
  <2>7. q.err = p.err /\ q.elem = p.elem /\ q.rerr = p.rerr
    BY Zenon, <2>1, <2>4 DEF PktRec
  <2>8. QED
    BY <2>2, <2>5, <2>6, <2>7 DEF Plain
<1>3. p.elem # "presence"
  BY <1>1, PktParts
<1> HIDE DEF q
<1>4. q \in Pkt(n)
  BY <1>2, <1>3 DEF Pkt, PktRec, Plain
<1>5. QED
  BY <1>2, <1>4 DEF q

LEMMA AnswerIn ==
    ASSUME NEW n, NEW p, p \in Pkt(n), p.type = "get"
    PROVE  LET q == Swap(Result(p))
           IN  q \in Pkt(n) /\ q.to = p.from /\ q.from = p.to /\ q.type = "result" /\ Plain(q, p)
<1> DEFINE s == Result(p)
<1>1. s \in Pkt(n) /\ s.to = p.to /\ s.from = p.from /\ s.type = "result" /\ Plain(s, p)
  BY ResultIn
<1> HIDE DEF s
<1> DEFINE q == Swap(s)
<1>2. q \in Pkt(n) /\ q.to = s.from /\ q.from = s.to /\ q.type = s.type /\ Plain(q, s)
  BY <1>1, SwapIn
<1> HIDE DEF q
<1>3. q \in Pkt(n) /\ q.to = p.from /\ q.from = p.to /\ q.type = "result" /\ Plain(q, p)
  BY <1>1, <1>2 DEF Plain
<1>4. QED
  BY <1>3 DEF q, s

-----------------------------------------------------------------------------
(* The top session                                                         *)

SetU(w, u) == [w EXCEPT !.m.u = u]

(* The user's state is replaced by another: what must be shown of it.      *)
LEMMA SetUOk ==
    ASSUME NEW n, NEW w, Ok(w, n), NEW u, UserOk(u), ErrOk(u),
           \A i \in DOMAIN w.out : ItemOk(w.out[i], u, n),
           \A c \in Peers, r \in Resources :
                Believed(w.m.u, c, r) /\ c \notin bounced[r] => Believed(u, c, r) \/ Withdrawn(w.out, c, r)
    PROVE  LET v == SetU(w, u)
           IN  /\ Ok(v, n) /\ v.pkt = w.pkt /\ v.m.u = u /\ v.out = w.out /\ v.ret = w.ret /\ v.m.spool = w.m.spool
               /\ v.m.dyn = w.m.dyn
<1> DEFINE v == SetU(w, u)
<1>1. w \in WorkSet(n) /\ w.m \in Mgr(n) /\ u \in UserRec
  BY OkParts DEF UserOk, Listed
<1> DEFINE m == [w.m EXCEPT !.u = u]
<1>2. m \in Mgr(n) /\ m.u = u /\ m.spool = w.m.spool /\ m.dyn = w.m.dyn /\ m.cache = w.m.cache
  BY <1>1 DEF Mgr
<1>3. v = [w EXCEPT !.m = m]
  BY DEF SetU
<1> HIDE DEF m, v
<1>4. v \in WorkSet(n) /\ v.m = m /\ v.pkt = w.pkt /\ v.out = w.out /\ v.ret = w.ret /\ v.id = w.id
  BY <1>1, <1>2, <1>3 DEF WorkSet
<1>5. DiscoOk(v.m)
  BY <1>2, <1>4 DEF Ok, DiscoOk
<1>6. Told(v)
  BY <1>2, <1>4 DEF Ok, Told
<1>7. Ok(v, n)
  BY <1>2, <1>4, <1>5, <1>6 DEF Ok
<1>8. QED
  BY <1>2, <1>4, <1>7 DEF v

\* what _pres_top makes of a user
Topped(u) ==
    LET pri(i) == u.s[u.order[i]].pri
        cand == {i \in DOMAIN u.order : u.s[u.order[i]].avail /\ pri(i) >= 0}
        best == {i \in cand : \A k \in cand : pri(k) <= pri(i)}
    IN  [u EXCEPT !.avail = \E i \in DOMAIN u.order : u.s[u.order[i]].avail,
                  !.top = IF cand = {} THEN "" ELSE u.order[Max(best)]]

LEMMA UserParts ==
    ASSUME NEW u, u \in UserRec
    PROVE  /\ u.order \in Seq(Resources) /\ u.s \in [Resources -> Sess] /\ u.loaded \in BOOLEAN
           /\ u.avail \in BOOLEAN /\ u.top \in Resources \cup {""}
BY DEF UserRec

LEMMA ToppedOk ==
    ASSUME NEW u, Listed(u)
    PROVE  UserOk(Topped(u)) /\ Topped(u).s = u.s /\ Topped(u).order = u.order /\ Topped(u).loaded = u.loaded
<1> DEFINE pri(i) == u.s[u.order[i]].pri
           cand == {i \in DOMAIN u.order : u.s[u.order[i]].avail /\ pri(i) >= 0}
           best == {i \in cand : \A k \in cand : pri(k) <= pri(i)}
           top == IF cand = {} THEN "" ELSE u.order[Max(best)]
           avail == \E i \in DOMAIN u.order : u.s[u.order[i]].avail
           l == Len(u.order)
<1>1. u \in UserRec /\ u.order \in Seq(Resources) /\ l \in Nat /\ DOMAIN u.order = 1..l /\ u.s \in [Resources -> Sess]
  <2>1. u \in UserRec
    BY DEF Listed
  <2>2. u.order \in Seq(Resources) /\ u.s \in [Resources -> Sess]
    BY <2>1, UserParts
  <2>3. QED
    BY <2>1, <2>2
<1>2. \A i \in 1..l : u.order[i] \in Resources /\ u.s[u.order[i]] \in Sess /\ pri(i) \in Int
  BY <1>1 DEF Sess
<1>3. cand # {} => best # {}
  <2> DEFINE f == [i \in 1..l |-> pri(i)]
  <2>1. \A i \in 1..l : f[i] = pri(i) /\ f[i] \in Int
    BY <1>2
  <2>2. cand \in SUBSET (1..l)
    BY <1>1
  <2>3. \A S \in SUBSET (1..l) : S # {} => \E m \in S : \A k \in S : f[k] <= f[m]
    <3> HIDE DEF f
    <3>1. QED
      BY <1>1, <2>1, Highest
  <2>4. ASSUME cand # {} PROVE \E m \in cand : \A k \in cand : f[k] <= f[m]
    <3> HIDE DEF cand, f
    <3>1. QED
      BY <2>2, <2>3, <2>4
  <2>5. QED
    BY <2>1, <2>2, <2>4
<1>4. cand # {} => Max(best) \in best
  <2>1. best \in SUBSET (1..l)
    BY <1>1
  <2> HIDE DEF best
  <2>2. QED
    BY <1>1, <1>3, <2>1, MaxIn
<1>5. \A r \in Resources : u.s[r].avail => \E i \in DOMAIN u.order : u.order[i] = r
  BY DEF Listed
<1>6. avail <=> \E r \in Resources : u.s[r].avail
  BY <1>1, <1>2, <1>5
<1>7. cand = {} <=> ~\E r \in Resources : Takes(u, r)
  BY <1>1, <1>2, <1>5 DEF Takes
<1>8. cand # {} => /\ top \in Resources /\ Takes(u, top)
                   /\ \A r \in Resources : Takes(u, r) => u.s[r].pri <= u.s[top].pri
  <2> SUFFICES ASSUME cand # {}
               PROVE  /\ top \in Resources /\ Takes(u, top)
                      /\ \A r \in Resources : Takes(u, r) => u.s[r].pri <= u.s[top].pri
    OBVIOUS
  <2> DEFINE b == Max(best)
  <2>1. b \in cand /\ \A k \in cand : pri(k) <= pri(b)
    BY <1>4
  <2>2. top = u.order[b]
    OBVIOUS
  <2> HIDE DEF b, top
  <2>3. top \in Resources /\ Takes(u, top)
    BY <1>1, <1>2, <2>1, <2>2 DEF Takes
  <2>4. ASSUME NEW r \in Resources, Takes(u, r) PROVE u.s[r].pri <= u.s[top].pri
    <3>1. PICK i \in DOMAIN u.order : u.order[i] = r
      BY <1>5, <2>4 DEF Takes
    <3>2. i \in cand
      BY <2>4, <3>1 DEF Takes
    <3>3. QED
      BY <2>1, <2>2, <3>1, <3>2
  <2>5. QED
    BY <2>3, <2>4
<1> DEFINE t == [u EXCEPT !.avail = avail, !.top = top]
<1>9. Topped(u) = t
  BY Zenon DEF Topped
<1>10. top \in Resources \cup {""} /\ (top = "" <=> cand = {}) /\ avail \in BOOLEAN
  BY <1>8, ManagerAssumption
<1> HIDE DEF avail, top, cand, best
<1>11. t \in UserRec /\ t.s = u.s /\ t.order = u.order /\ t.loaded = u.loaded /\ t.top = top /\ (t.avail <=> avail)
  BY <1>1, <1>10 DEF UserRec
<1> HIDE DEF t
<1>12. Listed(t)
  BY <1>11 DEF Listed
<1>13. TopOk(t)
  BY <1>6, <1>7, <1>8, <1>10, <1>11 DEF TopOk, Takes
<1>14. QED
  BY <1>9, <1>11, <1>12, <1>13, Zenon DEF UserOk

LEMMA SetUs ==
    ASSUME NEW n, NEW w, w \in WorkSet(n), NEW u
    PROVE  /\ SetU(w, u).m.u = u
           /\ \A t : SetU(SetU(w, u), t) = SetU(w, t)
           /\ \A q : PutAll(SetU(w, u), q) = SetU(PutAll(w, q), u)
<1>1. w.m \in Mgr(n)
  BY DEF WorkSet
<1>2. SetU(w, u).m.u = u
  BY <1>1 DEF SetU, WorkSet, Mgr
<1>3. \A t : SetU(SetU(w, u), t) = SetU(w, t)
  BY <1>1 DEF SetU, WorkSet, Mgr
<1>4. \A q : PutAll(SetU(w, u), q) = SetU(PutAll(w, q), u)
  BY <1>1 DEF SetU, PutAll, WorkSet, Mgr
<1>5. QED
  BY <1>2, <1>3, <1>4

LEMMA PresTopIs ==
    ASSUME NEW n, NEW w, w \in WorkSet(n), NEW u, u \in UserRec
    PROVE  PresTop(SetU(w, u)) = SetU(w, Topped(u))
<1> DEFINE v == SetU(w, u)
           pri(i) == u.s[u.order[i]].pri
           cand == {i \in DOMAIN u.order : u.s[u.order[i]].avail /\ pri(i) >= 0}
           best == {i \in cand : \A k \in cand : pri(k) <= pri(i)}
           top == IF cand = {} THEN "" ELSE u.order[Max(best)]
           avail == \E i \in DOMAIN u.order : u.s[u.order[i]].avail
<1>1. v.m.u = u
  BY SetUs
<1>2. Topped(u) = [u EXCEPT !.avail = avail, !.top = top]
  BY Zenon DEF Topped
<1>3. PresTop(v) = [v EXCEPT !.m.u.avail = avail, !.m.u.top = top]
  <2> HIDE DEF v
  <2>1. QED
    BY <1>1, Zenon DEF PresTop, Available
<1> HIDE DEF top, avail
<1>4. [v EXCEPT !.m.u.avail = avail, !.m.u.top = top] = SetU(w, [u EXCEPT !.avail = avail, !.top = top])
  <2>1. w.m \in Mgr(n)
    BY DEF WorkSet
  <2>2. QED
    BY <2>1 DEF SetU, WorkSet, Mgr, UserRec
<1>5. QED
  BY <1>2, <1>3, <1>4

SetS(u, r, s) == [u EXCEPT !.s[r] = s]

LEMMA SetSs ==
    ASSUME NEW u, u \in UserRec, NEW r, r \in Resources, NEW s, s \in Sess
    PROVE  LET v == SetS(u, r, s)
           IN  /\ v \in UserRec /\ v.order = u.order /\ (v.loaded <=> u.loaded) /\ v.top = u.top
               /\ (v.avail <=> u.avail) /\ v.s[r] = s /\ \A x \in Resources : x # r => v.s[x] = u.s[x]
BY DEF SetS, UserRec

(* Sessions that are as available as they were leave the top session.      *)
Marks(u, v) ==
    /\ v \in UserRec /\ v.order = u.order /\ (v.loaded <=> u.loaded) /\ v.top = u.top /\ (v.avail <=> u.avail)
    /\ \A r \in Resources : /\ (v.s[r].on <=> u.s[r].on) /\ (v.s[r].avail <=> u.s[r].avail)
                            /\ v.s[r].pri = u.s[r].pri
LEMMA MarksOk ==
    ASSUME NEW u, UserOk(u), NEW v, Marks(u, v)
    PROVE  UserOk(v)
<1>1. u \in UserRec /\ u.top \in Resources \cup {""}
  BY UserParts DEF UserOk, Listed
<1>2. Listed(v)
  BY DEF UserOk, Listed, Marks
<1>3. TopOk(v)
  BY <1>1 DEF UserOk, TopOk, Marks, Takes
<1>4. QED
  BY <1>2, <1>3 DEF UserOk

-----------------------------------------------------------------------------
(* Presence                                                                *)

ItemsOk(q, u, n) == q \in Seq(Items(n)) /\ \A i \in DOMAIN q : ItemOk(q[i], u, n)

(* A list with a packet or none for each of some indices.                  *)
LEMMA MapOk ==
    ASSUME NEW l, l \in Nat, NEW q, DOMAIN q = 1..l, q = [i \in 1..l |-> q[i]], NEW u, NEW n,
           \A i \in 1..l : ItemOk(q[i], u, n)
    PROVE  ItemsOk(q, u, n)
<1>1. \A i \in 1..l : q[i] \in Items(n)
  BY DEF ItemOk
<1>2. q \in [1..l -> Items(n)]
  BY <1>1
<1>3. q \in Seq(Items(n))
  BY <1>2
<1>4. QED
  BY <1>3 DEF ItemsOk

LEMMA PutsOk ==
    ASSUME NEW n, NEW w, Ok(w, n), NEW q, ItemsOk(q, w.m.u, n)
    PROVE  LET v == PutAll(w, q)
           IN  Ok(v, n) /\ Same(w, v) /\ v.m = w.m /\ v.ret = w.ret /\ v.out = w.out \o q
<1>1. q \in Seq(Items(n)) /\ \A i \in DOMAIN q : ItemOk(q[i], w.m.u, n)
  BY DEF ItemsOk
<1>2. QED
  BY <1>1, PutAllOk

\* a presence that goes out as it is, to others
Sent(p, n) == p \in Pkt(n) /\ p.elem # "advert" /\ ~p.rerr /\ ~Is(p, "probe")

ContactItems(r, p, cs) ==
    LET list == SetToSeq(cs) IN [i \in DOMAIN list |-> Item("router", "", Dup(p, Jid(list[i]), Full(r)))]

LEMMA ContactsOk ==
    ASSUME NEW n, NEW p, Sent(p, n), NEW cs, cs \subseteq Known, NEW r, r \in Resources, NEW u,
           Discreet /\ Is(p, "presence") => \A c \in cs \cap Peers : Believed(u, c, r)
    PROVE  /\ ItemsOk(ContactItems(r, p, cs), u, n)
           /\ Is(p, "unavailable") => \A c \in cs : Withdrawn(ContactItems(r, p, cs), c, r)
           /\ ~Is(p, "presence") => \A i \in DOMAIN ContactItems(r, p, cs) : ~Is(ContactItems(r, p, cs)[i].p, "presence")
<1>1. IsFiniteSet(cs)
  <2>1. IsFiniteSet(Peers)
    BY ManagerAssumption
  <2>2. IsFiniteSet({"user", "host", "sm"})
    <3>1. IsFiniteSet({}) /\ IsFiniteSet({} \cup {"user"})
      BY FS_EmptySet, FS_AddElement
    <3>2. IsFiniteSet(({} \cup {"user"}) \cup {"host"})
      BY <3>1, FS_AddElement
    <3>3. IsFiniteSet((({} \cup {"user"}) \cup {"host"}) \cup {"sm"})
      BY <3>2, FS_AddElement
    <3>4. (({} \cup {"user"}) \cup {"host"}) \cup {"sm"} = {"user", "host", "sm"}
      OBVIOUS
    <3>5. QED
      BY <3>3, <3>4
  <2>3. IsFiniteSet(Known)
    BY <2>1, <2>2, FS_Union DEF Known, Ours
  <2>4. QED
    BY <2>3, FS_Subset
<1> DEFINE list == SetToSeq(cs)
           l == Len(list)
           q == ContactItems(r, p, cs)
<1>2. list \in Seq(cs) /\ \A c \in cs : \E i \in DOMAIN list : list[i] = c
  BY <1>1, SetSeq
<1>3. q = [i \in DOMAIN list |-> Item("router", "", Dup(p, Jid(list[i]), Full(r)))]
  BY DEF ContactItems
<1> HIDE DEF list, q
<1>4. l \in Nat /\ DOMAIN list = 1..l /\ \A i \in 1..l : list[i] \in cs
  BY <1>2
<1> HIDE DEF l
<1>5. DOMAIN q = 1..l /\ q = [i \in 1..l |-> q[i]]
  BY <1>3, <1>4
<1>6. ASSUME NEW i \in 1..l
      PROVE  /\ q[i] \in Items(n) /\ q[i].via = "router" /\ q[i].p = Dup(p, Jid(list[i]), Full(r))
             /\ q[i].p \in Pkt(n) /\ q[i].p.to[1] = list[i] /\ q[i].p.from = Full(r) /\ q[i].p.type = p.type
             /\ (q[i].p.err <=> p.err) /\ q[i].p.elem = p.elem /\ ~q[i].p.rerr
  <2>1. list[i] \in Heads /\ p \in Pkt(n)
    BY <1>4 DEF Heads, Sent
  <2>2. Jid(list[i]) \in Jids /\ Full(r) \in Jids /\ Jid(list[i])[1] = list[i]
    BY <2>1, JidsIn
  <2> DEFINE d == Dup(p, Jid(list[i]), Full(r))
  <2>3. d \in Pkt(n) /\ d.to = Jid(list[i]) /\ d.from = Full(r) /\ d.type = p.type /\ Plain(d, p)
    BY <2>1, <2>2, DupIn
  <2>4. q[i] = Item("router", "", d)
    BY <1>3, <1>4
  <2> HIDE DEF d
  <2>5. q[i] \in Items(n) /\ q[i].via = "router" /\ q[i].p = d
    <3> DEFINE o == Item("router", "", d)
    <3>1. o \in Items(n) /\ o.via = "router" /\ o.p = d
      BY <2>3 DEF Item, Items
    <3>2. QED
      BY <2>4, <3>1, Zenon
  <2>6. q[i].p = Dup(p, Jid(list[i]), Full(r))
    BY <2>5 DEF d
  <2>7. QED
    BY <2>2, <2>3, <2>5, <2>6 DEF Plain, Sent
<1>7. ASSUME NEW i \in 1..l PROVE ItemOk(q[i], u, n)
  <2>1. Full(r)[1] = "user" /\ \A x \in Resources : Full(x) = Full(r) => x = r
    BY DEF Full
  <2>2. "user" \in Ours
    BY DEF Ours
  <2>3. Writable(q[i].p, u, n)
    <3> DEFINE d == q[i].p
    <3>1. d \in Pkt(n) /\ d.to[1] = list[i] /\ d.from = Full(r) /\ d.type = p.type /\ (d.err <=> p.err)
          /\ d.elem = p.elem /\ ~d.rerr /\ list[i] \in cs
      BY <1>4, <1>6
    <3> HIDE DEF d
    <3>2. Discreet => \A c \in Peers, x \in Resources : Tells(d, c, x, "presence") => Believed(u, c, x)
      BY <2>1, <3>1 DEF Tells, Is
    <3>3. Writable(d, u, n)
      BY <2>1, <2>2, <3>1, <3>2 DEF Writable, Sent, Is
    <3>4. QED
      BY <3>3 DEF d
  <2>4. QED
    BY <1>6, <2>3 DEF ItemOk
<1>8. ItemsOk(q, u, n)
  BY <1>4, <1>5, <1>7, MapOk
<1>9. ASSUME Is(p, "unavailable"), NEW c \in cs PROVE Withdrawn(q, c, r)
  <2>1. PICK i \in 1..l : list[i] = c
    BY <1>2, <1>4
  <2>2. Tells(q[i].p, c, r, "unavailable")
    BY <1>6, <1>9, <2>1 DEF Tells, Is
  <2>3. QED
    BY <1>5, <1>6, <2>2 DEF Withdrawn
<1>10. ~Is(p, "presence") => \A i \in DOMAIN q : ~Is(q[i].p, "presence")
  BY <1>5, <1>6 DEF Is
<1>11. QED
  BY <1>8, <1>9, <1>10 DEF q

OurItems(u, r, p) ==
    LET to(x) == Item(IF x # r /\ u.s[x].avail THEN "router" ELSE "none", "", Dup(p, Full(x), Full(r)))
    IN  [i \in DOMAIN u.order |-> to(u.order[i])]

LEMMA OursOk ==
    ASSUME NEW n, NEW p, Sent(p, n), NEW t, t \in UserRec, NEW r, r \in Resources, NEW u
    PROVE  /\ ItemsOk(OurItems(t, r, p), u, n)
           /\ ~Is(p, "presence") => \A i \in DOMAIN OurItems(t, r, p) : ~Is(OurItems(t, r, p)[i].p, "presence")
<1> DEFINE l == Len(t.order)
           q == OurItems(t, r, p)
           via(x) == IF x # r /\ t.s[x].avail THEN "router" ELSE "none"
<1>1. t.order \in Seq(Resources)
  BY UserParts
<1>2. l \in Nat /\ DOMAIN t.order = 1..l /\ \A i \in 1..l : t.order[i] \in Resources
  BY <1>1
<1>3. q = [i \in DOMAIN t.order |-> Item(via(t.order[i]), "", Dup(p, Full(t.order[i]), Full(r)))]
  BY DEF OurItems
<1> HIDE DEF l, q
<1>4. DOMAIN q = 1..l /\ q = [i \in 1..l |-> q[i]]
  BY <1>2, <1>3
<1>5. ASSUME NEW i \in 1..l PROVE ItemOk(q[i], u, n) /\ (~Is(p, "presence") => ~Is(q[i].p, "presence"))
  <2> DEFINE x == t.order[i]
             d == Dup(p, Full(x), Full(r))
             v == via(x)
  <2>1. x \in Resources /\ v \in {"router", "sess", "none"} /\ v # "sess"
    BY <1>2
  <2>2. Full(x) \in Jids /\ Full(r) \in Jids /\ Full(x)[1] = "user" /\ Full(r)[1] = "user" /\ p \in Pkt(n)
    BY <2>1, JidsIn DEF Sent
  <2>3. d \in Pkt(n) /\ d.to = Full(x) /\ d.from = Full(r) /\ d.type = p.type /\ Plain(d, p)
    BY <2>2, DupIn
  <2>4. q[i] = Item(v, "", d)
    BY <1>2, <1>3
  <2> HIDE DEF d, x, v
  <2>5. q[i] \in Items(n) /\ q[i].via = v /\ q[i].p = d
    <3> DEFINE o == Item(v, "", d)
    <3>1. o \in Items(n) /\ o.via = v /\ o.p = d
      BY <2>1, <2>3 DEF Item, Items
    <3>2. QED
      BY <2>4, <3>1, Zenon
  <2>6. "user" \notin Peers /\ "user" \in Ours
    BY ManagerAssumption DEF Ours
  <2>7. Writable(d, u, n)
    BY <2>2, <2>3, <2>6 DEF Writable, Sent, Is, Tells, Plain
  <2>8. ~Is(p, "presence") => ~Is(q[i].p, "presence")
    BY <2>3, <2>5 DEF Is, Plain
  <2>9. QED
    BY <2>1, <2>5, <2>7, <2>8 DEF ItemOk
<1>6. ItemsOk(q, u, n)
  BY <1>2, <1>4, <1>5, MapOk
<1>7. ~Is(p, "presence") => \A i \in DOMAIN q : ~Is(q[i].p, "presence")
  BY <1>4, <1>5
<1>8. QED
  BY <1>6, <1>7 DEF q

LEMMA PutTwice ==
    ASSUME NEW n, NEW w, Ok(w, n), NEW a, a \in Seq(Items(n)), NEW b, b \in Seq(Items(n))
    PROVE  /\ PutAll(PutAll(w, a), b) = PutAll(w, a \o b) /\ PutAll(w, <<>>) = w
           /\ \A u : ItemsOk(a, u, n) /\ ItemsOk(b, u, n) => ItemsOk(a \o b, u, n)
<1>1. w \in WorkSet(n) /\ w.out \in Seq(Items(n))
  BY OkParts
<1>2. (w.out \o a) \o b = w.out \o (a \o b) /\ w.out \o <<>> = w.out
  <2> DEFINE o == w.out
  <2> HIDE DEF o
  <2>1. o \in Seq(Items(n))
    BY <1>1 DEF o
  <2>2. (o \o a) \o b = o \o (a \o b)
    BY SMTT(30), <2>1, ConcatAssociative
  <2>3. o \o <<>> = o
    BY <2>1
  <2>4. QED
    BY <2>2, <2>3 DEF o
<1>3. PutAll(PutAll(w, a), b) = PutAll(w, a \o b) /\ PutAll(w, <<>>) = w
  BY <1>1, <1>2 DEF PutAll, WorkSet
<1>4. \A u : ItemsOk(a, u, n) /\ ItemsOk(b, u, n) => ItemsOk(a \o b, u, n)
  <2> SUFFICES ASSUME NEW u, ItemsOk(a, u, n), ItemsOk(b, u, n) PROVE ItemsOk(a \o b, u, n)
    OBVIOUS
  <2>1. a \o b \in Seq(Items(n)) /\ DOMAIN (a \o b) = 1..(Len(a) + Len(b))
    OBVIOUS
  <2>2. ASSUME NEW i \in DOMAIN (a \o b) PROVE ItemOk((a \o b)[i], u, n)
    <3>1. CASE i \in DOMAIN a
      <4>1. (a \o b)[i] = a[i]
        BY <3>1
      <4>2. QED
        BY <3>1, <4>1 DEF ItemsOk
    <3>2. CASE i \notin DOMAIN a
      <4>1. (a \o b)[i] = b[i - Len(a)] /\ i - Len(a) \in DOMAIN b
        BY <2>1, <3>2
      <4>2. QED
        BY <4>1 DEF ItemsOk
    <3>3. QED
      BY <3>1, <3>2
  <2>3. QED
    BY <2>1, <2>2 DEF ItemsOk
<1>5. QED
  BY <1>3, <1>4

LEMMA ProbeIn ==
    ASSUME NEW n, n \in Nat, NEW c, c \in Heads
    PROVE  LET o == Item("router", "", Probe(Jid(c)))
           IN  \A u : ItemOk(o, u, n)
<1> DEFINE p == Probe(Jid(c))
           o == Item("router", "", p)
<1>1. Jid(c) \in Jids /\ User \in Jids /\ User[1] = "user" /\ User[2] = ""
  BY JidsIn
<1>2. "presence" \in Elems /\ "probe" \in Types /\ "probe" \in PresTypes
  BY DEF Elems, Types, PresTypes
<1>3. p \in Pkt(n) /\ p.elem = "presence" /\ p.type = "probe" /\ p.from = User /\ ~p.rerr
  <2>1. p = Packet("presence", "probe", Jid(c), User)
    BY DEF Probe
  <2> HIDE DEF p
  <2>2. Packet("presence", "probe", Jid(c), User) \in Pkt(n)
    BY <1>1, <1>2, PacketIn
  <2>3. p.elem = "presence" /\ p.type = "probe" /\ p.from = User /\ ~p.rerr
    BY <2>1 DEF Packet
  <2>4. QED
    BY <2>1, <2>2, <2>3
<1> HIDE DEF p
<1>4. o \in Items(n) /\ o.via = "router" /\ o.p = p
  BY <1>3 DEF Item, Items
<1> HIDE DEF o
<1>5. "user" \in Ours
  BY DEF Ours
<1>6. \A u : ItemOk(o, u, n)
  BY <1>1, <1>3, <1>4, <1>5 DEF ItemOk, Writable, Tells, Is
<1>7. QED
  BY <1>6 DEF o, p

LEMMA ProbesWrite ==
    ASSUME NEW n, NEW w, Ok(w, n), NEW r, r \in Resources
    PROVE  \E q \in Seq(Items(n)) : Probes(w, r) = PutAll(w, q) /\ \A u : ItemsOk(q, u, n)
<1>0. n \in Nat
  BY OkParts
<1>1. CASE w.m.u.s[r].avail
  <2>1. <<>> \in Seq(Items(n)) /\ \A u : ItemsOk(<<>>, u, n)
    BY DEF ItemsOk
  <2>2. Probes(w, r) = w
    BY <1>1 DEF Probes, Contacts
  <2>3. QED
    BY <2>1, <2>2, PutTwice
<1>2. CASE ~w.m.u.s[r].avail
  <2> DEFINE list == SetToSeq(Roster)
             l == Len(list)
             q == [i \in DOMAIN list |-> Item("router", "", Probe(Jid(list[i])))]
             o == Item("router", "", Probe(User))
  <2>1. list \in Seq(Roster)
    <3>1. IsFiniteSet(Peers) /\ Roster \subseteq Peers
      BY ManagerAssumption
    <3>2. IsFiniteSet(Roster)
      BY <3>1, FS_Subset
    <3>3. QED
      BY <3>2, SetSeq
  <2>2. Probes(w, r) = Route(PutAll(w, q), Probe(User))
    BY <1>2 DEF Probes, Contacts
  <2> HIDE DEF list
  <2>3. l \in Nat /\ DOMAIN list = 1..l /\ \A i \in 1..l : list[i] \in Roster
    BY <2>1
  <2>4. \A i \in 1..l : q[i] = Item("router", "", Probe(Jid(list[i])))
    BY <2>3
  <2>5. \A u : \A i \in 1..l : ItemOk(q[i], u, n)
    <3>1. \A i \in 1..l : list[i] \in Heads
      BY <2>3, ManagerAssumption DEF Heads, Known
    <3>2. QED
      BY <1>0, <2>4, <3>1, ProbeIn
  <2>6. DOMAIN q = 1..l /\ q = [i \in 1..l |-> q[i]]
    BY <2>3
  <2> HIDE DEF q, l
  <2>7. \A u : ItemsOk(q, u, n)
    BY <2>3, <2>5, <2>6, MapOk
  <2>8. q \in Seq(Items(n))
    BY <2>7 DEF ItemsOk
  <2>9. \A u : ItemOk(o, u, n)
    <3>1. User = Jid("user") /\ "user" \in Heads
      BY DEF User, Jid, Heads, Known, Ours
    <3>2. QED
      BY <1>0, <3>1, ProbeIn
  <2>10. Route(PutAll(w, q), Probe(User)) = Put(PutAll(w, q), o)
    <3>1. Probe(User).to = User
      BY DEF Probe, Packet
    <3>2. User # NoJid
      BY DEF User, NoJid, Jid
    <3>3. QED
      BY <3>1, <3>2 DEF Route, Put
  <2> HIDE DEF o
  <2>11. o \in Items(n) /\ <<o>> \in Seq(Items(n)) /\ DOMAIN <<o>> = {1} /\ <<o>>[1] = o
    BY <2>9 DEF ItemOk
  <2>12. \A u : ItemsOk(<<o>>, u, n)
    <3> DEFINE s == <<o>>
    <3>1. s \in Seq(Items(n)) /\ DOMAIN s = {1} /\ s[1] = o
      BY <2>11
    <3> HIDE DEF s
    <3>2. \A u : ItemsOk(s, u, n)
      BY <2>9, <3>1 DEF ItemsOk
    <3>3. QED
      BY <3>2 DEF s
  <2>13. Put(PutAll(w, q), o) = PutAll(PutAll(w, q), <<o>>)
    <3> DEFINE x == PutAll(w, q)
    <3>1. x.out \in Seq(Items(n))
      BY <2>8, OkParts DEF PutAll, WorkSet
    <3>2. Append(x.out, o) = x.out \o <<o>>
      BY <2>11, <3>1
    <3> HIDE DEF x
    <3>3. Put(x, o) = PutAll(x, <<o>>)
      BY <3>2 DEF Put, PutAll
    <3>4. QED
      BY <3>3 DEF x
  <2> DEFINE s == <<o>>
  <2>14. s \in Seq(Items(n)) /\ (\A u : ItemsOk(s, u, n)) /\ Probes(w, r) = PutAll(PutAll(w, q), s)
    BY <2>2, <2>10, <2>11, <2>12, <2>13
  <2> HIDE DEF s
  <2>15. PutAll(PutAll(w, q), s) = PutAll(w, q \o s) /\ \A u : ItemsOk(q \o s, u, n)
    BY <2>7, <2>8, <2>14, PutTwice
  <2>16. q \o s \in Seq(Items(n))
    BY <2>8, <2>14
  <2>17. QED
    BY <2>14, <2>15, <2>16
<1>3. QED
  BY <1>1, <1>2

\* a session that appears with priority x, and one that goes
Appear(s, x) == [s EXCEPT !.avail = TRUE, !.pri = x]
Vanish(s) == [s EXCEPT !.A = {}, !.E = {}, !.avail = FALSE]

(* _pres_top after a change of one session: the top session is right.      *)
LEMMA TopAfter ==
    ASSUME NEW u, UserOk(u), NEW r, r \in Resources, u.s[r].on, NEW s, s \in Sess, s.on
    PROVE  LET t == Topped(SetS(u, r, s))
           IN  /\ UserOk(t) /\ t.order = u.order /\ (t.loaded <=> u.loaded) /\ t.s[r] = s
               /\ \A x \in Resources : x # r => t.s[x] = u.s[x]
<1> DEFINE v == SetS(u, r, s)
<1>1. Listed(u) /\ u \in UserRec
  BY DEF UserOk, Listed
<1>2. /\ v \in UserRec /\ v.order = u.order /\ (v.loaded <=> u.loaded) /\ v.s[r] = s
      /\ \A x \in Resources : x # r => v.s[x] = u.s[x]
  BY <1>1, SetSs
<1> HIDE DEF v
<1>3. Listed(v)
  BY <1>1, <1>2 DEF Listed
<1>4. UserOk(Topped(v)) /\ Topped(v).s = v.s /\ Topped(v).order = v.order /\ Topped(v).loaded = v.loaded
  BY <1>3, ToppedOk
<1>5. QED
  BY <1>2, <1>4 DEF v

(* Who believed in a session that appears, or in another, still does.      *)
LEMMA ItemsStay ==
    ASSUME NEW n, NEW w, Ok(w, n), NEW u,
           \A c \in Peers, r \in Resources : Believed(w.m.u, c, r) => Believed(u, c, r)
    PROVE  \A i \in DOMAIN w.out : ItemOk(w.out[i], u, n)
<1> SUFFICES ASSUME NEW i \in DOMAIN w.out PROVE ItemOk(w.out[i], u, n)
  OBVIOUS
<1> DEFINE o == w.out[i]
<1>1. ItemOk(o, w.m.u, n)
  BY DEF Ok
<1> HIDE DEF o
<1>2. ItemOk(o, u, n)
  BY <1>1 DEF ItemOk, Writable
<1>3. QED
  BY <1>2 DEF o

\* in a session, the packet at hand says who sends it
InSession(w, r, n) == Ok(w, n) /\ r \in Resources /\ w.m.u.s[r].on

LEMMA ShownWrites ==
    ASSUME NEW n, NEW w, NEW r, InSession(w, r, n), NEW p, Sent(p, n), NEW u,
           \A c \in Roster : Believed(u, c, r)
    PROVE  \E q : ItemsOk(q, u, n) /\ ToOurs(ToRoster(Probes(w, r), r, p), r, p) = PutAll(w, q)
<1>1. Ok(w, n) /\ r \in Resources
  BY DEF InSession
<1>2. PICK a \in Seq(Items(n)) : Probes(w, r) = PutAll(w, a) /\ \A t : ItemsOk(a, t, n)
  BY <1>1, ProbesWrite
<1> DEFINE x == PutAll(w, a)
           cs == Roster \ w.m.u.s[r].E
           b == ContactItems(r, p, cs)
           c == OurItems(w.m.u, r, p)
<1>3. x.m = w.m
  BY <1>1, OkParts DEF PutAll, WorkSet
<1>4. ToRoster(x, r, p) = PutAll(x, b)
  <2> HIDE DEF x
  <2>1. QED
    BY <1>3, Zenon DEF ToRoster, ToContacts, ContactItems
<1>5. ItemsOk(b, u, n)
  <2>1. cs \subseteq Known /\ cs \subseteq Roster
    BY ManagerAssumption DEF Known
  <2> HIDE DEF cs
  <2>2. QED
    BY <1>1, <2>1, ContactsOk
<1>6. ItemsOk(c, u, n)
  BY <1>1, OkParts, OursOk
<1>7. b \in Seq(Items(n)) /\ c \in Seq(Items(n))
  BY <1>5, <1>6 DEF ItemsOk
<1> HIDE DEF b, c
<1>8. PutAll(x, b) = PutAll(w, a \o b) /\ a \o b \in Seq(Items(n)) /\ ItemsOk(a \o b, u, n)
  BY <1>1, <1>2, <1>5, <1>7, PutTwice
<1> DEFINE ab == a \o b
           y == PutAll(w, ab)
<1>9. y.m = w.m
  BY <1>1, OkParts DEF PutAll, WorkSet
<1>10. ToOurs(y, r, p) = PutAll(y, c)
  <2> HIDE DEF y
  <2>1. QED
    BY <1>9, Zenon DEF ToOurs, OurItems, c
<1>11. ab \in Seq(Items(n)) /\ ItemsOk(ab, u, n) /\ PutAll(x, b) = y
  BY <1>8
<1> HIDE DEF ab
<1>12. PutAll(y, c) = PutAll(w, ab \o c) /\ ItemsOk(ab \o c, u, n)
  BY <1>1, <1>6, <1>7, <1>11, PutTwice
<1>13. QED
  BY <1>2, <1>4, <1>10, <1>11, <1>12

Appeared(w, r, b) == [w EXCEPT !.m.u.s[r].avail = TRUE, !.m.u.s[r].pri = b]

LEMMA AppearPath ==
    ASSUME NEW n, NEW w, w \in WorkSet(n), NEW r, r \in Resources, NEW b
    PROVE  Appeared(w, r, b) = SetU(w, SetS(w.m.u, r, Appear(w.m.u.s[r], b)))
<1> DEFINE u == w.m.u
           s == [u.s[r] EXCEPT !.avail = TRUE]
           t == [s EXCEPT !.pri = b]
           x == [w EXCEPT !.m.u.s[r].avail = TRUE]
<1>1. u \in UserRec
  BY DEF WorkSet, Mgr
<1>2. x = SetU(w, SetS(u, r, s))
  BY DEF SetU, SetS
<1>3. Appeared(w, r, b) = SetU(x, SetS(x.m.u, r, [x.m.u.s[r] EXCEPT !.pri = b]))
  BY DEF SetU, SetS, Appeared
<1>4. Appear(u.s[r], b) = t
  BY DEF Appear
<1> HIDE DEF u, s, x
<1>5. SetS(u, r, s).s[r] = s /\ SetS(SetS(u, r, s), r, t) = SetS(u, r, t)
  BY <1>1 DEF SetS, UserRec
<1>6. x.m.u = SetS(u, r, s)
  BY <1>2, SetUs
<1>7. SetU(x, SetS(u, r, t)) = SetU(w, SetS(u, r, t))
  BY <1>2, SetUs
<1>8. QED
  BY <1>3, <1>4, <1>5, <1>6, <1>7 DEF u

LEMMA VanishPath ==
    ASSUME NEW n, NEW w, w \in WorkSet(n), NEW r, r \in Resources
    PROVE  [w EXCEPT !.m.u.s[r].A = {}, !.m.u.s[r].E = {}, !.m.u.s[r].avail = FALSE]
           = SetU(w, SetS(w.m.u, r, Vanish(w.m.u.s[r])))
<1> DEFINE u == w.m.u
           a == [u.s[r] EXCEPT !.A = {}]
           e == [a EXCEPT !.E = {}]
           t == [e EXCEPT !.avail = FALSE]
           x == [w EXCEPT !.m.u.s[r].A = {}]
           y == [x EXCEPT !.m.u.s[r].E = {}]
<1>1. u \in UserRec
  BY DEF WorkSet, Mgr
<1>2. x = SetU(w, SetS(u, r, a))
  BY DEF SetU, SetS
<1>3. y = SetU(x, SetS(x.m.u, r, [x.m.u.s[r] EXCEPT !.E = {}]))
  BY DEF SetU, SetS
<1>4. [w EXCEPT !.m.u.s[r].A = {}, !.m.u.s[r].E = {}, !.m.u.s[r].avail = FALSE]
      = SetU(y, SetS(y.m.u, r, [y.m.u.s[r] EXCEPT !.avail = FALSE]))
  BY DEF SetU, SetS
<1>5. Vanish(u.s[r]) = t
  BY DEF Vanish
<1> HIDE DEF u, a, e, x, y
<1>6. \A f : SetS(u, r, f).s[r] = f /\ \A g : SetS(SetS(u, r, f), r, g) = SetS(u, r, g)
  BY <1>1 DEF SetS, UserRec
<1>7. x.m.u = SetS(u, r, a) /\ \A g : SetU(x, g) = SetU(w, g)
  BY <1>2, SetUs
<1>8. y = SetU(w, SetS(u, r, e))
  <2>1. x.m.u.s[r] = a
    BY <1>6, <1>7
  <2>2. [x.m.u.s[r] EXCEPT !.E = {}] = e
    BY <2>1 DEF e
  <2>3. SetS(x.m.u, r, e) = SetS(u, r, e)
    BY <1>6, <1>7
  <2>4. QED
    BY <1>3, <1>7, <2>2, <2>3, Zenon
<1>9. y.m.u = SetS(u, r, e) /\ \A g : SetU(y, g) = SetU(w, g)
  BY <1>8, SetUs
<1>10. QED
  <2>1. y.m.u.s[r] = e
    BY <1>6, <1>9
  <2>2. [y.m.u.s[r] EXCEPT !.avail = FALSE] = t
    BY <2>1
  <2> HIDE DEF t
  <2>3. SetS(y.m.u, r, t) = SetS(u, r, t)
    BY <1>6, <1>9
  <2>4. QED
    BY <1>4, <1>5, <1>9, <2>2, <2>3, Zenon DEF u

(* pres_update, available: everybody who is told can believe it.           *)
LEMMA AppearOk ==
    ASSUME NEW n, NEW w, NEW r, InSession(w, r, n), Sent(w.pkt, n), Is(w.pkt, "presence")
    PROVE  Ok(PresUpdate(w, r), n) /\ Same(w, PresUpdate(w, r))
<1>1. /\ Ok(w, n) /\ r \in Resources /\ w \in WorkSet(n) /\ w.m \in Mgr(n) /\ w.m.u \in UserRec
      /\ w.m.u.s \in [Resources -> Sess] /\ w.m.u.s[r] \in Sess /\ w.m.u.s[r].on /\ UserOk(w.m.u)
      /\ w.pkt.pri \in Int /\ w.pkt \in Pkt(n)
  BY OkParts, PktParts DEF InSession
<1> DEFINE s == Appear(w.m.u.s[r], w.pkt.pri)
           v == SetS(w.m.u, r, s)
           t == Topped(v)
<1>2. s \in Sess /\ s.on /\ s.avail /\ s.A = w.m.u.s[r].A /\ s.E = w.m.u.s[r].E
  BY <1>1 DEF Appear, Sess
<1> HIDE DEF s
<1>3. /\ UserOk(t) /\ t.order = w.m.u.order /\ (t.loaded <=> w.m.u.loaded) /\ t.s[r] = s
      /\ \A x \in Resources : x # r => t.s[x] = w.m.u.s[x]
  BY <1>1, <1>2, TopAfter
<1>4. v \in UserRec
  BY <1>1, <1>2, SetSs
<1> HIDE DEF t
<1>5. \A c \in Peers, x \in Resources : Believed(w.m.u, c, x) => Believed(t, c, x)
  BY <1>1, <1>2, <1>3 DEF Believed
<1>6. ErrOk(t)
  BY <1>1, <1>2, <1>3 DEF Ok, ErrOk
<1>7. \A c \in Roster : Believed(t, c, r)
  BY <1>1, <1>2, <1>3 DEF Believed
<1>8. Ok(SetU(w, t), n) /\ SetU(w, t).pkt = w.pkt /\ SetU(w, t).m.u = t
  BY <1>1, <1>3, <1>5, <1>6, ItemsStay, SetUOk
<1> DEFINE shown == ToOurs(ToRoster(Probes(w, r), r, w.pkt), r, w.pkt)
<1>9. PICK q : ItemsOk(q, t, n) /\ shown = PutAll(w, q)
  BY <1>7, ShownWrites
<1> HIDE DEF shown
<1>10. PresUpdate(w, r) = PresTop([shown EXCEPT !.m.u.s[r].avail = TRUE, !.m.u.s[r].pri = w.pkt.pri])
  BY DEF PresUpdate, shown, Is
<1>11. shown \in WorkSet(n) /\ shown.m = w.m
  <2>1. q \in Seq(Items(n)) /\ w.out \in Seq(Items(n))
    BY <1>1, <1>9, OkParts DEF ItemsOk
  <2>2. w.out \o q \in Seq(Items(n))
    BY <2>1
  <2>3. QED
    BY <1>1, <1>9, <2>2 DEF PutAll, WorkSet
<1>12. [shown EXCEPT !.m.u.s[r].avail = TRUE, !.m.u.s[r].pri = w.pkt.pri] = SetU(shown, v)
  <2> DEFINE b == w.pkt.pri
  <2> HIDE DEF b
  <2>1. Appeared(shown, r, b) = SetU(shown, SetS(shown.m.u, r, Appear(shown.m.u.s[r], b)))
    BY <1>1, <1>11, AppearPath
  <2>2. SetS(shown.m.u, r, Appear(shown.m.u.s[r], b)) = v
    BY <1>11, Zenon DEF v, s, b
  <2>3. QED
    BY <2>1, <2>2, Zenon DEF b, Appeared
<1>13. PresUpdate(w, r) = SetU(shown, t)
  BY <1>4, <1>10, <1>11, <1>12, PresTopIs, Zenon DEF t
<1>14. SetU(shown, t) = PutAll(SetU(w, t), q)
  BY <1>1, <1>9, SetUs
<1> DEFINE x == SetU(w, t)
<1> HIDE DEF x
<1>15. Ok(PutAll(x, q), n) /\ Same(x, PutAll(x, q))
  BY <1>8, <1>9, PutsOk DEF x
<1>16. Same(w, x)
  BY <1>1, <1>3, <1>8, UserParts DEF x, Same, SameOrder, UserOk, Listed
<1>17. PresUpdate(w, r) = PutAll(x, q)
  BY <1>13, <1>14 DEF x
<1>18. Same(w, PutAll(x, q))
  BY <1>15, <1>16 DEF Same, SameOrder
<1>19. QED
  BY <1>15, <1>17, <1>18, Zenon

\* nothing that was written so far says that session r is available
Quiet(w, r) ==
    \A i \in DOMAIN w.out, c \in Peers : ~(w.out[i].via = "router" /\ Tells(w.out[i].p, c, r, "presence"))

LEMMA QuietPut ==
    ASSUME NEW n, NEW w, Ok(w, n), NEW q, ItemsOk(q, w.m.u, n), NEW r, Quiet(w, r),
           \A i \in DOMAIN q : ~Is(q[i].p, "presence")
    PROVE  Quiet(PutAll(w, q), r)
<1> DEFINE v == PutAll(w, q)
<1>1. v.out = w.out \o q
  BY PutsOk
<1>2. w.out \in Seq(Items(n)) /\ q \in Seq(Items(n))
  BY OkParts DEF ItemsOk
<1> HIDE DEF v
<1>3. ASSUME NEW i \in DOMAIN v.out, NEW c \in Peers, v.out[i].via = "router" PROVE ~Tells(v.out[i].p, c, r, "presence")
  <2>1. CASE i \in DOMAIN w.out
    <3>1. v.out[i] = w.out[i]
      BY <1>1, <1>2, <2>1
    <3>2. QED
      BY <1>3, <2>1, <3>1 DEF Quiet
  <2>2. CASE i \notin DOMAIN w.out
    <3>1. v.out[i] = q[i - Len(w.out)] /\ i - Len(w.out) \in DOMAIN q
      BY <1>1, <1>2, <2>2
    <3>2. QED
      BY <3>1 DEF Tells
  <2>3. QED
    BY <2>1, <2>2
<1>4. Quiet(v, r)
  BY <1>3 DEF Quiet
<1>5. QED
  BY <1>4 DEF v

LEMMA WithdrawnPut ==
    ASSUME NEW n, NEW w, Ok(w, n), NEW q, ItemsOk(q, w.m.u, n), NEW c, NEW r,
           Withdrawn(w.out, c, r) \/ Withdrawn(q, c, r)
    PROVE  Withdrawn(PutAll(w, q).out, c, r)
<1> DEFINE v == PutAll(w, q)
<1>1. v.out = w.out \o q
  BY PutsOk
<1>2. w.out \in Seq(Items(n)) /\ q \in Seq(Items(n))
  BY OkParts DEF ItemsOk
<1> HIDE DEF v
<1>3. CASE Withdrawn(w.out, c, r)
  <2>1. PICK i \in DOMAIN w.out : w.out[i].via = "router" /\ Tells(w.out[i].p, c, r, "unavailable")
    BY <1>3 DEF Withdrawn
  <2>2. i \in DOMAIN v.out /\ v.out[i] = w.out[i]
    BY <1>1, <1>2, <2>1
  <2>3. QED
    BY <2>1, <2>2 DEF Withdrawn, v
<1>4. CASE Withdrawn(q, c, r)
  <2>1. PICK i \in DOMAIN q : q[i].via = "router" /\ Tells(q[i].p, c, r, "unavailable")
    BY <1>4 DEF Withdrawn
  <2> DEFINE k == Len(w.out) + i
  <2>2. k \in DOMAIN v.out /\ v.out[k] = q[i]
    BY <1>1, <1>2, <2>1
  <2>3. QED
    BY <2>1, <2>2 DEF Withdrawn, v
<1>5. QED
  BY <1>3, <1>4

(* pres_update, unavailable: everybody who believed in the session, except *)
(* who returned its presence, is told.                                     *)
LEMMA VanishOk ==
    ASSUME NEW n, NEW w, NEW r, InSession(w, r, n), Sent(w.pkt, n), Is(w.pkt, "unavailable"), Quiet(w, r)
    PROVE  LET x == PresUpdate(w, r)
           IN  /\ Ok(x, n) /\ Same(w, x) /\ ~x.m.u.s[r].avail /\ x.m.u.s[r].A = {} /\ x.m.u.s[r].on
               /\ \A y \in Resources : Quiet(w, y) => Quiet(x, y)
<1> DEFINE p == w.pkt
           u == w.m.u
<1>1. /\ Ok(w, n) /\ r \in Resources /\ w \in WorkSet(n) /\ w.m \in Mgr(n) /\ u \in UserRec
      /\ u.s \in [Resources -> Sess] /\ u.s[r] \in Sess /\ u.s[r].on /\ UserOk(u) /\ p \in Pkt(n)
  BY OkParts DEF InSession
<1> DEFINE ca == Roster \ u.s[r].E
           a == ContactItems(r, p, ca)
           cb == {c \in u.s[r].A : ~Trust(Jid(c))}
           b == ContactItems(r, p, cb)
           o == OurItems(u, r, p)
           w1 == PutAll(w, a)
           w2 == PutAll(w1, b)
           gone == PutAll(w2, o)
<1>2. ~Is(p, "presence")
  BY DEF Is
<1>3. ca \subseteq Known /\ cb \subseteq Known
  BY <1>1, ManagerAssumption DEF Known, Sess
<1> HIDE DEF p, u
<1>3a. Sent(p, n) /\ Is(p, "unavailable")
  BY DEF p
<1> HIDE DEF ca, cb
<1>4. /\ ItemsOk(a, u, n) /\ (\A c \in ca : Withdrawn(a, c, r)) /\ \A i \in DOMAIN a : ~Is(a[i].p, "presence")
  BY <1>1, <1>2, <1>3, <1>3a, ContactsOk
<1>4a. ItemsOk(b, u, n) /\ (\A c \in cb : Withdrawn(b, c, r)) /\ \A i \in DOMAIN b : ~Is(b[i].p, "presence")
  BY <1>1, <1>2, <1>3, <1>3a, ContactsOk
<1>5. ItemsOk(o, u, n) /\ \A i \in DOMAIN o : ~Is(o[i].p, "presence")
  BY <1>1, <1>2, <1>3a, OursOk
<1> HIDE DEF a, b, o
<1>6. Ok(w1, n) /\ w1.m = w.m /\ Same(w, w1) /\ \A y : Quiet(w, y) => Quiet(w1, y)
  BY <1>1, <1>4, <1>4a, <1>5, PutsOk, QuietPut DEF u
<1>7. Ok(w2, n) /\ w2.m = w.m /\ Same(w, w2) /\ \A y : Quiet(w, y) => Quiet(w2, y)
  <2> HIDE DEF w1
  <2>1. Ok(w2, n) /\ w2.m = w1.m /\ Same(w1, w2) /\ \A y : Quiet(w1, y) => Quiet(w2, y)
    BY <1>4, <1>4a, <1>5, <1>6, PutsOk, QuietPut DEF u
  <2>2. QED
    BY <1>6, <2>1 DEF Same, SameOrder
<1>8. Ok(gone, n) /\ gone.m = w.m /\ Same(w, gone) /\ \A y : Quiet(w, y) => Quiet(gone, y)
  <2> HIDE DEF w2
  <2>1. Ok(gone, n) /\ gone.m = w2.m /\ Same(w2, gone) /\ \A y : Quiet(w2, y) => Quiet(gone, y)
    BY <1>4, <1>4a, <1>5, <1>7, PutsOk, QuietPut DEF u
  <2>2. QED
    BY <1>7, <2>1 DEF Same, SameOrder
<1>9. \A c \in ca \cup cb : Withdrawn(gone.out, c, r)
  <2>1. \A c \in ca : Withdrawn(w1.out, c, r)
    BY <1>1, <1>4, WithdrawnPut DEF u
  <2>2. \A c \in ca \cup cb : Withdrawn(w2.out, c, r)
    <3> HIDE DEF w1
    <3>1. QED
      BY <1>4, <1>4a, <1>6, <2>1, WithdrawnPut DEF u
  <2>3. QED
    <3> HIDE DEF w2
    <3>1. QED
      BY <1>5, <1>7, <2>2, WithdrawnPut DEF u
<1> DEFINE s == Vanish(u.s[r])
           v == SetS(u, r, s)
           t == Topped(v)
<1>10. s \in Sess /\ s.on /\ ~s.avail /\ s.A = {} /\ s.E = {}
  BY <1>1 DEF Vanish, Sess
<1> HIDE DEF s
<1>11. /\ UserOk(t) /\ t.order = u.order /\ (t.loaded <=> u.loaded) /\ t.s[r] = s
       /\ \A x \in Resources : x # r => t.s[x] = u.s[x]
  BY <1>1, <1>10, TopAfter
<1>12. v \in UserRec
  BY <1>1, <1>10, SetSs
<1> HIDE DEF t
<1>13. ErrOk(t)
  BY <1>1, <1>10, <1>11 DEF Ok, ErrOk, u
<1> HIDE DEF gone
<1>14. ASSUME NEW c \in Peers, NEW x \in Resources, Believed(u, c, x), c \notin bounced[x]
       PROVE  Believed(t, c, x) \/ Withdrawn(gone.out, c, x)
  <2>1. CASE x # r
    BY <1>11, <1>14, <2>1 DEF Believed
  <2>2. CASE x = r
    <3>1. c \notin u.s[r].E
      BY <1>1, <1>14, <2>2 DEF Ok, ErrOk, u
    <3>2. CASE c \in Roster
      BY <1>9, <2>2, <3>1, <3>2 DEF ca
    <3>3. CASE c \notin Roster
      <4>1. c \in u.s[r].A
        BY <1>14, <2>2, <3>3 DEF Believed
      <4>2. ~Trust(Jid(c))
        <5>1. c # "user"
          BY ManagerAssumption DEF Ours
        <5>2. QED
          BY <3>3, <5>1 DEF Trust, Jid
      <4>3. QED
        BY <1>9, <2>2, <4>1, <4>2 DEF cb
    <3>4. QED
      BY <3>2, <3>3
  <2>3. QED
    BY <2>1, <2>2
<1>15. \A i \in DOMAIN gone.out : ItemOk(gone.out[i], t, n)
  <2> SUFFICES ASSUME NEW i \in DOMAIN gone.out PROVE ItemOk(gone.out[i], t, n)
    OBVIOUS
  <2> DEFINE d == gone.out[i]
  <2>1. ItemOk(d, u, n) /\ \A c \in Peers : ~(d.via = "router" /\ Tells(d.p, c, r, "presence"))
    BY <1>8 DEF Ok, Quiet, u
  <2> HIDE DEF d
  <2>2. \A c \in Peers, x \in Resources : x # r /\ Believed(u, c, x) => Believed(t, c, x)
    BY <1>11 DEF Believed
  <2>3. ItemOk(d, t, n)
    BY <2>1, <2>2 DEF ItemOk, Writable
  <2>4. QED
    BY <2>3 DEF d
<1> DEFINE x == SetU(gone, t)
<1>16. Ok(x, n) /\ x.pkt = gone.pkt /\ x.m.u = t /\ x.out = gone.out
  BY <1>8, <1>11, <1>13, <1>14, <1>15, SetUOk DEF u
<1>17. PresUpdate(w, r) = x
  <2>1. gone \in WorkSet(n)
    BY <1>8, OkParts
  <2>2. PresUpdate(w, r) = PresTop([gone EXCEPT !.m.u.s[r].A = {}, !.m.u.s[r].E = {}, !.m.u.s[r].avail = FALSE])
    <3> DEFINE g == ToOurs(Withdraw(ToRoster(w, r, p), r, p), r, p)
    <3>1. ToRoster(w, r, p) = w1
      BY Zenon DEF ToRoster, ToContacts, ContactItems, a, ca, u
    <3>2. Withdraw(w1, r, p) = w2
      <4> HIDE DEF w1
      <4>1. QED
        BY <1>6, Zenon DEF Withdraw, ToContacts, ContactItems, b, cb, u
    <3>3. ToOurs(w2, r, p) = gone
      <4> HIDE DEF w2
      <4>1. QED
        BY <1>7, Zenon DEF ToOurs, OurItems, o, u, gone
    <3>4. g = gone
      BY <3>1, <3>2, <3>3
    <3> HIDE DEF g
    <3>5. PresUpdate(w, r) = PresTop([g EXCEPT !.m.u.s[r].A = {}, !.m.u.s[r].E = {}, !.m.u.s[r].avail = FALSE])
      BY <1>3a DEF PresUpdate, g, Is, p
    <3>6. QED
      BY <3>4, <3>5
  <2>3. [gone EXCEPT !.m.u.s[r].A = {}, !.m.u.s[r].E = {}, !.m.u.s[r].avail = FALSE]
        = SetU(gone, SetS(gone.m.u, r, Vanish(gone.m.u.s[r])))
    BY <1>1, <2>1, VanishPath, Zenon
  <2>4. SetS(gone.m.u, r, Vanish(gone.m.u.s[r])) = v
    BY <1>8, Zenon DEF s, u
  <2>5. PresTop(SetU(gone, v)) = SetU(gone, t)
    BY <1>12, <2>1, PresTopIs DEF t
  <2>6. QED
    BY <2>2, <2>3, <2>4, <2>5, Zenon
<1> HIDE DEF x
<1>18. Same(w, x) /\ \A y \in Resources : Quiet(w, y) => Quiet(x, y)
  BY <1>8, <1>11, <1>16 DEF Same, SameOrder, Quiet, u
<1>19. ~x.m.u.s[r].avail /\ x.m.u.s[r].A = {} /\ x.m.u.s[r].on
  BY <1>10, <1>11, <1>16
<1>20. QED
  BY <1>16, <1>17, <1>18, <1>19

(* A packet the manager makes, other than presence of a session.           *)
LEMMA MadeOk ==
    ASSUME NEW n, n \in Nat, NEW p, p \in Pkt(n), p.from[1] \in Ours, p.elem # "advert", ~p.rerr,
           ~Is(p, "probe"), ~Is(p, "presence") \/ p.from[1] # "user", NEW u
    PROVE  Writable(p, u, n)
<1>1. \A r \in Resources : Full(r)[1] = "user"
  BY JidsIn
<1>2. QED
  BY <1>1 DEF Writable, Tells

LEMMA PresenceIn ==
    ASSUME NEW n, n \in Nat, NEW t, t \in PresTypes, NEW a, a \in Jids, NEW b, b \in Jids, NEW q,
           q = Packet("presence", t, a, b)
    PROVE  q \in Pkt(n) /\ q.elem = "presence" /\ q.type = t /\ q.to = a /\ q.from = b /\ ~q.err /\ ~q.rerr
<1>1. t \in Types /\ "presence" \in Elems
  BY DEF Types, Elems
<1>2. Packet("presence", t, a, b) \in Pkt(n)
  BY <1>1, PacketIn
<1>3. q.elem = "presence" /\ q.type = t /\ q.to = a /\ q.from = b /\ ~q.err /\ ~q.rerr
  BY DEF Packet
<1>4. QED
  BY <1>2, <1>3

AnswerItems(u, p) ==
    LET asks(r) == u.s[r].avail /\ Full(r) # p.from /\ p.to[2] \in {"", r}
        answer(r) == Item(IF asks(r) THEN "router" ELSE "none", "",
                          [Packet("presence", "presence", p.from, Full(r)) EXCEPT !.pri = u.s[r].pri])
    IN  [i \in DOMAIN u.order |-> answer(u.order[i])]
CopyItems(u, p) ==
    LET copy(r) == Item(IF u.s[r].avail /\ Full(r) # p.from THEN "sess" ELSE "none", r, Dup(p, Full(r), p.from))
    IN  [i \in DOMAIN u.order |-> copy(u.order[i])]
CleanOf(u, p) ==
    LET asks(r) == u.s[r].avail /\ Full(r) # p.from /\ p.to[2] \in {"", r}
    IN  [r \in Resources |-> [u.s[r] EXCEPT !.E = IF asks(r) THEN @ \ {p.from[1]} ELSE @]]

(* A probe is answered for the sessions that are available, to whom may    *)
(* know.                                                                   *)
LEMMA AnswersOk ==
    ASSUME NEW n, n \in Nat, NEW u, UserOk(u), NEW p, p \in Pkt(n), Trust(p.from)
    PROVE  ItemsOk(AnswerItems(u, p), u, n)
<1> DEFINE l == Len(u.order)
           q == AnswerItems(u, p)
           asks(r) == u.s[r].avail /\ Full(r) # p.from /\ p.to[2] \in {"", r}
           via(r) == IF asks(r) THEN "router" ELSE "none"
<1>1. u \in UserRec /\ u.order \in Seq(Resources) /\ u.s \in [Resources -> Sess]
  BY UserParts DEF UserOk, Listed
<1>2. l \in Nat /\ DOMAIN u.order = 1..l /\ \A i \in 1..l : u.order[i] \in Resources
  BY <1>1
<1>3. q = [i \in DOMAIN u.order |->
            Item(via(u.order[i]), "", [Packet("presence", "presence", p.from, Full(u.order[i])) EXCEPT !.pri = u.s[u.order[i]].pri])]
  BY DEF AnswerItems
<1> HIDE DEF l, q
<1>4. DOMAIN q = 1..l /\ q = [i \in 1..l |-> q[i]]
  BY <1>2, <1>3
<1>5. ASSUME NEW i \in 1..l PROVE ItemOk(q[i], u, n)
  <2> DEFINE r == u.order[i]
             b == Packet("presence", "presence", p.from, Full(r))
             d == [b EXCEPT !.pri = u.s[r].pri]
             v == via(r)
  <2>1. r \in Resources /\ v \in {"router", "sess", "none"} /\ v # "sess" /\ (v = "router" => u.s[r].avail)
    BY <1>2
  <2>1a. u.s[r].pri \in Int
    BY <1>1, <2>1 DEF Sess
  <2>2. q[i] = Item(v, "", d)
    BY <1>2, <1>3
  <2> HIDE DEF r, v
  <2>3. Full(r) \in Jids /\ Full(r)[1] = "user" /\ Full(r)[2] = r /\ p.from \in Jids
    BY <2>1, JidsIn, PktParts
  <2>4. b \in Pkt(n) /\ b.elem = "presence" /\ b.type = "presence" /\ b.to = p.from /\ b.from = Full(r) /\ ~b.err /\ ~b.rerr
    <3>1. "presence" \in PresTypes
      BY DEF PresTypes
    <3> HIDE DEF b
    <3>2. b = Packet("presence", "presence", p.from, Full(r))
      BY DEF b
    <3>3. QED
      BY <2>3, <3>1, <3>2, PresenceIn
  <2> HIDE DEF b
  <2>5. d \in Pkt(n) /\ d.elem = "presence" /\ d.type = "presence" /\ d.to = p.from /\ d.from = Full(r) /\ ~d.err /\ ~d.rerr
    <3>1. b \in PktRec(n)
      BY <2>4, PktParts
    <3>2. /\ d \in PktRec(n) /\ d.elem = b.elem /\ d.type = b.type /\ d.to = b.to /\ d.from = b.from
          /\ (d.err <=> b.err) /\ (d.rerr <=> b.rerr)
      BY <2>1a, <3>1 DEF PktRec
    <3> HIDE DEF d
    <3>3. QED
      BY <2>4, <3>2 DEF Pkt, PktRec, PresTypes
  <2> HIDE DEF d
  <2>6. q[i] \in Items(n) /\ q[i].via = v /\ q[i].p = d
    <3> DEFINE o == Item(v, "", d)
    <3>1. o \in Items(n) /\ o.via = v /\ o.p = d
      BY <2>1, <2>5 DEF Item, Items
    <3>2. QED
      BY <2>2, <3>1, Zenon
  <2>7. u.s[r].avail => \A c \in Peers, x \in Resources : Tells(d, c, x, "presence") => Believed(u, c, x)
    <3> SUFFICES ASSUME u.s[r].avail, NEW c \in Peers, NEW x \in Resources, Tells(d, c, x, "presence")
                 PROVE  Believed(u, c, x)
      OBVIOUS
    <3>1. x = r /\ p.from[1] = c
      <4>1. d.from = Full(x) /\ d.to[1] = c
        BY DEF Tells
      <4>2. Full(x)[2] = x
        BY JidsIn
      <4>3. QED
        BY <2>3, <2>5, <4>1, <4>2
    <3>2. c # "user"
      BY ManagerAssumption DEF Ours
    <3>3. c \in Roster
      BY <3>1, <3>2 DEF Trust
    <3>4. u.s[r].on
      BY <2>1 DEF UserOk, Listed
    <3>5. QED
      BY <3>1, <3>3, <3>4 DEF Believed
  <2>8. "user" \in Ours
    BY DEF Ours
  <2>9. u.s[r].avail => Writable(d, u, n)
    BY <2>3, <2>5, <2>7, <2>8 DEF Writable, Is
  <2>10. QED
    BY <2>1, <2>6, <2>9 DEF ItemOk
<1>6. QED
  BY <1>2, <1>4, <1>5, MapOk DEF q

LEMMA CopiesOk ==
    ASSUME NEW n, n \in Nat, NEW u, u \in UserRec, NEW p, p \in Pkt(n)
    PROVE  ItemsOk(CopyItems(u, p), u, n)
<1> DEFINE l == Len(u.order)
           q == CopyItems(u, p)
           via(r) == IF u.s[r].avail /\ Full(r) # p.from THEN "sess" ELSE "none"
<1>1. u.order \in Seq(Resources)
  BY UserParts
<1>2. l \in Nat /\ DOMAIN u.order = 1..l /\ \A i \in 1..l : u.order[i] \in Resources
  BY <1>1
<1>3. q = [i \in DOMAIN u.order |-> Item(via(u.order[i]), u.order[i], Dup(p, Full(u.order[i]), p.from))]
  BY DEF CopyItems
<1> HIDE DEF l, q
<1>4. DOMAIN q = 1..l /\ q = [i \in 1..l |-> q[i]]
  BY <1>2, <1>3
<1>5. ASSUME NEW i \in 1..l PROVE ItemOk(q[i], u, n)
  <2> DEFINE r == u.order[i]
             d == Dup(p, Full(r), p.from)
             v == via(r)
  <2>1. r \in Resources /\ v \in {"router", "sess", "none"} /\ v # "router"
    BY <1>2
  <2>2. q[i] = Item(v, r, d)
    BY <1>2, <1>3
  <2> HIDE DEF r, v
  <2>3. d \in Pkt(n)
    BY <2>1, JidsIn, PktParts, DupIn
  <2> HIDE DEF d
  <2>4. q[i] \in Items(n) /\ q[i].via = v /\ q[i].r = r
    <3> DEFINE o == Item(v, r, d)
    <3>1. o \in Items(n) /\ o.via = v /\ o.r = r
      BY <2>1, <2>3 DEF Item, Items
    <3>2. QED
      BY <2>2, <3>1, Zenon
  <2>5. QED
    BY <2>1, <2>4 DEF ItemOk
<1>6. QED
  BY <1>2, <1>4, <1>5, MapOk DEF q

LEMMA CleanOk ==
    ASSUME NEW n, NEW w, Ok(w, n), NEW p, NEW t, t = [w.m.u EXCEPT !.s = CleanOf(w.m.u, p)]
    PROVE  Ok(SetU(w, t), n) /\ Same(w, SetU(w, t))
<1> DEFINE u == w.m.u
           f == CleanOf(u, p)
<1>1. u \in UserRec /\ u.s \in [Resources -> Sess] /\ UserOk(u)
  BY OkParts
<1> HIDE DEF u
<1>2. f \in [Resources -> Sess] /\ \A r \in Resources :
        /\ (f[r].on <=> u.s[r].on) /\ (f[r].avail <=> u.s[r].avail) /\ f[r].pri = u.s[r].pri
        /\ f[r].A = u.s[r].A /\ f[r].E \subseteq u.s[r].E
  <2> DEFINE asks(r) == u.s[r].avail /\ Full(r) # p.from /\ p.to[2] \in {"", r}
             g(r) == [u.s[r] EXCEPT !.E = IF asks(r) THEN @ \ {p.from[1]} ELSE @]
  <2>1. f = [r \in Resources |-> g(r)]
    BY DEF CleanOf
  <2>2. ASSUME NEW r \in Resources
        PROVE  /\ g(r) \in Sess /\ (g(r).on <=> u.s[r].on) /\ (g(r).avail <=> u.s[r].avail) /\ g(r).pri = u.s[r].pri
               /\ g(r).A = u.s[r].A /\ g(r).E \subseteq u.s[r].E
    <3> DEFINE s == u.s[r]
               b == asks(r)
    <3>1. s \in Sess
      BY <1>1
    <3> HIDE DEF s, b
    <3> DEFINE h == [s EXCEPT !.E = IF b THEN @ \ {p.from[1]} ELSE @]
    <3>2. h \in Sess /\ (h.on <=> s.on) /\ (h.avail <=> s.avail) /\ h.pri = s.pri /\ h.A = s.A /\ h.E \subseteq s.E
      BY <3>1 DEF Sess
    <3>3. QED
      BY <3>2 DEF s, b
  <2> HIDE DEF g, f
  <2>3. QED
    BY <2>1, <2>2
<1> HIDE DEF f
<1>3. t = [u EXCEPT !.s = f]
  BY DEF u, f
<1>4. /\ t \in UserRec /\ t.s = f /\ t.order = u.order /\ (t.loaded <=> u.loaded) /\ t.top = u.top
      /\ (t.avail <=> u.avail)
  BY <1>1, <1>2, <1>3 DEF UserRec
<1>5. Marks(u, t)
  BY <1>2, <1>4 DEF Marks
<1>6. UserOk(t)
  BY <1>1, <1>5, MarksOk
<1>7. ErrOk(t)
  BY <1>2, <1>4 DEF Ok, ErrOk, u
<1>8. \A c \in Peers, r \in Resources : Believed(u, c, r) => Believed(t, c, r)
  BY <1>2, <1>4 DEF Believed
<1>9. Ok(SetU(w, t), n) /\ SetU(w, t).pkt = w.pkt /\ SetU(w, t).m.u = t
  BY <1>6, <1>7, <1>8, ItemsStay, SetUOk DEF u
<1>10. QED
  BY <1>4, <1>9 DEF Same, SameOrder, u

(* pres_in keeps the work state in order.                                  *)
LEMMA PresInOk ==
    ASSUME NEW n, NEW w, Ok(w, n), w.pkt.to[1] \in Ours
    PROVE  Ok(PresIn(w), n) /\ Same(w, PresIn(w))
<1> DEFINE p == w.pkt
           u == w.m.u
<1>1. n \in Nat /\ w \in WorkSet(n) /\ p \in Pkt(n) /\ p.to \in Jids /\ p.from \in Jids /\ UserOk(u) /\ u \in UserRec
  BY OkParts, PktParts
<1>2. CASE Is(p, "probe") /\ ~Trust(p.from)
  <2> DEFINE q == Packet("presence", "unsubscribed", p.from, p.to)
  <2>1. PresIn(w) = Route(w, q)
    BY <1>2 DEF PresIn
  <2>2. q \in Pkt(n) /\ q.elem = "presence" /\ q.type = "unsubscribed" /\ q.from = p.to /\ ~q.rerr
    <3>1. "unsubscribed" \in PresTypes
      BY DEF PresTypes
    <3> HIDE DEF q
    <3>2. q = Packet("presence", "unsubscribed", p.from, p.to)
      BY DEF q
    <3>3. QED
      BY <1>1, <3>1, <3>2, PresenceIn
  <2> HIDE DEF q
  <2>3. Writable(q, u, n)
    BY <1>1, <2>2, MadeOk DEF Is
  <2>4. QED
    BY <2>1, <2>3, RouteOk
<1>3. CASE Is(p, "probe") /\ Trust(p.from) /\ ~u.avail
  <2>1. PresIn(w) = w
    BY <1>3 DEF PresIn
  <2>2. QED
    BY <2>1 DEF Same, SameOrder
<1>4. CASE Is(p, "probe") /\ Trust(p.from) /\ u.avail
  <2> DEFINE q == AnswerItems(u, p)
             x == PutAll(w, q)
             t == [u EXCEPT !.s = CleanOf(u, p)]
  <2>1. ItemsOk(q, u, n)
    BY <1>1, <1>4, AnswersOk
  <2>2. PresIn(w) = [x EXCEPT !.m.u.s = CleanOf(u, p)]
    BY <1>4, Zenon DEF PresIn, AnswerItems, CleanOf
  <2> HIDE DEF q
  <2>3. Ok(x, n) /\ x.m = w.m /\ Same(w, x)
    BY <2>1, PutsOk
  <2> HIDE DEF x
  <2>4. [x EXCEPT !.m.u.s = CleanOf(u, p)] = SetU(x, t)
    BY <2>3 DEF SetU
  <2>5. Ok(SetU(x, t), n) /\ Same(x, SetU(x, t))
    <3>1. t = [x.m.u EXCEPT !.s = CleanOf(x.m.u, p)]
      BY <2>3
    <3> HIDE DEF t
    <3>2. QED
      BY <2>3, <3>1, CleanOk
  <2>6. QED
    BY <2>2, <2>3, <2>4, <2>5 DEF Same, SameOrder
<1>5. CASE ~Is(p, "probe")
  <2> DEFINE q == CopyItems(u, p)
  <2>1. ItemsOk(q, u, n)
    BY <1>1, CopiesOk
  <2>2. PresIn(w) = PutAll(w, q)
    BY <1>5, Zenon DEF PresIn, CopyItems
  <2> HIDE DEF q
  <2>3. Ok(PutAll(w, q), n) /\ Same(w, PutAll(w, q))
    BY <2>1, PutsOk
  <2>4. QED
    BY <2>2, <2>3, Zenon
<1>6. QED
  BY <1>2, <1>3, <1>4, <1>5

(* A session's record is replaced by one that is as available.             *)
LEMMA MarkOk ==
    ASSUME NEW n, NEW w, NEW r, Ok(w, n), r \in Resources, NEW s, s \in Sess,
           (s.on <=> w.m.u.s[r].on), (s.avail <=> w.m.u.s[r].avail), s.pri = w.m.u.s[r].pri,
           s.E \cap Peers \subseteq bounced[r],
           \A c \in Peers : c \in w.m.u.s[r].A /\ c \notin bounced[r] => c \in s.A \/ Withdrawn(w.out, c, r),
           w.m.u.s[r].A \subseteq s.A \/ Quiet(w, r)
    PROVE  LET v == SetU(w, SetS(w.m.u, r, s))
           IN  /\ Ok(v, n) /\ Same(w, v) /\ v.out = w.out /\ v.m.u.s[r] = s
               /\ \A x \in Resources : x # r => v.m.u.s[x] = w.m.u.s[x]
<1> DEFINE u == w.m.u
           t == SetS(u, r, s)
<1>1. u \in UserRec /\ UserOk(u) /\ w \in WorkSet(n)
  BY OkParts
<1> HIDE DEF u
<1>2. /\ t \in UserRec /\ t.order = u.order /\ (t.loaded <=> u.loaded) /\ t.top = u.top
      /\ (t.avail <=> u.avail) /\ t.s[r] = s /\ \A x \in Resources : x # r => t.s[x] = u.s[x]
  BY <1>1, SetSs
<1> HIDE DEF t
<1>3. Marks(u, t)
  BY <1>2 DEF Marks, u
<1>4. UserOk(t)
  BY <1>1, <1>3, MarksOk
<1>5. ErrOk(t)
  BY <1>2 DEF Ok, ErrOk, u
<1>6. ASSUME NEW c \in Peers, NEW x \in Resources, Believed(u, c, x), c \notin bounced[x]
      PROVE  Believed(t, c, x) \/ Withdrawn(w.out, c, x)
  BY <1>2, <1>6 DEF Believed, u
<1>7. \A i \in DOMAIN w.out : ItemOk(w.out[i], t, n)
  <2>1. CASE w.m.u.s[r].A \subseteq s.A
    <3>1. \A c \in Peers, x \in Resources : Believed(w.m.u, c, x) => Believed(t, c, x)
      BY <1>2, <2>1 DEF Believed, u
    <3>2. QED
      BY <3>1, ItemsStay
  <2>2. CASE Quiet(w, r)
    <3> SUFFICES ASSUME NEW i \in DOMAIN w.out PROVE ItemOk(w.out[i], t, n)
      OBVIOUS
    <3> DEFINE d == w.out[i]
    <3>1. ItemOk(d, u, n) /\ \A c \in Peers : ~(d.via = "router" /\ Tells(d.p, c, r, "presence"))
      BY <2>2 DEF Ok, Quiet, u
    <3> HIDE DEF d
    <3>2. \A c \in Peers, x \in Resources : x # r /\ Believed(u, c, x) => Believed(t, c, x)
      BY <1>2 DEF Believed
    <3>3. ItemOk(d, t, n)
      BY <3>1, <3>2 DEF ItemOk, Writable
    <3>4. QED
      BY <3>3 DEF d
  <2>3. QED
    BY <2>1, <2>2
<1> DEFINE v == SetU(w, t)
<1>8. Ok(v, n) /\ v.pkt = w.pkt /\ v.m.u = t /\ v.out = w.out
  BY <1>4, <1>5, <1>6, <1>7, SetUOk DEF u
<1> HIDE DEF v
<1>9. Same(w, v) /\ v.m.u.s[r] = s /\ \A x \in Resources : x # r => v.m.u.s[x] = w.m.u.s[x]
  BY <1>2, <1>8 DEF Same, SameOrder, u
<1>10. QED
  BY <1>8, <1>9 DEF v, t, u

\* E and A of a session are set
Marked(s, e, a) == [s EXCEPT !.E = e, !.A = a]

LEMMA MarkedIn ==
    ASSUME NEW s, s \in Sess, NEW e, e \subseteq Known, NEW a, a \subseteq Known
    PROVE  LET t == Marked(s, e, a)
           IN  /\ t \in Sess /\ (t.on <=> s.on) /\ (t.avail <=> s.avail) /\ t.pri = s.pri /\ t.E = e /\ t.A = a
  BY DEF Marked, Sess

SetMarks(w, r, e, a) == SetU(w, SetS(w.m.u, r, Marked(w.m.u.s[r], e, a)))

SetBoth(w, r, e, a) == [w EXCEPT !.m.u.s[r].E = e, !.m.u.s[r].A = a]
SetErrs(w, r, e) == [w EXCEPT !.m.u.s[r].E = e]

LEMMA MarkPath ==
    ASSUME NEW n, NEW w, w \in WorkSet(n), NEW r, r \in Resources, NEW e, NEW a
    PROVE  /\ SetBoth(w, r, e, a) = SetMarks(w, r, e, a)
           /\ SetErrs(w, r, e) = SetMarks(w, r, e, w.m.u.s[r].A)
<1> DEFINE u == w.m.u
           s == [u.s[r] EXCEPT !.E = e]
           t == [s EXCEPT !.A = a]
           x == [w EXCEPT !.m.u.s[r].E = e]
<1>1. u \in UserRec /\ u.s[r] \in Sess
  BY DEF WorkSet, Mgr, UserRec
<1>2. x = SetU(w, SetS(u, r, s))
  BY DEF SetU, SetS
<1>3. [w EXCEPT !.m.u.s[r].E = e, !.m.u.s[r].A = a] = SetU(x, SetS(x.m.u, r, [x.m.u.s[r] EXCEPT !.A = a]))
  BY DEF SetU, SetS
<1>4. Marked(u.s[r], e, a) = t
  BY DEF Marked
<1>5. Marked(u.s[r], e, u.s[r].A) = s
  <2> DEFINE f == u.s[r]
  <2>1. f \in Sess
    BY <1>1
  <2> HIDE DEF f
  <2>2. Marked(f, e, f.A) = [f EXCEPT !.E = e]
    BY <2>1 DEF Marked, Sess
  <2>3. QED
    BY <2>2 DEF f
<1> HIDE DEF u, s, x
<1>6. SetS(u, r, s).s[r] = s /\ SetS(SetS(u, r, s), r, t) = SetS(u, r, t)
  BY <1>1 DEF SetS, UserRec
<1>7. x.m.u = SetS(u, r, s)
  BY <1>2, SetUs
<1>8. SetU(x, SetS(u, r, t)) = SetU(w, SetS(u, r, t))
  BY <1>2, SetUs
<1>9. x = SetMarks(w, r, e, w.m.u.s[r].A)
  BY <1>2, <1>5, Zenon DEF SetMarks, u
<1>10. [w EXCEPT !.m.u.s[r].E = e, !.m.u.s[r].A = a] = SetMarks(w, r, e, a)
  BY <1>3, <1>4, <1>6, <1>7, <1>8 DEF SetMarks, u
<1>11. QED
  BY <1>9, <1>10 DEF x, SetBoth, SetErrs

LEMMA SetMarksOk ==
    ASSUME NEW n, NEW w, NEW r, Ok(w, n), r \in Resources, NEW e, e \subseteq Known, NEW a, a \subseteq Known,
           e \cap Peers \subseteq bounced[r],
           \A c \in Peers : c \in w.m.u.s[r].A /\ c \notin bounced[r] => c \in a \/ Withdrawn(w.out, c, r),
           w.m.u.s[r].A \subseteq a \/ Quiet(w, r)
    PROVE  LET v == SetMarks(w, r, e, a)
           IN  /\ Ok(v, n) /\ Same(w, v) /\ v.out = w.out /\ v.m.u.s[r].A = a /\ v.m.u.s[r].E = e
               /\ (v.m.u.s[r].on <=> w.m.u.s[r].on)
<1> DEFINE f == w.m.u.s[r]
           s == Marked(f, e, a)
<1>1. f \in Sess
  BY OkParts
<1> HIDE DEF f
<1>2. s \in Sess /\ (s.on <=> f.on) /\ (s.avail <=> f.avail) /\ s.pri = f.pri /\ s.E = e /\ s.A = a
  BY <1>1, MarkedIn
<1> HIDE DEF s
<1> DEFINE v == SetU(w, SetS(w.m.u, r, s))
<1>3. Ok(v, n) /\ Same(w, v) /\ v.out = w.out /\ v.m.u.s[r] = s
  <2>1. (s.on <=> w.m.u.s[r].on) /\ (s.avail <=> w.m.u.s[r].avail) /\ s.pri = w.m.u.s[r].pri
    BY <1>2 DEF f
  <2>2. s.E \cap Peers \subseteq bounced[r]
    BY <1>2
  <2>3. \A c \in Peers : c \in w.m.u.s[r].A /\ c \notin bounced[r] => c \in s.A \/ Withdrawn(w.out, c, r)
    BY <1>2
  <2>4. w.m.u.s[r].A \subseteq s.A \/ Quiet(w, r)
    BY <1>2
  <2> HIDE DEF f
  <2>5. QED
    BY <1>2, <2>1, <2>2, <2>3, <2>4, MarkOk
<1> HIDE DEF v
<1>4. v = SetMarks(w, r, e, a)
  BY DEF v, SetMarks, s, f
<1>5. QED
  BY <1>2, <1>3, <1>4 DEF f

(* pres_error: a peer whose presence came back counts as not told.         *)
LEMMA PresErrorOk ==
    ASSUME NEW n, NEW w, NEW r, Ok(w, n), r \in Resources, Quiet(w, r), w.pkt.from[1] \in Known,
           w.pkt.from[1] \in Peers => w.pkt.from[1] \in bounced[r]
    PROVE  Ok(PresError(w, r), n) /\ Same(w, PresError(w, r))
<1> DEFINE c == w.pkt.from[1]
           s == w.m.u.s[r]
           e == s.E \cup {c}
           a == s.A \ {c}
<1>1. s \in Sess /\ w \in WorkSet(n)
  BY OkParts
<1>2. e \subseteq Known /\ a \subseteq Known
  <2> HIDE DEF s, c
  <2>1. c \in Known
    BY DEF c
  <2>2. QED
    BY <1>1, <2>1 DEF Sess
<1>3. e \cap Peers \subseteq bounced[r]
  <2>1. s.E \cap Peers \subseteq bounced[r]
    BY DEF Ok, ErrOk
  <2>2. QED
    BY <2>1
<1>4. \A x \in Peers : x \in s.A /\ x \notin bounced[r] => x \in a
  OBVIOUS
<1>5. PresError(w, r) = [w EXCEPT !.m.u.s[r].E = e, !.m.u.s[r].A = a]
  BY DEF PresError
<1> HIDE DEF e, a
<1>6. PresError(w, r) = SetMarks(w, r, e, a)
  <2>1. SetBoth(w, r, e, a) = SetMarks(w, r, e, a)
    BY <1>1, MarkPath
  <2>2. QED
    BY <1>5, <2>1, Zenon DEF SetBoth
<1>7. Ok(SetMarks(w, r, e, a), n) /\ Same(w, SetMarks(w, r, e, a))
  BY <1>2, <1>3, <1>4, SetMarksOk
<1>8. QED
  BY <1>6, <1>7, Zenon

One(p) == <<Item("router", "", p)>>

LEMMA RoutePut ==
    ASSUME NEW n, NEW w, w \in WorkSet(n), NEW p, p \in Pkt(n), p.to # NoJid
    PROVE  /\ Route(w, p) = PutAll(w, One(p)) /\ DOMAIN One(p) = {1} /\ One(p)[1].via = "router" /\ One(p)[1].p = p
           /\ \A u : Writable(p, u, n) => ItemsOk(One(p), u, n)
<1> DEFINE o == Item("router", "", p)
<1>1. o \in Items(n) /\ o.via = "router" /\ o.p = p
  BY DEF Item, Items
<1>2. One(p) = <<o>> /\ Route(w, p) = [w EXCEPT !.out = Append(@, o)]
  BY DEF One, Route
<1> HIDE DEF o
<1>3. w.out \in Seq(Items(n)) /\ <<o>> \in Seq(Items(n)) /\ DOMAIN <<o>> = {1} /\ <<o>>[1] = o
  BY <1>1 DEF WorkSet
<1>4. Append(w.out, o) = w.out \o <<o>>
  BY <1>1, <1>3
<1>5. Route(w, p) = PutAll(w, <<o>>)
  BY <1>2, <1>4 DEF PutAll
<1>6. \A u : Writable(p, u, n) => ItemOk(o, u, n)
  BY <1>1 DEF ItemOk
<1> DEFINE q == One(p)
<1>7. q \in Seq(Items(n)) /\ DOMAIN q = {1} /\ q[1] = o
  BY <1>2, <1>3
<1> HIDE DEF q
<1>8. \A u : Writable(p, u, n) => ItemsOk(q, u, n)
  BY <1>6, <1>7 DEF ItemsOk
<1>9. QED
  BY <1>1, <1>2, <1>5, <1>7, <1>8 DEF q

LEMMA FullOne ==
    ASSUME NEW r, NEW x, Full(r) = Full(x)
    PROVE  r = x
<1>1. Full(r)[2] = r /\ Full(x)[2] = x
  BY DEF Full
<1>2. QED
  BY <1>1

\* a presence of session r to somebody else
Directed(p, r, n) ==
    /\ p \in Pkt(n) /\ p.elem # "advert" /\ ~p.rerr /\ p.from = Full(r) /\ p.to[1] \in Known
    /\ Discreet /\ Is(p, "presence") => p.to[1] \notin Roster

LEMMA MoreMarks ==
    ASSUME NEW n, NEW w, NEW r, Ok(w, n), r \in Resources, NEW e, e \subseteq Known, e \cap Peers \subseteq bounced[r],
           NEW a, a \subseteq Known, w.m.u.s[r].A \subseteq a
    PROVE  LET v == SetMarks(w, r, e, a)
           IN  /\ Ok(v, n) /\ Same(w, v) /\ v.m.u.s[r].A = a /\ (v.m.u.s[r].on <=> w.m.u.s[r].on)
<1>1. \A c \in Peers : c \in w.m.u.s[r].A /\ c \notin bounced[r] => c \in a \/ Withdrawn(w.out, c, r)
  OBVIOUS
<1>2. w.m.u.s[r].A \subseteq a \/ Quiet(w, r)
  OBVIOUS
<1>3. QED
  BY <1>1, <1>2, SetMarksOk

(* pres_deliver, available: who is not in the roster is remembered.        *)
LEMMA DirectOk ==
    ASSUME NEW n, NEW w, NEW r, InSession(w, r, n), Directed(w.pkt, r, n), Is(w.pkt, "presence"), w.pkt.to[1] # "user"
    PROVE  Ok(PresDeliver(w, r), n) /\ Same(w, PresDeliver(w, r))
<1> DEFINE p == w.pkt
           c == p.to[1]
           s == w.m.u.s[r]
           e == s.E \ {c}
           a == s.A \cup {c}
           clean == [w EXCEPT !.m.u.s[r].E = @ \ {c}]
           more == [clean EXCEPT !.m.u.s[r].A = @ \cup {c}]
           v == IF Trust(p.to) THEN clean ELSE more
<1>1. Ok(w, n) /\ r \in Resources /\ s \in Sess /\ w \in WorkSet(n) /\ s.on
  BY OkParts DEF InSession
<1>2. PresDeliver(w, r) = Route(v, p)
  BY DEF PresDeliver, Is
<1>3. c \in Known
  BY DEF Directed
<1>4. e \subseteq Known /\ a \subseteq Known /\ s.A \subseteq Known /\ s.A \subseteq a /\ e \subseteq s.E
  <2> HIDE DEF s, c
  <2>1. QED
    BY <1>1, <1>3 DEF Sess
<1>5. e \cap Peers \subseteq bounced[r]
  <2>1. s.E \cap Peers \subseteq bounced[r]
    BY <1>1 DEF Ok, ErrOk
  <2>2. QED
    BY <2>1
<1>6. clean = SetErrs(w, r, e)
  BY DEF SetErrs
<1> HIDE DEF e, a, c, clean
<1>7. clean = SetMarks(w, r, e, s.A)
  BY <1>1, <1>6, MarkPath
<1>8. Ok(clean, n) /\ Same(w, clean) /\ clean.m.u.s[r].A = s.A /\ (clean.m.u.s[r].on <=> s.on)
  <2> DEFINE b == s.A
             x == SetMarks(w, r, e, b)
  <2>1. b \subseteq Known /\ w.m.u.s[r].A \subseteq b
    BY <1>4
  <2> HIDE DEF b, s
  <2>2. Ok(x, n) /\ Same(w, x) /\ x.m.u.s[r].A = b /\ (x.m.u.s[r].on <=> w.m.u.s[r].on)
    BY <1>1, <1>4, <1>5, <2>1, MoreMarks
  <2>3. clean = x
    BY <1>7 DEF b
  <2> HIDE DEF x
  <2>4. QED
    BY <2>2, <2>3 DEF b, s
<1>9. more = SetMarks(w, r, e, a)
  <2>1. more = [clean EXCEPT !.m.u.s[r].A = a]
    BY <1>8 DEF a
  <2>2. more = SetBoth(w, r, e, a)
    BY <1>6, <2>1 DEF SetBoth, SetErrs
  <2> HIDE DEF more
  <2>3. QED
    BY <1>1, <2>2, MarkPath
<1> HIDE DEF more
<1>10. Ok(more, n) /\ Same(w, more) /\ more.m.u.s[r].A = a /\ (more.m.u.s[r].on <=> s.on)
  <2> HIDE DEF s
  <2>1. LET x == SetMarks(w, r, e, a)
        IN  Ok(x, n) /\ Same(w, x) /\ x.m.u.s[r].A = a /\ (x.m.u.s[r].on <=> s.on)
    BY SMTT(30), <1>1, <1>4, <1>5, SetMarksOk DEF s
  <2>2. QED
    BY <1>9, <2>1
<1>11. Ok(v, n) /\ Same(w, v) /\ v.m.u.s[r].on /\ (Trust(p.to) \/ c \in v.m.u.s[r].A)
  BY <1>1, <1>8, <1>10 DEF a
<1> HIDE DEF v
<1>12. Writable(p, v.m.u, n)
  <2>1. ASSUME Discreet, NEW d \in Peers, NEW x \in Resources, Tells(p, d, x, "presence")
        PROVE  Believed(v.m.u, d, x)
    <3>1. x = r /\ d = c
      BY <2>1, FullOne DEF Tells, Directed, c
    <3>2. d \notin Roster /\ d # "user"
      BY <2>1, <3>1, ManagerAssumption DEF Directed, c, Ours
    <3>3. ~Trust(p.to)
      BY <3>1, <3>2 DEF Trust, c
    <3>4. QED
      BY <1>11, <3>1, <3>3 DEF Believed
  <2>2. p.from[1] \in Ours /\ ~Is(p, "probe")
    BY <1>1, JidsIn DEF Directed, Ours, Is
  <2>3. QED
    BY <2>1, <2>2 DEF Writable, Directed
<1>13. Ok(Route(v, p), n) /\ Same(v, Route(v, p))
  BY <1>11, <1>12, RouteOk
<1>14. QED
  BY <1>2, <1>11, <1>13 DEF Same, SameOrder

(* pres_deliver, unavailable: who is told is forgotten.                    *)
LEMMA DirectGone ==
    ASSUME NEW n, NEW w, NEW r, InSession(w, r, n), Directed(w.pkt, r, n), Is(w.pkt, "unavailable"), Quiet(w, r),
           w.pkt.to[1] # "user", w.pkt.to # NoJid
    PROVE  Ok(PresDeliver(w, r), n) /\ Same(w, PresDeliver(w, r))
<1> DEFINE p == w.pkt
           c == p.to[1]
           s == w.m.u.s[r]
           e == s.E \ {c}
           a == s.A \ {c}
           clean == [w EXCEPT !.m.u.s[r].E = @ \ {c}]
           v == [clean EXCEPT !.m.u.s[r].A = @ \ {c}]
           y == PutAll(w, One(p))
<1>1. Ok(w, n) /\ r \in Resources /\ s \in Sess /\ w \in WorkSet(n) /\ s.on /\ p \in Pkt(n) /\ ~Is(p, "presence")
  BY OkParts DEF InSession, Is
<1>2. PresDeliver(w, r) = Route(v, p)
  BY DEF PresDeliver, Is
<1>4. e \subseteq Known /\ a \subseteq Known /\ (\A x \in s.A : x \in a \/ x = c)
  <2> HIDE DEF s, c
  <2>1. QED
    BY <1>1 DEF Sess
<1>5. e \cap Peers \subseteq bounced[r]
  <2>1. s.E \cap Peers \subseteq bounced[r]
    BY <1>1 DEF Ok, ErrOk
  <2>2. QED
    BY <2>1
<1>6. clean = SetErrs(w, r, e)
  BY DEF SetErrs
<1>7. clean.m.u.s[r].A = s.A
  <2>1. w.m.u.s \in [Resources -> Sess]
    BY <1>1, OkParts
  <2>2. QED
    BY <1>1, <2>1 DEF WorkSet, Mgr, UserRec, Sess
<1> HIDE DEF e, a, c, clean
<1>8. v = SetMarks(w, r, e, a)
  <2>1. v = [clean EXCEPT !.m.u.s[r].A = a]
    BY <1>7 DEF a
  <2>2. v = SetBoth(w, r, e, a)
    BY <1>6, <2>1 DEF SetBoth, SetErrs
  <2> HIDE DEF v
  <2>3. QED
    BY <1>1, <2>2, MarkPath
<1> HIDE DEF v
<1>9. Writable(p, w.m.u, n)
  <2>1. p.from[1] \in Ours /\ ~Is(p, "probe")
    BY <1>1, JidsIn DEF Directed, Ours, Is
  <2>2. QED
    BY <1>1, <2>1 DEF Writable, Directed, Tells
<1>10. ItemsOk(One(p), w.m.u, n) /\ DOMAIN One(p) = {1} /\ One(p)[1].via = "router" /\ One(p)[1].p = p
  BY <1>1, <1>9, RoutePut
<1>11. Ok(y, n) /\ Same(w, y) /\ y.m = w.m
  BY <1>1, <1>10, PutsOk
<1>12. Quiet(y, r)
  <2>1. \A i \in DOMAIN One(p) : ~Is(One(p)[i].p, "presence")
    BY <1>1, <1>10
  <2>2. QED
    BY <1>1, <1>10, <2>1, QuietPut
<1>13. Withdrawn(y.out, c, r)
  <2>1. Withdrawn(One(p), c, r)
    BY <1>10 DEF Withdrawn, Tells, Directed, c
  <2>2. QED
    BY <1>1, <1>10, <2>1, WithdrawnPut
<1> HIDE DEF y
<1> DEFINE z == SetMarks(y, r, e, a)
<1>14. Ok(z, n) /\ Same(y, z)
  BY <1>1, <1>4, <1>5, <1>11, <1>12, <1>13, SetMarksOk
<1>15. z = Route(v, p)
  <2> DEFINE g == SetS(w.m.u, r, Marked(w.m.u.s[r], e, a))
  <2>1. z = SetU(y, g)
    BY <1>11 DEF SetMarks
  <2>2. v = SetU(w, g)
    BY <1>8 DEF SetMarks
  <2> HIDE DEF g
  <2>3. PutAll(SetU(w, g), One(p)) = SetU(PutAll(w, One(p)), g)
    BY <1>1, SetUs
  <2>3a. v \in WorkSet(n)
    <3>1. s \in Sess /\ w.m.u \in UserRec
      BY <1>1, OkParts
    <3> HIDE DEF s
    <3>2. Marked(s, e, a) \in Sess
      BY <1>4, <3>1, MarkedIn
    <3>3. g \in UserRec
      BY <1>1, <3>1, <3>2, SetSs DEF g, s
    <3>4. QED
      BY <1>1, <2>2, <3>3 DEF SetU, WorkSet, Mgr
  <2>4. Route(v, p) = PutAll(v, One(p))
    BY <1>1, <2>3a, RoutePut
  <2>5. QED
    BY <2>1, <2>2, <2>3, <2>4 DEF y
<1> HIDE DEF z
<1>16. QED
  BY <1>2, <1>11, <1>14, <1>15 DEF Same, SameOrder

(* pres_deliver keeps the work state in order.                             *)
LEMMA PresDeliverOk ==
    ASSUME NEW n, NEW w, NEW r, InSession(w, r, n), Directed(w.pkt, r, n), Quiet(w, r), w.pkt.to # NoJid
    PROVE  Ok(PresDeliver(w, r), n) /\ SameOrder(w, PresDeliver(w, r))
<1> DEFINE p == w.pkt
<1>1. Ok(w, n) /\ p \in Pkt(n) /\ p.to \in Jids /\ r \in Resources
  BY OkParts, PktParts DEF InSession
<1>2. CASE p.to[1] = "user"
  <2> DEFINE q == Dup(p, p.to, Full(r))
             x == [w EXCEPT !.pkt = q]
  <2>1. PresDeliver(w, r) = PresIn(x)
    BY <1>2 DEF PresDeliver
  <2>2. q \in Pkt(n) /\ q.to = p.to
    <3>1. Full(r) \in Jids
      BY <1>1, JidsIn
    <3>2. QED
      BY <1>1, <3>1, DupIn
  <2> HIDE DEF q
  <2>3. Ok(x, n) /\ SameOrder(w, x) /\ x.pkt = q
    BY <1>1, <2>2, PktSet
  <2> HIDE DEF x
  <2>4. Ok(PresIn(x), n) /\ Same(x, PresIn(x))
    BY <1>2, <2>2, <2>3, PresInOk DEF Ours
  <2>5. QED
    BY <2>1, <2>3, <2>4 DEF Same, SameOrder
<1>3. CASE p.to[1] # "user" /\ Is(p, "presence")
  BY <1>3, DirectOk DEF Same
<1>4. CASE p.to[1] # "user" /\ Is(p, "unavailable")
  BY <1>4, DirectGone DEF Same
<1>5. CASE p.to[1] # "user" /\ ~Is(p, "presence") /\ ~Is(p, "unavailable")
  <2>1. PresDeliver(w, r) = w
    BY <1>5 DEF PresDeliver
  <2>2. QED
    BY <1>1, <2>1 DEF SameOrder
<1>6. QED
  BY <1>2, <1>3, <1>4, <1>5

(* The spool, the services or the cached answers are replaced.             *)
SetM(w, m) == [w EXCEPT !.m = m]

LEMMA SetMOk ==
    ASSUME NEW n, NEW w, Ok(w, n), NEW m, m \in Mgr(n), m.u = w.m.u, DiscoOk(m)
    PROVE  LET v == SetM(w, m)
           IN  Ok(v, n) /\ Same(w, v) /\ v.m = m /\ v.out = w.out /\ v.ret = w.ret
<1> DEFINE v == SetM(w, m)
<1>1. w \in WorkSet(n)
  BY OkParts
<1>2. v \in WorkSet(n) /\ v.m = m /\ v.pkt = w.pkt /\ v.out = w.out /\ v.ret = w.ret /\ v.id = w.id
  BY <1>1 DEF WorkSet, SetM
<1> HIDE DEF v
<1>3. Told(v)
  BY <1>2 DEF Ok, Told
<1>4. Ok(v, n)
  BY <1>2, <1>3 DEF Ok
<1>5. QED
  BY <1>2, <1>4 DEF Same, SameOrder, v

Spooled(w, q) == [w EXCEPT !.m.spool = q]

LEMMA SpoolSet ==
    ASSUME NEW n, NEW w, Ok(w, n), NEW q, q \in Seq(Pkt(n))
    PROVE  LET v == Spooled(w, q)
           IN  Ok(v, n) /\ Same(w, v) /\ v.m.u = w.m.u /\ v.out = w.out /\ v.ret = w.ret
<1> DEFINE m == [w.m EXCEPT !.spool = q]
           v == Spooled(w, q)
<1>1. w.m \in Mgr(n)
  BY OkParts
<1>2. m \in Mgr(n) /\ m.u = w.m.u /\ m.dyn = w.m.dyn /\ m.cache = w.m.cache
  BY <1>1 DEF Mgr
<1>3. v = SetM(w, m)
  BY DEF SetM, Spooled
<1> HIDE DEF m, v
<1>4. DiscoOk(m)
  BY <1>2 DEF Ok, DiscoOk
<1> DEFINE x == SetM(w, m)
<1>5. Ok(x, n) /\ Same(w, x) /\ x.m = m /\ x.out = w.out /\ x.ret = w.ret
  BY <1>2, <1>4, SetMOk
<1> HIDE DEF x
<1>6. QED
  BY <1>2, <1>3, <1>5 DEF x, v

(* The answers of mod_disco after the services changed, or as they are.    *)
SetDyn(w, d) == [w EXCEPT !.m.dyn = d]

LEMMA GeneratedOk ==
    ASSUME NEW n, NEW w, Ok(w, n), NEW d, d \subseteq Bare, d \cap Services \subseteq online
    PROVE  LET x == SetDyn(w, d)
           IN  Ok(Generated(x), n) /\ Same(w, Generated(x)) /\ Generated(x).ret = w.ret
<1> DEFINE x == [w EXCEPT !.m.dyn = d]
           m == [w.m EXCEPT !.dyn = d, !.cache = <<d \cup Static>>]
           q == <<d \cup Static>>
<1>1. w.m \in Mgr(n) /\ w \in WorkSet(n)
  BY OkParts
<1>2. q \in Seq(SUBSET (Bare \cup Static))
  <2> DEFINE e == d \cup Static
  <2>1. e \in SUBSET (Bare \cup Static)
    OBVIOUS
  <2> HIDE DEF e
  <2>2. <<e>> \in Seq(SUBSET (Bare \cup Static))
    BY <2>1
  <2>3. QED
    BY <2>2 DEF e
<1>3. m = [w.m EXCEPT !.dyn = d, !.cache = q]
  OBVIOUS
<1> HIDE DEF q
<1>4. m \in Mgr(n) /\ m.u = w.m.u /\ m.dyn = d /\ m.cache = q
  BY <1>1, <1>2, <1>3 DEF Mgr
<1>5. Generated(x) = SetM(w, m)
  <2>1. x.m.dyn = d
    BY <1>1 DEF WorkSet, Mgr
  <2>2. Generated(x) = [x EXCEPT !.m.cache = q]
    BY <2>1 DEF Generated, Unified, q
  <2>3. [x EXCEPT !.m.cache = q] = [w EXCEPT !.m = [w.m EXCEPT !.dyn = d, !.cache = q]]
    BY <1>1 DEF WorkSet, Mgr
  <2>4. QED
    BY <1>3, <2>2, <2>3 DEF SetM
<1> HIDE DEF m
<1>6. DiscoOk(m)
  BY <1>4 DEF DiscoOk, q
<1> DEFINE y == SetM(w, m)
<1>7. Ok(y, n) /\ Same(w, y) /\ y.m = m /\ y.out = w.out /\ y.ret = w.ret
  BY <1>4, <1>6, SetMOk
<1> HIDE DEF y
<1>8. QED
  BY <1>5, <1>7 DEF y, SetDyn

LEMMA CachedOk ==
    ASSUME NEW n, NEW w, Ok(w, n)
    PROVE  Ok(Cached(w), n) /\ Same(w, Cached(w)) /\ Cached(w).ret = w.ret
<1>1. CASE w.m.cache = <<>>
  <2> DEFINE d == w.m.dyn
             x == SetDyn(w, d)
  <2>1. w.m \in Mgr(n) /\ w \in WorkSet(n)
    BY OkParts
  <2>2. d \subseteq Bare /\ d \cap Services \subseteq online
    BY <2>1 DEF Ok, DiscoOk, Mgr
  <2>3. x = w
    BY <2>1 DEF WorkSet, Mgr, SetDyn
  <2>4. Cached(w) = Generated(w)
    BY <1>1 DEF Cached
  <2> HIDE DEF d, x
  <2>5. Ok(Generated(x), n) /\ Same(w, Generated(x)) /\ Generated(x).ret = w.ret
    BY <2>2, GeneratedOk DEF x
  <2>6. QED
    BY <2>3, <2>4, <2>5
<1>2. CASE w.m.cache # <<>>
  BY <1>2 DEF Cached, Same, SameOrder
<1>3. QED
  BY <1>1, <1>2

-----------------------------------------------------------------------------
(* The in-sess chain                                                       *)

\* what a client sends in its session
ClientPkt(p, r, n) ==
    /\ p \in Pkt(n) /\ p.elem # "advert" /\ ~p.rerr /\ (p.from = NoJid \/ p.from = Full(r)) /\ p.to[1] \in Known \cup {""}
    /\ Discreet /\ Is(p, "presence") => p.to[1] \notin Roster
Hold(w, r, n) == InSession(w, r, n) /\ ClientPkt(w.pkt, r, n) /\ Quiet(w, r)
Goes(w, v, r, n) == Ok(v, n) /\ SameOrder(w, v) /\ (Passes(v) => Hold(v, r, n))

LEMMA GoesOn ==
    ASSUME NEW n, NEW r, NEW w, Hold(w, r, n), NEW v
    PROVE  /\ Goes(w, w, r, n)
           /\ Ok(v, n) /\ SameOrder(w, v) => Goes(w, Handled(v), r, n) /\ Goes(w, Fails(v), r, n)
<1>1. Goes(w, w, r, n)
  BY DEF Goes, Hold, InSession, SameOrder
<1>2. ASSUME Ok(v, n), SameOrder(w, v) PROVE Goes(w, Handled(v), r, n) /\ Goes(w, Fails(v), r, n)
  <2>1. /\ Ok(Handled(v), n) /\ Same(v, Handled(v)) /\ ~Passes(Handled(v))
        /\ Ok(Fails(v), n) /\ Same(v, Fails(v)) /\ ~Passes(Fails(v))
    BY <1>2, RetsOk
  <2>2. QED
    BY <1>2, <2>1 DEF Goes, Same, SameOrder
<1>3. QED
  BY <1>1, <1>2

LEMMA Chained ==
    ASSUME NEW n, NEW r, NEW w, NEW x, NEW y, Goes(w, x, r, n), Goes(x, y, r, n)
    PROVE  Goes(w, y, r, n)
  BY DEF Goes, SameOrder

LEMMA HoldParts ==
    ASSUME NEW n, NEW r, NEW w, Hold(w, r, n)
    PROVE  /\ Ok(w, n) /\ r \in Resources /\ w.pkt \in Pkt(n) /\ w.pkt.to \in Jids /\ w.pkt.from \in Jids /\ n \in Nat
           /\ w \in WorkSet(n) /\ w.m.u.s[r] \in Sess /\ w.m.u.s[r].on
<1>1. Ok(w, n) /\ r \in Resources /\ w.m.u.s[r].on
  BY DEF Hold, InSession
<1>2. QED
  BY <1>1, OkParts, PktParts

LEMMA ValidateGoes ==
    ASSUME NEW n, NEW r, NEW w, Hold(w, r, n)
    PROVE  Goes(w, ValidateInSess(w, r), r, n)
<1>1. Goes(w, w, r, n) /\ Goes(w, Fails(w), r, n)
  BY HoldParts, GoesOn DEF SameOrder
<1>2. QED
  BY <1>1 DEF ValidateInSess

LEMMA RosterGoes ==
    ASSUME NEW n, NEW r, NEW w, Hold(w, r, n)
    PROVE  Goes(w, RosterInSess(w, r), r, n)
<1> DEFINE q == Swap(Result(w.pkt))
           v == PktSess(w, q, r)
<1>1. Goes(w, w, r, n) /\ Goes(w, Handled(w), r, n)
  BY HoldParts, GoesOn DEF SameOrder
<1>2. CASE Get(w.pkt, "roster")
  <2>1. q \in Pkt(n)
    BY <1>2, HoldParts, AnswerIn DEF Get, Is
  <2> HIDE DEF q
  <2>2. Ok(v, n) /\ SameOrder(w, v)
    BY <2>1, HoldParts, PktSessOk DEF Same
  <2> HIDE DEF v
  <2>3. Goes(w, Handled(v), r, n)
    BY <2>2, GoesOn
  <2>4. RosterInSess(w, r) = Handled(v)
    BY <1>2 DEF RosterInSess, Get, Is, v, q
  <2>5. QED
    BY <2>3, <2>4
<1>3. CASE ~Get(w.pkt, "roster")
  BY <1>1, <1>3 DEF RosterInSess
<1>4. QED
  BY <1>2, <1>3

LEMMA PingGoes ==
    ASSUME NEW n, NEW r, NEW w, Hold(w, r, n)
    PROVE  Goes(w, IqPingInSess(w, r), r, n)
<1> DEFINE q == Result(w.pkt)
           v == PktSess(w, q, r)
<1>1. Goes(w, w, r, n)
  BY HoldParts, GoesOn DEF SameOrder
<1>2. CASE w.pkt.to = NoJid /\ Get(w.pkt, "ping")
  <2>1. q \in Pkt(n)
    BY <1>2, HoldParts, ResultIn DEF Get, Is
  <2> HIDE DEF q
  <2>2. Ok(v, n) /\ SameOrder(w, v)
    BY <2>1, HoldParts, PktSessOk DEF Same
  <2> HIDE DEF v
  <2>3. Goes(w, Handled(v), r, n)
    BY <2>2, GoesOn
  <2>4. IqPingInSess(w, r) = Handled(v)
    BY <1>2 DEF IqPingInSess, v, q
  <2>5. QED
    BY <2>3, <2>4
<1>3. CASE ~(w.pkt.to = NoJid /\ Get(w.pkt, "ping"))
  BY <1>1, <1>3 DEF IqPingInSess
<1>4. QED
  BY <1>2, <1>3

LEMMA DiscoGoes ==
    ASSUME NEW n, NEW r, NEW w, Hold(w, r, n)
    PROVE  Goes(w, DiscoInSess(w, r), r, n)
<1> DEFINE p == w.pkt
<1>1. Goes(w, w, r, n)
  BY HoldParts, GoesOn DEF SameOrder
<1>2. CASE Get(p, "disco-info") /\ p.to \in {NoJid, User}
  <2> DEFINE q == Swap(Result(p))
             v == PktSess(w, q, r)
  <2>1. q \in Pkt(n)
    BY <1>2, HoldParts, AnswerIn DEF Get, Is
  <2> HIDE DEF q
  <2>2. Ok(v, n) /\ SameOrder(w, v)
    BY <2>1, HoldParts, PktSessOk DEF Same
  <2> HIDE DEF v
  <2>3. Goes(w, Handled(v), r, n)
    BY <2>2, GoesOn
  <2>4. DiscoInSess(w, r) = Handled(v)
    BY <1>2 DEF DiscoInSess, Get, v, q
  <2>5. QED
    BY <2>3, <2>4
<1>3. CASE Get(p, "agents") /\ p.to = NoJid
  <2> DEFINE q == Result(p)
             x == Cached(w)
             v == PktSess(x, q, r)
  <2>1. q \in Pkt(n)
    BY <1>3, HoldParts, ResultIn DEF Get, Is
  <2>2. Ok(x, n) /\ Same(w, x)
    BY HoldParts, CachedOk
  <2> HIDE DEF q, x
  <2>3. Ok(v, n) /\ Same(x, v)
    BY <2>1, <2>2, HoldParts, PktSessOk
  <2> HIDE DEF v
  <2>4. Goes(w, Handled(v), r, n)
    BY <2>2, <2>3, GoesOn DEF Same, SameOrder
  <2>5. DiscoInSess(w, r) = Handled(v)
    BY <1>3 DEF DiscoInSess, Get, v, q, x
  <2>6. QED
    BY <2>4, <2>5
<1>4. CASE ~(Get(p, "disco-info") /\ p.to \in {NoJid, User}) /\ ~(Get(p, "agents") /\ p.to = NoJid)
  <2>1. DiscoInSess(w, r) = w
    BY <1>4 DEF DiscoInSess
  <2>2. QED
    BY <1>1, <2>1
<1>5. QED
  BY <1>2, <1>3, <1>4

\* what an item to a session is
LEMMA SessItem ==
    ASSUME NEW n, NEW r, r \in Resources, NEW p, p \in Pkt(n), NEW o, o = Item("sess", r, p)
    PROVE  (\A u : ItemOk(o, u, n)) /\ o.via # "router"
<1>1. o \in Items(n) /\ o.via = "sess" /\ o.r = r
  BY DEF Item, Items
<1>2. QED
  BY <1>1 DEF ItemOk

SpoolItems(spool, r) ==
    [i \in DOMAIN spool |-> Item("sess", r, [Packet("message", "chat", Full(r), spool[i].from) EXCEPT !.id = spool[i].id])]

LEMMA SpoolItemsOk ==
    ASSUME NEW n, n \in Nat, NEW r, r \in Resources, NEW q, q \in Seq(Pkt(n)), NEW u
    PROVE  ItemsOk(SpoolItems(q, r), u, n) /\ \A i \in DOMAIN SpoolItems(q, r) : SpoolItems(q, r)[i].via # "router"
<1> DEFINE f == SpoolItems(q, r)
           g(i) == [Packet("message", "chat", Full(r), q[i].from) EXCEPT !.id = q[i].id]
           l == Len(q)
<1>1. l \in Nat /\ DOMAIN q = 1..l
  OBVIOUS
<1>2. f = [i \in 1..l |-> Item("sess", r, g(i))]
  BY <1>1 DEF SpoolItems
<1> HIDE DEF f, g
<1>3. DOMAIN f = 1..l /\ \A i \in 1..l : f[i] = Item("sess", r, g(i))
  BY <1>2
<1>4. ASSUME NEW i \in 1..l PROVE g(i) \in Pkt(n)
  <2> DEFINE a == Full(r)
             b == q[i].from
             d == q[i].id
             p == Packet("message", "chat", a, b)
             h == [p EXCEPT !.id = d]
  <2>1. q[i] \in Pkt(n)
    BY <1>1
  <2>2. b \in Jids /\ d \in 0..n
    BY <2>1, PktParts
  <2>3. a \in Jids
    BY JidsIn
  <2> HIDE DEF a, b, d
  <2>4. "message" \in Elems /\ "chat" \in Types /\ "message" # "presence"
    BY DEF Elems, Types
  <2>5. p \in Pkt(n) /\ p.elem = "message"
    <3>1. p.elem = "message"
      BY DEF Packet
    <3>2. p \in Pkt(n)
      BY <2>2, <2>3, <2>4, PacketIn
    <3>3. QED
      BY <3>1, <3>2
  <2> HIDE DEF p
  <2>6. p \in PktRec(n)
    BY <2>5, PktParts
  <2>7. h \in PktRec(n) /\ h.elem = "message"
    BY <2>2, <2>5, <2>6 DEF PktRec
  <2> HIDE DEF h
  <2>8. h \in Pkt(n)
    BY <2>7 DEF Pkt, PktRec
  <2>9. QED
    BY <2>8 DEF h, g, p, a, b, d
<1>5. ASSUME NEW i \in 1..l PROVE ItemOk(f[i], u, n) /\ f[i].via # "router"
  BY <1>3, <1>4, SessItem
<1>6. f = [i \in 1..l |-> f[i]]
  BY <1>2
<1> HIDE DEF l
<1>7. ItemsOk(f, u, n)
  BY <1>1, <1>3, <1>5, <1>6, MapOk
<1>8. QED
  BY <1>3, <1>5, <1>7 DEF f

(* Writing to clients says nothing to peers.                               *)
LEMMA QuietSess ==
    ASSUME NEW n, NEW w, Ok(w, n), NEW q, ItemsOk(q, w.m.u, n), NEW r, Quiet(w, r),
           \A i \in DOMAIN q : q[i].via # "router"
    PROVE  Quiet(PutAll(w, q), r)
<1> DEFINE v == PutAll(w, q)
           l == Len(w.out)
<1>1. w.out \in Seq(Items(n)) /\ q \in Seq(Items(n))
  BY OkParts DEF ItemsOk
<1>2. v.out = w.out \o q
  BY PutsOk
<1> HIDE DEF v
<1>3. l \in Nat /\ Len(q) \in Nat
  BY <1>1
<1> SUFFICES ASSUME NEW i \in DOMAIN v.out, NEW c \in Peers
             PROVE  ~(v.out[i].via = "router" /\ Tells(v.out[i].p, c, r, "presence"))
  BY DEF Quiet, v
<1>4. i \in 1..(l + Len(q))
  BY <1>1, <1>2
<1>5. CASE i <= l
  <2>1. i \in DOMAIN w.out /\ v.out[i] = w.out[i]
    BY <1>1, <1>2, <1>3, <1>4, <1>5
  <2>2. QED
    BY <2>1 DEF Quiet
<1>6. CASE i > l
  <2>1. i - l \in DOMAIN q /\ v.out[i] = q[i - l]
    BY <1>1, <1>2, <1>3, <1>4, <1>6
  <2>2. QED
    BY <2>1
<1>7. QED
  BY <1>3, <1>4, <1>5, <1>6

LEMMA OfflineGoes ==
    ASSUME NEW n, NEW r, NEW w, Hold(w, r, n)
    PROVE  Goes(w, OfflineInSess(w, r), r, n)
<1> DEFINE first == Is(w.pkt, "presence") /\ w.m.u.s[r].pri >= 0 /\ w.pkt.to = NoJid /\ w.m.u.top = ""
           q == SpoolItems(w.m.spool, r)
           x == PutAll(w, q)
           v == [x EXCEPT !.m.spool = <<>>]
<1>1. Goes(w, w, r, n)
  BY GoesOn
<1>2. CASE ~first
  <2>1. OfflineInSess(w, r) = w
    BY <1>2 DEF OfflineInSess
  <2>2. QED
    BY <1>1, <2>1
<1>3. CASE first
  <2>1. OfflineInSess(w, r) = v
    BY <1>3, Zenon DEF OfflineInSess, FromSpool, SpoolItems
  <2>2. Ok(w, n) /\ r \in Resources /\ n \in Nat /\ w.m.spool \in Seq(Pkt(n)) /\ Quiet(w, r)
    BY HoldParts, OkParts DEF Hold
  <2>3. ItemsOk(q, w.m.u, n) /\ \A i \in DOMAIN q : q[i].via # "router"
    BY <2>2, SpoolItemsOk
  <2> HIDE DEF q
  <2>4. Ok(x, n) /\ Same(w, x) /\ x.m = w.m /\ Quiet(x, r)
    BY <2>2, <2>3, PutsOk, QuietSess
  <2> HIDE DEF x
  <2>5. <<>> \in Seq(Pkt(n))
    OBVIOUS
  <2> HIDE DEF v
  <2>6. Ok(v, n) /\ Same(x, v) /\ v.m.u = x.m.u /\ v.out = x.out
    <3> DEFINE e == <<>>
    <3>1. e \in Seq(Pkt(n)) /\ v = Spooled(x, e)
      BY <2>5 DEF Spooled, v
    <3> HIDE DEF e
    <3>2. QED
      BY <2>4, <3>1, SpoolSet
  <2>7. Hold(v, r, n) /\ SameOrder(w, v)
    BY <2>4, <2>6 DEF Hold, InSession, Same, SameOrder, Quiet
  <2>8. QED
    BY <2>1, <2>6, <2>7 DEF Goes
<1>4. QED
  BY <1>2, <1>3

(* pres_update keeps the work state in order.                              *)
LEMMA PresUpdateOk ==
    ASSUME NEW n, NEW w, NEW r, InSession(w, r, n), w.pkt.elem # "advert", ~w.pkt.rerr, Quiet(w, r)
    PROVE  Ok(PresUpdate(w, r), n) /\ SameOrder(w, PresUpdate(w, r))
<1> DEFINE p == w.pkt
<1>1. Ok(w, n) /\ p \in Pkt(n) /\ r \in Resources
  BY OkParts DEF InSession
<1>2. CASE Is(p, "presence")
  <2>1. Sent(p, n)
    BY <1>1, <1>2 DEF Sent, Is
  <2>2. QED
    BY <1>2, <2>1, AppearOk DEF Same
<1>3. CASE Is(p, "unavailable")
  <2>1. Sent(p, n)
    BY <1>1, <1>3 DEF Sent, Is
  <2>2. QED
    BY <1>3, <2>1, VanishOk DEF Same
<1>4. CASE Is(p, "probe")
  <2> DEFINE q == Dup(p, User, Full(r))
             x == [w EXCEPT !.pkt = q]
  <2>1. PresUpdate(w, r) = PresIn(x)
    BY <1>4 DEF PresUpdate, Is
  <2>2. q \in Pkt(n) /\ q.to = User
    <3>1. Full(r) \in Jids /\ User \in Jids
      BY <1>1, JidsIn
    <3>2. QED
      BY <1>1, <3>1, DupIn
  <2> HIDE DEF q
  <2>3. Ok(x, n) /\ SameOrder(w, x) /\ x.pkt = q
    BY <1>1, <2>2, PktSet
  <2> HIDE DEF x
  <2>4. x.pkt.to[1] \in Ours
    BY <2>2, <2>3, JidsIn DEF Ours
  <2>5. Ok(PresIn(x), n) /\ Same(x, PresIn(x))
    BY <2>3, <2>4, PresInOk
  <2>6. QED
    BY <2>1, <2>3, <2>5 DEF Same, SameOrder
<1>5. CASE ~Is(p, "presence") /\ ~Is(p, "unavailable") /\ ~Is(p, "probe")
  <2>1. PresUpdate(w, r) = w
    BY <1>5 DEF PresUpdate
  <2>2. QED
    BY <1>1, <2>1 DEF SameOrder
<1>6. QED
  BY <1>2, <1>3, <1>4, <1>5

\* the packet with its sender's JID
From(p, j) == [p EXCEPT !.from = j]

LEMMA FromIn ==
    ASSUME NEW n, NEW p, p \in Pkt(n), NEW j, j \in Jids
    PROVE  LET q == From(p, j)
           IN  /\ q \in Pkt(n) /\ q.from = j /\ q.to = p.to /\ q.type = p.type /\ Plain(q, p) /\ q.ns = p.ns
<1>1. p \in PktRec(n) /\ (p.elem = "presence" => p.type \in PresTypes)
  BY PktParts
<1> DEFINE q == From(p, j)
<1>2. /\ q \in PktRec(n) /\ q.from = j /\ q.to = p.to /\ q.type = p.type /\ q.elem = p.elem /\ (q.err <=> p.err)
      /\ (q.rerr <=> p.rerr) /\ q.ns = p.ns
  BY <1>1 DEF From, PktRec
<1> HIDE DEF q
<1>3. q \in Pkt(n)
  BY <1>1, <1>2 DEF Pkt, PktRec
<1>4. QED
  BY <1>2, <1>3 DEF Plain, q

LEMMA PresenceGoes ==
    ASSUME NEW n, NEW r, NEW w, Hold(w, r, n)
    PROVE  /\ Goes(w, PresenceInSess(w, r), r, n)
           /\ Passes(PresenceInSess(w, r)) => PresenceInSess(w, r) = w /\ ~IsPresence(w.pkt)
<1> DEFINE p == w.pkt
           q == From(p, Full(r))
           v == [w EXCEPT !.pkt = q]
<1>1. /\ Ok(w, n) /\ r \in Resources /\ p \in Pkt(n) /\ w.m.u.s[r].on /\ p.elem # "advert" /\ ~p.rerr /\ w \in WorkSet(n)
      /\ p.to \in Jids
  BY HoldParts DEF Hold, ClientPkt
<1>2. Goes(w, w, r, n)
  BY GoesOn
<1>3. CASE ~IsPresence(p)
  BY <1>2, <1>3 DEF PresenceInSess
<1>4. CASE IsPresence(p)
  <2> DEFINE d == IF p.to = NoJid THEN PresUpdate(v, r) ELSE PresDeliver(v, r)
  <2>1. PresenceInSess(w, r) = Handled(d)
    <3>1. p.from = Full(r) \/ p.from[1] # "user"
      BY JidsIn DEF Hold, ClientPkt
    <3>2. (IF p.from[1] = "user" THEN p.from ELSE Full(r)) = Full(r)
      BY <3>1
    <3>3. [w EXCEPT !.pkt.from = IF @[1] = "user" THEN @ ELSE Full(r)] = [w EXCEPT !.pkt = [p EXCEPT !.from = Full(r)]]
      BY <3>2
    <3>4. [w EXCEPT !.pkt.from = IF @[1] = "user" THEN @ ELSE Full(r)] = v
      BY <3>3 DEF From
    <3> HIDE DEF v
    <3>5. QED
      BY <1>4, <3>4 DEF PresenceInSess
  <2>2. Full(r) \in Jids
    BY <1>1, JidsIn
  <2>3. q \in Pkt(n) /\ q.from = Full(r) /\ q.to = p.to /\ q.type = p.type /\ Plain(q, p)
    BY <1>1, <2>2, FromIn
  <2> HIDE DEF q
  <2>4. Ok(v, n) /\ SameOrder(w, v) /\ v.pkt = q /\ v.m = w.m /\ v.out = w.out
    BY <1>1, <2>3, PktSet
  <2> HIDE DEF v
  <2>5. InSession(v, r, n) /\ Quiet(v, r) /\ v.pkt.elem # "advert" /\ ~v.pkt.rerr
    BY <1>1, <2>3, <2>4 DEF InSession, Hold, Quiet, Plain
  <2>6. Ok(d, n) /\ SameOrder(v, d)
    <3>1. CASE p.to = NoJid
      BY <2>5, <3>1, PresUpdateOk
    <3>2. CASE p.to # NoJid
      <4>1. p.to[1] # ""
        BY <1>1, <3>2, JidParts
      <4>2. p.to[1] \in Known
        BY <4>1 DEF Hold, ClientPkt
      <4>3. Directed(v.pkt, r, n)
        BY <1>1, <2>3, <2>4, <4>2 DEF Directed, Hold, ClientPkt, Is, Plain
      <4>4. QED
        BY <2>3, <2>4, <2>5, <3>2, <4>3, PresDeliverOk
    <3>3. QED
      BY <3>1, <3>2
  <2> HIDE DEF d
  <2>7. SameOrder(w, d)
    BY <2>4, <2>6 DEF SameOrder
  <2>8. Goes(w, Handled(d), r, n) /\ ~Passes(Handled(d))
    BY <2>6, <2>7, GoesOn, RetsOk
  <2>9. QED
    BY <2>1, <2>8
<1>5. QED
  BY <1>3, <1>4

(* Who is told of a session's presence is its client's doing or the        *)
(* modules': anything else a session sends is delivered as it is.          *)
LEMMA PassOn ==
    ASSUME NEW n, NEW w, Ok(w, n), NEW p, p \in Pkt(n), p.from[1] \in Ours, p.elem # "advert", ~p.rerr, ~IsPresence(p)
    PROVE  Ok(Route(w, p), n) /\ SameOrder(w, Route(w, p))
<1>1. ~Is(p, "probe") /\ ~Is(p, "presence") /\ n \in Nat
  BY OkParts DEF IsPresence, Is
<1>2. Writable(p, w.m.u, n)
  BY <1>1, MadeOk
<1>3. QED
  BY <1>2, RouteOk DEF Same

LEMMA DeliverGoes ==
    ASSUME NEW n, NEW r, NEW w, Hold(w, r, n), ~IsPresence(w.pkt)
    PROVE  Ok(DeliverInSess(w, r), n) /\ SameOrder(w, DeliverInSess(w, r))
<1> DEFINE j == IF IsS10n(w.pkt) /\ w.pkt.from[1] = "user" THEN w.pkt.from ELSE Full(r)
           p == From(w.pkt, j)
           x == [w EXCEPT !.pkt = p]
           q == [p EXCEPT !.to = Full(r)]
<1>1. Ok(w, n) /\ r \in Resources /\ w.pkt \in Pkt(n) /\ w.pkt.from \in Jids /\ w.pkt.elem # "advert" /\ ~w.pkt.rerr
  BY HoldParts DEF Hold, ClientPkt
<1>2. j \in Jids /\ j[1] = "user" /\ Full(r) \in Jids
  BY <1>1, JidsIn
<1>3. p = [w.pkt EXCEPT !.from = IF IsS10n(w.pkt) /\ @[1] = "user" THEN @ ELSE Full(r)]
  BY DEF From
<1> HIDE DEF j
<1>4. p \in Pkt(n) /\ p.from = j /\ p.to = w.pkt.to /\ p.type = w.pkt.type /\ Plain(p, w.pkt)
  BY SMTT(30), <1>1, <1>2, FromIn
<1> HIDE DEF p
<1>5. Ok(x, n) /\ SameOrder(w, x)
  BY <1>1, <1>4, PktSet
<1>6. Ok(Route(w, p), n) /\ SameOrder(w, Route(w, p))
  BY <1>1, <1>2, <1>4, PassOn DEF Plain, Ours, IsPresence
<1>7. q \in Pkt(n) /\ q.from = p.from /\ q.type = p.type /\ q.elem = p.elem /\ (q.rerr <=> p.rerr)
  <2>1. p \in PktRec(n) /\ (p.elem = "presence" => p.type \in PresTypes)
    BY <1>4, PktParts
  <2>2. q \in PktRec(n) /\ q.from = p.from /\ q.type = p.type /\ q.elem = p.elem /\ (q.rerr <=> p.rerr)
    BY <1>2, <2>1 DEF PktRec
  <2> HIDE DEF q
  <2>3. q \in Pkt(n)
    BY <2>1, <2>2 DEF Pkt, PktRec
  <2>4. QED
    BY <2>2, <2>3
<1>8. Ok(Route(w, q), n) /\ SameOrder(w, Route(w, q))
  <2> HIDE DEF q
  <2>1. q.from[1] \in Ours /\ q.elem # "advert" /\ ~q.rerr /\ ~IsPresence(q)
    BY <1>1, <1>2, <1>4, <1>7 DEF Plain, Ours, IsPresence
  <2>2. QED
    BY <1>1, <1>7, <2>1, PassOn
<1>9. \A v : Ok(v, n) /\ SameOrder(w, v) => /\ Ok(Handled(v), n) /\ SameOrder(w, Handled(v))
                                            /\ Ok(Fails(v), n) /\ SameOrder(w, Fails(v))
  BY RetsOk DEF Same, SameOrder
<1>10. DeliverInSess(w, r) \in {Handled(w), Fails(x), Handled(Route(w, q)), Handled(Route(w, p))}
  <2> HIDE DEF x, q
  <2>1. CASE p.to = NoJid /\ Is(p, "result")
    BY <1>3, <2>1 DEF DeliverInSess
  <2>2. CASE p.to = NoJid /\ ~Is(p, "result") /\ IsIq(p)
    BY <1>3, <2>2 DEF DeliverInSess, x
  <2>3. CASE p.to = NoJid /\ ~Is(p, "result") /\ ~IsIq(p)
    BY <1>3, <2>3 DEF DeliverInSess, q
  <2>4. CASE p.to # NoJid
    BY <1>3, <2>4 DEF DeliverInSess
  <2>5. QED
    BY <2>1, <2>2, <2>3, <2>4
<1> HIDE DEF x, q
<1>11. SameOrder(w, w)
  BY DEF SameOrder
<1>12. QED
  BY <1>1, <1>5, <1>6, <1>8, <1>9, <1>10, <1>11, Zenon

(* mm_in_sess: a chain of modules keeps the work state in order.           *)
LEMMA InSessOk ==
    ASSUME NEW n, NEW r, NEW w, Hold(w, r, n)
    PROVE  Ok(InSess(w, r), n) /\ SameOrder(w, InSess(w, r))
<1> DEFINE o == Begin(w)
           a == ValidateInSess(o, r)
           b == IF Passes(a) THEN RosterInSess(a, r) ELSE a
           c == IF Passes(b) THEN IqPingInSess(b, r) ELSE b
           d == IF Passes(c) THEN DiscoInSess(c, r) ELSE c
           e == IF Passes(d) THEN OfflineInSess(d, r) ELSE d
           f == IF Passes(e) THEN PresenceInSess(e, r) ELSE e
<1>0. InSess(w, r) = IF Passes(f) THEN DeliverInSess(f, r) ELSE f
  BY DEF InSess, Then
<1>1. Hold(o, r, n) /\ SameOrder(w, o)
  <2>1. Ok(w, n)
    BY HoldParts
  <2>2. Ok(o, n) /\ Same(w, o) /\ o.m = w.m /\ o.out = w.out
    BY <2>1, RetsOk
  <2> HIDE DEF o
  <2>3. QED
    BY <2>2 DEF Hold, InSession, Same, SameOrder, Quiet
<1> HIDE DEF o
<1>2. Goes(o, a, r, n)
  BY <1>1, ValidateGoes
<1> HIDE DEF a
<1>3. Goes(a, b, r, n)
  <2>1. CASE Passes(a)
    BY <1>2, <2>1, RosterGoes DEF Goes
  <2>2. CASE ~Passes(a)
    BY <1>2, <2>2 DEF Goes, SameOrder
  <2>3. QED
    BY <2>1, <2>2
<1> HIDE DEF b
<1>4. Goes(b, c, r, n)
  <2>1. CASE Passes(b)
    BY <1>3, <2>1, PingGoes DEF Goes
  <2>2. CASE ~Passes(b)
    BY <1>3, <2>2 DEF Goes, SameOrder
  <2>3. QED
    BY <2>1, <2>2
<1> HIDE DEF c
<1>5. Goes(c, d, r, n)
  <2>1. CASE Passes(c)
    BY <1>4, <2>1, DiscoGoes DEF Goes
  <2>2. CASE ~Passes(c)
    BY <1>4, <2>2 DEF Goes, SameOrder
  <2>3. QED
    BY <2>1, <2>2
<1> HIDE DEF d
<1>6. Goes(d, e, r, n)
  <2>1. CASE Passes(d)
    BY <1>5, <2>1, OfflineGoes DEF Goes
  <2>2. CASE ~Passes(d)
    BY <1>5, <2>2 DEF Goes, SameOrder
  <2>3. QED
    BY <2>1, <2>2
<1> HIDE DEF e
<1>7. Goes(e, f, r, n) /\ (Passes(f) => ~IsPresence(f.pkt))
  <2>1. CASE Passes(e)
    <3>1. Hold(e, r, n)
      BY <1>6, <2>1 DEF Goes
    <3>2. QED
      BY <2>1, <3>1, PresenceGoes
  <2>2. CASE ~Passes(e)
    BY <1>6, <2>2 DEF Goes, SameOrder
  <2>3. QED
    BY <2>1, <2>2
<1> HIDE DEF f
<1>8. Goes(o, f, r, n)
  BY <1>2, <1>3, <1>4, <1>5, <1>6, <1>7, Chained
<1>9. Ok(f, n) /\ SameOrder(w, f)
  BY <1>1, <1>8 DEF Goes, SameOrder
<1>10. CASE Passes(f)
  <2>1. Hold(f, r, n)
    BY <1>8, <1>10 DEF Goes
  <2>2. Ok(DeliverInSess(f, r), n) /\ SameOrder(f, DeliverInSess(f, r))
    BY <1>7, <1>10, <2>1, DeliverGoes
  <2>3. QED
    BY <1>0, <1>9, <1>10, <2>2 DEF SameOrder
<1>11. CASE ~Passes(f)
  BY <1>0, <1>9, <1>11
<1>12. QED
  BY <1>10, <1>11

-----------------------------------------------------------------------------
(* Sessions start and end                                                  *)

\* _sess_end_guts writes the packet itself
Fake == Packet("presence", "unavailable", NoJid, NoJid)
IsFake(k) == k = Fake

LEMMA FakeIn ==
    ASSUME NEW n, n \in Nat
    PROVE  /\ Fake \in Pkt(n) /\ Fake.elem = "presence" /\ Fake.type = "unavailable" /\ Fake.to = NoJid
           /\ Fake.from = NoJid /\ ~Fake.err /\ ~Fake.rerr /\ Fake.ns = ""
<1>1. "unavailable" \in PresTypes /\ NoJid \in Jids
  BY JidsIn DEF PresTypes
<1> DEFINE q == Fake
<1>2. q = Packet("presence", "unavailable", NoJid, NoJid)
  BY DEF Fake
<1>3. q.ns = ""
  BY <1>2 DEF Packet
<1> HIDE DEF q
<1>4. q \in Pkt(n) /\ q.elem = "presence" /\ q.type = "unavailable" /\ q.to = NoJid /\ q.from = NoJid /\ ~q.err /\ ~q.rerr
  BY <1>1, <1>2, PresenceIn
<1>5. QED
  BY <1>3, <1>4 DEF q

(* The fake presence passes the modules before presence, which announces   *)
(* that the session goes.                                                  *)
LEMMA FakeOk ==
    ASSUME NEW n, NEW w, NEW r, InSession(w, r, n), Quiet(w, r), NEW k, IsFake(k),
           NEW v, v = InSess([w EXCEPT !.pkt = k], r)
    PROVE  /\ Ok(v, n) /\ SameOrder(w, v) /\ ~v.m.u.s[r].avail /\ v.m.u.s[r].A = {} /\ v.m.u.s[r].on
           /\ \A y \in Resources : Quiet(w, y) => Quiet(v, y)
<1> DEFINE x == [w EXCEPT !.pkt = k]
           o == Begin(x)
           q == From(k, Full(r))
           z == [o EXCEPT !.pkt = q]
<1>1. Ok(w, n) /\ r \in Resources /\ w.m.u.s[r].on /\ n \in Nat
  BY OkParts DEF InSession
<1>2. /\ k \in Pkt(n) /\ k.elem = "presence" /\ k.type = "unavailable" /\ k.to = NoJid
      /\ k.from = NoJid /\ ~k.err /\ ~k.rerr /\ k.ns = ""
  BY <1>1, FakeIn DEF IsFake
<1>2a. k \in Pkt(n)
  BY <1>2
<1>3. Ok(x, n) /\ SameOrder(w, x) /\ x.m = w.m /\ x.pkt = k /\ x.out = w.out
  BY <1>1, <1>2a, PktSet
<1>4. v = InSess(x, r)
  OBVIOUS
<1> HIDE DEF x
<1>5. Ok(o, n) /\ SameOrder(w, o) /\ o.m = w.m /\ o.pkt = k /\ o.out = w.out /\ Passes(o)
  BY <1>3, RetsOk DEF Same, SameOrder
<1> HIDE DEF o
<1>6. v = Handled(PresUpdate(z, r))
  <2>1. ValidateInSess(o, r) = o
    BY <1>2, <1>5 DEF ValidateInSess
  <2>2. RosterInSess(o, r) = o /\ IqPingInSess(o, r) = o
    BY <1>2, <1>5 DEF RosterInSess, IqPingInSess, Get, Is
  <2>3. DiscoInSess(o, r) = o /\ OfflineInSess(o, r) = o
    BY <1>2, <1>5 DEF DiscoInSess, OfflineInSess, Get, Is
  <2>4. PresenceInSess(o, r) = Handled(PresUpdate(z, r))
    <3>1. (IF k.from[1] = "user" THEN k.from ELSE Full(r)) = Full(r)
      BY <1>2, JidsIn
    <3>2. [o EXCEPT !.pkt.from = IF @[1] = "user" THEN @ ELSE Full(r)] = [o EXCEPT !.pkt = [k EXCEPT !.from = Full(r)]]
      BY <1>5, <3>1
    <3>3. [o EXCEPT !.pkt.from = IF @[1] = "user" THEN @ ELSE Full(r)] = z
      BY <3>2 DEF From
    <3> HIDE DEF z
    <3>4. IsPresence(o.pkt) /\ o.pkt.to = NoJid
      BY <1>2, <1>5 DEF IsPresence
    <3>5. QED
      BY <3>3, <3>4 DEF PresenceInSess
  <2> DEFINE h == Handled(PresUpdate(z, r))
  <2>5. h.ret = "HANDLED" \/ ~Passes(h)
    BY DEF Handled, Passes
  <2> HIDE DEF z, h
  <2>6. InSess(x, r) = IF Passes(h) THEN DeliverInSess(h, r) ELSE h
    BY <1>5, <2>1, <2>2, <2>3, <2>4, Zenon DEF InSess, o, h, Then
  <2>7. QED
    BY <1>4, <2>5, <2>6 DEF h, Passes
<1>7. Full(r) \in Jids
  BY <1>1, JidsIn
<1>8. q \in Pkt(n) /\ q.from = Full(r) /\ q.to = k.to /\ q.type = k.type /\ Plain(q, k)
  BY <1>2a, <1>7, FromIn
<1> HIDE DEF q
<1>9. Ok(z, n) /\ SameOrder(o, z) /\ z.pkt = q /\ z.m = o.m /\ z.out = o.out
  BY <1>5, <1>8, PktSet
<1> HIDE DEF z
<1>10. /\ InSession(z, r, n) /\ Quiet(z, r) /\ Sent(z.pkt, n) /\ Is(z.pkt, "unavailable")
       /\ \A y : Quiet(w, y) => Quiet(z, y)
  <2>1. InSession(z, r, n)
    BY <1>1, <1>5, <1>9 DEF InSession
  <2>2. \A y : Quiet(w, y) => Quiet(z, y)
    BY <1>5, <1>9 DEF Quiet
  <2>3. Quiet(z, r)
    BY <1>1, <2>2
  <2>4. Sent(z.pkt, n) /\ Is(z.pkt, "unavailable")
    BY <1>1, <1>2, <1>8, <1>9 DEF Sent, Is, Plain
  <2>5. QED
    BY <2>1, <2>2, <2>3, <2>4
<1> DEFINE d == PresUpdate(z, r)
<1>11. /\ Ok(d, n) /\ Same(z, d) /\ ~d.m.u.s[r].avail /\ d.m.u.s[r].A = {} /\ d.m.u.s[r].on
       /\ \A y \in Resources : Quiet(z, y) => Quiet(d, y)
  BY <1>10, VanishOk
<1> HIDE DEF d
<1>12. Ok(Handled(d), n) /\ Same(d, Handled(d)) /\ Handled(d).m = d.m /\ Handled(d).out = d.out
  BY <1>11, RetsOk
<1>13. v = Handled(d)
  BY <1>6 DEF d
<1>14. QED
  BY <1>5, <1>9, <1>10, <1>11, <1>12, <1>13 DEF Same, SameOrder, Quiet

Once(q) == \A i, j \in DOMAIN q : q[i] = q[j] => i = j
Has(q, x) == \E i \in DOMAIN q : q[i] = x

LEMMA WithoutIs ==
    ASSUME NEW S, NEW q, q \in Seq(S), Once(q), NEW x, Has(q, x), NEW t, t = Without(q, x)
    PROVE  t \in Seq(S) /\ Once(t) /\ \A y : Has(t, y) <=> Has(q, y) /\ y # x
<1> DEFINE l == Len(q)
<1>1. l \in Nat /\ DOMAIN q = 1..l
  OBVIOUS
<1>2. PICK k : k = CHOOSE i \in DOMAIN q : q[i] = x
  OBVIOUS
<1>3. k \in 1..l /\ q[k] = x
  BY <1>1, <1>2 DEF Has
<1>4. t = SubSeq(q, 1, k - 1) \o SubSeq(q, k + 1, l)
  BY <1>2 DEF Without, RemoveAt
<1> DEFINE a == SubSeq(q, 1, k - 1)
           b == SubSeq(q, k + 1, l)
<1>5. a \in Seq(S) /\ Len(a) = k - 1 /\ \A i \in 1..(k-1) : a[i] = q[i]
  BY <1>1, <1>3
<1>6. b \in Seq(S) /\ Len(b) = l - k /\ \A i \in 1..(l-k) : b[i] = q[i + k]
  <2>1. k + 1 \in 1..(l+1) /\ (l \in (k+1)-1..l)
    BY <1>1, <1>3
  <2>2. b \in Seq(S)
    BY <1>1, <1>3, <2>1
  <2>3. Len(b) = IF k + 1 <= l THEN l - (k + 1) + 1 ELSE 0
    <3> DEFINE m == k + 1
    <3>1. m \in Int /\ l \in Int /\ \A i \in m..l : q[i] \in S
      BY <1>1, <1>3
    <3> HIDE DEF m, l
    <3>2. Len(SubSeq(q, m, l)) = IF m <= l THEN l - m + 1 ELSE 0
      BY <3>1, SubSeqProperties
    <3>3. QED
      BY <3>2 DEF m
  <2>3a. Len(b) = l - k
    <3> HIDE DEF l, b
    <3>1. QED
      BY <1>1, <1>3, <2>3
  <2>4. \A i \in 1..(l-k) : b[i] = q[i + k]
    BY <1>1, <1>3, <2>1
  <2>5. QED
    BY <2>2, <2>3a, <2>4
<1> HIDE DEF l, a, b
<1>7. t = a \o b
  BY <1>4 DEF a, b
<1>8. /\ t \in Seq(S) /\ Len(t) = l - 1 /\ DOMAIN t = 1..(l-1)
      /\ \A i \in 1..(l-1) : t[i] = IF i < k THEN q[i] ELSE q[i + 1]
  <2>0. t \in Seq(S) /\ Len(t) = Len(a) + Len(b)
    <3>1. a \in Seq(S) /\ b \in Seq(S)
      BY <1>5, <1>6
    <3>2. a \o b \in Seq(S) /\ Len(a \o b) = Len(a) + Len(b)
      BY <3>1
    <3>3. QED
      BY <1>7, <3>2
  <2>1. t \in Seq(S) /\ Len(t) = l - 1
    BY <1>1, <1>3, <1>5, <1>6, <2>0
  <2>2. DOMAIN t = 1..(l-1)
    BY <2>1
  <2>3. ASSUME NEW i \in 1..(l-1) PROVE t[i] = IF i < k THEN q[i] ELSE q[i + 1]
    <3>1. CASE i < k
      BY <1>1, <1>3, <1>5, <1>6, <1>7, <3>1
    <3>2. CASE i >= k
      <4>1. t[i] = b[i - (k - 1)] /\ i - (k - 1) \in 1..(l-k)
        BY <1>1, <1>3, <1>5, <1>6, <1>7, <3>2
      <4>2. i - (k - 1) + k = i + 1
        BY <1>1, <1>3
      <4>3. QED
        BY <1>1, <1>3, <1>6, <3>2, <4>1, <4>2
    <3>3. QED
      BY <1>1, <1>3, <3>1, <3>2
  <2>4. QED
    BY <2>1, <2>2, <2>3
<1>9. Once(t)
  <2> SUFFICES ASSUME NEW i \in 1..(l-1), NEW j \in 1..(l-1), t[i] = t[j] PROVE i = j
    BY <1>8 DEF Once
  <2> DEFINE f(m) == IF m < k THEN m ELSE m + 1
  <2>1. t[i] = q[f(i)] /\ t[j] = q[f(j)] /\ f(i) \in 1..l /\ f(j) \in 1..l
    BY <1>1, <1>3, <1>8
  <2>2. f(i) = f(j)
    BY <1>1, <2>1 DEF Once
  <2>3. QED
    BY <1>3, <2>2
<1>10. ASSUME NEW y PROVE Has(t, y) <=> Has(q, y) /\ y # x
  <2>1. ASSUME NEW i \in 1..(l-1), t[i] = y PROVE Has(q, y) /\ y # x
    <3> DEFINE m == IF i < k THEN i ELSE i + 1
    <3>1. m \in 1..l /\ m # k /\ q[m] = y
      BY <1>1, <1>3, <1>8, <2>1
    <3> HIDE DEF m
    <3>2. y # x
      BY <1>1, <1>3, <3>1 DEF Once
    <3>3. QED
      BY <1>1, <3>1, <3>2 DEF Has
  <2>2. ASSUME NEW i \in 1..l, q[i] = y, y # x PROVE Has(t, y)
    <3>1. i # k
      BY <1>3, <2>2
    <3> DEFINE m == IF i < k THEN i ELSE i - 1
    <3>2. m \in 1..(l-1) /\ t[m] = y
      <4>1. m \in 1..(l-1)
        BY <1>1, <1>3, <3>1
      <4>2. CASE i < k
        BY <1>8, <2>2, <4>1, <4>2
      <4>3. CASE i > k
        <5>1. m = i - 1 /\ ~(m < k) /\ m + 1 = i
          BY <1>1, <1>3, <4>3
        <5>2. QED
          BY <1>8, <2>2, <4>1, <5>1
      <4>4. QED
        BY <1>1, <1>3, <3>1, <4>1, <4>2, <4>3
    <3> HIDE DEF m
    <3>3. QED
      BY <1>8, <3>2 DEF Has
  <2>3. QED
    BY <1>1, <1>8, <2>1, <2>2 DEF Has
<1>11. QED
  BY <1>8, <1>9, <1>10

LEMMA NoSessIn ==
    /\ NoSess \in Sess /\ ~NoSess.on /\ ~NoSess.avail /\ NoSess.A = {} /\ NoSess.E = {}
    /\ LET s == [NoSess EXCEPT !.on = TRUE] IN s \in Sess /\ s.on /\ ~s.avail /\ s.A = {} /\ s.E = {}
<1>1. 0 \in Int /\ {} \in SUBSET Known
  OBVIOUS
<1>2. NoSess \in Sess /\ ~NoSess.on /\ ~NoSess.avail /\ NoSess.A = {} /\ NoSess.E = {}
  BY <1>1 DEF NoSess, Sess
<1>3. PICK n : n = NoSess
  OBVIOUS
<1> DEFINE s == [n EXCEPT !.on = TRUE]
<1>4. n \in Sess /\ ~n.avail /\ n.A = {} /\ n.E = {}
  BY <1>2, <1>3, Zenon
<1>5. s \in Sess /\ s.on /\ ~s.avail /\ s.A = {} /\ s.E = {}
  BY <1>4 DEF Sess
<1>6. QED
  BY <1>2, <1>3, <1>5, Zenon

\* the user's state without session r, and with a new one
Gone(u, r) == [u EXCEPT !.order = Without(@, r), !.s[r] = NoSess]
Came(u, r) == [u EXCEPT !.order = <<r>> \o @, !.s[r] = [NoSess EXCEPT !.on = TRUE]]

(* A user without a session nobody believes in.                            *)
LEMMA GoneOk ==
    ASSUME NEW u, UserOk(u), NEW r, r \in Resources, u.s[r].on, ~u.s[r].avail
    PROVE  LET t == Gone(u, r)
           IN  /\ UserOk(t) /\ t.order = Without(u.order, r) /\ (t.loaded <=> u.loaded) /\ t.s[r] = NoSess
               /\ \A x \in Resources : x # r => t.s[x] = u.s[x]
<1> DEFINE o == Without(u.order, r)
           t == [u EXCEPT !.order = o, !.s[r] = NoSess]
<1>1. u \in UserRec /\ Listed(u) /\ TopOk(u) /\ u.order \in Seq(Resources) /\ u.s \in [Resources -> Sess]
  BY UserParts DEF UserOk, Listed
<1>2. Once(u.order) /\ Has(u.order, r) /\ \A x \in Resources : u.s[x].on <=> Has(u.order, x)
  BY <1>1 DEF Listed, Once, Has
<1> HIDE DEF o
<1>3. o \in Seq(Resources) /\ Once(o) /\ \A y : Has(o, y) <=> Has(u.order, y) /\ y # r
  BY <1>1, <1>2, WithoutIs DEF o
<1>4. NoSess \in Sess /\ ~NoSess.on /\ ~NoSess.avail
  BY NoSessIn
<1>5. /\ t \in UserRec /\ t.order = o /\ (t.loaded <=> u.loaded) /\ t.top = u.top /\ (t.avail <=> u.avail)
      /\ t.s[r] = NoSess /\ \A x \in Resources : x # r => t.s[x] = u.s[x]
  BY <1>1, <1>3, <1>4 DEF UserRec
<1>6. Gone(u, r) = t
  BY DEF Gone, o
<1> HIDE DEF t
<1>7. Listed(t)
  <2>1. \A x \in Resources : t.s[x].on <=> Has(o, x)
    BY <1>2, <1>3, <1>4, <1>5
  <2>2. \A x \in Resources : t.s[x].avail => t.s[x].on
    BY <1>1, <1>4, <1>5 DEF Listed
  <2>3. u.loaded
    BY <1>1, <1>2 DEF Listed, Has
  <2>4. QED
    BY <1>3, <1>5, <2>1, <2>2, <2>3 DEF Listed, Once, Has
<1>8. \A x \in Resources : (t.s[x].avail <=> u.s[x].avail) /\ (Takes(t, x) <=> Takes(u, x))
  BY <1>4, <1>5 DEF Takes
<1>9. TopOk(t)
  <2>1. u.top # "" => u.top \in Resources /\ u.top # r
    BY <1>1, UserParts DEF TopOk, Takes
  <2>2. \A x \in Resources : Takes(u, x) => x # r
    BY DEF Takes
  <2>3. QED
    BY <1>1, <1>5, <1>8, <2>1, <2>2 DEF TopOk
<1>10. QED
  BY <1>5, <1>6, <1>7, <1>9 DEF UserOk, o

LEMMA CameOk ==
    ASSUME NEW u, UserOk(u), NEW r, r \in Resources, ~u.s[r].on, u.loaded
    PROVE  LET t == Came(u, r)
           IN  /\ UserOk(t) /\ t.order # <<>> /\ t.loaded /\ t.s[r].on /\ ~t.s[r].avail /\ t.s[r].A = {} /\ t.s[r].E = {}
               /\ \A x \in Resources : x # r => t.s[x] = u.s[x]
<1> DEFINE s == [NoSess EXCEPT !.on = TRUE]
           o == <<r>> \o u.order
           t == [u EXCEPT !.order = o, !.s[r] = s]
           l == Len(u.order)
<1>1. u \in UserRec /\ Listed(u) /\ TopOk(u) /\ u.order \in Seq(Resources) /\ u.s \in [Resources -> Sess]
  BY UserParts DEF UserOk, Listed
<1>2. Once(u.order) /\ \A x \in Resources : u.s[x].on <=> Has(u.order, x)
  BY <1>1 DEF Listed, Once, Has
<1>3. s \in Sess /\ s.on /\ ~s.avail /\ s.A = {} /\ s.E = {}
  BY NoSessIn
<1>4. l \in Nat /\ DOMAIN u.order = 1..l
  BY <1>1
<1>5. /\ o \in Seq(Resources) /\ Len(o) = l + 1 /\ DOMAIN o = 1..(l+1) /\ o[1] = r
      /\ \A i \in 2..(l+1) : o[i] = u.order[i - 1]
  <2>1. <<r>> \in Seq(Resources) /\ Len(<<r>>) = 1 /\ <<r>>[1] = r
    OBVIOUS
  <2>2. QED
    BY <1>1, <1>4, <2>1
<1>6. Came(u, r) = t
  BY DEF Came
<1> HIDE DEF s, o
<1>7. /\ t \in UserRec /\ t.order = o /\ (t.loaded <=> u.loaded) /\ t.top = u.top /\ (t.avail <=> u.avail)
      /\ t.s[r] = s /\ \A x \in Resources : x # r => t.s[x] = u.s[x]
  BY <1>1, <1>3, <1>5 DEF UserRec
<1> HIDE DEF t, l
<1>8. \A y : Has(o, y) <=> Has(u.order, y) \/ y = r
  <2> TAKE y
  <2>1. ASSUME NEW i \in 1..l, u.order[i] = y PROVE Has(o, y)
    <3>1. i + 1 \in 2..(l+1) /\ i + 1 \in 1..(l+1) /\ (i + 1) - 1 = i
      BY <1>4
    <3>2. QED
      BY <1>5, <2>1, <3>1 DEF Has
  <2>2. ASSUME NEW i \in 2..(l+1) PROVE Has(u.order, o[i])
    <3>1. i - 1 \in 1..l /\ o[i] = u.order[i - 1]
      BY <1>4, <1>5
    <3>2. QED
      BY <1>4, <3>1 DEF Has
  <2>3. 1 \in 1..(l+1) /\ \A i \in 1..(l+1) : i = 1 \/ i \in 2..(l+1)
    BY <1>4
  <2>4. QED
    BY ZenonT(40), <1>4, <1>5, <2>1, <2>2, <2>3 DEF Has
<1>9. Once(o)
  <2> SUFFICES ASSUME NEW i \in 1..(l+1), NEW j \in 1..(l+1), o[i] = o[j] PROVE i = j
    BY <1>5 DEF Once
  <2>1. ~Has(u.order, r)
    BY <1>2
  <2>2. \A k \in 2..(l+1) : k - 1 \in 1..l /\ o[k] # r
    <3> TAKE k \in 2..(l+1)
    <3>1. k - 1 \in 1..l /\ o[k] = u.order[k - 1]
      BY <1>4, <1>5
    <3>2. QED
      BY <1>4, <2>1, <3>1 DEF Has
  <2>3. CASE i = 1 \/ j = 1
    BY <1>4, <1>5, <2>2, <2>3
  <2>4. CASE i # 1 /\ j # 1
    <3>1. i \in 2..(l+1) /\ j \in 2..(l+1)
      BY <1>4, <2>4
    <3>2. i - 1 = j - 1
      <4>1. i - 1 \in 1..l /\ j - 1 \in 1..l
        BY <2>2, <3>1
      <4>2. o[i] = u.order[i - 1] /\ o[j] = u.order[j - 1]
        BY <1>5, <3>1
      <4>3. u.order[i - 1] = u.order[j - 1]
        BY <4>2
      <4>4. QED
        BY <1>2, <1>4, <4>1, <4>3 DEF Once
    <3>3. QED
      BY <3>1, <3>2
  <2>5. QED
    BY <2>3, <2>4
<1>10. Listed(t)
  <2>1. \A x \in Resources : t.s[x].on <=> Has(o, x)
    BY <1>2, <1>3, <1>7, <1>8
  <2>2. \A x \in Resources : t.s[x].avail => t.s[x].on
    BY <1>1, <1>3, <1>7 DEF Listed
  <2>3. QED
    BY <1>7, <1>9, <2>1, <2>2 DEF Listed, Once, Has
<1>11. TopOk(t)
  <2>0. ~u.s[r].avail
    BY <1>1 DEF Listed
  <2>1. u.top # "" => u.top \in Resources /\ u.top # r
    BY <1>1, <2>0, UserParts DEF TopOk, Takes
  <2>2. \A x \in Resources : Takes(u, x) => x # r
    BY <2>0 DEF Takes
  <2>3. \A x \in Resources : (t.s[x].avail <=> u.s[x].avail) /\ (Takes(t, x) <=> Takes(u, x))
    BY <1>3, <1>7, <2>0 DEF Takes
  <2>4. QED
    BY <1>1, <1>7, <2>1, <2>2, <2>3 DEF TopOk
<1>12. t.order # <<>>
  BY <1>4, <1>5, <1>7
<1>13. QED
  BY <1>3, <1>6, <1>7, <1>10, <1>11, <1>12 DEF UserOk

(* The user's state is replaced by one where others are believed in as     *)
(* before.                                                                 *)
LEMMA Replaced ==
    ASSUME NEW n, NEW w, Ok(w, n), NEW u, UserOk(u), ErrOk(u),
           \A c \in Peers, r \in Resources : Believed(w.m.u, c, r) <=> Believed(u, c, r)
    PROVE  LET v == SetU(w, u)
           IN  Ok(v, n) /\ v.pkt = w.pkt /\ v.m.u = u /\ v.out = w.out /\ v.ret = w.ret
<1>1. \A i \in DOMAIN w.out : ItemOk(w.out[i], u, n)
  BY ItemsStay
<1>2. QED
  BY <1>1, SetUOk

\* the last step of _sess_end_guts
Ended(w, r, p) == [w EXCEPT !.m.u.order = Without(@, r), !.m.u.s[r] = NoSess, !.pkt = p]

SetPkt(w, p) == [w EXCEPT !.pkt = p]

LEMMA EndedIs ==
    ASSUME NEW n, NEW w, w \in WorkSet(n), NEW r, r \in Resources, NEW p
    PROVE  Ended(w, r, p) = SetPkt(SetU(w, Gone(w.m.u, r)), p)
<1>1. w.m \in Mgr(n)
  BY DEF WorkSet
<1>2. w.m.u \in UserRec
  BY <1>1 DEF Mgr
<1>3. QED
  BY ZenonT(40), <1>1, <1>2 DEF Ended, SetPkt, SetU, Gone, WorkSet, Mgr, UserRec

(* _sess_end_guts: the session goes, and who believed in it is told.       *)
LEMMA EndGutsOk ==
    ASSUME NEW n, NEW w, NEW r, InSession(w, r, n), Quiet(w, r)
    PROVE  LET v == EndGuts(w, r)
           IN  /\ Ok(v, n) /\ v.pkt = w.pkt /\ v.m.u.order = Without(w.m.u.order, r) /\ (v.m.u.loaded <=> w.m.u.loaded)
               /\ ~v.m.u.s[r].on
               /\ \A y \in Resources : (Quiet(w, y) => Quiet(v, y)) /\ (y # r => (v.m.u.s[y].on <=> w.m.u.s[y].on))
<1> DEFINE s == w.m.u.s[r]
           x == InSess([w EXCEPT !.pkt = Fake], r)
           v == IF s.avail \/ s.A # {} THEN x ELSE w
<1>1. Ok(w, n) /\ r \in Resources /\ s.on /\ w.pkt \in Pkt(n) /\ s \in Sess
  BY OkParts DEF InSession
<1>2. EndGuts(w, r) = Ended(v, r, w.pkt)
  BY DEF EndGuts, Ended, Fake
<1>3. /\ Ok(v, n) /\ SameOrder(w, v) /\ ~v.m.u.s[r].avail /\ v.m.u.s[r].A = {} /\ v.m.u.s[r].on
      /\ \A y \in Resources : Quiet(w, y) => Quiet(v, y)
  <2>1. CASE s.avail \/ s.A # {}
    <3>1. PICK k : k = Fake
      OBVIOUS
    <3>2. IsFake(k) /\ x = InSess([w EXCEPT !.pkt = k], r)
      BY <3>1 DEF IsFake
    <3> HIDE DEF x
    <3>3. /\ Ok(x, n) /\ SameOrder(w, x) /\ ~x.m.u.s[r].avail /\ x.m.u.s[r].A = {} /\ x.m.u.s[r].on
          /\ \A y \in Resources : Quiet(w, y) => Quiet(x, y)
      BY <3>2, FakeOk
    <3>4. QED
      BY <2>1, <3>3
  <2>2. CASE ~(s.avail \/ s.A # {})
    BY <1>1, <2>2 DEF SameOrder
  <2>3. QED
    BY <2>1, <2>2
<1> HIDE DEF v
<1> DEFINE u == v.m.u
           t == Gone(u, r)
           y == SetU(v, t)
<1>4. UserOk(u) /\ u \in UserRec /\ v \in WorkSet(n)
  BY <1>3, OkParts
<1>5. /\ UserOk(t) /\ t.order = Without(u.order, r) /\ (t.loaded <=> u.loaded) /\ t.s[r] = NoSess
      /\ \A z \in Resources : z # r => t.s[z] = u.s[z]
  BY <1>1, <1>3, <1>4, GoneOk
<1> HIDE DEF t
<1>6. ErrOk(t)
  <2>1. t.s[r].E = {}
    BY <1>5, NoSessIn
  <2>2. ErrOk(u)
    BY <1>3 DEF Ok
  <2>3. QED
    BY <1>5, <2>1, <2>2 DEF ErrOk
<1>7. \A c \in Peers, z \in Resources : Believed(u, c, z) <=> Believed(t, c, z)
  <2>1. ~t.s[r].on
    BY <1>5, NoSessIn
  <2>2. \A c \in Peers : ~Believed(u, c, r) /\ ~Believed(t, c, r)
    BY <1>3, <2>1 DEF Believed
  <2>3. QED
    BY <1>5, <2>2 DEF Believed
<1>8. Ok(y, n) /\ y.m.u = t /\ y.out = v.out
  BY <1>3, <1>5, <1>6, <1>7, Replaced
<1> HIDE DEF y
<1> DEFINE p == w.pkt
           e == [y EXCEPT !.pkt = p]
<1>9. p \in Pkt(n)
  BY <1>1
<1>10. EndGuts(w, r) = e
  <2>1. Ended(v, r, p) = SetPkt(SetU(v, Gone(v.m.u, r)), p)
    BY <1>1, <1>4, EndedIs
  <2>2. QED
    BY <1>2, <2>1, Zenon DEF SetPkt, y, t
<1> HIDE DEF p
<1>11. Ok(e, n) /\ e.m = y.m /\ e.pkt = p /\ e.out = y.out
  BY <1>8, <1>9, PktSet
<1> HIDE DEF e
<1>12. e.m.u = t /\ e.out = v.out /\ e.pkt = w.pkt
  BY <1>8, <1>11 DEF p
<1>13. w.m.u.order = u.order /\ (w.m.u.loaded <=> u.loaded) /\ \A z \in Resources : u.s[z].on <=> w.m.u.s[z].on
  <2>1. u.order = w.m.u.order /\ (w.m.u.loaded <=> u.loaded)
    BY <1>3 DEF SameOrder
  <2>2. UserOk(w.m.u)
    BY <1>1, OkParts
  <2>3. QED
    BY <1>4, <2>1, <2>2 DEF UserOk, Listed
<1>14. ~e.m.u.s[r].on
  BY <1>5, <1>12, NoSessIn
<1>15. \A z \in Resources : (Quiet(w, z) => Quiet(e, z)) /\ (z # r => (e.m.u.s[z].on <=> w.m.u.s[z].on))
  BY <1>3, <1>5, <1>12, <1>13 DEF Quiet
<1>16. QED
  BY <1>5, <1>10, <1>11, <1>12, <1>13, <1>14, <1>15

LEMMA NoUserIn ==
    /\ UserOk(NoUser) /\ ErrOk(NoUser) /\ NoUser.order = <<>> /\ ~NoUser.loaded
    /\ \A c, r : r \in Resources => ~Believed(NoUser, c, r)
    /\ LET t == [NoUser EXCEPT !.loaded = TRUE]
       IN UserOk(t) /\ ErrOk(t) /\ t.order = <<>> /\ t.loaded /\ \A c, r : r \in Resources => ~Believed(t, c, r)
<1>1. PICK k : k = NoSess
  OBVIOUS
<1>2. k \in Sess /\ ~k.on /\ ~k.avail /\ k.E = {}
  BY <1>1, NoSessIn
<1>3. PICK f : f = [r \in Resources |-> k]
  OBVIOUS
<1>4. f \in [Resources -> Sess] /\ \A r \in Resources : ~f[r].on /\ ~f[r].avail /\ f[r].E = {}
  BY <1>2, <1>3
<1>5. NoUser = [loaded |-> FALSE, order |-> <<>>, top |-> "", avail |-> FALSE, s |-> f]
  BY <1>1, <1>3 DEF NoUser
<1>6. ASSUME NEW t, t.order = <<>>, t.top = "", ~t.avail, t.s = f, t \in UserRec
      PROVE  UserOk(t) /\ ErrOk(t) /\ \A c, r : r \in Resources => ~Believed(t, c, r)
  <2>0. DOMAIN t.order = {}
    <3>1. DOMAIN <<>> = {}
      OBVIOUS
    <3>2. QED
      BY <1>6, <3>1, Zenon
  <2>1. Listed(t)
    BY <1>4, <1>6, <2>0 DEF Listed
  <2>2. TopOk(t)
    BY <1>4, <1>6 DEF TopOk, Takes
  <2>3. QED
    BY <1>4, <1>6, <2>1, <2>2 DEF UserOk, ErrOk, Believed
<1>7. PICK g : g = NoUser
  OBVIOUS
<1>8. g \in UserRec /\ g.order = <<>> /\ g.top = "" /\ ~g.avail /\ g.s = f /\ ~g.loaded
  <2>1. <<>> \in Seq(Resources) /\ FALSE \in BOOLEAN
    OBVIOUS
  <2>2. g = [loaded |-> FALSE, order |-> <<>>, top |-> "", avail |-> FALSE, s |-> f]
    BY <1>5, <1>7
  <2>3. QED
    BY <1>4, <2>1, <2>2 DEF UserRec
<1> DEFINE t == [g EXCEPT !.loaded = TRUE]
<1>9. t \in UserRec /\ t.order = <<>> /\ t.top = "" /\ ~t.avail /\ t.s = f /\ t.loaded
  BY <1>8 DEF UserRec
<1>10. t = [NoUser EXCEPT !.loaded = TRUE]
  BY <1>7
<1> HIDE DEF t
<1>11. UserOk(t) /\ ErrOk(t) /\ \A c, r : r \in Resources => ~Believed(t, c, r)
  BY <1>6, <1>9
<1>12. UserOk(g) /\ ErrOk(g) /\ \A c, r : r \in Resources => ~Believed(g, c, r)
  BY <1>6, <1>8
<1>13. QED
  BY <1>7, <1>8, <1>9, <1>10, <1>11, <1>12, Zenon

Settled(u) == u.loaded <=> u.order # <<>>

LEMMA NoneOn ==
    ASSUME NEW u, UserOk(u), u.order = <<>>
    PROVE  \A c, r : r \in Resources => ~u.s[r].on /\ ~Believed(u, c, r)
  BY DEF UserOk, Listed, Believed

LEMMA UserFreeOk ==
    ASSUME NEW n, NEW w, Ok(w, n)
    PROVE  LET v == UserFree(w)
           IN  /\ Ok(v, n) /\ v.pkt = w.pkt /\ v.m.u.order = w.m.u.order /\ Settled(v.m.u) /\ v.out = w.out /\ v.ret = w.ret
               /\ \A r \in Resources : v.m.u.s[r].on <=> w.m.u.s[r].on
<1>1. UserOk(w.m.u)
  BY OkParts
<1>2. CASE w.m.u.order = <<>>
  <2>1. PICK t : t = NoUser
    OBVIOUS
  <2>2. UserOk(t) /\ ErrOk(t) /\ t.order = <<>> /\ ~t.loaded /\ \A c, r : r \in Resources => ~Believed(t, c, r)
    BY <2>1, NoUserIn
  <2>3. UserFree(w) = SetU(w, t)
    BY <1>2, <2>1 DEF UserFree, SetU
  <2> DEFINE v == SetU(w, t)
  <2>4. \A c \in Peers, r \in Resources : Believed(w.m.u, c, r) <=> Believed(t, c, r)
    BY <1>1, <1>2, <2>2, NoneOn
  <2>5. Ok(v, n) /\ v.pkt = w.pkt /\ v.m.u = t /\ v.out = w.out /\ v.ret = w.ret
    BY <2>2, <2>4, Replaced
  <2> HIDE DEF v
  <2>6. \A r \in Resources : t.s[r].on <=> w.m.u.s[r].on
    BY <1>1, <1>2, <2>2, NoneOn
  <2>7. Settled(t)
    BY <2>2 DEF Settled
  <2>8. QED
    BY <1>2, <2>2, <2>3, <2>5, <2>6, <2>7 DEF v
<1>3. CASE w.m.u.order # <<>>
  <2>1. UserFree(w) = w
    BY <1>3 DEF UserFree
  <2>2. Settled(w.m.u)
    BY <1>1, <1>3 DEF Settled, UserOk, Listed
  <2>3. QED
    BY <2>1, <2>2
<1>4. QED
  BY <1>2, <1>3

LEMMA UserLoadOk ==
    ASSUME NEW n, NEW w, Ok(w, n)
    PROVE  LET v == UserLoad(w)
           IN  /\ Ok(v, n) /\ v.pkt = w.pkt /\ v.m.u.order = w.m.u.order /\ v.m.u.loaded /\ v.out = w.out /\ v.ret = w.ret
               /\ \A r \in Resources : v.m.u.s[r].on <=> w.m.u.s[r].on
<1>1. UserOk(w.m.u) /\ w \in WorkSet(n) /\ w.m \in Mgr(n)
  BY OkParts
<1>2. CASE ~w.m.u.loaded
  <2>0. w.m.u.order = <<>>
    BY <1>1, <1>2 DEF UserOk, Listed
  <2>1. PICK t : t = [NoUser EXCEPT !.loaded = TRUE]
    OBVIOUS
  <2>2. UserOk(t) /\ ErrOk(t) /\ t.order = <<>> /\ t.loaded /\ \A c, r : r \in Resources => ~Believed(t, c, r)
    BY <2>1, NoUserIn
  <2>3. UserLoad(w) = SetU(w, t)
    BY <1>2, <2>1 DEF UserLoad, SetU
  <2> DEFINE v == SetU(w, t)
  <2>4. \A c \in Peers, r \in Resources : Believed(w.m.u, c, r) <=> Believed(t, c, r)
    BY <1>1, <2>0, <2>2, NoneOn
  <2>5. Ok(v, n) /\ v.pkt = w.pkt /\ v.m.u = t /\ v.out = w.out /\ v.ret = w.ret
    BY <2>2, <2>4, Replaced
  <2> HIDE DEF v
  <2>6. \A r \in Resources : t.s[r].on <=> w.m.u.s[r].on
    BY <1>1, <2>0, <2>2, NoneOn
  <2>7. QED
    BY <2>0, <2>2, <2>3, <2>5, <2>6 DEF v
<1>3. CASE w.m.u.loaded
  <2>1. UserLoad(w) = w
    BY <1>1, <1>3 DEF UserLoad, WorkSet, Mgr
  <2>2. QED
    BY <1>3, <2>1
<1>4. QED
  BY <1>2, <1>3

(* sess_start: the session it replaces ends first.                         *)
LEMMA SessStartOk ==
    ASSUME NEW n, NEW w, Ok(w, n), NEW r, r \in Resources, Quiet(w, r)
    PROVE  Ok(SessStart(w, r), n) /\ Settled(SessStart(w, r).m.u)
<1> DEFINE a == UserLoad(w)
           v == IF a.m.u.s[r].on THEN EndGuts(a, r) ELSE a
           z == [v EXCEPT !.m.u.order = <<r>> \o @, !.m.u.s[r] = [NoSess EXCEPT !.on = TRUE]]
<1>1. SessStart(w, r) = z
  BY DEF SessStart
<1>2. Ok(a, n) /\ a.m.u.loaded /\ a.out = w.out
  BY UserLoadOk
<1> HIDE DEF a
<1>3. Ok(v, n) /\ v.m.u.loaded /\ ~v.m.u.s[r].on
  <2>1. CASE a.m.u.s[r].on
    <3> DEFINE e == EndGuts(a, r)
    <3>1. InSession(a, r, n) /\ Quiet(a, r)
      BY <1>2, <2>1 DEF InSession, Quiet
    <3>2. Ok(e, n) /\ (e.m.u.loaded <=> a.m.u.loaded) /\ ~e.m.u.s[r].on
      BY <3>1, EndGutsOk
    <3> HIDE DEF e
    <3>3. QED
      BY <1>2, <2>1, <3>2 DEF e
  <2>2. CASE ~a.m.u.s[r].on
    BY <1>2, <2>2
  <2>3. QED
    BY <2>1, <2>2
<1> HIDE DEF v
<1>4. UserOk(v.m.u) /\ v \in WorkSet(n) /\ v.m \in Mgr(n) /\ v.m.u \in UserRec
  BY <1>3, OkParts
<1> DEFINE t == Came(v.m.u, r)
           y == SetU(v, t)
<1>5. z = y
  BY <1>4 DEF SetU, Came, WorkSet, Mgr, UserRec
<1>6. /\ UserOk(t) /\ t.order # <<>> /\ t.loaded /\ t.s[r].on /\ ~t.s[r].avail /\ t.s[r].A = {} /\ t.s[r].E = {}
      /\ \A x \in Resources : x # r => t.s[x] = v.m.u.s[x]
  BY <1>3, <1>4, CameOk
<1> HIDE DEF t, z
<1>7. ErrOk(t)
  BY <1>3, <1>6 DEF Ok, ErrOk
<1>8. \A c \in Peers, x \in Resources : Believed(v.m.u, c, x) <=> Believed(t, c, x)
  BY <1>3, <1>6 DEF Believed
<1>9. Ok(y, n) /\ y.m.u = t
  BY <1>3, <1>6, <1>7, <1>8, Replaced
<1> HIDE DEF y
<1>10. QED
  BY <1>1, <1>5, <1>6, <1>9 DEF Settled

(* sess_end: the user is unloaded with the last session.                   *)
LEMMA SessEndOk ==
    ASSUME NEW n, NEW w, NEW r, InSession(w, r, n), Quiet(w, r)
    PROVE  LET v == SessEnd(w, r)
           IN  /\ Ok(v, n) /\ v.pkt = w.pkt /\ Settled(v.m.u)
               /\ \A y \in Resources : (Quiet(w, y) => Quiet(v, y)) /\ (y # r => (v.m.u.s[y].on <=> w.m.u.s[y].on))
<1> DEFINE e == EndGuts(w, r)
           v == UserFree(e)
<1>1. /\ Ok(e, n) /\ e.pkt = w.pkt
      /\ \A y \in Resources : (Quiet(w, y) => Quiet(e, y)) /\ (y # r => (e.m.u.s[y].on <=> w.m.u.s[y].on))
  BY EndGutsOk
<1> HIDE DEF e
<1>2. /\ Ok(v, n) /\ v.pkt = e.pkt /\ Settled(v.m.u) /\ v.out = e.out
      /\ \A y \in Resources : v.m.u.s[y].on <=> e.m.u.s[y].on
  BY <1>1, UserFreeOk
<1> HIDE DEF v
<1>3. \A y : Quiet(e, y) => Quiet(v, y)
  BY <1>2 DEF Quiet
<1>4. SessEnd(w, r) = v
  BY DEF SessEnd, v, e
<1>5. QED
  BY <1>1, <1>2, <1>3, <1>4

AllQuiet(w) == \A y \in Resources : Quiet(w, y)

(* The sessions of a c2s that is lost end one after the other, each of     *)
(* them while it is there.                                                 *)
LEMMA SessEndsOk ==
    ASSUME NEW n, NEW w, Ok(w, n), AllQuiet(w), Settled(w.m.u)
    PROVE  LET v == SessEnds(w, w.m.u.order) IN Ok(v, n) /\ Settled(v.m.u) /\ v.pkt = w.pkt
<1>1. PICK q : q = w.m.u.order
  OBVIOUS
<1>2. q \in Seq(Resources) /\ Once(q) /\ \A r \in Resources : w.m.u.s[r].on <=> Has(q, r)
  <2>1. UserOk(w.m.u) /\ w.m.u.order \in Seq(Resources)
    BY OkParts
  <2>2. QED
    BY <1>1, <2>1 DEF UserOk, Listed, Once, Has
<1>3. PICK e : /\ e[0] = w
               /\ \A i \in 1..Len(q) : e[i] = SessEnd(e[i - 1], q[i])
               /\ SessEnds(w, q) = e[Len(q)]
  BY <1>2, EndTrace
<1> DEFINE l == Len(q)
<1>4. l \in Nat /\ DOMAIN q = 1..l
  BY <1>2
<1> HIDE DEF l
<1> DEFINE Fine(i) == /\ Ok(e[i], n) /\ AllQuiet(e[i]) /\ e[i].pkt = w.pkt /\ Settled(e[i].m.u)
                      /\ \A k \in (i+1)..l : e[i].m.u.s[q[k]].on
           Good == {i \in Nat : i <= l => Fine(i)}
<1>5. 0 \in Good
  <2>1. \A k \in 1..l : w.m.u.s[q[k]].on
    BY <1>2, <1>4 DEF Has
  <2>2. Fine(0)
    BY <1>3, <2>1
  <2>3. QED
    BY <2>2
<1>6. ASSUME NEW i \in Good PROVE i + 1 \in Good
  <2> SUFFICES ASSUME i + 1 <= l PROVE Fine(i + 1)
    OBVIOUS
  <2>1. Fine(i) /\ i + 1 \in 1..l /\ i + 1 \in (i+1)..l /\ i \in Nat
    BY <1>4
  <2> DEFINE x == e[i]
             r == q[i + 1]
             y == SessEnd(x, r)
  <2>2. e[i + 1] = y
    <3>1. (i + 1) - 1 = i
      BY <2>1
    <3>2. QED
      BY <1>3, <2>1, <3>1 DEF l
  <2>3. r \in Resources
    BY <1>2, <1>4, <2>1
  <2>4. InSession(x, r, n) /\ Quiet(x, r)
    BY <2>1, <2>3 DEF InSession, AllQuiet
  <2>4a. \A k \in (i+2)..l : x.m.u.s[q[k]].on /\ q[k] # r /\ q[k] \in Resources
    <3> TAKE k \in (i+2)..l
    <3>1. k \in 1..l /\ k # i + 1 /\ k \in (i+1)..l
      BY <1>4, <2>1
    <3>2. QED
      BY <1>2, <1>4, <2>1, <3>1 DEF Once
  <2>4b. x.pkt = w.pkt /\ AllQuiet(x)
    BY <2>1
  <2> HIDE DEF x, r
  <2>5. /\ Ok(y, n) /\ y.pkt = x.pkt /\ Settled(y.m.u)
        /\ \A z \in Resources : (Quiet(x, z) => Quiet(y, z)) /\ (z # r => (y.m.u.s[z].on <=> x.m.u.s[z].on))
    BY <2>4, SessEndOk
  <2> HIDE DEF y
  <2>6. AllQuiet(y)
    BY <2>4b, <2>5 DEF AllQuiet
  <2>7. \A k \in (i+2)..l : y.m.u.s[q[k]].on
    BY <2>4a, <2>5
  <2>8. (i + 1) + 1 = i + 2
    BY <2>1
  <2>9. QED
    BY <2>2, <2>4b, <2>5, <2>6, <2>7, <2>8
<1> HIDE DEF Fine
<1>7. Good = Nat
  <2>1. Good \in SUBSET Nat
    OBVIOUS
  <2> HIDE DEF Good
  <2>2. QED
    BY <1>5, <1>6, <2>1, NatSet
<1>8. Fine(l)
  <2>1. l \in Good
    BY <1>4, <1>7
  <2>2. QED
    BY <1>4, <2>1
<1>9. QED
  BY <1>1, <1>3, <1>8 DEF Fine, l

LEMMA SessionPktRouterOk ==
    ASSUME NEW n, NEW w, Ok(w, n), AllQuiet(w), Settled(w.m.u)
    PROVE  LET v == SessionPktRouter(w) IN Ok(v, n) /\ Settled(v.m.u) /\ v.pkt = w.pkt
<1>1. CASE w.pkt.type = "unavailable" /\ w.pkt.from = Jid("c2s")
  <2>1. SessionPktRouter(w) = SessEnds(w, w.m.u.order)
    BY <1>1 DEF SessionPktRouter
  <2> DEFINE v == SessEnds(w, w.m.u.order)
  <2>2. Ok(v, n) /\ Settled(v.m.u) /\ v.pkt = w.pkt
    BY SessEndsOk
  <2> HIDE DEF v
  <2>3. QED
    BY <2>1, <2>2 DEF v
<1>2. CASE ~(w.pkt.type = "unavailable" /\ w.pkt.from = Jid("c2s"))
  <2>1. SessionPktRouter(w) = w
    BY <1>2 DEF SessionPktRouter
  <2>2. QED
    BY <2>1
<1>3. QED
  BY <1>1, <1>2

LEMMA SettledSame ==
    ASSUME NEW w, NEW v, Settled(w.m.u), SameOrder(w, v)
    PROVE  Settled(v.m.u)
  BY DEF Settled, SameOrder

LEMMA SessErrorOk ==
    ASSUME NEW n, NEW w, Ok(w, n), NEW r, r \in Resources
    PROVE  Ok(SessError(w, r), n) /\ SameOrder(w, SessError(w, r))
<1>1. w.pkt \in Pkt(n)
  BY OkParts
<1> DEFINE q == PktError(w.pkt)
<1>2. q \in Pkt(n)
  BY <1>1, ErrorIn
<1>2a. SessError(w, r) \in {w, PktSess(w, q, r)}
  BY DEF SessError
<1> HIDE DEF q
<1> DEFINE v == PktSess(w, q, r)
<1>3. Ok(v, n) /\ Same(w, v)
  BY <1>2, PktSessOk
<1> HIDE DEF v
<1>4. SessError(w, r) = w \/ SessError(w, r) = v
  BY <1>2a DEF v
<1>5. QED
  BY <1>3, <1>4 DEF Same, SameOrder

\* a packet that comes in for session r
ForSession(w, n) ==
    LET p == w.pkt
        r == p.sess
    IN  r # "" => /\ r \in Resources
                  /\ p.elem # "start" => w.m.u.s[r].on
                  /\ p.elem \notin {"start", "end"} => ClientPkt(p, r, n)

(* _session_in_router: whatever comes for a session is handled, and the    *)
(* user is loaded exactly while there are sessions.                        *)
LEMMA SessionInRouterOk ==
    ASSUME NEW n, NEW w, Ok(w, n), AllQuiet(w), Settled(w.m.u), ForSession(w, n)
    PROVE  LET v == SessionInRouter(w)
           IN  /\ Ok(v, n) /\ Settled(v.m.u)
               /\ w.pkt.sess = "" => v = w
               /\ w.pkt.sess # "" => v.ret = "HANDLED"
<1> DEFINE p == w.pkt
           r == p.sess
<1>0. \A x : Ok(x, n) /\ Settled(x.m.u) => Ok(Handled(x), n) /\ Settled(Handled(x).m.u) /\ Handled(x).ret = "HANDLED"
  <2> TAKE x
  <2> HAVE Ok(x, n) /\ Settled(x.m.u)
  <2>1. Ok(Handled(x), n) /\ Handled(x).m = x.m
    BY RetsOk
  <2>2. x \in WorkSet(n)
    BY OkParts
  <2>3. Handled(x).ret = "HANDLED"
    BY <2>2 DEF Handled, WorkSet
  <2>4. QED
    BY <2>1, <2>3
<1>1. CASE r = ""
  <2>1. SessionInRouter(w) = w
    BY <1>1 DEF SessionInRouter
  <2>2. QED
    BY <1>1, <2>1
<1>2. CASE r # "" /\ p.elem = "start"
  <2>1. r \in Resources /\ Quiet(w, r)
    BY <1>2 DEF ForSession, AllQuiet
  <2> DEFINE s == SessStart(w, r)
  <2>2. SessionInRouter(w) = Handled(s)
    BY <1>2 DEF SessionInRouter
  <2>3. Ok(s, n) /\ Settled(s.m.u)
    BY <2>1, SessStartOk
  <2> HIDE DEF s
  <2>4. QED
    BY <1>0, <1>2, <2>2, <2>3
<1>3. CASE r # "" /\ p.elem = "end"
  <2>1. InSession(w, r, n) /\ Quiet(w, r)
    BY <1>3 DEF ForSession, AllQuiet, InSession
  <2> DEFINE s == SessEnd(w, r)
  <2>2. SessionInRouter(w) = Handled(s)
    BY <1>3 DEF SessionInRouter
  <2>3. Ok(s, n) /\ Settled(s.m.u)
    BY <2>1, SessEndOk
  <2> HIDE DEF s
  <2>4. QED
    BY <1>0, <1>3, <2>2, <2>3
<1>4. CASE r # "" /\ p.elem \notin {"start", "end"}
  <2>1. Hold(w, r, n) /\ r \in Resources
    BY <1>4 DEF ForSession, AllQuiet, InSession, Hold
  <2> DEFINE x == InSess(w, r)
             s == SessError(x, r)
  <2>2. SessionInRouter(w) = Handled(s)
    BY <1>4 DEF SessionInRouter
  <2> HIDE DEF r
  <2>3. Ok(x, n) /\ SameOrder(w, x)
    BY <2>1, InSessOk
  <2> HIDE DEF x
  <2>4. Ok(s, n) /\ SameOrder(x, s)
    BY <2>1, <2>3, SessErrorOk
  <2> HIDE DEF s
  <2>5. Settled(s.m.u)
    BY <2>3, <2>4 DEF Settled, SameOrder
  <2>6. QED
    BY <1>0, <1>4, <2>2, <2>4, <2>5 DEF r
<1>5. QED
  BY <1>1, <1>2, <1>3, <1>4

-----------------------------------------------------------------------------
(* Packets for the user                                                    *)

\* what a module of the later chains makes of a work state
Keeps(w, v, n) == Ok(v, n) /\ Same(w, v)

LEMMA KeepsRets ==
    ASSUME NEW n, NEW w, NEW v, Keeps(w, v, n)
    PROVE  Keeps(w, Handled(v), n) /\ Keeps(w, Fails(v), n)
<1>1. Ok(Handled(v), n) /\ Same(v, Handled(v)) /\ Ok(Fails(v), n) /\ Same(v, Fails(v))
  BY RetsOk DEF Keeps
<1>2. QED
  BY <1>1 DEF Keeps, Same, SameOrder

LEMMA KeepsSelf ==
    ASSUME NEW n, NEW w, Ok(w, n)
    PROVE  Keeps(w, w, n) /\ Keeps(w, Handled(w), n) /\ Keeps(w, Fails(w), n)
<1>1. Keeps(w, w, n)
  BY DEF Keeps, Same, SameOrder
<1>2. QED
  BY <1>1, KeepsRets

LEMMA KeepsOn ==
    ASSUME NEW n, NEW w, NEW x, NEW y, Keeps(w, x, n), Keeps(x, y, n)
    PROVE  Keeps(w, y, n)
  BY DEF Keeps, Same, SameOrder

\* a packet from somebody else, for the user or the server
Comes(p, n) ==
    /\ p \in Pkt(n) /\ p.elem # "advert" /\ ~p.rerr /\ p.to[1] \in Ours
    /\ p.from[1] \in Services => p.from[1] \in online
    /\ p.err /\ IsPresence(p) /\ p.to[1] = "user" /\ p.to[2] # "" =>
            p.from[1] \in Known /\ (p.from[1] \in Peers => p.from[1] \in bounced[p.to[2]])

(* A packet other than presence that says it is from whom it came for.     *)
LEMMA ReplyOk ==
    ASSUME NEW n, NEW w, Ok(w, n), NEW p, p \in Pkt(n), p.from[1] \in Ours, p.elem # "advert", ~p.rerr,
           (~Is(p, "presence") /\ ~Is(p, "probe")) \/ p.from[1] # "user"
    PROVE  Keeps(w, Route(w, p), n)
<1>1. Writable(p, w.m.u, n)
  <2>1. ASSUME Discreet, NEW c \in Peers, NEW r \in Resources, Tells(p, c, r, "presence")
        PROVE  Believed(w.m.u, c, r)
    BY <2>1, JidsIn DEF Tells
  <2>2. QED
    BY <2>1 DEF Writable
<1>2. QED
  BY <1>1, RouteOk DEF Keeps

LEMMA ResultOk ==
    ASSUME NEW n, NEW w, Ok(w, n), Comes(w.pkt, n), w.pkt.type = "get"
    PROVE  Keeps(w, Route(w, Swap(Result(w.pkt))), n) /\ Keeps(w, Handled(Route(w, Swap(Result(w.pkt)))), n)
<1> DEFINE q == Swap(Result(w.pkt))
           v == Route(w, q)
<1>1. w.pkt \in Pkt(n) /\ w.pkt.to[1] \in Ours /\ w.pkt.elem # "advert" /\ ~w.pkt.rerr
  BY DEF Comes
<1>2. q \in Pkt(n) /\ q.to = w.pkt.from /\ q.from = w.pkt.to /\ q.type = "result" /\ Plain(q, w.pkt)
  BY <1>1, AnswerIn
<1> HIDE DEF q
<1>3. q.from[1] \in Ours /\ q.elem # "advert" /\ ~q.rerr /\ ~Is(q, "presence") /\ ~Is(q, "probe")
  BY <1>1, <1>2 DEF Plain, Is
<1>4. Keeps(w, v, n)
  BY <1>2, <1>3, ReplyOk
<1> HIDE DEF v
<1>5. QED
  BY <1>4, KeepsRets DEF v, q

(* A notice that something came of a message.                              *)
LEMMA NoticeOk ==
    ASSUME NEW n, NEW w, Ok(w, n), NEW p, Comes(p, n)
    PROVE  LET q == [Packet("message", "message", p.from, p.to) EXCEPT !.id = p.id, !.ns = "notice"]
           IN  Keeps(w, Route(w, q), n)
<1> DEFINE k == Packet("message", "message", p.from, p.to)
           i == p.id
           q == [k EXCEPT !.id = i, !.ns = "notice"]
<1>1. p.to[1] \in Ours /\ p.from \in Jids /\ p.to \in Jids /\ i \in 0..n /\ n \in Nat
  BY PktParts, OkParts DEF Comes
<1>2. k \in Pkt(n)
  <2>1. "message" \in Elems /\ "message" \in Types /\ "message" # "presence"
    BY DEF Elems, Types
  <2>2. QED
    BY <1>1, <2>1, PacketIn
<1>3. k.elem = "message" /\ k.type = "message" /\ k.from = p.to /\ ~k.rerr
  BY DEF Packet
<1> HIDE DEF k, i
<1>4. q \in PktRec(n) /\ q.elem = "message" /\ q.type = "message" /\ q.from = p.to /\ ~q.rerr
  <2>1. k \in PktRec(n) /\ "notice" \in Namespaces
    BY <1>2, PktParts DEF Namespaces
  <2>2. QED
    BY <1>1, <1>3, <2>1 DEF PktRec
<1> HIDE DEF q
<1>5. q \in Pkt(n)
  BY <1>4 DEF Pkt, PktRec
<1>6. Keeps(w, Route(w, q), n)
  BY <1>1, <1>4, <1>5, ReplyOk DEF Is
<1>7. QED
  BY <1>6 DEF q, k, i

(* Presence for the user: an error is remembered, the rest goes to the     *)
(* sessions.                                                               *)
LEMMA PresencePktUserOk ==
    ASSUME NEW n, NEW w, Ok(w, n), AllQuiet(w), Comes(w.pkt, n), w.pkt.to[1] = "user"
    PROVE  Keeps(w, PresencePktUser(w), n)
<1> DEFINE p == w.pkt
           r == p.to[2]
           match == r # "" /\ w.m.u.s[r].on
           v == IF p.err /\ match THEN PresError(w, r) ELSE w
           x == PktSess(v, p, r)
<1>1. p \in Pkt(n) /\ p.to \in Jids /\ r \in Resources \cup {""}
  BY PktParts, JidParts DEF Comes
<1>2. Keeps(w, w, n) /\ Keeps(w, Handled(w), n)
  BY KeepsSelf
<1>3. CASE ~IsPresence(p)
  BY <1>2, <1>3 DEF PresencePktUser
<1>4. CASE IsPresence(p) /\ ~match /\ (p.err \/ r # "")
  BY <1>2, <1>4 DEF PresencePktUser
<1>5. CASE IsPresence(p) /\ match
  <2>1. r \in Resources
    BY <1>1, <1>5
  <2>2. Keeps(w, v, n)
    <3>1. CASE p.err
      <4>1. p.from[1] \in Known /\ (p.from[1] \in Peers => p.from[1] \in bounced[r])
        BY <1>5, <3>1 DEF Comes
      <4>2. Quiet(w, r)
        BY <2>1 DEF AllQuiet
      <4> HIDE DEF r
      <4>3. Ok(PresError(w, r), n) /\ Same(w, PresError(w, r))
        BY <2>1, <4>1, <4>2, PresErrorOk
      <4>4. QED
        BY <1>2, <4>3 DEF Keeps
    <3>2. CASE ~p.err
      BY <1>2, <3>2
    <3>3. QED
      BY <3>1, <3>2
  <2>3. PresencePktUser(w) = Handled(v) \/ PresencePktUser(w) = Handled(x)
    BY <1>5 DEF PresencePktUser
  <2> HIDE DEF v, r
  <2>4. Ok(x, n) /\ Same(v, x)
    BY <1>1, <2>1, <2>2, PktSessOk DEF Keeps
  <2> HIDE DEF x
  <2>5. Keeps(w, x, n)
    BY <2>2, <2>4, KeepsOn DEF Keeps
  <2>6. Keeps(w, Handled(v), n) /\ Keeps(w, Handled(x), n)
    BY <2>2, <2>5, KeepsRets
  <2>7. QED
    BY <2>3, <2>6
<1>6. CASE IsPresence(p) /\ ~match /\ ~(p.err \/ r # "")
  <2> DEFINE y == PresIn(w)
  <2>1. PresencePktUser(w) = Handled(y)
    BY <1>6 DEF PresencePktUser
  <2>2. Keeps(w, y, n)
    BY PresInOk DEF Keeps, Ours
  <2> HIDE DEF y
  <2>3. QED
    BY <2>1, <2>2, KeepsRets
<1>7. QED
  BY <1>3, <1>4, <1>5, <1>6

LEMMA DiscoPktUserOk ==
    ASSUME NEW n, NEW w, Ok(w, n), Comes(w.pkt, n)
    PROVE  Keeps(w, DiscoPktUser(w), n)
<1>1. CASE Get(w.pkt, "disco-info") /\ w.pkt.to[2] = ""
  BY <1>1, ResultOk DEF DiscoPktUser, Get, Is
<1>2. CASE ~(Get(w.pkt, "disco-info") /\ w.pkt.to[2] = "")
  BY <1>2, KeepsSelf DEF DiscoPktUser
<1>3. QED
  BY <1>1, <1>2

LEMMA AmpPktUserOk ==
    ASSUME NEW n, NEW w, Ok(w, n), Comes(w.pkt, n)
    PROVE  Keeps(w, AmpPktUser(w), n)
<1> DEFINE p == w.pkt
           q == [Packet("message", "message", p.from, p.to) EXCEPT !.id = p.id, !.ns = "notice"]
           tell == Route(w, q)
           a == AmpAction(w)
<1>1. Keeps(w, tell, n)
  BY NoticeOk
<1>2. AmpPktUser(w) = IF ~IsMessage(p) THEN w
                      ELSE CASE a = "drop" -> Handled(w) [] a \in {"alert", "error"} -> Handled(tell)
                             [] a = "notify" -> tell [] OTHER -> w
  BY Zenon DEF AmpPktUser
<1> HIDE DEF tell, a
<1>3. AmpPktUser(w) \in {w, Handled(w), Handled(tell), tell}
  <2>1. CASE a = "drop" \/ a \in {"alert", "error"} \/ a = "notify"
    BY <1>2, <2>1
  <2>2. CASE ~(a = "drop" \/ a \in {"alert", "error"} \/ a = "notify")
    BY <1>2, <2>2
  <2>3. QED
    BY <2>1, <2>2
<1>4. Keeps(w, w, n) /\ Keeps(w, Handled(w), n) /\ Keeps(w, Handled(tell), n)
  BY <1>1, KeepsSelf, KeepsRets
<1>5. QED
  BY <1>1, <1>3, <1>4

LEMMA DeliverPktUserOk ==
    ASSUME NEW n, NEW w, Ok(w, n), Comes(w.pkt, n), w.pkt.to[1] = "user"
    PROVE  Keeps(w, DeliverPktUser(w), n)
<1> DEFINE p == w.pkt
           r == p.to[2]
           x == PktSess(w, p, r)
<1>1. p \in Pkt(n) /\ p.to \in Jids /\ r \in Resources \cup {""}
  BY PktParts, JidParts DEF Comes
<1>2. Keeps(w, w, n) /\ Keeps(w, Handled(w), n) /\ Keeps(w, Fails(w), n)
  BY KeepsSelf
<1>3. CASE r # "" /\ w.m.u.s[r].on
  <2>1. DeliverPktUser(w) = Handled(x)
    BY <1>3 DEF DeliverPktUser
  <2>2. r \in Resources
    BY <1>1, <1>3
  <2> HIDE DEF r
  <2>3. Keeps(w, x, n)
    BY <1>1, <2>2, PktSessOk DEF Keeps
  <2> HIDE DEF x
  <2>4. QED
    BY <2>1, <2>3, KeepsRets
<1>4. CASE ~(r # "" /\ w.m.u.s[r].on)
  <2>1. DeliverPktUser(w) \in {w, Handled(w), Fails(w)}
    <3>1. CASE r # "" /\ IsPresence(p)
      BY <1>4, <3>1 DEF DeliverPktUser
    <3>2. CASE r # "" /\ ~IsPresence(p) /\ IsIq(p)
      BY <1>4, <3>2 DEF DeliverPktUser
    <3>3. CASE r = "" \/ (~IsPresence(p) /\ ~IsIq(p))
      BY <1>4, <3>3 DEF DeliverPktUser
    <3>4. QED
      BY <3>1, <3>2, <3>3
  <2>2. QED
    BY <1>2, <2>1
<1>5. QED
  BY <1>3, <1>4

TopItems(u, p) ==
    LET gets(r) == /\ u.s[r].avail /\ u.s[r].pri >= 0
                   /\ Is(p, "headline") \/ u.s[r].pri >= u.s[u.top].pri
        copy(r) == Item(IF gets(r) THEN "sess" ELSE "none", r, Dup(p, Full(r), p.from))
    IN  [i \in DOMAIN u.order |-> copy(u.order[i])]

LEMMA ToTopOk ==
    ASSUME NEW n, NEW w, Ok(w, n)
    PROVE  Keeps(w, ToTop(w), n)
<1> DEFINE u == w.m.u
           p == w.pkt
           gets(r) == /\ u.s[r].avail /\ u.s[r].pri >= 0
                      /\ Is(p, "headline") \/ u.s[r].pri >= u.s[u.top].pri
           v(r) == IF gets(r) THEN "sess" ELSE "none"
           q == TopItems(u, p)
           l == Len(u.order)
<1>1. p \in Pkt(n) /\ p.from \in Jids /\ u.order \in Seq(Resources) /\ n \in Nat
  BY OkParts, PktParts
<1>2. ToTop(w) = PutAll(w, q)
  BY Zenon DEF ToTop, TopItems
<1>3. l \in Nat /\ DOMAIN u.order = 1..l
  BY <1>1
<1>4. q = [i \in 1..l |-> Item(v(u.order[i]), u.order[i], Dup(p, Full(u.order[i]), p.from))]
  BY <1>3 DEF TopItems
<1>5. \A r : v(r) \in {"sess", "none"}
  OBVIOUS
<1> HIDE DEF q, v, l
<1>6. DOMAIN q = 1..l /\ q = [i \in 1..l |-> q[i]]
  BY <1>4
<1>7. ASSUME NEW i \in 1..l PROVE ItemOk(q[i], u, n)
  <2> DEFINE r == u.order[i]
             d == Dup(p, Full(r), p.from)
             o == Item(v(r), r, d)
  <2>1. q[i] = o
    BY <1>4
  <2>2. r \in Resources
    BY <1>1, <1>3
  <2> HIDE DEF r
  <2>2a. Full(r) \in Jids
    BY <2>2, JidsIn
  <2>3. d \in Pkt(n)
    BY <1>1, <2>2a, DupIn
  <2> HIDE DEF d
  <2>4. v(r) = "sess" \/ v(r) = "none"
    BY <1>5
  <2>5. o \in Items(n) /\ o.via # "router" /\ o.r = r
    BY <2>2, <2>3, <2>4 DEF Item, Items
  <2> HIDE DEF o
  <2>6. ItemOk(o, u, n)
    BY <2>2, <2>5 DEF ItemOk
  <2>7. QED
    BY <2>1, <2>6
<1>8. ItemsOk(q, u, n)
  BY <1>3, <1>6, <1>7, MapOk
<1>9. Ok(PutAll(w, q), n) /\ Same(w, PutAll(w, q))
  BY <1>8, PutsOk
<1>10. QED
  BY <1>2, <1>9 DEF Keeps

LEMMA SaveOk ==
    ASSUME NEW n, NEW w, Ok(w, n)
    PROVE  Keeps(w, Save(w), n)
<1> DEFINE q == Append(w.m.spool, w.pkt)
           x == Spooled(w, q)
<1>1. w.pkt \in Pkt(n) /\ w.m.spool \in Seq(Pkt(n))
  BY OkParts
<1>2. q \in Seq(Pkt(n))
  BY <1>1
<1>3. Save(w) \in {Handled(w), Fails(w), Handled(x)}
  BY DEF Save, Spooled
<1> HIDE DEF q
<1>4. Keeps(w, x, n)
  BY <1>2, SpoolSet DEF Keeps
<1> HIDE DEF x
<1>5. Keeps(w, Handled(w), n) /\ Keeps(w, Fails(w), n) /\ Keeps(w, Handled(x), n)
  BY <1>4, KeepsSelf, KeepsRets
<1>6. QED
  BY <1>3, <1>5

LEMMA OfflineEventOk ==
    ASSUME NEW n, NEW w, Ok(w, n), Comes(w.pkt, n)
    PROVE  Keeps(w, OfflineEvent(w), n)
<1> DEFINE q == [Packet("message", "message", w.pkt.from, w.pkt.to) EXCEPT !.id = w.pkt.id, !.ns = "notice"]
           x == Route(w, q)
<1>1. OfflineEvent(w) \in {w, x}
  BY DEF OfflineEvent
<1>2. Keeps(w, x, n)
  BY NoticeOk
<1> HIDE DEF x
<1>3. QED
  BY <1>1, <1>2, KeepsSelf

LEMMA OfflinePktUserOk ==
    ASSUME NEW n, NEW w, Ok(w, n), Comes(w.pkt, n)
    PROVE  Keeps(w, OfflinePktUser(w), n)
<1> DEFINE t == ToTop(w)
           s == Save(w)
           e == OfflineEvent(s)
<1>1. OfflinePktUser(w) \in {w, Handled(t), Handled(w), e}
  <2> DEFINE p == w.pkt
             a == w.m.u.top # "" /\ (IsMessage(p) \/ IsS10n(p))
             keep == \/ IsMessage(p) /\ "dropmessages" \notin Offline
                     \/ IsS10n(p) /\ "dropsubscriptions" \notin Offline
             unfit == p.type = "groupchat" \/ (p.type = "headline" /\ "storeheadlines" \notin Offline)
  <2>1. OfflinePktUser(w) = CASE a -> Handled(t) [] ~a /\ keep -> (IF unfit THEN Handled(w) ELSE e) [] OTHER -> w
    BY Zenon DEF OfflinePktUser
  <2> HIDE DEF a, keep, unfit, t, e
  <2>2. QED
    BY <2>1
<1> HIDE DEF t
<1>2. Keeps(w, t, n) /\ Keeps(w, s, n)
  BY ToTopOk, SaveOk DEF t
<1>3. Keeps(w, e, n)
  <2> HIDE DEF s
  <2>1. Ok(s, n) /\ Comes(s.pkt, n)
    BY <1>2 DEF Keeps, Same
  <2>2. Keeps(s, e, n)
    BY <2>1, OfflineEventOk
  <2>3. QED
    BY <1>2, <2>2, KeepsOn
<1> HIDE DEF e
<1>4. Keeps(w, w, n) /\ Keeps(w, Handled(w), n) /\ Keeps(w, Handled(t), n)
  BY <1>2, KeepsSelf, KeepsRets
<1>5. QED
  BY <1>1, <1>3, <1>4

(* The pkt-user chain keeps the work state in order.                       *)
LEMMA PktUserOk ==
    ASSUME NEW n, NEW w, Ok(w, n), AllQuiet(w), Comes(w.pkt, n), w.pkt.to[1] = "user"
    PROVE  Keeps(w, PktUser(w), n)
<1> DEFINE o == Begin(w)
           a == PresencePktUser(o)
           b == IF Passes(a) THEN DiscoPktUser(a) ELSE a
           c == IF Passes(b) THEN AmpPktUser(b) ELSE b
           d == IF Passes(c) THEN DeliverPktUser(c) ELSE c
           e == IF Passes(d) THEN OfflinePktUser(d) ELSE d
           Fit(x) == Ok(x, n) /\ Comes(x.pkt, n) /\ x.pkt.to[1] = "user" /\ Keeps(w, x, n)
<1>0. PktUser(w) = e
  BY DEF PktUser, Then
<1>1. Fit(o) /\ AllQuiet(o)
  <2>1. Ok(o, n) /\ Same(w, o) /\ o.out = w.out
    BY RetsOk
  <2> HIDE DEF o
  <2>2. QED
    BY <2>1 DEF Same, AllQuiet, Quiet, Keeps
<1>2. \A x, y : Fit(x) /\ Keeps(x, y, n) => Fit(y)
  BY KeepsOn DEF Keeps, Same
<1>2a. \A x : Fit(x) => Keeps(x, x, n)
  BY KeepsSelf
<1>2b. \A x : Fit(x) => Ok(x, n) /\ Comes(x.pkt, n) /\ x.pkt.to[1] = "user" /\ Keeps(w, x, n)
  OBVIOUS
<1> HIDE DEF Fit, o
<1>3. Fit(a)
  <2>1. Keeps(o, a, n)
    BY <1>1, <1>2b, PresencePktUserOk
  <2>2. QED
    BY <1>1, <1>2, <2>1
<1> HIDE DEF a
<1>4. Fit(b)
  BY <1>2, <1>2b, <1>3, DiscoPktUserOk
<1> HIDE DEF b
<1>5. Fit(c)
  BY <1>2, <1>2b, <1>4, AmpPktUserOk
<1> HIDE DEF c
<1>6. Fit(d)
  BY <1>2, <1>2b, <1>5, DeliverPktUserOk
<1> HIDE DEF d
<1>7. Fit(e)
  BY <1>2, <1>2b, <1>6, OfflinePktUserOk
<1> HIDE DEF e
<1>8. QED
  BY <1>0, <1>2b, <1>7

LEMMA PresenceInRouterOk ==
    ASSUME NEW n, NEW w, Ok(w, n)
    PROVE  /\ Keeps(w, PresenceInRouter(w), n)
           /\ PresenceInRouter(w) = w \/ PresenceInRouter(w) = Handled(w)
  BY KeepsSelf DEF PresenceInRouter

(* What the dispatcher refuses goes back as an error.                      *)
LEMMA RouteErrorOk ==
    ASSUME NEW n, NEW w, Ok(w, n), Comes(w.pkt, n)
    PROVE  Keeps(w, RouteError(w), n) /\ Keeps(w, Refuse(w), n)
<1> DEFINE q == PktError(w.pkt)
           x == Route(w, q)
<1>1. RouteError(w) \in {w, x} /\ Refuse(w) \in {w, x}
  BY DEF RouteError, Refuse
<1>2. q \in Pkt(n) /\ q.from = w.pkt.to /\ q.err /\ q.elem = w.pkt.elem /\ (q.rerr <=> w.pkt.rerr)
  BY ErrorIn DEF Comes
<1> HIDE DEF q
<1>3. Keeps(w, x, n)
  <2>1. q.from[1] \in Ours /\ q.elem # "advert" /\ ~q.rerr /\ ~Is(q, "presence") /\ ~Is(q, "probe")
    BY <1>2 DEF Comes, Is
  <2>2. QED
    BY <1>2, <2>1, ReplyOk
<1> HIDE DEF x
<1>4. QED
  BY <1>1, <1>3, KeepsSelf

-----------------------------------------------------------------------------
(* Packets for the server                                                  *)

\* a packet from somebody else, for the server
ForServer(p, n) == Comes(p, n) /\ p.to[1] \in {"host", "sm"}

LEMMA IqPktSmOk ==
    ASSUME NEW n, NEW w, Ok(w, n), ForServer(w.pkt, n)
    PROVE  Keeps(w, IqPktSm(w), n)
<1>1. CASE \E ns \in {"ping", "time", "version"} : Get(w.pkt, ns)
  BY <1>1, ResultOk DEF IqPktSm, Get, Is, ForServer
<1>2. CASE ~(\E ns \in {"ping", "time", "version"} : Get(w.pkt, ns))
  BY <1>2, KeepsSelf DEF IqPktSm
<1>3. QED
  BY <1>1, <1>2

LEMMA AmpPktSmOk ==
    ASSUME NEW n, NEW w, Ok(w, n), ForServer(w.pkt, n)
    PROVE  Keeps(w, AmpPktSm(w), n)
<1>1. CASE Get(w.pkt, "disco-info") /\ w.pkt.node = "amp"
  BY <1>1, ResultOk DEF AmpPktSm, Get, Is, ForServer
<1>2. CASE ~(Get(w.pkt, "disco-info") /\ w.pkt.node = "amp")
  BY <1>2, KeepsSelf DEF AmpPktSm
<1>3. QED
  BY <1>1, <1>2

(* What is known of the services changes, and nothing else.                *)
LEMMA GeneratedIs ==
    ASSUME NEW n, NEW w, Ok(w, n), NEW d
    PROVE  LET x == Generated(SetDyn(w, d))
           IN  x.m.dyn = d /\ x.m.u = w.m.u
<1>1. w \in WorkSet(n) /\ w.m \in Mgr(n)
  BY OkParts
<1>2. QED
  BY <1>1 DEF Generated, SetDyn, WorkSet, Mgr

LEMMA PopulateOk ==
    ASSUME NEW n, NEW w, Ok(w, n), w.pkt.from[1] \in Services => w.pkt.from[1] \in online
    PROVE  Keeps(w, Populate(w), n) /\ Populate(w).m.u = w.m.u /\ ~Passes(Populate(w))
<1> DEFINE c == w.pkt.from[1]
           d == w.m.dyn \cup {c}
           x == Generated(SetDyn(w, d))
           bare == c \in Bare /\ w.pkt.from[2] = ""
<1>1. w.m \in Mgr(n) /\ w \in WorkSet(n) /\ w.m.dyn \subseteq Bare /\ w.m.dyn \cap Services \subseteq online
  BY OkParts DEF Ok, DiscoOk, Mgr
<1>2. Handled(w).m = w.m /\ Fails(w).m = w.m /\ ~Passes(Handled(w)) /\ ~Passes(Fails(w))
  BY RetsOk
<1>3. CASE ~bare \/ w.pkt.node = "bad"
  <2>1. Populate(w) = Fails(w)
    BY <1>3 DEF Populate
  <2>2. QED
    BY <1>2, <2>1, KeepsSelf
<1>4. CASE bare /\ w.pkt.node # "bad" /\ w.pkt.node = "im"
  <2>1. Populate(w) = Handled(w)
    BY <1>4 DEF Populate
  <2>2. QED
    BY <1>2, <2>1, KeepsSelf
<1>5. CASE bare /\ w.pkt.node # "bad" /\ w.pkt.node # "im"
  <2>1. Populate(w) = Handled(x)
    BY <1>5 DEF Populate, SetDyn
  <2>2. d \subseteq Bare /\ d \cap Services \subseteq online
    BY <1>1, <1>5
  <2> HIDE DEF d
  <2>3. Keeps(w, x, n) /\ x.m.u = w.m.u
    BY <2>2, GeneratedOk, GeneratedIs DEF Keeps
  <2> HIDE DEF x
  <2>4. Keeps(w, Handled(x), n) /\ Handled(x).m = x.m /\ ~Passes(Handled(x))
    BY <2>3, KeepsRets, RetsOk DEF Keeps
  <2>5. QED
    BY <2>1, <2>3, <2>4
<1>6. QED
  BY <1>3, <1>4, <1>5

LEMMA DiscoPktSmOk ==
    ASSUME NEW n, NEW w, Ok(w, n), ForServer(w.pkt, n)
    PROVE  Keeps(w, DiscoPktSm(w), n)
<1> DEFINE p == w.pkt
           k == Cached(w)
           x == Handled(Route(k, Swap(Result(p))))
           info == Is(p, "result") /\ p.ns = "disco-info"
           asks == \E ns \in {"disco-info", "disco-items", "agents"} : Get(p, ns)
           known == p.node = "" \/ p.ns = "agents" \/ (p.node = "sessions" /\ p.from[1] \in Admins)
           b == p.to[1] = "host"
<1>1. DiscoPktSm(w) = CASE info -> Populate(w)
                        [] ~info /\ ~b -> Fails(w)
                        [] asks /\ b -> (IF known THEN x ELSE Fails(k))
                        [] OTHER -> w
  BY Zenon DEF DiscoPktSm
<1>2. Keeps(w, Populate(w), n)
  BY PopulateOk DEF ForServer, Comes
<1>3. asks => Keeps(w, x, n)
  <2> SUFFICES ASSUME asks PROVE Keeps(w, x, n)
    OBVIOUS
  <2>1. p.type = "get"
    BY DEF Get, Is
  <2>2. Keeps(w, k, n)
    BY CachedOk DEF Keeps
  <2> HIDE DEF k
  <2>3. Ok(k, n) /\ k.pkt = p
    BY <2>2 DEF Keeps, Same
  <2> DEFINE y == Handled(Route(k, Swap(Result(k.pkt))))
  <2>4. Keeps(k, y, n)
    BY <2>1, <2>3, ResultOk DEF ForServer
  <2>5. y = x
    BY <2>3
  <2> HIDE DEF y, x
  <2>6. QED
    BY <2>2, <2>4, <2>5, KeepsOn
<1>4. Keeps(w, w, n) /\ Keeps(w, Fails(w), n)
  BY KeepsSelf
<1>6. Keeps(w, Fails(k), n)
  <2>1. Keeps(w, k, n)
    BY CachedOk DEF Keeps
  <2> HIDE DEF k
  <2>2. QED
    BY <2>1, KeepsRets
<1> HIDE DEF info, asks, known, x, b, k
<1>5. QED
  BY <1>1, <1>2, <1>3, <1>4, <1>6

(* The server may say what it likes.                                       *)
LEMMA ServerSays ==
    ASSUME NEW n, NEW p, p \in Pkt(n), p.from[1] \in {"host", "sm"}, p.elem # "advert", ~p.rerr
    PROVE  /\ \A u : Writable(p, u, n)
           /\ \A w : Ok(w, n) => Keeps(w, Route(w, p), n)
<1>1. \A u : Writable(p, u, n)
  <2>1. \A r \in Resources : Full(r)[1] = "user"
    BY JidsIn
  <2>2. QED
    BY <2>1 DEF Writable, Tells, Ours
<1>2. QED
  BY <1>1, RouteOk DEF Keeps

LEMMA PresentOk ==
    ASSUME NEW n, NEW w, Ok(w, n), ForServer(w.pkt, n), NEW x, x \in {"help", "echo"}
    PROVE  Keeps(w, Present(w, x), n)
<1> DEFINE a == BareJid(w.pkt.from)
           b == <<w.pkt.to[1], x>>
<1>1. a \in Jids
  <2>1. w.pkt.from[1] \in Heads
    BY PktParts, JidParts DEF ForServer, Comes
  <2>2. QED
    BY <2>1, JidsIn DEF BareJid
<1>2. b \in Jids /\ b[1] \in {"host", "sm"}
  BY JidsIn DEF ForServer
<1> HIDE DEF a, b
<1> DEFINE q == Packet("presence", "presence", a, b)
           y == Route(w, q)
<1>3. Present(w, x) \in {w, y}
  BY DEF Present, a, b
<1>4. q \in Pkt(n) /\ q.from = b /\ q.elem # "advert" /\ ~q.rerr
  <2>1. "presence" \in PresTypes /\ n \in Nat
    BY OkParts DEF PresTypes
  <2>2. q \in Pkt(n) /\ q.from = b /\ q.elem = "presence" /\ ~q.rerr
    BY <1>1, <1>2, <2>1, PresenceIn
  <2>3. QED
    BY <2>2
<1> HIDE DEF q
<1>5. Keeps(w, y, n)
  BY <1>2, <1>4, ServerSays
<1> HIDE DEF y
<1>6. QED
  BY <1>3, <1>5, KeepsSelf

HelpItems(p) ==
    LET list == SetToSeq({a \in Admins : Jid(a) # p.from})
        copy(a) == Item("router", "", Dup(p, Jid(a), BareJid(p.to)))
    IN  [i \in DOMAIN list |-> copy(list[i])]

LEMMA HelpPktSmOk ==
    ASSUME NEW n, NEW w, Ok(w, n), ForServer(w.pkt, n)
    PROVE  Keeps(w, HelpPktSm(w), n)
<1> DEFINE p == w.pkt
           u == w.m.u
           cs == {a \in Admins : Jid(a) # p.from}
           list == SetToSeq(cs)
           l == Len(list)
           b == BareJid(p.to)
           q == HelpItems(p)
           t == IsMessage(p) /\ p.to[2] \in {"", "help"}
<1>1. HelpPktSm(w) = IF t THEN Handled(PutAll(w, q)) ELSE Present(w, "help")
  BY Zenon DEF HelpPktSm, HelpItems
<1>2. p \in Pkt(n) /\ p.elem # "advert" /\ ~p.rerr
  BY DEF ForServer, Comes
<1>3. b \in Jids /\ b[1] \in {"host", "sm"}
  <2>1. p.to[1] \in Heads /\ p.to[1] \in {"host", "sm"}
    BY <1>2, PktParts, JidParts DEF ForServer
  <2>2. QED
    BY <2>1, JidsIn DEF BareJid
<1>4. list \in Seq(cs)
  <2>1. IsFiniteSet(Peers) /\ cs \subseteq Peers
    BY ManagerAssumption
  <2>2. IsFiniteSet(cs)
    BY <2>1, FS_Subset
  <2>3. QED
    BY <2>2, SetSeq
<1>5. q = [i \in DOMAIN list |-> Item("router", "", Dup(p, Jid(list[i]), b))]
  BY DEF HelpItems
<1>6. cs \subseteq Heads
  BY ManagerAssumption DEF Heads, Known
<1> HIDE DEF list, q, b, cs, t
<1>7. l \in Nat /\ DOMAIN list = 1..l /\ \A i \in 1..l : list[i] \in Heads
  BY <1>4, <1>6
<1> HIDE DEF l
<1>8. DOMAIN q = 1..l /\ q = [i \in 1..l |-> q[i]]
  BY <1>5, <1>7
<1>9. ASSUME NEW i \in 1..l PROVE ItemOk(q[i], u, n)
  <2> DEFINE d == Dup(p, Jid(list[i]), b)
             o == Item("router", "", d)
  <2>1. q[i] = o
    BY <1>5, <1>7
  <2>2. Jid(list[i]) \in Jids
    BY <1>7, JidsIn
  <2>3. d \in Pkt(n) /\ d.from = b /\ Plain(d, p)
    BY <1>2, <1>3, <2>2, DupIn
  <2> HIDE DEF d
  <2>4. Writable(d, u, n)
    BY <1>2, <1>3, <2>3, ServerSays DEF Plain
  <2>5. o \in Items(n) /\ o.via = "router" /\ o.p = d
    BY <2>3 DEF Item, Items
  <2> HIDE DEF o
  <2>6. QED
    BY <2>1, <2>4, <2>5 DEF ItemOk
<1>10. ItemsOk(q, u, n)
  BY <1>7, <1>8, <1>9, MapOk
<1> DEFINE x == PutAll(w, q)
<1>11. Keeps(w, x, n)
  BY <1>10, PutsOk DEF Keeps
<1> HIDE DEF x
<1>12. Keeps(w, Handled(x), n) /\ Keeps(w, Present(w, "help"), n)
  BY <1>11, KeepsRets, PresentOk
<1>13. QED
  BY <1>1, <1>12 DEF x

LEMMA EchoPktSmOk ==
    ASSUME NEW n, NEW w, Ok(w, n), ForServer(w.pkt, n)
    PROVE  Keeps(w, EchoPktSm(w), n)
<1> DEFINE q == Swap(w.pkt)
           x == Route(w, q)
<1>1. EchoPktSm(w) \in {Handled(x), Present(w, "echo")}
  BY DEF EchoPktSm
<1>2. q \in Pkt(n) /\ q.from = w.pkt.to /\ Plain(q, w.pkt)
  BY SwapIn DEF ForServer, Comes
<1> HIDE DEF q
<1>3. Keeps(w, x, n)
  BY <1>2, ServerSays DEF ForServer, Comes, Plain
<1> HIDE DEF x
<1>4. Keeps(w, Handled(x), n) /\ Keeps(w, Present(w, "echo"), n)
  BY <1>3, KeepsRets, PresentOk
<1>5. QED
  BY <1>1, <1>4

LEMMA PresencePktSmOk ==
    ASSUME NEW n, NEW w, Ok(w, n), ForServer(w.pkt, n)
    PROVE  Keeps(w, PresencePktSm(w), n)
<1> DEFINE p == w.pkt
           a == BareJid(p.from)
           b == BareJid(p.to)
<1>1. a \in Jids /\ b \in Jids /\ b[1] \in {"host", "sm"}
  <2>1. p.from[1] \in Heads /\ p.to[1] \in Heads /\ p.to[1] \in {"host", "sm"}
    BY PktParts, JidParts DEF ForServer, Comes
  <2>2. QED
    BY <2>1, JidsIn DEF BareJid
<1> HIDE DEF a, b
<1> DEFINE say(v, t) == Route(v, Packet("presence", t, a, b))
           x == say(w, "subscribed")
           y == say(x, "subscribe")
           z == say(w, "unsubscribed")
           e == p.elem = "presence"
<1>2. PresencePktSm(w) \in {Handled(y), Handled(z), Handled(w), w}
  <2>1. PresencePktSm(w) = CASE Is(p, "subscribe") -> Handled(y)
                             [] Is(p, "unsubscribe") -> Handled(z)
                             [] ~Is(p, "subscribe") /\ ~Is(p, "unsubscribe") /\ e -> Handled(w)
                             [] OTHER -> w
    BY Zenon DEF PresencePktSm, a, b
  <2>2. Is(p, "unsubscribe") => ~Is(p, "subscribe")
    BY DEF Is
  <2> HIDE DEF x, y, z, e
  <2>3. QED
    BY <2>1, <2>2
<1>3. \A t \in PresTypes : \A v : Ok(v, n) => Keeps(v, say(v, t), n)
  <2> TAKE t \in PresTypes
  <2> TAKE v
  <2> HAVE Ok(v, n)
  <2> DEFINE q == Packet("presence", t, a, b)
  <2>1. n \in Nat
    BY OkParts
  <2>2. q \in Pkt(n) /\ q.from = b /\ q.elem = "presence" /\ ~q.rerr
    BY <1>1, <2>1, PresenceIn
  <2> HIDE DEF q
  <2>3. Keeps(v, Route(v, q), n)
    BY <1>1, <2>2, ServerSays
  <2>4. QED
    BY <2>3 DEF q
<1>4. "subscribed" \in PresTypes /\ "subscribe" \in PresTypes /\ "unsubscribed" \in PresTypes
  BY DEF PresTypes
<1> HIDE DEF say
<1>5. Keeps(w, x, n) /\ Keeps(w, z, n)
  BY <1>3, <1>4
<1>6. Keeps(x, y, n)
  BY <1>3, <1>4, <1>5 DEF Keeps
<1>7. Keeps(w, y, n)
  BY <1>5, <1>6, KeepsOn
<1> HIDE DEF x, y, z
<1>8. Keeps(w, Handled(y), n) /\ Keeps(w, Handled(z), n) /\ Keeps(w, Handled(w), n) /\ Keeps(w, w, n)
  BY <1>5, <1>7, KeepsRets, KeepsSelf
<1>9. QED
  BY <1>2, <1>8

(* The pkt-sm chain keeps the work state in order.                         *)
LEMMA PktSmOk ==
    ASSUME NEW n, NEW w, Ok(w, n), ForServer(w.pkt, n)
    PROVE  Keeps(w, PktSm(w), n)
<1> DEFINE o == Begin(w)
           a == IqPktSm(o)
           b == IF Passes(a) THEN AmpPktSm(a) ELSE a
           c == IF Passes(b) THEN DiscoPktSm(b) ELSE b
           d == IF Passes(c) THEN HelpPktSm(c) ELSE c
           e == IF Passes(d) THEN EchoPktSm(d) ELSE d
           f == IF Passes(e) THEN PresencePktSm(e) ELSE e
           Fit(x) == Ok(x, n) /\ ForServer(x.pkt, n) /\ Keeps(w, x, n)
<1>0. PktSm(w) = f
  BY DEF PktSm, Then
<1>1. Fit(o)
  <2>1. Ok(o, n) /\ Same(w, o)
    BY RetsOk
  <2> HIDE DEF o
  <2>2. QED
    BY <2>1 DEF Same, Keeps
<1>2. \A x, y : Fit(x) /\ Keeps(x, y, n) => Fit(y)
  BY KeepsOn DEF Keeps, Same
<1>3. \A x : Fit(x) => Ok(x, n) /\ ForServer(x.pkt, n) /\ Keeps(w, x, n)
  OBVIOUS
<1> HIDE DEF Fit, o
<1>4. Fit(a)
  BY <1>1, <1>2, <1>3, IqPktSmOk
<1> HIDE DEF a
<1>5. Fit(b)
  BY <1>2, <1>3, <1>4, AmpPktSmOk
<1> HIDE DEF b
<1>6. Fit(c)
  BY <1>2, <1>3, <1>5, DiscoPktSmOk
<1> HIDE DEF c
<1>7. Fit(d)
  BY <1>2, <1>3, <1>6, HelpPktSmOk
<1> HIDE DEF d
<1>8. Fit(e)
  BY <1>2, <1>3, <1>7, EchoPktSmOk
<1> HIDE DEF e
<1>9. Fit(f)
  BY <1>2, <1>3, <1>8, PresencePktSmOk
<1> HIDE DEF f
<1>10. QED
  BY <1>0, <1>3, <1>9

-----------------------------------------------------------------------------
(* The dispatcher                                                          *)

\* a component came online or went
Advert(p, n) ==
    /\ p \in Pkt(n) /\ p.elem = "advert" /\ p.sess = "" /\ ~p.rerr /\ p.from[1] \in Services \cup {"c2s"}
    /\ p.type \in {"presence", "unavailable"}

LEMMA AskIn ==
    ASSUME NEW n, n \in Nat, NEW c, c \in Heads
    PROVE  LET q == [Packet("iq", "get", Jid(c), SmId) EXCEPT !.ns = "disco-info"]
           IN  q \in Pkt(n) /\ q.from[1] = "sm" /\ q.elem # "advert" /\ ~q.rerr
<1> DEFINE k == Packet("iq", "get", Jid(c), SmId)
           q == [k EXCEPT !.ns = "disco-info"]
<1>1. k \in Pkt(n)
  <2>1. "iq" \in Elems /\ "get" \in Types /\ "iq" # "presence"
    BY DEF Elems, Types
  <2>2. QED
    BY <2>1, JidsIn, PacketIn
<1>2. k.elem = "iq" /\ k.from = SmId /\ ~k.rerr
  BY DEF Packet
<1> HIDE DEF k
<1>3. q \in PktRec(n) /\ q.elem = "iq" /\ q.from = SmId /\ ~q.rerr
  <2>1. k \in PktRec(n) /\ "disco-info" \in Namespaces
    BY <1>1, PktParts DEF Namespaces
  <2>2. QED
    BY <1>2, <2>1 DEF PktRec
<1> HIDE DEF q
<1>4. q \in Pkt(n)
  BY <1>3 DEF Pkt, PktRec
<1>5. QED
  BY <1>3, <1>4, JidsIn DEF q, k

LEMMA DiscoPktRouterOk ==
    ASSUME NEW n, NEW w, Ok(w, n), Advert(w.pkt, n)
    PROVE  LET v == DiscoPktRouter(w)
           IN  Keeps(w, v, n) /\ (w.pkt.type = "unavailable" => w.pkt.from[1] \notin v.m.dyn)
<1> DEFINE p == w.pkt
           c == p.from[1]
           ask == [Packet("iq", "get", Jid(c), SmId) EXCEPT !.ns = "disco-info"]
           y == Route(w, ask)
           d == w.m.dyn \ {c}
           x == Generated(SetDyn(w, d))
<1>1. w.m \in Mgr(n) /\ w \in WorkSet(n) /\ w.m.dyn \subseteq Bare /\ w.m.dyn \cap Services \subseteq online /\ n \in Nat
  BY OkParts DEF Ok, DiscoOk, Mgr
<1>2. CASE p.type = "presence"
  <2>1. DiscoPktRouter(w) = Handled(y)
    BY <1>2 DEF DiscoPktRouter
  <2>2. c \in Heads
    BY DEF Advert, Heads
  <2> HIDE DEF c
  <2>3. ask \in Pkt(n) /\ ask.from[1] = "sm" /\ ask.elem # "advert" /\ ~ask.rerr
    BY <1>1, <2>2, AskIn
  <2> HIDE DEF ask
  <2>4. Keeps(w, y, n)
    BY <2>3, ServerSays
  <2> HIDE DEF y
  <2>5. QED
    BY <1>2, <2>1, <2>4, KeepsRets DEF y, ask, c
<1>3. CASE p.type = "unavailable" /\ c \in w.m.dyn
  <2>1. DiscoPktRouter(w) = Handled(x)
    BY <1>3 DEF DiscoPktRouter, SetDyn
  <2>2. d \subseteq Bare /\ d \cap Services \subseteq online /\ c \notin d
    BY <1>1
  <2> HIDE DEF d
  <2>3. Keeps(w, x, n) /\ x.m.dyn = d
    BY <2>2, GeneratedOk, GeneratedIs DEF Keeps
  <2> HIDE DEF x
  <2>4. Keeps(w, Handled(x), n) /\ Handled(x).m = x.m
    BY <2>3, KeepsRets, RetsOk DEF Keeps
  <2>5. QED
    BY <2>1, <2>2, <2>3, <2>4
<1>4. CASE p.type # "presence" /\ c \notin w.m.dyn
  <2>1. DiscoPktRouter(w) = Handled(w)
    BY <1>4 DEF DiscoPktRouter
  <2>2. Handled(w).m = w.m
    BY RetsOk
  <2>3. QED
    BY <1>4, <2>1, <2>2, KeepsSelf
<1>5. QED
  BY <1>2, <1>3, <1>4 DEF Advert

(* Past the in-router chain.                                               *)
LEMMA DeliverOk ==
    ASSUME NEW n, NEW w, Ok(w, n), AllQuiet(w), Settled(w.m.u), Comes(w.pkt, n), w.pkt.from # NoJid
    PROVE  Ok(Deliver(w), n) /\ Settled(Deliver(w).m.u)
<1>0. \A v : Keeps(w, v, n) => Ok(v, n) /\ Settled(v.m.u)
  BY SettledSame DEF Keeps, Same
<1>1. w.pkt.to # NoJid
  <2>1. w.pkt.to[1] \in Ours /\ NoJid[1] = ""
    BY JidsIn DEF Comes
  <2>2. QED
    BY <2>1 DEF Ours
<1>2. CASE w.ret # "PASS"
  <2>1. Deliver(w) \in {RouteError(w), w}
    BY <1>2 DEF Deliver
  <2>2. Keeps(w, RouteError(w), n) /\ Keeps(w, w, n)
    BY RouteErrorOk, KeepsSelf
  <2>3. QED
    BY <1>0, <2>1, <2>2
<1>3. CASE w.ret = "PASS" /\ w.pkt.to[1] \in {"host", "sm"}
  <2> DEFINE v == PktSm(w)
             x == Refuse(v)
  <2>1. Deliver(w) = x
    BY <1>1, <1>3 DEF Deliver
  <2>2. Keeps(w, v, n)
    BY <1>3, PktSmOk DEF ForServer
  <2> HIDE DEF v
  <2>3. Keeps(v, x, n)
    BY <2>2, RouteErrorOk DEF Keeps, Same
  <2> HIDE DEF x
  <2>4. Keeps(w, x, n)
    BY <2>2, <2>3, KeepsOn
  <2>5. QED
    BY <1>0, <2>1, <2>4
<1>4. CASE w.ret = "PASS" /\ w.pkt.to[1] = "user"
  <2> DEFINE l == UserLoad(w)
             v == PktUser(l)
             x == Refuse(v)
             y == UserFree(x)
  <2>1. Deliver(w) = y
    BY <1>1, <1>4 DEF Deliver
  <2>2. Ok(l, n) /\ l.pkt = w.pkt /\ l.out = w.out
    BY UserLoadOk
  <2> HIDE DEF l
  <2>3. AllQuiet(l)
    BY <2>2 DEF AllQuiet, Quiet
  <2>4. Keeps(l, v, n)
    BY <1>4, <2>2, <2>3, PktUserOk
  <2> HIDE DEF v
  <2>5. Keeps(v, x, n)
    BY <2>2, <2>4, RouteErrorOk DEF Keeps, Same
  <2> HIDE DEF x
  <2>6. Ok(y, n) /\ Settled(y.m.u)
    BY <2>5, UserFreeOk DEF Keeps
  <2> HIDE DEF y
  <2>7. QED
    BY <2>1, <2>6
<1>5. QED
  BY <1>2, <1>3, <1>4 DEF Comes, Ours

\* a packet that the router returned to its sender
Returned(p, n) ==
    /\ p \in Pkt(n) /\ p.elem # "advert" /\ p.rerr /\ p.from[1] \in Ours /\ p.to[1] \in Peers
    /\ ~p.err /\ IsPresence(p) /\ p.from[1] = "user" /\ p.from[2] # "" => p.to[1] \in bounced[p.from[2]]

LEMMA ReturnedComes ==
    ASSUME NEW n, NEW p, Returned(p, n), ~p.err
    PROVE  LET q == [PktError(p) EXCEPT !.rerr = FALSE]
           IN  Comes(q, n) /\ q.from # NoJid /\ q.sess = p.sess
<1> DEFINE k == PktError(p)
           q == [k EXCEPT !.rerr = FALSE]
<1>1. k \in Pkt(n) /\ k.to = p.from /\ k.from = p.to /\ k.type = p.type /\ k.err /\ k.elem = p.elem /\ k.sess = p.sess
  BY ErrorIn DEF Returned
<1> HIDE DEF k
<1>2. /\ q \in PktRec(n) /\ q.to = k.to /\ q.from = k.from /\ q.type = k.type /\ (q.err <=> k.err) /\ q.elem = k.elem
      /\ q.sess = k.sess /\ ~q.rerr
  <2>1. k \in PktRec(n)
    BY <1>1, PktParts
  <2>2. QED
    BY <2>1 DEF PktRec
<1> HIDE DEF q
<1>3. q \in Pkt(n)
  BY <1>1, <1>2 DEF Pkt, PktRec
<1>4. p.to[1] \in Peers /\ p.to[1] \in Known /\ p.to[1] \notin Services /\ p.to[1] # ""
  BY ManagerAssumption DEF Returned, Known
<1>5. (IsPresence(q) /\ q.to[1] = "user" /\ q.to[2] # "" => q.from[1] \in bounced[q.to[2]])
  BY <1>1, <1>2 DEF Returned, IsPresence
<1>6. Comes(q, n)
  BY <1>1, <1>2, <1>3, <1>4, <1>5 DEF Returned, Comes
<1>7. QED
  <2>1. q.sess = p.sess /\ q.from = p.to
    BY <1>1, <1>2
  <2>2. q.from # NoJid
    BY <1>4, <2>1, JidsIn
  <2>3. QED
    BY <1>6, <2>1, <2>2 DEF q, k

\* what the dispatcher is given
Arrives(p, w, n) ==
    \/ p.sess # "" /\ p.elem # "advert" /\ ~p.rerr /\ ForSession(w, n)
    \/ p.sess = "" /\ Comes(p, n) /\ p.from # NoJid
    \/ p.sess = "" /\ Returned(p, n)

LEMMA InRouterOk ==
    ASSUME NEW n, NEW w, Ok(w, n), AllQuiet(w), Settled(w.m.u), w.pkt.sess = "", w.ret = "PASS"
    PROVE  LET v == InRouter(w)
           IN  Keeps(w, v, n) /\ AllQuiet(v) /\ v.m = w.m
<1>1. SessionInRouter(w) = w /\ Passes(w)
  BY DEF SessionInRouter, Passes
<1>2. ValidateInSess(w, "") \in {w, Fails(w)}
  BY DEF ValidateInSess
<1>3. ~Passes(Fails(w)) /\ Fails(w).m = w.m /\ Fails(w).out = w.out /\ Handled(w).m = w.m /\ Handled(w).out = w.out
  BY RetsOk
<1>4. InRouter(w) \in {w, Fails(w), Handled(w)}
  BY <1>1, <1>2, <1>3, PresenceInRouterOk DEF InRouter, Then
<1>5. QED
  BY <1>3, <1>4, KeepsSelf DEF AllQuiet, Quiet

(* Whatever arrives, the dispatcher leaves everything in order.            *)
LEMMA DispatchOk ==
    ASSUME NEW n, NEW w, Ok(w, n), AllQuiet(w), Settled(w.m.u), w.ret = "PASS", Arrives(w.pkt, w, n)
    PROVE  Ok(Dispatch(w), n) /\ Settled(Dispatch(w).m.u)
<1> DEFINE p == w.pkt
<1>1. CASE p.sess # "" /\ p.elem # "advert" /\ ~p.rerr /\ ForSession(w, n)
  <2> DEFINE a == SessionInRouter(w)
             v == InRouter(w)
  <2>1. Dispatch(w) = Deliver(v)
    BY <1>1 DEF Dispatch
  <2>2. Ok(a, n) /\ Settled(a.m.u) /\ a.ret = "HANDLED"
    BY <1>1, SessionInRouterOk
  <2>3. v = a
    BY <2>2 DEF InRouter, Passes, Then
  <2> HIDE DEF a, v
  <2>4. Deliver(v) = v
    BY <2>2, <2>3 DEF Deliver
  <2>5. QED
    BY <2>1, <2>2, <2>3, <2>4
<1>2. CASE p.sess = "" /\ Comes(p, n) /\ p.from # NoJid
  <2> DEFINE v == InRouter(w)
  <2>1. Dispatch(w) = Deliver(v)
    BY <1>2 DEF Dispatch, Comes
  <2>2. Keeps(w, v, n) /\ AllQuiet(v) /\ v.m = w.m
    BY <1>2, InRouterOk
  <2> HIDE DEF v
  <2>3. Ok(v, n) /\ Settled(v.m.u) /\ v.pkt = p
    BY <2>2 DEF Keeps, Same
  <2>4. Ok(Deliver(v), n) /\ Settled(Deliver(v).m.u)
    BY <1>2, <2>2, <2>3, DeliverOk
  <2>5. QED
    BY <2>1, <2>4
<1>3. CASE p.sess = "" /\ Returned(p, n) /\ p.err
  <2>1. Dispatch(w) = w
    BY <1>3 DEF Dispatch, Returned
  <2>2. QED
    BY <2>1
<1>4. CASE p.sess = "" /\ Returned(p, n) /\ ~p.err
  <2> DEFINE q == [PktError(p) EXCEPT !.rerr = FALSE]
             x == [w EXCEPT !.pkt = q]
             v == InRouter(x)
  <2>1. Dispatch(w) = Deliver(v)
    <3>1. Dispatch(w) = Deliver(InRouter([w EXCEPT !.pkt = [PktError(@) EXCEPT !.rerr = FALSE]]))
      BY <1>4 DEF Dispatch, Returned
    <3>2. QED
      BY <3>1
  <2>2. Comes(q, n) /\ q.from # NoJid /\ q.sess = ""
    BY <1>4, ReturnedComes
  <2> HIDE DEF q
  <2>3. q \in Pkt(n)
    BY <2>2 DEF Comes
  <2>4. Ok(x, n) /\ x.pkt = q /\ x.m = w.m /\ x.out = w.out /\ x.ret = w.ret
    BY <2>3, PktSet
  <2> HIDE DEF x
  <2>5. AllQuiet(x) /\ Settled(x.m.u)
    BY <2>4 DEF AllQuiet, Quiet
  <2>6. Keeps(x, v, n) /\ AllQuiet(v) /\ v.m = x.m
    BY <2>2, <2>4, <2>5, InRouterOk
  <2> HIDE DEF v
  <2>7. Ok(v, n) /\ Settled(v.m.u) /\ v.pkt = q
    BY <2>4, <2>5, <2>6 DEF Keeps, Same
  <2>8. Ok(Deliver(v), n) /\ Settled(Deliver(v).m.u)
    BY <2>2, <2>6, <2>7, DeliverOk
  <2>9. QED
    BY <2>1, <2>8
<1>5. QED
  BY <1>1, <1>2, <1>3, <1>4 DEF Arrives

(* What comes of a component that came online or went: the manager forgets *)
(* one that went, and ends the sessions of a c2s that did.                 *)
LEMMA AdvertOk ==
    ASSUME NEW n, NEW w, Ok(w, n), AllQuiet(w), Settled(w.m.u), Advert(w.pkt, n)
    PROVE  LET v == Dispatch(w)
           IN  /\ Ok(v, n) /\ Settled(v.m.u)
               /\ w.pkt.type = "unavailable" => w.pkt.from[1] \notin v.m.dyn
<1> DEFINE x == SessionPktRouter(w)
           v == DiscoPktRouter(x)
<1>1. Dispatch(w) = v
  BY DEF Dispatch, Advert
<1>2. Ok(x, n) /\ Settled(x.m.u) /\ x.pkt = w.pkt
  BY SessionPktRouterOk
<1> HIDE DEF x
<1>3. Keeps(x, v, n) /\ (x.pkt.type = "unavailable" => x.pkt.from[1] \notin v.m.dyn)
  BY <1>2, DiscoPktRouterOk
<1> HIDE DEF v
<1>4. Settled(v.m.u)
  BY <1>2, <1>3, SettledSame DEF Keeps, Same
<1>5. QED
  BY <1>1, <1>2, <1>3, <1>4 DEF Keeps

\* a service describes itself
Answer(p, n) ==
    /\ p \in Pkt(n) /\ p.elem = "iq" /\ p.type = "result" /\ ~p.err /\ ~p.rerr /\ p.ns = "disco-info" /\ p.sess = ""
    /\ p.to = SmId /\ p.from[1] \in Services /\ p.from[1] \in online

(* What a service says of itself changes nothing about the user.           *)
LEMMA AnswerOk ==
    ASSUME NEW n, NEW w, Ok(w, n), w.ret = "PASS", Answer(w.pkt, n)
    PROVE  Keeps(w, Dispatch(w), n) /\ Dispatch(w).m.u = w.m.u
<1> DEFINE p == w.pkt
           o == Begin(w)
           x == Populate(o)
<1>1. ForServer(p, n) /\ p.from # NoJid /\ p.to # NoJid /\ p.to[1] = "sm"
  <2>1. p.to[1] = "sm" /\ p.to # NoJid
    <3>1. SmId[1] = "sm" /\ NoJid[1] = ""
      BY JidsIn
    <3>2. QED
      BY <3>1 DEF Answer
  <2>2. p.from # NoJid
    <3>1. "" \notin Services /\ NoJid[1] = ""
      BY ManagerAssumption, JidsIn
    <3>2. QED
      BY <3>1 DEF Answer
  <2>3. QED
    BY <2>1, <2>2 DEF Answer, ForServer, Comes, Ours, IsPresence
<1>2. InRouter(w) = w
  <2>1. SessionInRouter(w) = w
    BY DEF SessionInRouter, Answer
  <2>2. ValidateInSess(w, "") = w
    BY DEF ValidateInSess, Answer
  <2>3. PresenceInRouter(w) = w
    BY DEF PresenceInRouter, IsPresence, Answer
  <2>4. QED
    BY <2>1, <2>2, <2>3 DEF InRouter, Then
<1>3. Ok(o, n) /\ o.pkt = p /\ o.m = w.m /\ Keeps(w, o, n) /\ Passes(o)
  BY RetsOk DEF Same, Keeps
<1> HIDE DEF o
<1>4. IqPktSm(o) = o /\ AmpPktSm(o) = o /\ DiscoPktSm(o) = x
  BY <1>3 DEF IqPktSm, AmpPktSm, DiscoPktSm, Get, Is, Answer
<1>5. Keeps(o, x, n) /\ x.m.u = o.m.u /\ ~Passes(x)
  BY <1>3, PopulateOk DEF Answer
<1> HIDE DEF x
<1>6. PktSm(w) = x
  BY <1>3, <1>4, <1>5 DEF PktSm, o, Then
<1>7. Dispatch(w) = Refuse(x)
  BY <1>1, <1>2, <1>6 DEF Dispatch, Deliver, Answer
<1>8. Keeps(w, x, n)
  BY <1>3, <1>5, KeepsOn
<1> DEFINE q == PktError(x.pkt)
           y == Route(x, q)
<1>9. Refuse(x) \in {x, y}
  BY DEF Refuse, RouteError
<1>10. Keeps(x, Refuse(x), n)
  BY <1>1, <1>8, RouteErrorOk DEF Keeps, Same, ForServer
<1>11. y.m = x.m
  <2>1. x \in WorkSet(n)
    BY <1>8, OkParts DEF Keeps
  <2> HIDE DEF q
  <2>2. QED
    BY <2>1 DEF Route, WorkSet
<1> HIDE DEF y
<1>12. Keeps(w, Refuse(x), n)
  BY <1>8, <1>10, KeepsOn
<1>13. QED
  BY <1>3, <1>5, <1>7, <1>9, <1>11, <1>12

-----------------------------------------------------------------------------
(* What the router makes of the packets written                            *)

\* a packet the router is about to return: for the server or the user, or
\* one that could not be delivered to a peer
Waits(p, b) ==
    /\ p.sess = "" /\ p.elem # "advert" /\ p.from[1] \in Ours
    /\ ~p.rerr => p.to[1] \in Ours
    /\ p.rerr => /\ p.to[1] \in Peers
                 /\ ~p.err /\ IsPresence(p) /\ p.from[1] = "user" /\ p.from[2] # "" => p.to[1] \in b[p.from[2]]

Env(n, on) == [queue : Seq(Pkt(n)), asked : SUBSET on, view : [Peers -> [Resources -> Shown]],
               bounced : [Resources -> SUBSET Peers], fate : Seq(Seq(Fate))]
EnvOk(e, n, on) ==
    /\ n \in Nat /\ e \in Env(n, on) /\ Len(e.fate) = n
    /\ \A i \in DOMAIN e.queue : Waits(e.queue[i], e.bounced)
More(e, v) == \A r \in Resources : e.bounced[r] \subseteq v.bounced[r]

\* peer c does not believe that session r is available, or returned its presence
Forgets(e, c, r) == e.view[c][r] # "presence" \/ c \in e.bounced[r]

LEMMA EnvParts ==
    ASSUME NEW e, NEW n, NEW on, EnvOk(e, n, on)
    PROVE  /\ n \in Nat /\ e \in Env(n, on) /\ e.queue \in Seq(Pkt(n)) /\ e.asked \subseteq on
           /\ e.view \in [Peers -> [Resources -> Shown]] /\ e.bounced \in [Resources -> SUBSET Peers]
           /\ e.fate \in Seq(Seq(Fate)) /\ Len(e.fate) = n
  BY DEF EnvOk, Env

\* a packet as it is parsed
Parsed(q, k, n) ==
    /\ q \in Pkt(n) /\ q.to = k.to /\ q.from = k.from /\ Plain(q, k) /\ q.sess = k.sess /\ q.id = k.id
    /\ IsPresence(q) => q.type = k.type \/ k.elem = "presence"
    /\ k.elem = "presence" /\ k.type \in PresTypes => q.type = k.type

\* a packet of which the type is not known to be one
RawRec(n, T) == [elem : Elems, type : T, err : BOOLEAN, to : Jids, from : Jids, ns : Namespaces, node : Nodes,
                 pri : Int, rule : Seq(Rule), id : 0..n, sess : Resources \cup {""}, rerr : BOOLEAN]

(* A packet is a packet of some type when the manager has parsed it.       *)
LEMMA NewIn ==
    ASSUME NEW n, NEW T, NEW k, k \in RawRec(n, T), k.elem \notin {"message", "presence", "iq"} => k.type \in Types
    PROVE  Parsed(PktNew(k), k, n)
<1> DEFINE q == PktNew(k)
<1> HIDE DEF q
<1>0. q = PktNew(k)
  BY DEF q
<1> SUFFICES Parsed(q, k, n)
  BY <1>0
<1>1. CASE k.elem = "message"
  <2> DEFINE t == IF k.type \in {"chat", "headline", "groupchat"} THEN k.type ELSE "message"
  <2>1. q = [k EXCEPT !.type = t]
    BY <1>0, <1>1 DEF PktNew
  <2>2. t \in {"chat", "headline", "groupchat", "message"}
    OBVIOUS
  <2> HIDE DEF t
  <2>3. t \in Types /\ t \notin {"presence", "unavailable", "probe"}
    BY <2>2 DEF Types
  <2>4. q \in PktRec(n) /\ q.to = k.to /\ q.from = k.from /\ Plain(q, k) /\ q.sess = k.sess /\ q.id = k.id /\ q.type = t
        /\ q.elem = k.elem
    BY <2>1, <2>3 DEF PktRec, RawRec, Plain
  <2>5. q \in Pkt(n)
    BY <1>1, <2>4 DEF Pkt, PktRec
  <2>6. QED
    BY <1>1, <2>3, <2>4, <2>5 DEF IsPresence, Parsed
<1>2. CASE k.elem = "presence"
  <2> DEFINE t == IF k.type \in {"unavailable", "probe", "subscribe", "subscribed", "unsubscribe", "unsubscribed"}
                  THEN k.type ELSE "presence"
  <2>1. q = [k EXCEPT !.type = t]
    BY <1>0, <1>2 DEF PktNew
  <2>2. t \in PresTypes /\ (k.type \in PresTypes => t = k.type)
    BY DEF PresTypes
  <2> HIDE DEF t
  <2>3. t \in Types
    BY <2>2 DEF Types
  <2>4. q \in PktRec(n) /\ q.to = k.to /\ q.from = k.from /\ Plain(q, k) /\ q.sess = k.sess /\ q.id = k.id /\ q.type = t
    BY <2>1, <2>3 DEF PktRec, RawRec, Plain
  <2>5. q \in Pkt(n)
    BY <2>2, <2>4 DEF Pkt, PktRec
  <2>6. QED
    BY <1>2, <2>2, <2>4, <2>5 DEF Parsed
<1>3. CASE k.elem = "iq"
  <2> DEFINE t == IF k.type \in {"get", "set", "result"} THEN k.type ELSE "get"
  <2>1. q = [k EXCEPT !.type = t]
    BY <1>0, <1>3 DEF PktNew
  <2>2. t \in {"get", "set", "result"}
    OBVIOUS
  <2> HIDE DEF t
  <2>3. t \in Types /\ t \notin {"presence", "unavailable", "probe"}
    BY <2>2 DEF Types
  <2>4. q \in PktRec(n) /\ q.to = k.to /\ q.from = k.from /\ Plain(q, k) /\ q.sess = k.sess /\ q.id = k.id /\ q.type = t
        /\ q.elem = k.elem
    BY <2>1, <2>3 DEF PktRec, RawRec, Plain
  <2>5. q \in Pkt(n)
    BY <1>3, <2>4 DEF Pkt, PktRec
  <2>6. QED
    BY <1>3, <2>3, <2>4, <2>5 DEF IsPresence, Parsed
<1>4. CASE k.elem \notin {"message", "presence", "iq"}
  <2>1. q = k
    BY <1>0, <1>4 DEF PktNew
  <2>2. q \in Pkt(n)
    BY <1>4, <2>1 DEF Pkt, RawRec
  <2>3. QED
    BY <1>4, <2>1, <2>2 DEF Plain, Parsed
<1>5. QED
  BY <1>1, <1>2, <1>3, <1>4

\* a packet as the router returns it
Wired(q, p, n) ==
    /\ q \in Pkt(n) /\ q.to = p.to /\ q.from = p.from /\ Plain(q, p) /\ q.sess = "" /\ q.id = p.id
    /\ ~p.err /\ IsPresence(q) => q.type = p.type

LEMMA WireIn ==
    ASSUME NEW n, NEW p, p \in Pkt(n)
    PROVE  Wired(Wire(p), p, n)
<1> DEFINE q == Wire(p)
           t == IF p.err THEN "error" ELSE p.type
           k == [p EXCEPT !.sess = "", !.type = t]
<1>1. q = PktNew(k)
  BY DEF Wire
<1>2. p \in PktRec(n) /\ t \in Types
  BY PktParts DEF Types
<1>3. ~p.err => t = p.type
  OBVIOUS
<1> HIDE DEF t, q
<1>4. /\ k \in PktRec(n) /\ k.to = p.to /\ k.from = p.from /\ Plain(k, p) /\ k.sess = "" /\ k.id = p.id /\ k.type = t
      /\ k.elem = p.elem
  BY <1>2 DEF PktRec, Plain
<1> HIDE DEF k
<1>5. Parsed(q, k, n)
  <2>1. k \in RawRec(n, Types)
    BY <1>4 DEF PktRec, RawRec
  <2>2. Parsed(PktNew(k), k, n)
    BY <1>2, <1>4, <2>1, NewIn
  <2>3. QED
    BY <1>1, <2>2
<1>6. p.elem = "presence" => p.type \in PresTypes
  BY PktParts
<1>7. QED
  BY <1>3, <1>4, <1>5, <1>6 DEF Plain, Parsed, Wired, q

\* what came of a packet that is followed
Counted(e, p, at, what) ==
    IF p.id = 0 THEN e ELSE [e EXCEPT !.fate[p.id] = Append(@, [at |-> at, what |-> what])]

LEMMA CountedOk ==
    ASSUME NEW n, NEW on, NEW e, EnvOk(e, n, on), NEW p, p \in Pkt(n), NEW at, at \in Resources \cup Peers,
           NEW what, what \in Elems \cup {"notice", "error", "lost"}
    PROVE  LET v == Counted(e, p, at, what)
           IN  EnvOk(v, n, on) /\ v.view = e.view /\ v.bounced = e.bounced /\ v.queue = e.queue /\ v.asked = e.asked
<1> DEFINE f == [at |-> at, what |-> what]
           i == p.id
           g == [e.fate EXCEPT ![i] = Append(@, f)]
           v == [e EXCEPT !.fate = g]
<1>1. i \in 0..n /\ n \in Nat /\ e \in Env(n, on) /\ e.fate \in Seq(Seq(Fate)) /\ Len(e.fate) = n
  BY PktParts, EnvParts
<1>2. CASE i = 0
  BY <1>2 DEF Counted
<1>3. CASE i # 0
  <2>1. i \in 1..n /\ e.fate \in [1..n -> Seq(Fate)]
    BY <1>1, <1>3
  <2>2. f \in Fate
    BY DEF Fate
  <2> HIDE DEF f
  <2>3. Append(e.fate[i], f) \in Seq(Fate)
    <3> DEFINE s == e.fate[i]
    <3>1. s \in Seq(Fate)
      BY <2>1
    <3> HIDE DEF s
    <3>2. Append(s, f) \in Seq(Fate)
      BY <2>2, <3>1
    <3>3. QED
      BY <3>2 DEF s
  <2> DEFINE h == Append(e.fate[i], f)
  <2>4. g = [e.fate EXCEPT ![i] = h]
    OBVIOUS
  <2> HIDE DEF h
  <2>5. h \in Seq(Fate)
    BY <2>3 DEF h
  <2> HIDE DEF g, i
  <2>6. g \in [1..n -> Seq(Fate)]
    BY <2>1, <2>4, <2>5
  <2>7. g \in Seq(Seq(Fate)) /\ Len(g) = n
    BY <1>1, <2>6
  <2>8. Counted(e, p, at, what) = v
    BY <1>3 DEF Counted, f, i, g
  <2>9. v \in Env(n, on) /\ v.fate = g /\ v.view = e.view /\ v.bounced = e.bounced /\ v.queue = e.queue /\ v.asked = e.asked
    BY <1>1, <2>7 DEF Env
  <2> HIDE DEF v
  <2>10. EnvOk(v, n, on)
    BY <1>1, <2>7, <2>9 DEF EnvOk
  <2>11. QED
    BY <2>8, <2>9, <2>10
<1>4. QED
  BY <1>2, <1>3

LEMMA OutcomeIn ==
    ASSUME NEW n, NEW p, p \in Pkt(n)
    PROVE  Outcome(p) \in Elems \cup {"notice", "error", "lost"}
  BY PktParts DEF Outcome

Queued(e, q, b) == [e EXCEPT !.queue = Append(@, q), !.bounced = b]

(* The router has one more packet to return.                               *)
LEMMA QueuedOk ==
    ASSUME NEW n, NEW on, NEW e, EnvOk(e, n, on), NEW b, b \in [Resources -> SUBSET Peers],
           \A r \in Resources : e.bounced[r] \subseteq b[r], NEW q, q \in Pkt(n), Waits(q, b)
    PROVE  LET v == Queued(e, q, b)
           IN  EnvOk(v, n, on) /\ More(e, v) /\ v.view = e.view /\ v.bounced = b
<1> DEFINE v == Queued(e, q, b)
           t == Append(e.queue, q)
<1>1. e \in Env(n, on) /\ e.queue \in Seq(Pkt(n)) /\ n \in Nat /\ Len(e.fate) = n
  BY EnvParts
<1>2. /\ t \in Seq(Pkt(n))
      /\ \A i \in DOMAIN t : (i \in DOMAIN e.queue /\ t[i] = e.queue[i]) \/ t[i] = q
  BY <1>1
<1>3. v = [e EXCEPT !.queue = t, !.bounced = b]
  BY DEF Queued
<1> HIDE DEF t, v
<1>4. v \in Env(n, on) /\ v.queue = t /\ v.bounced = b /\ v.fate = e.fate /\ v.view = e.view
  BY <1>1, <1>2, <1>3 DEF Env
<1>5. \A i \in DOMAIN e.queue : Waits(e.queue[i], b)
  <2> TAKE i \in DOMAIN e.queue
  <2> DEFINE x == e.queue[i]
  <2>1. x \in Pkt(n) /\ Waits(x, e.bounced)
    BY <1>1 DEF EnvOk
  <2> HIDE DEF x
  <2>2. x.from[1] = "user" /\ x.from[2] # "" => x.from[2] \in Resources
    BY <2>1, PktParts, JidParts
  <2>3. Waits(x, b)
    BY <2>1, <2>2 DEF Waits
  <2>4. QED
    BY <2>3 DEF x
<1>6. \A i \in DOMAIN t : Waits(t[i], b)
  BY <1>2, <1>5
<1>7. QED
  BY <1>1, <1>4, <1>6 DEF EnvOk, More, v


\* what one packet written does to what the peers believe
After(e, v, o, n, on) ==
    /\ EnvOk(v, n, on) /\ More(e, v)
    /\ \A c \in Peers, r \in Resources :
        /\ Forgets(e, c, r) /\ ~(o.via = "router" /\ Tells(o.p, c, r, "presence")) => Forgets(v, c, r)
        /\ o.via = "router" /\ Tells(o.p, c, r, "unavailable") => Forgets(v, c, r)

\* the packet shows or withdraws the presence of a session
Shows(p) == p.from[1] = "user" /\ p.from[2] # "" /\ (Is(p, "presence") \/ Is(p, "unavailable"))

LEMMA ShowsParts ==
    ASSUME NEW n, NEW p, p \in Pkt(n)
    PROVE  /\ Shows(p) => p.from[2] \in Resources /\ p.from = Full(p.from[2]) /\ p.type \in {"presence", "unavailable"}
           /\ \A c \in Peers, r \in Resources, t \in {"presence", "unavailable"} :
                Tells(p, c, r, t) <=> Shows(p) /\ p.type = t /\ p.from[2] = r /\ p.to[1] = c
<1>1. p.from \in Jids
  BY PktParts
<1>2. Shows(p) => p.from[2] \in Resources /\ p.from = Full(p.from[2]) /\ p.type \in {"presence", "unavailable"}
  <2>1. p.from = <<p.from[1], p.from[2]>> /\ (p.from[1] = "user" => p.from[2] \in Resources \cup {""})
    BY <1>1, JidParts
  <2>2. QED
    BY <2>1 DEF Shows, Full, Is
<1>3. \A r \in Resources : Full(r)[1] = "user" /\ Full(r)[2] = r /\ r # ""
  BY JidsIn
<1>4. ASSUME NEW c \in Peers, NEW r \in Resources, NEW t \in {"presence", "unavailable"}
      PROVE  Tells(p, c, r, t) <=> Shows(p) /\ p.type = t /\ p.from[2] = r /\ p.to[1] = c
  <2>1. Tells(p, c, r, t) => Shows(p) /\ p.type = t /\ p.from[2] = r /\ p.to[1] = c
    BY <1>3 DEF Tells, Shows, Is
  <2>2. Shows(p) /\ p.type = t /\ p.from[2] = r /\ p.to[1] = c => Tells(p, c, r, t)
    BY <1>2 DEF Tells, Shows, Is
  <2>3. QED
    BY <2>1, <2>2
<1>5. QED
  BY <1>2, <1>4

(* A packet that shows nothing to a peer leaves what peers believe alone.  *)
LEMMA AfterStill ==
    ASSUME NEW e, NEW v, NEW o, NEW n, NEW on, EnvOk(v, n, on), v.view = e.view, v.bounced = e.bounced,
           o.via = "router" => o.p \in Pkt(n) /\ (o.p.to[1] \notin Peers \/ ~Shows(o.p))
    PROVE  After(e, v, o, n, on)
<1>1. \A c \in Peers, r \in Resources : ~(o.via = "router" /\ Tells(o.p, c, r, "unavailable"))
  BY ShowsParts
<1>2. QED
  BY <1>1 DEF After, More, Forgets

LEMMA SessEmit ==
    ASSUME NEW e, NEW o, NEW n, NEW on, EnvOk(e, n, on), NEW u, ItemOk(o, u, n), o.via = "sess", NEW v,
           v = Counted(e, o.p, o.r, Outcome(o.p))
    PROVE  After(e, v, o, n, on)
<1>1. o.p \in Pkt(n) /\ o.r \in Resources \cup Peers
  BY DEF ItemOk, Items
<1>2. PICK x : x = Outcome(o.p)
  OBVIOUS
<1>3. x \in Elems \cup {"notice", "error", "lost"}
  BY <1>1, <1>2, OutcomeIn
<1>4. v = Counted(e, o.p, o.r, x)
  BY <1>2
<1> DEFINE z == Counted(e, o.p, o.r, x)
<1>5. EnvOk(z, n, on) /\ z.view = e.view /\ z.bounced = e.bounced
  BY <1>1, <1>3, CountedOk
<1> HIDE DEF z
<1>6. z = v
  BY <1>4 DEF z
<1>7. EnvOk(v, n, on) /\ v.view = e.view /\ v.bounced = e.bounced
  BY <1>5, <1>6
<1>8. QED
  BY <1>7, AfterStill

(* A packet for the server or the user comes back.                         *)
LEMMA OursEmit ==
    ASSUME NEW e, NEW o, NEW n, NEW on, EnvOk(e, n, on), NEW u, ItemOk(o, u, n), o.via = "router", o.p.to[1] \in Ours,
           NEW v, v = [e EXCEPT !.queue = Append(@, Wire(o.p))]
    PROVE  After(e, v, o, n, on)
<1>1. PICK q : q = Wire(o.p)
  OBVIOUS
<1>2. o.p \in Pkt(n) /\ Writable(o.p, u, n) /\ o.p.to[1] \notin Peers
  <2>1. o.p \in Pkt(n) /\ Writable(o.p, u, n)
    BY DEF ItemOk, Items
  <2>2. o.p.to[1] \notin Peers
    BY ManagerAssumption
  <2>3. QED
    BY <2>1, <2>2
<1>3. q \in Pkt(n) /\ q.to = o.p.to /\ q.from = o.p.from /\ Plain(q, o.p) /\ q.sess = ""
  BY <1>1, <1>2, WireIn DEF Wired
<1>4. Waits(q, e.bounced)
  BY <1>2, <1>3 DEF Waits, Plain, Writable
<1> DEFINE b == e.bounced
<1>5. v = Queued(e, q, b)
  <2>1. e \in Env(n, on)
    BY EnvParts
  <2>2. QED
    BY <1>1, <2>1 DEF Env, Queued
<1>6. b \in [Resources -> SUBSET Peers]
  BY EnvParts
<1>7. Waits(q, b) /\ \A r \in Resources : e.bounced[r] \subseteq b[r]
  BY <1>4
<1>7a. q \in Pkt(n)
  BY <1>3
<1> HIDE DEF b
<1> DEFINE z == Queued(e, q, b)
<1>8. EnvOk(v, n, on) /\ v.view = e.view /\ v.bounced = b
  <2>1. EnvOk(z, n, on) /\ z.view = e.view /\ z.bounced = b
    BY <1>6, <1>7, <1>7a, QueuedOk
  <2>2. v = z
    BY <1>5
  <2> HIDE DEF z
  <2>3. QED
    BY <2>1, <2>2
<1>9. QED
  BY <1>2, <1>8, AfterStill DEF b

(* A packet that reaches a peer.                                           *)
LEMMA ReachedEmit ==
    ASSUME NEW e, NEW o, NEW n, NEW on, EnvOk(e, n, on), NEW u, ItemOk(o, u, n), o.via = "router", o.p.to[1] \in Peers,
           NEW v, v = [Counted(e, o.p, o.p.to[1], Outcome(o.p)) EXCEPT
                            !.view = IF Shows(o.p) THEN [@ EXCEPT ![o.p.to[1]][o.p.from[2]] = o.p.type] ELSE @]
    PROVE  After(e, v, o, n, on)
<1> DEFINE c == o.p.to[1]
           s == o.p.from[2]
           t == o.p.type
<1>1. o.p \in Pkt(n)
  BY DEF ItemOk, Items
<1>2. PICK x : x = Outcome(o.p)
  OBVIOUS
<1>3. x \in Elems \cup {"notice", "error", "lost"}
  BY <1>1, <1>2, OutcomeIn
<1>4. PICK k : k = Counted(e, o.p, c, x)
  OBVIOUS
<1>5. EnvOk(k, n, on) /\ k.view = e.view /\ k.bounced = e.bounced
  <2> DEFINE z == Counted(e, o.p, c, x)
  <2>1. c \in Resources \cup Peers
    OBVIOUS
  <2> HIDE DEF c
  <2>2. EnvOk(z, n, on) /\ z.view = e.view /\ z.bounced = e.bounced
    BY <1>1, <1>3, <2>1, CountedOk
  <2> HIDE DEF z
  <2>3. z = k
    BY <1>4 DEF z
  <2>4. QED
    BY <2>2, <2>3
<1>6. v = [k EXCEPT !.view = IF Shows(o.p) THEN [@ EXCEPT ![c][s] = t] ELSE @]
  BY <1>2, <1>4
<1>7. k \in Env(n, on)
  BY <1>5, EnvParts
<1>8. CASE ~Shows(o.p)
  <2>1. v = k
    BY <1>6, <1>7, <1>8 DEF Env
  <2>2. QED
    BY <1>1, <1>5, <1>8, <2>1, AfterStill
<1>9. CASE Shows(o.p)
  <2>1. s \in Resources /\ t \in {"presence", "unavailable"}
    BY <1>1, <1>9, ShowsParts
  <2>2. \A d \in Peers, r \in Resources, y \in {"presence", "unavailable"} :
            Tells(o.p, d, r, y) <=> t = y /\ s = r /\ c = d
    BY <1>1, <1>9, ShowsParts
  <2>3. c \in Peers
    OBVIOUS
  <2> HIDE DEF c, s, t
  <2> DEFINE g == [k.view EXCEPT ![c][s] = t]
  <2>4. k.view \in [Peers -> [Resources -> Shown]] /\ t \in Shown
    BY <1>5, <2>1, EnvParts DEF Shown
  <2>5. g \in [Peers -> [Resources -> Shown]]
    BY <2>1, <2>3, <2>4
  <2>6. \A d \in Peers, r \in Resources : g[d][r] = IF d = c /\ r = s THEN t ELSE k.view[d][r]
    BY <2>1, <2>3, <2>4
  <2>7. v = [k EXCEPT !.view = g]
    BY <1>6, <1>9
  <2> HIDE DEF g
  <2>8. v \in Env(n, on) /\ v.view = g /\ v.bounced = k.bounced /\ v.queue = k.queue /\ v.fate = k.fate
    BY <1>7, <2>5, <2>7 DEF Env
  <2>9. EnvOk(v, n, on)
    BY <1>5, <2>8 DEF EnvOk
  <2>10. \A d \in Peers, r \in Resources :
            /\ Forgets(e, d, r) /\ ~Tells(o.p, d, r, "presence") => Forgets(v, d, r)
            /\ Tells(o.p, d, r, "unavailable") => Forgets(v, d, r)
    <3> TAKE d \in Peers, r \in Resources
    <3>1. (Tells(o.p, d, r, "presence") <=> t = "presence" /\ s = r /\ c = d)
          /\ (Tells(o.p, d, r, "unavailable") <=> t = "unavailable" /\ s = r /\ c = d)
      BY <2>2
    <3>2. v.view[d][r] = IF d = c /\ r = s THEN t ELSE e.view[d][r]
      BY <1>5, <2>6, <2>8
    <3>3. v.bounced[r] = e.bounced[r]
      BY <1>5, <2>8
    <3>4. QED
      BY <2>1, <3>1, <3>2, <3>3 DEF Forgets
  <2>11. More(e, v)
    BY <1>5, <2>8 DEF More
  <2>12. QED
    BY <2>9, <2>10, <2>11 DEF After
<1>10. QED
  BY <1>8, <1>9

(* A packet that does not reach a peer comes back.                         *)
LEMMA LostEmit ==
    ASSUME NEW e, NEW o, NEW n, NEW on, EnvOk(e, n, on), NEW u, ItemOk(o, u, n), o.via = "router", o.p.to[1] \in Peers,
           NEW v, v = [(IF o.p.err THEN Counted(e, o.p, o.p.to[1], "lost") ELSE e) EXCEPT
                            !.queue = Append(@, [Wire(o.p) EXCEPT !.rerr = TRUE]),
                            !.bounced = IF Shows(o.p) THEN [e.bounced EXCEPT ![o.p.from[2]] = @ \cup {o.p.to[1]}] ELSE @]
    PROVE  After(e, v, o, n, on)
<1> DEFINE p == o.p
           c == p.to[1]
           s == p.from[2]
<1>1. p \in Pkt(n) /\ Writable(p, u, n) /\ c \in Peers
  BY DEF ItemOk, Items
<1>2. PICK k : k = IF p.err THEN Counted(e, p, c, "lost") ELSE e
  OBVIOUS
<1>3. EnvOk(k, n, on) /\ k.view = e.view /\ k.bounced = e.bounced
  <2> DEFINE z == Counted(e, p, c, "lost")
  <2>1. EnvOk(z, n, on) /\ z.view = e.view /\ z.bounced = e.bounced
    <3>1. c \in Resources \cup Peers
      BY <1>1
    <3> HIDE DEF c, p
    <3>2. QED
      BY <1>1, <3>1, CountedOk
  <2> HIDE DEF z
  <2>2. k = z \/ k = e
    BY <1>2 DEF z
  <2>3. QED
    BY <2>1, <2>2
<1>4. PICK y : y = Wire(p)
  OBVIOUS
<1>5. /\ y \in Pkt(n) /\ y.to = p.to /\ y.from = p.from /\ Plain(y, p) /\ y.sess = ""
      /\ ~p.err /\ IsPresence(y) => y.type = p.type
  <2>1. Wired(Wire(p), p, n)
    BY <1>1, WireIn
  <2>2. Wired(y, p, n)
    BY <1>4, <2>1
  <2> HIDE DEF p
  <2>3. QED
    BY <2>2 DEF Wired
<1>6. PICK q : q = [y EXCEPT !.rerr = TRUE]
  OBVIOUS
<1>7. /\ q \in Pkt(n) /\ q.to = p.to /\ q.from = p.from /\ (q.err <=> p.err) /\ q.elem = p.elem /\ q.rerr /\ q.sess = ""
      /\ q.type = y.type
  <2>1. y \in PktRec(n)
    BY <1>5, PktParts
  <2>2. /\ q \in PktRec(n) /\ q.to = p.to /\ q.from = p.from /\ (q.err <=> p.err) /\ q.elem = p.elem /\ q.rerr
        /\ q.sess = "" /\ q.type = y.type
    BY <1>5, <1>6, <2>1 DEF PktRec, Plain
  <2>3. QED
    BY <1>5, <2>2 DEF Pkt, PktRec, Plain
<1>8. PICK b : b = IF Shows(p) THEN [e.bounced EXCEPT ![s] = @ \cup {c}] ELSE e.bounced
  OBVIOUS
<1>9. v = Queued(k, q, b)
  <2> DEFINE x == [Wire(p) EXCEPT !.rerr = TRUE]
             d == IF Shows(p) THEN [e.bounced EXCEPT ![s] = @ \cup {c}] ELSE k.bounced
  <2>1. v = [k EXCEPT !.queue = Append(@, x), !.bounced = d]
    BY <1>2
  <2>2. q = x /\ b = d
    BY <1>3, <1>4, <1>6, <1>8
  <2> HIDE DEF x, d
  <2>3. QED
    BY <2>1, <2>2 DEF Queued
<1>10. Shows(p) => s \in Resources
  BY <1>1, ShowsParts
<1>11. /\ b \in [Resources -> SUBSET Peers] /\ \A r \in Resources : k.bounced[r] \subseteq b[r]
       /\ Shows(p) => c \in b[s]
  <2>1. e.bounced \in [Resources -> SUBSET Peers] /\ k.bounced = e.bounced
    BY <1>3, EnvParts
  <2> HIDE DEF c, s
  <2>2. QED
    BY <1>1, <1>8, <1>10, <2>1
<1>12. Waits(q, b)
  <2>1. ~q.err /\ IsPresence(q) /\ q.from[1] = "user" /\ q.from[2] # "" => Shows(p)
    BY <1>1, <1>5, <1>7 DEF IsPresence, Shows, Is, Writable
  <2>2. QED
    BY <1>1, <1>7, <1>11, <2>1 DEF Waits, Writable
<1>13. EnvOk(v, n, on) /\ More(k, v) /\ v.view = k.view /\ v.bounced = b
  <2> DEFINE z == Queued(k, q, b)
  <2>1. q \in Pkt(n)
    BY <1>7
  <2>2. b \in [Resources -> SUBSET Peers] /\ \A r \in Resources : k.bounced[r] \subseteq b[r]
    BY <1>11
  <2>3. EnvOk(z, n, on) /\ More(k, z) /\ z.view = k.view /\ z.bounced = b
    BY <1>3, <1>12, <2>1, <2>2, QueuedOk
  <2>4. v = z
    BY <1>9
  <2> HIDE DEF z
  <2>5. QED
    BY <2>3, <2>4
<1>14. \A d \in Peers, r \in Resources :
            /\ Forgets(e, d, r) => Forgets(v, d, r)
            /\ Tells(p, d, r, "unavailable") => Forgets(v, d, r)
  <2> TAKE d \in Peers, r \in Resources
  <2>1. e.bounced[r] \subseteq v.bounced[r] /\ v.view[d][r] = e.view[d][r]
    <3>1. e.bounced[r] = k.bounced[r] /\ k.bounced[r] \subseteq b[r] /\ v.bounced[r] = b[r]
      BY <1>3, <1>11, <1>13
    <3>2. v.view = e.view
      BY <1>3, <1>13
    <3>3. QED
      BY <3>1, <3>2
  <2>2. Tells(p, d, r, "unavailable") => Shows(p) /\ s = r /\ c = d
    BY <1>1, ShowsParts
  <2>3. QED
    BY <1>11, <1>13, <2>1, <2>2 DEF Forgets
<1>15. More(e, v)
  BY <1>3, <1>13 DEF More
<1>16. QED
  BY <1>13, <1>14, <1>15 DEF After


LEMMA EmitOk ==
    ASSUME NEW e, NEW o, NEW n, NEW on, EnvOk(e, n, on), NEW u, ItemOk(o, u, n), NEW reach, on \subseteq Services
    PROVE  After(e, Emit(e, o, reach, on), o, n, on)
<1> DEFINE p == o.p
           c == p.to[1]
           v == Emit(e, o, reach, on)
           own == c = "user" /\ IsPresence(p) /\ p.from[1] = "user" /\ ~OwnPresence
           ours == o.via = "router" /\ c \in {"user", "host", "sm"}
           near == o.via = "router" /\ c \in reach \cap Peers
           far == o.via = "router" /\ c \in Peers \ reach
           serves == o.via = "router" /\ c \in on
           z1 == Counted(e, p, o.r, Outcome(p))
           z2 == [e EXCEPT !.queue = Append(@, Wire(p))]
           z3 == [Counted(e, p, c, Outcome(p)) EXCEPT !.view = IF Shows(p) THEN [@ EXCEPT ![c][p.from[2]] = p.type] ELSE @]
           z4 == [(IF p.err THEN Counted(e, p, c, "lost") ELSE e) EXCEPT
                            !.queue = Append(@, [Wire(p) EXCEPT !.rerr = TRUE]),
                            !.bounced = IF Shows(p) THEN [e.bounced EXCEPT ![p.from[2]] = @ \cup {c}] ELSE @]
           z5 == [e EXCEPT !.asked = IF Get(p, "disco-info") THEN @ \cup {c} ELSE @]
<1>1. v = CASE o.via = "sess" -> z1
            [] ours -> (IF own THEN e ELSE z2)
            [] near -> z3
            [] far -> z4
            [] serves -> z5
            [] OTHER -> e
  BY Zenon DEF Emit, Counted, Shows
<1>2. Peers \cap {"user", "host", "sm"} = {} /\ on \cap Peers = {} /\ on \cap {"user", "host", "sm"} = {}
  BY ManagerAssumption DEF Known, Ours
<1>3. o.via = "router" => p \in Pkt(n)
  BY DEF ItemOk, Writable
<1> HIDE DEF z1, z2, z3, z4, z5, own, v
<1>4. ASSUME o.via = "router", c \notin Peers PROVE After(e, e, o, n, on)
  BY <1>3, <1>4, AfterStill
<1>5. CASE o.via = "sess"
  <2>1. v = z1
    BY <1>1, <1>5
  <2>2. After(e, z1, o, n, on)
    BY <1>5, SessEmit DEF z1
  <2>3. QED
    BY <2>1, <2>2 DEF v
<1>6. CASE ours
  <2>1. v = e \/ v = z2
    BY <1>1, <1>2, <1>6
  <2>2. After(e, z2, o, n, on)
    BY <1>6, OursEmit DEF z2, Ours
  <2>3. QED
    BY <1>2, <1>4, <1>6, <2>1, <2>2 DEF v
<1>7. CASE near
  <2>1. v = z3
    BY <1>1, <1>2, <1>7
  <2>2. After(e, z3, o, n, on)
    BY <1>7, ReachedEmit DEF z3
  <2>3. QED
    BY <2>1, <2>2 DEF v
<1>8. CASE far
  <2>1. v = z4
    BY <1>1, <1>2, <1>8
  <2>2. After(e, z4, o, n, on)
    BY <1>8, LostEmit DEF z4
  <2>3. QED
    BY <2>1, <2>2 DEF v
<1>9. CASE serves
  <2>1. v = z5
    BY <1>1, <1>2, <1>9
  <2>2. e \in Env(n, on) /\ c \in on
    BY <1>9, EnvParts
  <2> DEFINE k == IF Get(p, "disco-info") THEN e.asked \cup {c} ELSE e.asked
  <2>3. k \subseteq on
    BY <2>2, EnvParts
  <2>4. z5 = [e EXCEPT !.asked = k]
    BY DEF z5
  <2> HIDE DEF k
  <2>5. z5 \in Env(n, on) /\ z5.view = e.view /\ z5.bounced = e.bounced /\ z5.queue = e.queue /\ z5.fate = e.fate
    BY <2>2, <2>3, <2>4 DEF Env
  <2>6. EnvOk(z5, n, on)
    BY <2>5 DEF EnvOk
  <2>7. After(e, z5, o, n, on)
    BY <1>2, <1>3, <1>9, <2>5, <2>6, AfterStill
  <2>8. QED
    BY <2>1, <2>7 DEF v
<1>10. CASE ~(o.via = "sess") /\ ~ours /\ ~near /\ ~far /\ ~serves
  <2>1. v = e
    BY <1>1, <1>10
  <2>2. o.via # "router" \/ c \notin Peers
    BY <1>10
  <2>3. After(e, e, o, n, on)
    BY <1>4, <2>2, AfterStill
  <2>4. QED
    BY <2>1, <2>3 DEF v
<1>11. QED
  BY <1>5, <1>6, <1>7, <1>8, <1>9, <1>10

\* the packets written say that session r is available to peer c
Claims(out, c, r) == \E i \in DOMAIN out : out[i].via = "router" /\ Tells(out[i].p, c, r, "presence")

(* All the packets written leave what is around the manager in order.     *)
LEMMA EmittedOk ==
    ASSUME NEW b, NEW n, NEW on, EnvOk(b, n, on), on \subseteq Services, NEW u, NEW out, out \in Seq(Items(n)),
           \A i \in DOMAIN out : ItemOk(out[i], u, n), NEW reach
    PROVE  LET v == Emitted(b, out, reach, on)
           IN  /\ EnvOk(v, n, on) /\ More(b, v)
               /\ \A c \in Peers, r \in Resources :
                    (Forgets(b, c, r) \/ Withdrawn(out, c, r)) /\ ~Claims(out, c, r) => Forgets(v, c, r)
<1> DEFINE l == Len(out)
           v == Emitted(b, out, reach, on)
<1>1. PICK e : /\ e[0] = b
               /\ \A i \in 1..l : e[i] = Emit(e[i - 1], out[i], reach, on)
               /\ v = e[l]
  BY EmitTrace
<1>2. l \in Nat /\ DOMAIN out = 1..l
  OBVIOUS
<1> HIDE DEF l, v
<1> DEFINE Good == {i \in Nat : i <= l => EnvOk(e[i], n, on) /\ More(b, e[i])}
<1>3. 0 \in Good
  BY <1>1 DEF More
<1>4. ASSUME NEW i \in Good PROVE i + 1 \in Good
  <2> SUFFICES ASSUME i + 1 <= l PROVE EnvOk(e[i + 1], n, on) /\ More(b, e[i + 1])
    OBVIOUS
  <2>1. i \in Nat /\ i + 1 \in 1..l /\ (i + 1) - 1 = i /\ EnvOk(e[i], n, on) /\ More(b, e[i])
    BY <1>2
  <2>2. e[i + 1] = Emit(e[i], out[i + 1], reach, on) /\ ItemOk(out[i + 1], u, n)
    BY <1>1, <1>2, <2>1
  <2>3. After(e[i], e[i + 1], out[i + 1], n, on)
    BY <2>1, <2>2, EmitOk
  <2>4. EnvOk(e[i + 1], n, on) /\ More(e[i], e[i + 1])
    BY <2>3 DEF After
  <2>5. QED
    BY <2>1, <2>4 DEF More
<1>5. Good = Nat
  <2>1. Good \subseteq Nat
    OBVIOUS
  <2> HIDE DEF Good
  <2>2. QED
    BY <1>3, <1>4, <2>1, NatSet
<1>6. \A i \in 0..l : EnvOk(e[i], n, on) /\ More(b, e[i])
  BY <1>2, <1>5
<1> HIDE DEF Good
<1>7. \A i \in 1..l : After(e[i - 1], e[i], out[i], n, on)
  <2> TAKE i \in 1..l
  <2>1. i - 1 \in 0..l
    BY <1>2
  <2>2. EnvOk(e[i - 1], n, on) /\ ItemOk(out[i], u, n)
    BY <1>2, <1>6, <2>1
  <2>3. QED
    BY <1>1, <2>2, EmitOk
<1>8. ASSUME NEW c \in Peers, NEW r \in Resources, Forgets(b, c, r) \/ Withdrawn(out, c, r), ~Claims(out, c, r)
      PROVE  Forgets(v, c, r)
  <2> DEFINE gone(i) == out[i].via = "router" /\ Tells(out[i].p, c, r, "unavailable")
             Done == {i \in Nat : i <= l /\ (Forgets(b, c, r) \/ \E j \in 1..i : gone(j)) => Forgets(e[i], c, r)}
  <2>1. 0 \in Done
    <3>1. 1..0 = {}
      OBVIOUS
    <3>2. QED
      BY <1>1, <3>1
  <2>2. ASSUME NEW i \in Done PROVE i + 1 \in Done
    <3> SUFFICES ASSUME i + 1 <= l, Forgets(b, c, r) \/ \E j \in 1..(i + 1) : gone(j) PROVE Forgets(e[i + 1], c, r)
      OBVIOUS
    <3>1. i \in Nat /\ i + 1 \in 1..l /\ (i + 1) - 1 = i /\ i <= l
      BY <1>2
    <3>2. After(e[i], e[i + 1], out[i + 1], n, on)
      BY <1>7, <3>1
    <3>3. ~(out[i + 1].via = "router" /\ Tells(out[i + 1].p, c, r, "presence"))
      BY <1>2, <1>8, <3>1 DEF Claims
    <3>4. Forgets(e[i], c, r) => Forgets(e[i + 1], c, r)
      BY <3>2, <3>3 DEF After
    <3>5. gone(i + 1) => Forgets(e[i + 1], c, r)
      BY <3>2 DEF After
    <3>6. (Forgets(b, c, r) \/ \E j \in 1..i : gone(j)) => Forgets(e[i], c, r)
      BY <3>1
    <3> HIDE DEF gone
    <3>7. (\E j \in 1..(i + 1) : gone(j)) => gone(i + 1) \/ \E j \in 1..i : gone(j)
      <4> SUFFICES ASSUME NEW j \in 1..(i + 1), gone(j) PROVE gone(i + 1) \/ \E k \in 1..i : gone(k)
        OBVIOUS
      <4>1. j = i + 1 \/ j \in 1..i
        BY <3>1
      <4>2. QED
        BY <4>1
    <3>8. QED
      BY <3>4, <3>5, <3>6, <3>7
  <2>3. Done = Nat
    <3>1. Done \subseteq Nat
      OBVIOUS
    <3> HIDE DEF Done
    <3>2. QED
      BY <2>1, <2>2, <3>1, NatSet
  <2>4. Withdrawn(out, c, r) => \E j \in 1..l : gone(j)
    BY <1>2 DEF Withdrawn
  <2>5. l \in Done /\ l <= l
    BY <1>2, <2>3
  <2> HIDE DEF gone
  <2>6. Forgets(e[l], c, r)
    BY <1>8, <2>4, <2>5
  <2>7. QED
    BY <1>1, <2>6
<1>9. EnvOk(v, n, on) /\ More(b, v)
  BY <1>1, <1>2, <1>6
<1>10. QED
  BY <1>8, <1>9 DEF v

-----------------------------------------------------------------------------
(* The inductive invariant                                                 *)

Around == [queue |-> queue, asked |-> asked, view |-> view, bounced |-> bounced, fate |-> fate]

\* the manager m, what is around it and the services that are online, when n
\* messages and requests were sent
InOrder(m, e, on, n) ==
    /\ m \in Mgr(n) /\ UserOk(m.u) /\ Settled(m.u)
    /\ \A r \in Resources : m.u.s[r].E \cap Peers \subseteq e.bounced[r]
    /\ m.dyn \cap Services \subseteq on /\ (m.cache = <<>> \/ m.cache = <<m.dyn \cup Static>>)
    /\ on \subseteq Services
    /\ EnvOk(e, n, on)
    /\ Discreet => \A c \in Peers, r \in Resources : Forgets(e, c, r) \/ Believed(m.u, c, r)

\* a list of what was sent
Listing == DOMAIN log = 1..Len(log) /\ Len(log) \in Nat /\ \E S : log \in Seq(S)
IInv == scene \in DOMAIN Scenes /\ Listing /\ InOrder(mgr, Around, online, Len(log))

LEMMA AroundParts ==
    /\ Around.queue = queue /\ Around.asked = asked /\ Around.view = view /\ Around.bounced = bounced
    /\ Around.fate = fate
  BY DEF Around

(* More may have been sent since.                                          *)
LEMMA Wider ==
    ASSUME NEW k, NEW n, k \in Nat, n \in Nat, k <= n
    PROVE  Pkt(k) \subseteq Pkt(n) /\ Mgr(k) \subseteq Mgr(n) /\ Seq(Pkt(k)) \subseteq Seq(Pkt(n))
<1>1. ASSUME NEW p \in Pkt(k) PROVE p \in Pkt(n)
  <2>1. p \in PktRec(k) /\ (p.elem = "presence" => p.type \in PresTypes)
    BY PktParts
  <2>1a. 0..k \subseteq 0..n
    OBVIOUS
  <2>2. p \in PktRec(n)
    <3> DEFINE K == 0..k
               N == 0..n
    <3>1. K \subseteq N
      BY <2>1a
    <3>2. p \in [elem : Elems, type : Types, err : BOOLEAN, to : Jids, from : Jids, ns : Namespaces, node : Nodes,
                 pri : Int, rule : Seq(Rule), id : K, sess : Resources \cup {""}, rerr : BOOLEAN]
      BY <2>1 DEF PktRec
    <3> HIDE DEF K, N
    <3>3. p \in [elem : Elems, type : Types, err : BOOLEAN, to : Jids, from : Jids, ns : Namespaces, node : Nodes,
                 pri : Int, rule : Seq(Rule), id : N, sess : Resources \cup {""}, rerr : BOOLEAN]
      BY <3>1, <3>2
    <3>4. QED
      BY <3>3 DEF PktRec, N
  <2>3. QED
    BY <2>1, <2>2 DEF Pkt, PktRec
<1>2. Seq(Pkt(k)) \subseteq Seq(Pkt(n))
  BY <1>1
<1>3. Mgr(k) \subseteq Mgr(n)
  BY <1>2 DEF Mgr
<1>4. QED
  BY <1>1, <1>2, <1>3

\* the work state a packet starts with
First(p, io) == [Work(p) EXCEPT !.io = io]

LEMMA WorkOk ==
    ASSUME IInv, NEW n, n \in Nat, NEW p, p \in Pkt(n), n = Len(log) \/ (n = Len(log) + 1 /\ p.id = n),
           NEW io, io \in BOOLEAN
    PROVE  LET w == First(p, io)
           IN  Ok(w, n) /\ AllQuiet(w) /\ Settled(w.m.u) /\ w.ret = "PASS" /\ w.pkt = p /\ w.m = mgr
<1> DEFINE w == First(p, io)
<1>1. w.m = mgr /\ w.pkt = p /\ w.id = p.id /\ w.out = <<>> /\ w.ret = "PASS"
  BY DEF First, Work
<1>2. Len(log) \in Nat /\ Len(fate) = Len(log) /\ mgr \in Mgr(Len(log)) /\ UserOk(mgr.u) /\ Settled(mgr.u)
  BY AroundParts, EnvParts DEF IInv, Listing, InOrder
<1>3. mgr \in Mgr(n) /\ p.id \in 0..n /\ (n > Len(fate) => p.id = n)
  <2>1. mgr \in Mgr(n)
    <3>1. PICK k : k = Len(log)
      OBVIOUS
    <3>2. k \in Nat /\ k <= n /\ mgr \in Mgr(k)
      BY <1>2, <3>1
    <3>3. Mgr(k) \subseteq Mgr(n)
      BY <3>2, Wider
    <3>4. QED
      BY <3>2, <3>3
  <2>2. p.id \in 0..n
    BY PktParts
  <2>3. QED
    BY <1>2, <2>1, <2>2
<1>4. w \in WorkSet(n)
  <2>1. <<>> \in Seq(Items(n)) /\ "PASS" \in {"PASS", "HANDLED", "error"}
    OBVIOUS
  <2>2. QED
    BY <1>3, <2>1 DEF First, Work, WorkSet
<1> HIDE DEF w
<1>5. ErrOk(mgr.u) /\ DiscoOk(mgr)
  BY AroundParts DEF IInv, InOrder, ErrOk, DiscoOk
<1>6. DOMAIN w.out = {}
  <2>1. DOMAIN <<>> = {}
    OBVIOUS
  <2>2. QED
    BY <1>1, <2>1, Zenon
<1>7. Told(w)
  BY <1>1 DEF Told, U
<1>8. Ok(w, n)
  BY <1>1, <1>2, <1>3, <1>4, <1>5, <1>6, <1>7 DEF Ok
<1>9. AllQuiet(w)
  BY <1>6 DEF AllQuiet, Quiet
<1>10. QED
  BY <1>1, <1>2, <1>8, <1>9 DEF w

(* What is around the manager when it has handled a packet.                *)
Before(w, q, on) ==
    [queue |-> q, asked |-> asked \cap on, view |-> view, bounced |-> bounced,
     fate |-> IF w.id > Len(fate) THEN Append(fate, <<>>) ELSE fate]

LEMMA BeforeOk ==
    ASSUME IInv, NEW n, NEW w, Ok(w, n), n = Len(log) \/ n = Len(log) + 1, NEW q, q \in Seq(Pkt(n)),
           \A i \in DOMAIN q : Waits(q[i], bounced), NEW on, on \subseteq Services
    PROVE  LET b == Before(w, q, on)
           IN  EnvOk(b, n, on) /\ b.view = view /\ b.bounced = bounced
<1> DEFINE f == IF w.id > Len(fate) THEN Append(fate, <<>>) ELSE fate
           b == Before(w, q, on)
<1>1. /\ Len(log) \in Nat /\ Len(fate) = Len(log) /\ fate \in Seq(Seq(Fate)) /\ n \in Nat
      /\ view \in [Peers -> [Resources -> Shown]] /\ bounced \in [Resources -> SUBSET Peers]
  BY AroundParts, EnvParts DEF IInv, Listing, InOrder, Ok
<1>2. w.id \in 0..n /\ (n > Len(fate) => w.id = n)
  BY DEF Ok, WorkSet
<1>3. f \in Seq(Seq(Fate)) /\ Len(f) = n
  <2>1. CASE n = Len(log)
    BY <1>1, <1>2, <2>1
  <2>2. CASE n = Len(log) + 1
    <3>1. f = Append(fate, <<>>)
      BY <1>1, <1>2, <2>2
    <3>2. Append(fate, <<>>) \in Seq(Seq(Fate)) /\ Len(Append(fate, <<>>)) = Len(fate) + 1
      <4>1. <<>> \in Seq(Fate)
        OBVIOUS
      <4> DEFINE z == <<>>
      <4> HIDE DEF z
      <4>2. z \in Seq(Fate)
        BY <4>1 DEF z
      <4>3. Append(fate, z) \in Seq(Seq(Fate)) /\ Len(Append(fate, z)) = Len(fate) + 1
        BY <1>1, <4>2
      <4>4. QED
        BY <4>3 DEF z
    <3>3. QED
      BY <1>1, <2>2, <3>1, <3>2
  <2>3. QED
    BY <2>1, <2>2
<1>4. b = [queue |-> q, asked |-> asked \cap on, view |-> view, bounced |-> bounced, fate |-> f]
  BY DEF Before
<1> HIDE DEF f, b
<1>5. b \in Env(n, on) /\ b.queue = q /\ b.view = view /\ b.bounced = bounced /\ b.fate = f
  BY <1>1, <1>3, <1>4 DEF Env
<1>6. QED
  BY <1>1, <1>3, <1>5 DEF EnvOk, b

LEMMA TakeOk ==
    ASSUME IInv, NEW n, NEW w, Ok(w, n), Settled(w.m.u), n = Len(log) \/ n = Len(log) + 1,
           NEW q, q \in Seq(Pkt(n)), \A i \in DOMAIN q : Waits(q[i], bounced),
           NEW on, on \subseteq Services, w.m.dyn \cap Services \subseteq on, NEW reach, Take(w, q, on, reach)
    PROVE  InOrder(mgr', Around', online', n) /\ scene' \in DOMAIN Scenes
<1> DEFINE b == Before(w, q, on)
           v == Emitted(b, w.out, reach, on)
<1>1. /\ mgr' = w.m /\ queue' = v.queue /\ asked' = v.asked /\ fate' = v.fate /\ view' = v.view
      /\ bounced' = v.bounced /\ online' = on /\ scene' = scene
  BY DEF Take, Before
<1>2. EnvOk(b, n, on) /\ b.view = view /\ b.bounced = bounced
  BY BeforeOk
<1> HIDE DEF b
<1>3. w.out \in Seq(Items(n)) /\ \A i \in DOMAIN w.out : ItemOk(w.out[i], w.m.u, n)
  BY OkParts DEF Ok
<1>4. /\ EnvOk(v, n, on) /\ More(b, v)
      /\ \A c \in Peers, r \in Resources :
            (Forgets(b, c, r) \/ Withdrawn(w.out, c, r)) /\ ~Claims(w.out, c, r) => Forgets(v, c, r)
  BY <1>2, <1>3, EmittedOk
<1> HIDE DEF v
<1>5. EnvOk(Around', n, on) /\ Around' = v
  <2>1. v \in Env(n, on)
    BY <1>4, EnvParts
  <2>2. Around' = v
    BY <1>1, <2>1 DEF Around, Env
  <2>3. QED
    BY <1>4, <2>2
<1>6. w.m \in Mgr(n) /\ UserOk(w.m.u)
  BY OkParts
<1>7. \A r \in Resources : w.m.u.s[r].E \cap Peers \subseteq v.bounced[r]
  BY <1>2, <1>4 DEF Ok, ErrOk, More
<1>8. w.m.cache = <<>> \/ w.m.cache = <<w.m.dyn \cup Static>>
  BY DEF Ok, DiscoOk
<1>9. ASSUME Discreet, NEW c \in Peers, NEW r \in Resources, ~Believed(w.m.u, c, r) PROVE Forgets(v, c, r)
  <2>1. ~Claims(w.out, c, r)
    BY <1>3, <1>9 DEF Claims, ItemOk, Writable
  <2>2. Forgets(b, c, r) \/ Withdrawn(w.out, c, r)
    <3>1. Forgets(Around, c, r) \/ Believed(U, c, r)
      BY <1>9 DEF IInv, InOrder, U
    <3>2. Forgets(Around, c, r) <=> Forgets(b, c, r)
      BY <1>2, AroundParts DEF Forgets
    <3>3. ~Forgets(b, c, r) => c \notin bounced[r]
      BY <1>2 DEF Forgets
    <3>4. QED
      BY <1>9, <3>1, <3>2, <3>3 DEF Ok, Told
  <2>3. QED
    BY <1>4, <2>1, <2>2
<1>10. InOrder(w.m, v, on, n)
  BY <1>4, <1>6, <1>7, <1>8, <1>9 DEF InOrder
<1>11. scene \in DOMAIN Scenes
  BY DEF IInv
<1>12. QED
  BY <1>1, <1>5, <1>10, <1>11


(* One packet handled.                                                     *)
LEMMA StepOk ==
    ASSUME IInv, NEW n, NEW p, n = Len(log) \/ n = Len(log) + 1,
           NEW q, q \in Seq(Pkt(n)), \A i \in DOMAIN q : Waits(q[i], bounced),
           NEW on, on \subseteq Services,
           \A io \in BOOLEAN : LET d == Dispatch(First(p, io)) IN Ok(d, n) /\ Settled(d.m.u) /\ d.m.dyn \cap Services \subseteq on,
           Step(p, q, on)
    PROVE  InOrder(mgr', Around', online', n) /\ scene' \in DOMAIN Scenes
<1>1. \E reach : \E io \in BOOLEAN : Take(Dispatch(First(p, io)), q, on, reach)
  <2>1. PICK reach \in (IF "bounce" \in Scenes[scene].may THEN {Peers} \cup {Peers \ {c} : c \in Peers} ELSE {Peers}),
             io \in (IF "spool" \in Scenes[scene].may THEN BOOLEAN ELSE {TRUE}) :
                Take(Dispatch([Work(p) EXCEPT !.io = io]), q, on, reach)
    BY Zenon DEF Step
  <2>2. io \in BOOLEAN
    OBVIOUS
  <2>3. Take(Dispatch(First(p, io)), q, on, reach)
    BY <2>1 DEF First
  <2>4. QED
    BY <2>2, <2>3
<1>4. PICK reach : \E io \in BOOLEAN : Take(Dispatch(First(p, io)), q, on, reach)
  BY <1>1
<1>5. PICK io \in BOOLEAN : Take(Dispatch(First(p, io)), q, on, reach)
  BY <1>4
<1> DEFINE d == Dispatch(First(p, io))
<1>2. Ok(d, n) /\ Settled(d.m.u) /\ d.m.dyn \cap Services \subseteq on /\ Take(d, q, on, reach)
  BY <1>5
<1> HIDE DEF d
<1>3. QED
  BY <1>2, TakeOk

\* the number of messages and requests sent when packet p has come
Counts(p, n) == n \in Nat /\ p \in Pkt(n) /\ (n = Len(log) \/ (n = Len(log) + 1 /\ p.id = n))

LEMMA ArriveStep ==
    ASSUME IInv, NEW n, NEW p, Counts(p, n), NEW q, q \in Seq(Pkt(n)), \A i \in DOMAIN q : Waits(q[i], bounced),
           \A w : w.pkt = p /\ w.m = mgr => Arrives(p, w, n), Step(p, q, online)
    PROVE  InOrder(mgr', Around', online', n) /\ scene' \in DOMAIN Scenes
<1>1. ASSUME NEW io \in BOOLEAN
      PROVE  LET d == Dispatch(First(p, io)) IN Ok(d, n) /\ Settled(d.m.u) /\ d.m.dyn \cap Services \subseteq online
  <2> DEFINE w == First(p, io)
             d == Dispatch(w)
  <2>1. Ok(w, n) /\ AllQuiet(w) /\ Settled(w.m.u) /\ w.ret = "PASS" /\ w.pkt = p /\ w.m = mgr
    BY WorkOk DEF Counts
  <2> HIDE DEF w
  <2>2. Arrives(w.pkt, w, n)
    BY <2>1
  <2>3. Ok(d, n) /\ Settled(d.m.u)
    BY <2>1, <2>2, DispatchOk
  <2> HIDE DEF d
  <2>4. d.m.dyn \cap Services \subseteq online
    BY <2>3 DEF Ok, DiscoOk
  <2>5. QED
    BY <2>3, <2>4 DEF d, w
<1>2. online \subseteq Services /\ (n = Len(log) \/ n = Len(log) + 1)
  BY DEF IInv, InOrder, Counts
<1> DEFINE Fine(io) == LET d == Dispatch(First(p, io)) IN Ok(d, n) /\ Settled(d.m.u) /\ d.m.dyn \cap Services \subseteq online
<1>3. QED
  BY <1>1, <1>2, StepOk

LEMMA AdvertStep ==
    ASSUME IInv, NEW n, NEW p, n = Len(log), Advert(p, n), NEW on, on \subseteq Services,
           online \ {p.from[1]} \subseteq on, p.type = "unavailable" \/ online \subseteq on, Step(p, queue, on)
    PROVE  InOrder(mgr', Around', online', n) /\ scene' \in DOMAIN Scenes
<1>1. ASSUME NEW io \in BOOLEAN
      PROVE  LET d == Dispatch(First(p, io)) IN Ok(d, n) /\ Settled(d.m.u) /\ d.m.dyn \cap Services \subseteq on
  <2> DEFINE w == First(p, io)
             d == Dispatch(w)
  <2>0. n \in Nat /\ p \in Pkt(n)
    BY DEF IInv, Listing, Advert
  <2>1. Ok(w, n) /\ AllQuiet(w) /\ Settled(w.m.u) /\ w.pkt = p
    BY <2>0, WorkOk
  <2> HIDE DEF w
  <2>2. Advert(w.pkt, n)
    BY <2>1
  <2>3. Ok(d, n) /\ Settled(d.m.u) /\ (w.pkt.type = "unavailable" => w.pkt.from[1] \notin d.m.dyn)
    BY <2>1, <2>2, AdvertOk
  <2> HIDE DEF d
  <2>4. d.m.dyn \cap Services \subseteq online
    BY <2>3 DEF Ok, DiscoOk
  <2>5. d.m.dyn \cap Services \subseteq on
    BY <2>1, <2>3, <2>4
  <2>6. QED
    BY <2>3, <2>5 DEF d, w
<1>2. queue \in Seq(Pkt(n)) /\ \A i \in DOMAIN queue : Waits(queue[i], bounced)
  BY AroundParts, EnvParts DEF IInv, InOrder, EnvOk
<1>3. QED
  BY <1>1, <1>2, StepOk

\* what is queued stays in order when more has been sent
LEMMA QueueStays ==
    ASSUME IInv, NEW n, n \in Nat, n = Len(log) \/ n = Len(log) + 1
    PROVE  queue \in Seq(Pkt(n)) /\ \A i \in DOMAIN queue : Waits(queue[i], bounced)
<1>1. PICK k : k = Len(log)
  OBVIOUS
<1>2. k \in Nat /\ k <= n /\ queue \in Seq(Pkt(k)) /\ \A i \in DOMAIN queue : Waits(queue[i], bounced)
  <2>0. k \in Nat /\ (n = k \/ n = k + 1)
    BY <1>1 DEF IInv, Listing
  <2>1. k \in Nat /\ k <= n
    BY <2>0
  <2>2. EnvOk(Around, k, online)
    BY <1>1 DEF IInv, InOrder
  <2>3. QED
    BY <2>1, <2>2, AroundParts, EnvParts DEF EnvOk
<1>3. Seq(Pkt(k)) \subseteq Seq(Pkt(n))
  BY <1>2, Wider
<1>4. QED
  BY <1>2, <1>3

\* a control packet of c2s or an advertisement of the router
LEMMA ControlIn ==
    ASSUME NEW n, n \in Nat, NEW e, e \in {"start", "end"}, NEW r, r \in Resources
    PROVE  LET p == [Packet(e, "", NoJid, NoJid) EXCEPT !.sess = r]
           IN  p \in Pkt(n) /\ p.elem = e /\ p.sess = r /\ ~p.rerr
<1> DEFINE k == Packet(e, "", NoJid, NoJid)
           p == [k EXCEPT !.sess = r]
<1>1. k \in Pkt(n)
  <2>1. e \in Elems /\ "" \in Types /\ e # "presence"
    BY DEF Elems, Types
  <2>2. QED
    BY <2>1, JidsIn, PacketIn
<1>2. k.elem = e /\ ~k.rerr
  BY DEF Packet
<1> HIDE DEF k
<1>3. p \in PktRec(n) /\ p.elem = e /\ p.sess = r /\ ~p.rerr
  <2>1. k \in PktRec(n)
    BY <1>1, PktParts
  <2>2. QED
    BY <1>2, <2>1 DEF PktRec
<1> HIDE DEF p
<1>4. p \in Pkt(n)
  BY <1>3 DEF Pkt, PktRec
<1>5. QED
  BY <1>3, <1>4 DEF p, k

LEMMA AdvertIn ==
    ASSUME NEW n, n \in Nat, NEW t, t \in {"presence", "unavailable"}, NEW c, c \in Services \cup {"c2s"}
    PROVE  LET p == Packet("advert", t, NoJid, Jid(c)) IN Advert(p, n) /\ p.from[1] = c /\ p.type = t
<1> DEFINE p == Packet("advert", t, NoJid, Jid(c))
<1>1. c \in Heads /\ "advert" \in Elems /\ t \in Types /\ "advert" # "presence"
  BY DEF Heads, Elems, Types, PresTypes
<1>2. Jid(c) \in Jids /\ Jid(c)[1] = c
  BY <1>1, JidsIn
<1>3. p \in Pkt(n)
  BY <1>1, <1>2, JidsIn, PacketIn
<1>4. p.elem = "advert" /\ p.sess = "" /\ ~p.rerr /\ p.from = Jid(c) /\ p.type = t
  BY DEF Packet
<1> HIDE DEF p
<1>5. QED
  BY <1>2, <1>3, <1>4 DEF Advert, p

LEMMA ControlStep ==
    ASSUME IInv, NEW e, e \in {"start", "end"}, NEW r, r \in Resources, e = "end" => mgr.u.s[r].on,
           Step([Packet(e, "", NoJid, NoJid) EXCEPT !.sess = r], queue, online), log' = log
    PROVE  IInv'
<1>1. PICK n : n = Len(log)
  OBVIOUS
<1>2. n \in Nat
  BY <1>1 DEF IInv, Listing
<1> DEFINE p == [Packet(e, "", NoJid, NoJid) EXCEPT !.sess = r]
<1>3. p \in Pkt(n) /\ p.elem = e /\ p.sess = r /\ ~p.rerr
  BY <1>2, ControlIn
<1>4. Step(p, queue, online)
  OBVIOUS
<1> HIDE DEF p
<1>5. \A w : w.pkt = p /\ w.m = mgr => Arrives(p, w, n)
  <2>1. r # ""
    BY JidsIn
  <2>2. QED
    BY <1>3, <2>1 DEF Arrives, ForSession
<1>6. Counts(p, n)
  BY <1>1, <1>2, <1>3 DEF Counts
<1>7. queue \in Seq(Pkt(n)) /\ \A i \in DOMAIN queue : Waits(queue[i], bounced)
  BY <1>1, <1>2, QueueStays
<1>8. InOrder(mgr', Around', online', n) /\ scene' \in DOMAIN Scenes
  BY <1>4, <1>5, <1>6, <1>7, ArriveStep
<1>9. Listing' /\ Len(log') = n
  BY <1>1 DEF IInv, Listing
<1>10. QED
  BY <1>8, <1>9 DEF IInv

LEMMA C2SGoneOk ==
    ASSUME IInv, C2SGone
    PROVE  IInv'
<1>1. PICK n : n = Len(log)
  OBVIOUS
<1>2. n \in Nat /\ online \subseteq Services
  BY <1>1 DEF IInv, Listing, InOrder
<1> DEFINE p == Packet("advert", "unavailable", NoJid, Jid("c2s"))
<1>3. Advert(p, n) /\ p.type = "unavailable"
  BY <1>2, AdvertIn
<1>4. Step(p, queue, online) /\ log' = log
  BY DEF C2SGone
<1> HIDE DEF p
<1>5. InOrder(mgr', Around', online', n) /\ scene' \in DOMAIN Scenes
  BY <1>1, <1>2, <1>3, <1>4, AdvertStep
<1>6. Listing' /\ Len(log') = n
  BY <1>1, <1>4 DEF IInv, Listing
<1>7. QED
  BY <1>5, <1>6 DEF IInv

LEMMA ServiceUpOk ==
    ASSUME IInv, NEW c \in Services, ServiceUp(c)
    PROVE  IInv'
<1>1. PICK n : n = Len(log)
  OBVIOUS
<1>2. n \in Nat /\ online \subseteq Services
  BY <1>1 DEF IInv, Listing, InOrder
<1> DEFINE p == Packet("advert", "presence", NoJid, Jid(c))
<1>3. Advert(p, n)
  BY <1>2, AdvertIn
<1>4. PICK on : on = online \cup {c}
  OBVIOUS
<1>5. Step(p, queue, on) /\ log' = log
  BY <1>4 DEF ServiceUp
<1> HIDE DEF p
<1>6. on \subseteq Services /\ online \subseteq on
  BY <1>2, <1>4
<1>7. InOrder(mgr', Around', online', n) /\ scene' \in DOMAIN Scenes
  BY <1>1, <1>3, <1>5, <1>6, AdvertStep
<1>8. Listing' /\ Len(log') = n
  BY <1>1, <1>5 DEF IInv, Listing
<1>9. QED
  BY <1>7, <1>8 DEF IInv

LEMMA ServiceDownOk ==
    ASSUME IInv, NEW c \in Services, ServiceDown(c)
    PROVE  IInv'
<1>1. PICK n : n = Len(log)
  OBVIOUS
<1>2. n \in Nat /\ online \subseteq Services
  BY <1>1 DEF IInv, Listing, InOrder
<1> DEFINE p == Packet("advert", "unavailable", NoJid, Jid(c))
<1>3. Advert(p, n) /\ p.from[1] = c /\ p.type = "unavailable"
  BY <1>2, AdvertIn
<1>4. PICK on : on = online \ {c}
  OBVIOUS
<1>5. Step(p, queue, on) /\ log' = log
  BY <1>4 DEF ServiceDown
<1> HIDE DEF p
<1>6. on \subseteq Services /\ online \ {p.from[1]} \subseteq on
  BY <1>2, <1>3, <1>4
<1>7. InOrder(mgr', Around', online', n) /\ scene' \in DOMAIN Scenes
  BY <1>1, <1>3, <1>5, <1>6, AdvertStep
<1>8. Listing' /\ Len(log') = n
  BY <1>1, <1>5 DEF IInv, Listing
<1>9. QED
  BY <1>7, <1>8 DEF IInv


(* What clients and peers send.  The stanzas, before they are parsed, with *)
(* the session or the sender they are from, and with a number.             *)
RawTypes == STRING \cup {""}
Raw(y, n) ==
    /\ y \in RawRec(n, RawTypes) /\ y.elem \in {"message", "presence", "iq", "stanza"}
    /\ y.elem = "stanza" => y.type = ""
    /\ ~y.err /\ ~y.rerr
Of(x, r) == [x EXCEPT !.sess = r]
By(x, c) == [x EXCEPT !.from = Jid(c)]
Numbered(x, i) == [x EXCEPT !.id = i]
Alike(y, x) == y.elem = x.elem /\ y.type = x.type /\ y.to = x.to

LEMMA StanzaIn ==
    ASSUME NEW x, x \in Stanza
    PROVE  Raw(x, 0) /\ x.from = NoJid /\ x.sess = ""
<1>1. /\ x.elem \in {"message", "presence", "iq", "stanza"} /\ x.type \in RawTypes /\ x.err = FALSE /\ x.to \in Jids
      /\ x.from = NoJid /\ x.ns \in Namespaces /\ x.node \in Nodes /\ x.pri \in Int /\ x.rule \in Seq(Rule) /\ x.id = 0
      /\ x.sess = "" /\ x.rerr = FALSE /\ (x.elem = "stanza" => x.type = "")
  BY DEF Stanza, RawTypes
<1>2. x \in RawRec(0, RawTypes)
  <2>0. {0} \subseteq 0..0 /\ {""} \subseteq Resources \cup {""} /\ {FALSE} \subseteq BOOLEAN
    OBVIOUS
  <2>1. {"message", "presence", "iq", "stanza"} \subseteq Elems /\ {NoJid} \subseteq Jids
    <3>1. NoJid \in Jids
      BY JidsIn
    <3> HIDE DEF NoJid
    <3>2. QED
      BY <3>1 DEF Elems
  <2> DEFINE E == {"message", "presence", "iq", "stanza"}
             F == {NoJid}
  <2>2. x \in [elem : E, type : RawTypes, err : {FALSE}, to : Jids, from : F, ns : Namespaces, node : Nodes,
               pri : Int, rule : Seq(Rule), id : {0}, sess : {""}, rerr : {FALSE}]
    BY DEF Stanza, RawTypes
  <2>3. E \subseteq Elems /\ F \subseteq Jids
    BY <2>1
  <2> HIDE DEF E, F
  <2>4. QED
    BY <2>0, <2>2, <2>3 DEF RawRec
<1>3. QED
  BY <1>1, <1>2 DEF Raw

LEMMA RawChanges ==
    ASSUME NEW n, NEW x, Raw(x, n)
    PROVE  /\ \A r \in Resources : LET y == Of(x, r) IN Raw(y, n) /\ Alike(y, x) /\ y.from = x.from /\ y.sess = r
           /\ \A c \in Peers : LET y == By(x, c) IN Raw(y, n) /\ Alike(y, x) /\ y.from = Jid(c) /\ y.sess = x.sess
           /\ \A m, i : i \in 0..m => LET y == Numbered(x, i)
                                      IN  Raw(y, m) /\ Alike(y, x) /\ y.from = x.from /\ y.sess = x.sess /\ y.id = i
<1>1. ASSUME NEW r \in Resources
      PROVE  LET y == Of(x, r) IN Raw(y, n) /\ Alike(y, x) /\ y.from = x.from /\ y.sess = r
  BY DEF Raw, RawRec, Of, Alike
<1>2. ASSUME NEW c \in Peers
      PROVE  LET y == By(x, c) IN Raw(y, n) /\ Alike(y, x) /\ y.from = Jid(c) /\ y.sess = x.sess
  <2>1. PICK j : j = Jid(c) /\ j \in Jids
    BY JidsIn DEF Heads, Known
  <2>2. By(x, c) = [x EXCEPT !.from = j]
    BY <2>1 DEF By
  <2> DEFINE y == [x EXCEPT !.from = j]
  <2>3. Raw(y, n) /\ Alike(y, x) /\ y.from = j /\ y.sess = x.sess
    BY <2>1 DEF Raw, RawRec, Alike
  <2> HIDE DEF y
  <2>4. QED
    BY <2>1, <2>2, <2>3 DEF y
<1>3. ASSUME NEW m, NEW i, i \in 0..m
      PROVE  LET y == Numbered(x, i) IN Raw(y, m) /\ Alike(y, x) /\ y.from = x.from /\ y.sess = x.sess /\ y.id = i
  <2> DEFINE M == 0..m
  <2>1. i \in M
    BY <1>3
  <2>2. RawRec(m, RawTypes) = [elem : Elems, type : RawTypes, err : BOOLEAN, to : Jids, from : Jids, ns : Namespaces,
                               node : Nodes, pri : Int, rule : Seq(Rule), id : M, sess : Resources \cup {""}, rerr : BOOLEAN]
    BY DEF RawRec
  <2> HIDE DEF M
  <2>3. LET y == Numbered(x, i)
        IN  /\ y \in [elem : Elems, type : RawTypes, err : BOOLEAN, to : Jids, from : Jids, ns : Namespaces,
                      node : Nodes, pri : Int, rule : Seq(Rule), id : M, sess : Resources \cup {""}, rerr : BOOLEAN]
            /\ y.elem = x.elem /\ y.type = x.type /\ y.to = x.to /\ y.from = x.from /\ y.sess = x.sess /\ y.id = i
            /\ y.err = x.err /\ y.rerr = x.rerr
    BY <2>1 DEF Raw, RawRec, Numbered
  <2> DEFINE y == Numbered(x, i)
  <2> HIDE DEF y
  <2>4. Raw(y, m) /\ Alike(y, x)
    BY <2>2, <2>3 DEF Raw, Alike, y
  <2>5. QED
    BY <2>3, <2>4 DEF y
<1>4. QED
  BY <1>1, <1>2, <1>3

(* The type that a packet is given depends on its element and type.        *)
LEMMA SameType ==
    ASSUME NEW n, NEW m, NEW x, Raw(x, n), NEW y, Raw(y, m), y.elem = x.elem, y.type = x.type
    PROVE  PktNew(y).type = PktNew(x).type
<1>1. \A k, j, t : Raw(k, j) => [k EXCEPT !.type = t].type = t
  BY DEF Raw, RawRec
<1>2. CASE x.elem = "message"
  <2> DEFINE t == IF x.type \in {"chat", "headline", "groupchat"} THEN x.type ELSE "message"
  <2>1. PktNew(x) = [x EXCEPT !.type = t] /\ PktNew(y) = [y EXCEPT !.type = t]
    BY <1>2 DEF PktNew
  <2> HIDE DEF t
  <2>2. QED
    BY <1>1, <2>1
<1>3. CASE x.elem = "presence"
  <2> DEFINE t == IF x.type \in {"unavailable", "probe", "subscribe", "subscribed", "unsubscribe", "unsubscribed"}
                  THEN x.type ELSE "presence"
  <2>1. PktNew(x) = [x EXCEPT !.type = t] /\ PktNew(y) = [y EXCEPT !.type = t]
    BY <1>3 DEF PktNew
  <2> HIDE DEF t
  <2>2. QED
    BY <1>1, <2>1
<1>4. CASE x.elem = "iq"
  <2> DEFINE t == IF x.type \in {"get", "set", "result"} THEN x.type ELSE "get"
  <2>1. PktNew(x) = [x EXCEPT !.type = t] /\ PktNew(y) = [y EXCEPT !.type = t]
    BY <1>4 DEF PktNew
  <2> HIDE DEF t
  <2>2. QED
    BY <1>1, <2>1
<1>5. CASE x.elem = "stanza"
  BY <1>5 DEF PktNew
<1>6. QED
  BY <1>2, <1>3, <1>4, <1>5 DEF Raw

\* q is stanza y as a packet
Read(q, y, n) ==
    /\ q \in Pkt(n) /\ q.to = y.to /\ q.from = y.from /\ q.sess = y.sess /\ q.elem = y.elem /\ ~q.err /\ ~q.rerr
    /\ q.type = PktNew(y).type

LEMMA ReadIs ==
    ASSUME NEW y, Raw(y, 0), NEW n, NEW i, i \in 0..n
    PROVE  LET q == PktNew(Numbered(y, i)) IN Read(q, y, n) /\ q.id = i
<1> DEFINE k == Numbered(y, i)
           q == PktNew(k)
<1>1. Raw(k, n) /\ Alike(k, y) /\ k.from = y.from /\ k.sess = y.sess /\ k.id = i
  BY RawChanges
<1> HIDE DEF k
<1>2. k \in RawRec(n, RawTypes) /\ (k.elem \notin {"message", "presence", "iq"} => k.type \in Types)
  BY <1>1 DEF Raw, Types
<1>3. Parsed(q, k, n)
  BY <1>2, NewIn
<1>4. q.type = PktNew(y).type
  BY <1>1, SameType DEF Alike
<1> HIDE DEF q
<1>5. Read(q, y, n) /\ q.id = i
  BY <1>1, <1>3, <1>4 DEF Parsed, Read, Plain, Raw, Alike
<1>6. QED
  BY <1>5 DEF q, k

LEMMA SendStep ==
    ASSUME IInv, NEW y, Raw(y, 0), NEW by, Send(y, by),
           \A q, n, w : Read(q, y, n) /\ w.pkt = q /\ w.m = mgr => Arrives(q, w, n)
    PROVE  IInv'
<1>1. PICK l : l = Len(log)
  OBVIOUS
<1>2. l \in Nat
  BY <1>1 DEF IInv, Listing
<1>3. PICK i : i = IF Followed(y) THEN l + 1 ELSE 0
  OBVIOUS
<1>4. PICK n : n = IF Followed(y) THEN l + 1 ELSE l
  OBVIOUS
<1>5. n \in Nat /\ i \in 0..n /\ (n = l \/ (n = l + 1 /\ i = n))
  BY <1>2, <1>3, <1>4
<1> DEFINE p == PktNew(Numbered(y, i))
<1>6. Step(p, queue, online)
  BY <1>1, <1>3 DEF Send, Numbered
<1>7. Read(p, y, n) /\ p.id = i
  BY <1>5, ReadIs
<1> HIDE DEF p
<1>8. Counts(p, n)
  BY <1>1, <1>5, <1>7 DEF Counts, Read
<1>9. queue \in Seq(Pkt(n)) /\ \A j \in DOMAIN queue : Waits(queue[j], bounced)
  BY <1>1, <1>5, QueueStays
<1>10. \A w : w.pkt = p /\ w.m = mgr => Arrives(p, w, n)
  BY <1>7
<1>11. InOrder(mgr', Around', online', n) /\ scene' \in DOMAIN Scenes
  BY <1>6, <1>8, <1>9, <1>10, ArriveStep
<1>12. Listing' /\ Len(log') = n
  <2>1. CASE ~Followed(y)
    <3>1. log' = log
      BY <2>1 DEF Send
    <3>2. QED
      BY <1>1, <1>4, <2>1, <3>1 DEF IInv, Listing
  <2>2. CASE Followed(y)
    <3> DEFINE e == [x |-> y, by |-> by]
    <3>1. log' = Append(log, e)
      BY <2>2 DEF Send
    <3> HIDE DEF e
    <3>2. PICK S : log \in Seq(S)
      BY DEF IInv, Listing
    <3>3. log \in Seq(S \cup {e}) /\ e \in S \cup {e}
      BY <3>2
    <3>4. Append(log, e) \in Seq(S \cup {e}) /\ Len(Append(log, e)) = l + 1
      BY <1>1, <3>3
    <3>5. DOMAIN log' = 1..Len(log') /\ Len(log') \in Nat /\ log' \in Seq(S \cup {e})
      BY <3>1, <3>4
    <3>6. Listing'
      BY <3>5 DEF Listing
    <3>7. QED
      BY <1>4, <2>2, <3>1, <3>4, <3>6
  <2>3. QED
    BY <2>1, <2>2
<1>13. QED
  BY <1>11, <1>12 DEF IInv

LEMMA FromSessionOk ==
    ASSUME IInv, NEW r \in Resources, FromSession(r)
    PROVE  IInv'
<1>1. PICK x \in Scenes[scene].client : mgr.u.s[r].on /\ Send([x EXCEPT !.sess = r], r)
  BY DEF FromSession
<1>2. x \in Stanza /\ x.to[1] \in Known \cup {""}
  <2>1. scene \in DOMAIN Scenes
    BY DEF IInv
  <2>2. QED
    BY <2>1, <1>1, ManagerAssumption
<1>3. Raw(x, 0) /\ x.from = NoJid
  BY <1>2, StanzaIn
<1> DEFINE y == Of(x, r)
<1>4. Raw(y, 0) /\ Alike(y, x) /\ y.from = x.from /\ y.sess = r
  BY <1>3, RawChanges
<1>5. Send(y, r)
  BY <1>1 DEF Of
<1> HIDE DEF y
<1>6. Discreet => (PktNew(y).type = "presence" => x.to[1] \notin Roster)
  <2>1. PktNew(y).type = PktNew(x).type
    BY <1>3, <1>4, SameType DEF Alike
  <2>2. QED
    BY <1>1, <2>1 DEF Discreet, IInv
<1>7. ASSUME NEW q, NEW n, NEW w, Read(q, y, n), w.pkt = q, w.m = mgr
      PROVE  Arrives(q, w, n)
  <2>1. r # ""
    BY JidsIn
  <2>2. /\ q \in Pkt(n) /\ q.to = x.to /\ q.from = NoJid /\ q.sess = r /\ q.elem \in {"message", "presence", "iq", "stanza"}
        /\ ~q.err /\ ~q.rerr /\ q.type = PktNew(y).type
    BY <1>3, <1>4, <1>7 DEF Read, Alike, Raw
  <2>3. q.elem # "advert" /\ q.elem \notin {"start", "end"}
    BY <2>2
  <2>4. ClientPkt(q, r, n)
    BY <1>2, <1>6, <2>2, <2>3 DEF ClientPkt, Is
  <2>5. QED
    BY <1>1, <1>7, <2>1, <2>2, <2>3, <2>4 DEF Arrives, ForSession
<1>8. QED
  BY <1>4, <1>5, <1>7, SendStep

LEMMA FromOutsideOk ==
    ASSUME IInv, NEW c \in Peers, FromOutside(c)
    PROVE  IInv'
<1>1. PICK x \in Scenes[scene].peer : Send([x EXCEPT !.from = Jid(c)], c)
  BY DEF FromOutside
<1>2. x \in Stanza /\ x.to[1] \in Ours
  <2>1. scene \in DOMAIN Scenes
    BY DEF IInv
  <2>2. QED
    BY <2>1, <1>1, ManagerAssumption
<1>3. Raw(x, 0) /\ x.sess = ""
  BY <1>2, StanzaIn
<1> DEFINE y == By(x, c)
<1>4. Raw(y, 0) /\ Alike(y, x) /\ y.from = Jid(c) /\ y.sess = ""
  <2>1. LET z == By(x, c) IN Raw(z, 0) /\ Alike(z, x) /\ z.from = Jid(c) /\ z.sess = x.sess
    BY <1>3, RawChanges
  <2> HIDE DEF y
  <2>2. QED
    BY <1>3, <2>1 DEF y
<1>5. Send(y, c)
  BY <1>1 DEF By
<1> HIDE DEF y
<1>6. ASSUME NEW q, NEW n, NEW w, Read(q, y, n), w.pkt = q, w.m = mgr
      PROVE  Arrives(q, w, n)
  <2>1. Jid(c)[1] = c /\ NoJid[1] = "" /\ c # "" /\ c \notin Services
    BY JidsIn, ManagerAssumption DEF Heads, Known
  <2>2. /\ q \in Pkt(n) /\ q.to = x.to /\ q.from = Jid(c) /\ q.sess = "" /\ q.elem \in {"message", "presence", "iq", "stanza"}
        /\ ~q.err /\ ~q.rerr
    BY <1>3, <1>4, <1>6 DEF Read, Alike, Raw
  <2>3. q.elem # "advert" /\ q.from # NoJid /\ q.from[1] \notin Services
    BY <2>1, <2>2
  <2>4. Comes(q, n)
    BY <1>2, <2>2, <2>3 DEF Comes
  <2>5. QED
    BY <2>2, <2>3, <2>4 DEF Arrives
<1>7. QED
  BY <1>4, <1>5, <1>6, SendStep


(* What the router returns.                                                *)
LEMMA LoopOk ==
    ASSUME IInv, Loop
    PROVE  IInv'
<1>1. PICK n : n = Len(log)
  OBVIOUS
<1>2. n \in Nat
  BY <1>1 DEF IInv, Listing
<1>3. queue \in Seq(Pkt(n)) /\ \A i \in DOMAIN queue : Waits(queue[i], bounced)
  BY <1>1, <1>2, QueueStays
<1>4. queue # <<>> /\ Step(Head(queue), Tail(queue), online) /\ log' = log
  BY DEF Loop
<1>5. PICK p, q : p = Head(queue) /\ q = Tail(queue)
  OBVIOUS
<1>6. p \in Pkt(n) /\ Waits(p, bounced)
  <2>1. p = queue[1] /\ 1 \in DOMAIN queue
    BY <1>3, <1>4, <1>5
  <2>2. QED
    BY <1>3, <2>1
<1>7. q \in Seq(Pkt(n)) /\ \A i \in DOMAIN q : Waits(q[i], bounced)
  <2>1. q \in Seq(Pkt(n)) /\ \A i \in DOMAIN q : i + 1 \in DOMAIN queue /\ q[i] = queue[i + 1]
    BY <1>3, <1>4, <1>5
  <2>2. QED
    BY <1>3, <2>1
<1>8. Arrives(p, p, n)
  <2>1. p.sess = "" /\ p.elem # "advert" /\ p.from[1] \in Ours
    BY <1>6 DEF Waits
  <2>2. p.from # NoJid /\ p.from[1] \notin Services
    <3>1. NoJid[1] = ""
      BY JidsIn
    <3>2. QED
      BY <2>1, <3>1, ManagerAssumption DEF Ours, Known
  <2>3. CASE ~p.rerr
    <3>1. p.to[1] \in Ours
      BY <1>6, <2>3 DEF Waits
    <3>2. p.from[1] \in Known /\ p.from[1] \notin Peers
      BY <2>1, ManagerAssumption DEF Known
    <3>3. Comes(p, n)
      BY <1>6, <2>1, <2>2, <2>3, <3>1, <3>2 DEF Comes
    <3>4. QED
      BY <2>1, <2>2, <3>3 DEF Arrives
  <2>4. CASE p.rerr
    <3>1. Returned(p, n)
      BY <1>6, <2>1, <2>4 DEF Returned, Waits
    <3>2. QED
      BY <2>1, <3>1 DEF Arrives
  <2>5. QED
    BY <2>3, <2>4
<1>9. \A w : w.pkt = p /\ w.m = mgr => Arrives(p, w, n)
  <2>1. p.sess = ""
    BY <1>6 DEF Waits
  <2>2. QED
    BY <1>8, <2>1 DEF Arrives
<1>10. Counts(p, n)
  BY <1>1, <1>2, <1>6 DEF Counts
<1>11. Step(p, q, online)
  BY <1>4, <1>5
<1>12. InOrder(mgr', Around', online', n) /\ scene' \in DOMAIN Scenes
  BY <1>7, <1>9, <1>10, <1>11, ArriveStep
<1>13. Listing' /\ Len(log') = n
  BY <1>1, <1>4 DEF IInv, Listing
<1>14. QED
  BY <1>12, <1>13 DEF IInv

\* what service c says of itself
Says(c, kind) == [Packet("iq", "result", SmId, Jid(c)) EXCEPT !.ns = "disco-info", !.node = kind]

LEMMA SaysIn ==
    ASSUME NEW n, n \in Nat, NEW c, c \in Services, c \in online, NEW kind, kind \in {"", "im", "bad"}
    PROVE  Answer(Says(c, kind), n)
<1> DEFINE k == Packet("iq", "result", SmId, Jid(c))
           p == [k EXCEPT !.ns = "disco-info", !.node = kind]
<1>1. "iq" \in Elems /\ "result" \in Types /\ "iq" # "presence" /\ "disco-info" \in Namespaces /\ kind \in Nodes
  BY DEF Elems, Types, Namespaces, Nodes
<1>2. SmId \in Jids /\ Jid(c) \in Jids /\ Jid(c)[1] = c
  BY JidsIn DEF Heads
<1>3. k \in Pkt(n)
  BY <1>1, <1>2, PacketIn
<1>4. /\ k.elem = "iq" /\ k.type = "result" /\ ~k.err /\ ~k.rerr /\ k.sess = "" /\ k.to = SmId /\ k.from = Jid(c)
  BY DEF Packet
<1> HIDE DEF k
<1>5. k \in PktRec(n)
  BY <1>3, PktParts
<1>6. /\ p \in PktRec(n) /\ p.elem = k.elem /\ p.type = k.type /\ (p.err <=> k.err) /\ (p.rerr <=> k.rerr) /\ p.sess = k.sess
      /\ p.to = k.to /\ p.from = k.from /\ p.ns = "disco-info"
  BY <1>1, <1>5 DEF PktRec
<1>7. p = Says(c, kind)
  BY DEF Says, k
<1> HIDE DEF p
<1>8. p \in Pkt(n)
  BY <1>4, <1>6 DEF Pkt, PktRec
<1>9. QED
  BY <1>2, <1>4, <1>6, <1>7, <1>8 DEF Answer

LEMMA FirstIs ==
    ASSUME NEW p
    PROVE  First(p, TRUE) = Work(p)
<1>1. ASSUME NEW a, NEW b, NEW c, NEW d, NEW e, NEW t
      PROVE  [[m |-> a, pkt |-> b, id |-> c, out |-> d, ret |-> e, io |-> t] EXCEPT !.io = t]
             = [m |-> a, pkt |-> b, id |-> c, out |-> d, ret |-> e, io |-> t]
  OBVIOUS
<1>2. PICK t : t = TRUE
  OBVIOUS
<1>3. Work(p) = [m |-> mgr, pkt |-> p, id |-> p.id, out |-> <<>>, ret |-> "PASS", io |-> t]
  BY <1>2, Zenon DEF Work
<1>4. First(p, t) = Work(p)
  <2>1. PICK i, o, e, a : i = p.id /\ o = <<>> /\ e = "PASS" /\ a = mgr
    OBVIOUS
  <2>2. PICK k : k = [m |-> a, pkt |-> p, id |-> i, out |-> o, ret |-> e, io |-> t]
    OBVIOUS
  <2>3. [k EXCEPT !.io = t] = k
    BY <1>1, <2>2
  <2>4. Work(p) = k
    BY <1>3, <2>1, <2>2
  <2>5. QED
    BY <2>3, <2>4 DEF First
<1>5. QED
  BY <1>2, <1>4, Zenon

(* A service answers: what is known of it changes, and nothing else.       *)
LEMMA ServiceAnswersOk ==
    ASSUME IInv, NEW c \in Services, ServiceAnswers(c)
    PROVE  IInv'
<1>1. PICK n : n = Len(log)
  OBVIOUS
<1>2. n \in Nat /\ InOrder(mgr, Around, online, n) /\ EnvOk(Around, n, online) /\ scene \in DOMAIN Scenes
  BY <1>1 DEF IInv, Listing, InOrder
<1>3. PICK kind \in {"", "im", "bad"} : mgr' = Dispatch(Work(Says(c, kind))).m
  BY DEF ServiceAnswers, Says
<1>4. c \in asked /\ asked' = asked \ {c} /\ UNCHANGED <<scene, queue, online, log, fate, view, bounced>>
  BY DEF ServiceAnswers
<1>5. c \in online
  BY <1>2, <1>4, AroundParts, EnvParts
<1> DEFINE p == Says(c, kind)
           w == First(p, TRUE)
           v == Dispatch(w)
<1>6. Answer(p, n)
  BY <1>2, <1>5, SaysIn
<1> HIDE DEF p
<1>7. w = Work(p)
  BY FirstIs
<1>8. p \in Pkt(n)
  BY <1>6 DEF Answer
<1>9. Ok(w, n) /\ w.ret = "PASS" /\ w.pkt = p /\ w.m = mgr
  BY <1>1, <1>2, <1>8, WorkOk
<1>10. mgr' = v.m
  BY <1>3, <1>7 DEF p
<1> HIDE DEF w
<1>11. Keeps(w, v, n) /\ v.m.u = w.m.u
  BY <1>6, <1>9, AnswerOk
<1> HIDE DEF v
<1>12. mgr'.u = mgr.u
  BY <1>9, <1>10, <1>11
<1>13. mgr' \in Mgr(n)
  BY <1>10, <1>11 DEF Keeps, Ok, WorkSet
<1>14. mgr'.dyn \cap Services \subseteq online /\ (mgr'.cache = <<>> \/ mgr'.cache = <<mgr'.dyn \cup Static>>)
  BY <1>10, <1>11 DEF Keeps, Ok, DiscoOk
<1>15. PICK e : e = Around'
  OBVIOUS
<1>16. e.queue = queue /\ e.asked = asked \ {c} /\ e.view = view /\ e.bounced = bounced /\ e.fate = fate
  BY <1>4, <1>15 DEF Around
<1>17. EnvOk(e, n, online)
  <2>1. e = [queue |-> queue, asked |-> asked \ {c}, view |-> view, bounced |-> bounced, fate |-> fate]
    BY <1>4, <1>15 DEF Around
  <2>2. e \in Env(n, online)
    BY <1>2, <2>1, AroundParts, EnvParts DEF Env
  <2>3. Len(fate) = n /\ \A i \in DOMAIN queue : Waits(queue[i], bounced)
    BY <1>2, AroundParts DEF EnvOk
  <2>4. QED
    BY <1>2, <1>16, <2>2, <2>3 DEF EnvOk
<1>18. \A x \in Peers, r \in Resources : Forgets(e, x, r) <=> Forgets(Around, x, r)
  BY <1>16, AroundParts DEF Forgets
<1>19. InOrder(mgr', e, online, n)
  <2>1. PICK m : m = mgr'
    OBVIOUS
  <2>2. m.u = mgr.u /\ m \in Mgr(n) /\ m.dyn \cap Services \subseteq online /\ (m.cache = <<>> \/ m.cache = <<m.dyn \cup Static>>)
    BY <1>12, <1>13, <1>14, <2>1
  <2>3. UserOk(m.u) /\ Settled(m.u) /\ (\A r \in Resources : m.u.s[r].E \cap Peers \subseteq e.bounced[r])
        /\ online \subseteq Services
    BY <1>2, <1>16, <2>2, AroundParts DEF InOrder
  <2>4. Discreet => \A x \in Peers, r \in Resources : Forgets(e, x, r) \/ Believed(m.u, x, r)
    BY <1>2, <1>18, <2>2 DEF InOrder
  <2>5. InOrder(m, e, online, n)
    BY <1>17, <2>2, <2>3, <2>4 DEF InOrder
  <2>6. QED
    BY <2>1, <2>5
<1>20. Listing' /\ Len(log') = n /\ scene' \in DOMAIN Scenes /\ online' = online
  BY <1>1, <1>2, <1>4 DEF IInv, Listing
<1>21. QED
  BY <1>15, <1>19, <1>20 DEF IInv


(* The inductive invariant.                                                *)
LEMMA InitOk ==
    ASSUME Init
    PROVE  IInv
<1>1. /\ scene \in DOMAIN Scenes /\ mgr = [u |-> NoUser, spool |-> <<>>, dyn |-> {}, cache |-> <<>>] /\ queue = <<>>
      /\ online = {} /\ asked = {} /\ log = <<>> /\ fate = <<>> /\ view = [c \in Peers |-> [r \in Resources |-> "none"]]
      /\ bounced = [r \in Resources |-> {}]
  BY DEF Init
<1>2. Listing /\ Len(log) = 0
  <2>1. DOMAIN log = 1..Len(log) /\ Len(log) = 0 /\ log \in Seq({})
    BY <1>1
  <2>2. QED
    BY <2>1 DEF Listing
<1>3. NoUser \in UserRec /\ NoUser.order = <<>> /\ ~NoUser.loaded /\ NoUser.top = "" /\ ~NoUser.avail
      /\ \A r \in Resources : NoUser.s[r] = NoSess
  <2>1. NoSess \in Sess
    BY DEF NoSess, Sess
  <2>2. <<>> \in Seq(Resources) /\ "" \in Resources \cup {""}
    OBVIOUS
  <2> HIDE DEF NoSess
  <2>3. QED
    BY <2>1, <2>2 DEF NoUser, UserRec
<1>4. ~NoSess.on /\ ~NoSess.avail /\ NoSess.E = {}
  BY DEF NoSess
<1>5. UserOk(NoUser) /\ Settled(NoUser) /\ \A r \in Resources : NoUser.s[r].E = {}
  <2>0. DOMAIN <<>> = {}
    OBVIOUS
  <2>1. DOMAIN NoUser.order = {}
    BY <1>3, <2>0, Zenon
  <2> HIDE DEF NoUser, NoSess
  <2>2. Listed(NoUser)
    BY <1>3, <1>4, <2>1 DEF Listed
  <2>3. TopOk(NoUser)
    BY <1>3, <1>4 DEF TopOk, Takes
  <2>4. QED
    BY <1>3, <1>4, <2>2, <2>3 DEF UserOk, Settled
<1> HIDE DEF NoUser
<1>6. mgr \in Mgr(0) /\ mgr.u = NoUser /\ mgr.dyn = {} /\ mgr.cache = <<>>
  <2>1. <<>> \in Seq(Pkt(0)) /\ <<>> \in Seq(SUBSET (Bare \cup Static))
    OBVIOUS
  <2>2. QED
    BY <1>1, <1>3, <2>1 DEF Mgr
<1>7. EnvOk(Around, 0, online)
  <2>1. Around = [queue |-> <<>>, asked |-> {}, view |-> view, bounced |-> bounced, fate |-> <<>>]
    BY <1>1 DEF Around
  <2>2. view \in [Peers -> [Resources -> Shown]] /\ bounced \in [Resources -> SUBSET Peers]
    BY <1>1 DEF Shown
  <2>3. <<>> \in Seq(Pkt(0)) /\ <<>> \in Seq(Seq(Fate)) /\ Len(<<>>) = 0 /\ DOMAIN <<>> = {}
    OBVIOUS
  <2>4. Around \in Env(0, online)
    BY <2>1, <2>2, <2>3 DEF Env
  <2>5. Len(Around.fate) = 0 /\ \A i \in DOMAIN Around.queue : Waits(Around.queue[i], Around.bounced)
    <3>1. Around.fate = <<>> /\ Around.queue = <<>>
      BY <2>1
    <3>2. QED
      BY <2>3, <3>1
  <2>6. QED
    BY <2>4, <2>5 DEF EnvOk
<1>8. \A c \in Peers, r \in Resources : Forgets(Around, c, r)
  BY <1>1, AroundParts DEF Forgets
<1>9. InOrder(mgr, Around, online, 0)
  BY <1>1, <1>5, <1>6, <1>7, <1>8 DEF InOrder
<1>10. QED
  BY <1>1, <1>2, <1>9 DEF IInv

LEMMA StartOk ==
    ASSUME IInv, NEW r \in Resources, Start(r)
    PROVE  IInv'
<1>1. Step([Packet("start", "", NoJid, NoJid) EXCEPT !.sess = r], queue, online) /\ log' = log
  BY DEF Start
<1>2. QED
  BY <1>1, ControlStep

LEMMA EndOk ==
    ASSUME IInv, NEW r \in Resources, End(r)
    PROVE  IInv'
<1>1. Step([Packet("end", "", NoJid, NoJid) EXCEPT !.sess = r], queue, online) /\ log' = log /\ mgr.u.s[r].on
  BY DEF End
<1>2. QED
  BY <1>1, ControlStep

LEMMA StutterOk ==
    ASSUME IInv, UNCHANGED vars
    PROVE  IInv'
  BY DEF vars, IInv, Listing, InOrder, Around, EnvOk, Discreet

LEMMA NextOk ==
    ASSUME IInv, [Next]_vars
    PROVE  IInv'
<1>1. CASE \E r \in Resources : FromSession(r) \/ Start(r) \/ End(r)
  BY <1>1, FromSessionOk, StartOk, EndOk
<1>2. CASE \E c \in Peers : FromOutside(c)
  BY <1>2, FromOutsideOk
<1>3. CASE \E c \in Services : ServiceUp(c) \/ ServiceDown(c) \/ ServiceAnswers(c)
  BY <1>3, ServiceUpOk, ServiceDownOk, ServiceAnswersOk
<1>4. CASE C2SGone
  BY <1>4, C2SGoneOk
<1>5. CASE Loop
  BY <1>5, LoopOk
<1>6. CASE UNCHANGED vars
  BY <1>6, StutterOk
<1>7. QED
  BY <1>1, <1>2, <1>3, <1>4, <1>5, <1>6 DEF Next

LEMMA AlwaysInOrder == Spec => []IInv
<1>1. Init => IInv
  BY InitOk
<1>2. IInv /\ [Next]_vars => IInv'
  BY NextOk
<1>3. QED
  BY <1>1, <1>2, PTL DEF Spec

(* Whatever the modules make of a packet is a packet again, in every chain *)
(* and on every path through the dispatcher: it goes to the spool and back *)
(* to the router as one, what the manager knows of services and of the     *)
(* JIDs presence went to is what there is, and the discovery answers are   *)
(* cached at most once.                                                    *)
THEOREM TypesStay == Spec => []TypeOK
<1>1. IInv => TypeOK
  <2> SUFFICES ASSUME IInv PROVE TypeOK
    OBVIOUS
  <2>1. PICK n : n = Len(log)
    OBVIOUS
  <2>2. InOrder(mgr, Around, online, n) /\ EnvOk(Around, n, online) /\ scene \in DOMAIN Scenes
    BY <2>1 DEF IInv, InOrder
  <2>3. /\ queue \in Seq(Pkt(n)) /\ asked \subseteq online /\ view \in [Peers -> [Resources -> Shown]]
        /\ bounced \in [Resources -> SUBSET Peers] /\ fate \in Seq(Seq(Fate)) /\ Len(fate) = n
    BY <2>2, AroundParts, EnvParts
  <2>4. mgr \in Mgr(n) /\ online \subseteq Services /\ Len(mgr.cache) <= 1
    <3>1. mgr \in Mgr(n) /\ online \subseteq Services /\ (mgr.cache = <<>> \/ mgr.cache = <<mgr.dyn \cup Static>>)
      BY <2>2 DEF InOrder
    <3>2. Len(<<>>) = 0 /\ \A x : Len(<<x>>) = 1
      OBVIOUS
    <3>3. PICK k : k = Len(mgr.cache)
      OBVIOUS
    <3>4. k = 0 \/ k = 1
      BY <3>1, <3>2, <3>3, Zenon
    <3>5. k <= 1
      BY <3>4
    <3>6. QED
      BY <3>1, <3>3, <3>5
  <2>5. QED
    BY <2>1, <2>2, <2>3, <2>4 DEF TypeOK
<1>2. QED
  BY <1>1, AlwaysInOrder, PTL

(* user->top and user->available, which pres.c keeps up to date by hand in *)
(* every handler that changes a session, always describe the sessions      *)
(* there are, whichever way they come, change and go: the top session      *)
(* exists, is available and no other takes messages before it, and the     *)
(* user is loaded exactly while there are sessions.                        *)
THEOREM TopStaysTrue == Spec => []TopSession
<1>1. IInv => TopSession
  <2> SUFFICES ASSUME IInv PROVE TopSession
    OBVIOUS
  <2>1. UserOk(U) /\ Settled(U)
    BY DEF IInv, InOrder, U
  <2> HIDE DEF U
  <2>2. Listed(U) /\ TopOk(U) /\ U \in UserRec
    BY <2>1 DEF UserOk, Listed
  <2>3. U.avail \in BOOLEAN /\ U.loaded \in BOOLEAN /\ U.order \in Seq(Resources)
    BY <2>2 DEF UserRec
  <2>4. U.avail = \E r \in Resources : U.s[r].avail
    BY <2>2, <2>3, Zenon DEF TopOk
  <2>5. U.loaded = (U.order # <<>>)
    BY <2>1, <2>3, Zenon DEF Settled
  <2>6. ToSet(U.order) = {r \in Resources : U.s[r].on}
    <3>1. \A i \in DOMAIN U.order : U.order[i] \in Resources
      BY <2>3
    <3>2. ToSet(U.order) = {U.order[i] : i \in DOMAIN U.order}
      BY DEF ToSet
    <3>3. QED
      BY <2>2, <3>1, <3>2 DEF Listed
  <2>7. IsInjective(U.order)
    BY <2>2 DEF Listed, IsInjective
  <2>8. /\ U.top = "" <=> ~\E r \in Resources : U.s[r].avail /\ U.s[r].pri >= 0
        /\ U.top # "" => /\ U.s[U.top].avail /\ U.s[U.top].pri >= 0
                         /\ \A r \in Resources : U.s[r].avail /\ U.s[r].pri >= 0 => U.s[r].pri <= U.s[U.top].pri
    BY <2>2 DEF TopOk, Takes
  <2>9. QED
    BY <2>4, <2>5, <2>6, <2>7, <2>8, Zenon DEF TopSession
<1>2. QED
  BY <1>1, AlwaysInOrder, PTL

(* The manager knows no component that has left the router, and what it    *)
(* caches of the discovery answers is what it knows, whatever order the    *)
(* advertisements of the router and the answers of components come in, and *)
(* whatever the domains of other servers say of themselves.                *)
THEOREM DiscoStaysTrue == Spec => []DiscoTrue
<1>1. IInv => DiscoTrue
  <2> SUFFICES ASSUME IInv PROVE DiscoTrue
    OBVIOUS
  <2>1. mgr.dyn \cap Services \subseteq online /\ (mgr.cache = <<>> \/ mgr.cache = <<mgr.dyn \cup Static>>)
    BY DEF IInv, InOrder
  <2>2. \A x : <<x>>[1] = x
    OBVIOUS
  <2>3. QED
    BY <2>1, <2>2 DEF DiscoTrue
<1>2. QED
  BY <1>1, AlwaysInOrder, PTL

(* "so that modules and externals know we're gone" (sess_end): when no     *)
(* client directs presence to a contact of its roster, a peer who was told *)
(* that a session is available, and returned none of its presence, does    *)
(* not go on believing it when the session has ended, been replaced or     *)
(* lost with its c2s.                                                      *)
THEOREM GoneIsKnown == ASSUME Discreet PROVE Spec => []KnowsWeAreGone
<1>1. IInv => KnowsWeAreGone
  <2> SUFFICES ASSUME IInv, NEW c \in Peers, NEW r \in Resources, view[c][r] = "presence", c \notin bounced[r]
               PROVE  U.s[r].on /\ (c \in U.s[r].A \/ U.s[r].avail)
    BY DEF KnowsWeAreGone
  <2>1. Forgets(Around, c, r) \/ Believed(mgr.u, c, r)
    BY DEF IInv, InOrder
  <2>2. QED
    BY <2>1, AroundParts DEF Forgets, Believed, U
<1>2. QED
  BY <1>1, AlwaysInOrder, PTL
=============================================================================
