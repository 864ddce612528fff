------------------------- MODULE SessionsPathProofs -------------------------
(***************************************************************************)
(* More theorems about Sessions: what c2s and the session manager believe  *)
(* of each other, given the packets that are under way between them.       *)
(***************************************************************************)
EXTENDS SessionsProofs

-----------------------------------------------------------------------------
(* What c2s is about to learn                                              *)

(* The packets that tell c2s that session x of descriptor f has gone.      *)
Gone(m, f, x) == m.kind \in {"ended", "replaced"} /\ m.fd = f /\ m.smid = x
News(m, f, x) == m.kind = "sm down" \/ Gone(m, f, x)

Starts(m, f, x) == m.kind = "started" /\ m.fd = f /\ m.smid = x
Echo(m, f, x) == m.kind = "pkt failed" /\ m.fd = f /\ m.smid = x

(* c2s takes x for the session of f: it does now (k), or will once it has  *)
(* read packet p of q.                                                     *)
Knows(q, k, p, f, x) == (p = 0 /\ k) \/ (p \in 1..Len(q) /\ Starts(q[p], f, x))

(* Then the sm has the session (h), or the news that it has gone follows;  *)
(* and it is there before any stanza the sm has sent back.                 *)
Told(q, p, f, x, h) ==
    /\ h \/ \E r \in (p + 1)..Len(q) : News(q[r], f, x)
    /\ \A z \in (p + 1)..Len(q) : Echo(q[z], f, x) => \E r \in (p + 1)..(z - 1) : News(q[r], f, x)

Safe(q, k, f, x, h) == \A p \in 0..Len(q) : Knows(q, k, p, f, x) => Told(q, p, f, x, h)

(* Session x of f as c2s and as the sm has it.                             *)
On(f, x) == sess[f].active /\ Streaming(f) /\ sess[f].res[1].smid = x
Held(f, x) == Has(x) /\ FromThem(x, f)

(* The packets of the router about the sm.                                *)
Leaves(m) == m.kind = "sm down"
Returns(m) == m.kind = "sm up"

(* The router tells by turns that the sm is gone and that it is back.      *)
Between(q) ==
    \A p, r \in 1..Len(q) : p < r /\ Leaves(q[p]) /\ Leaves(q[r])
        => \E z \in (p + 1)..(r - 1) : Returns(q[z])
Before(q) == \A r \in 1..Len(q) : Leaves(q[r]) => \E z \in 1..(r - 1) : Returns(q[z])
After(q) == \A p \in 1..Len(q) : Leaves(q[p]) => \E z \in (p + 1)..Len(q) : Returns(q[z])
Promised(q) == \E z \in 1..Len(q) : Returns(q[z])
Alternate(q, a, u) == Between(q) /\ (~a => Before(q)) /\ (u => After(q)) /\ (u /\ ~a => Promised(q))

AllSafe == \A f \in Fds, x \in Ids : Safe(toC2S, On(f, x), f, x, Held(f, x))

(* What the path holds while the link between c2s and the router lasts.    *)
GhostInv ==
    /\ link = "up"
    /\ toSM \in Seq(Asked)
    /\ Alternate(toC2S, sm_avail, smUp)
    /\ AllSafe
    /\ NoEchoes

-----------------------------------------------------------------------------
(* Sequences of packets                                                    *)

LEMMA AppendParts ==
    ASSUME NEW q \in Seq(Good), NEW m \in Good, NEW u, u = Append(q, m)
    PROVE  /\ Len(q) \in Nat /\ Len(u) = Len(q) + 1 /\ u[Len(q) + 1] = m /\ u \in Seq(Good)
           /\ \A i \in 1..Len(q) : u[i] = q[i]
BY AppendProperties

(* A packet that says nothing of x.                                        *)
Neutral(m, f, x) == ~Starts(m, f, x) /\ ~Echo(m, f, x)

LEMMA AppendSafe ==
    ASSUME NEW q \in Seq(Good), NEW m \in Good, NEW k, NEW f, NEW x, NEW h, NEW h2, Safe(q, k, f, x, h),
           \/ News(m, f, x)
           \/ Starts(m, f, x) /\ h2
           \/ Echo(m, f, x) /\ ~h
           \/ Neutral(m, f, x) /\ (h => h2)
    PROVE  Safe(Append(q, m), k, f, x, h2)
<1> DEFINE u == Append(q, m)
           n == Len(q)
<1>1. n \in Nat /\ Len(u) = n + 1 /\ u[n + 1] = m /\ \A i \in 1..n : u[i] = q[i]
  BY AppendParts
<1>2. \A p \in 0..n : Knows(q, k, p, f, x) => Told(q, p, f, x, h)
  BY DEF Safe
<1> HIDE DEF u
<1>3. ASSUME NEW p \in 0..(n + 1), Knows(u, k, p, f, x) PROVE Told(u, p, f, x, h2)
  <2>1. CASE p = n + 1
    <3>1. Starts(m, f, x)
      BY <1>1, <1>3, <2>1 DEF Knows
    <3>2. ~News(m, f, x) /\ ~Echo(m, f, x) /\ h2
      BY <3>1 DEF Starts, News, Gone, Echo, Neutral
    <3> HIDE DEF n
    <3>3. (p + 1)..(n + 1) = {}
      BY <1>1, <2>1
    <3>4. QED
      BY <1>1, <3>2, <3>3 DEF Told
  <2>2. CASE p \in 0..n
    <3>1. Knows(q, k, p, f, x)
      BY <1>1, <1>3, <2>2 DEF Knows
    <3>2. Told(q, p, f, x, h)
      BY <1>2, <2>2, <3>1
    <3>3. h \/ \E r \in (p + 1)..n : News(u[r], f, x)
      <4>1. h \/ \E r \in (p + 1)..n : News(q[r], f, x)
        BY <3>2 DEF Told
      <4> HIDE DEF n
      <4>2. \A r \in (p + 1)..n : u[r] = q[r]
        BY <1>1, <2>2
      <4>3. QED
        BY <4>1, <4>2
    <3>4. \A z \in (p + 1)..n : Echo(u[z], f, x) => \E r \in (p + 1)..(z - 1) : News(u[r], f, x)
      <4>1. \A z \in (p + 1)..n : Echo(q[z], f, x) => \E r \in (p + 1)..(z - 1) : News(q[r], f, x)
        BY <3>2 DEF Told
      <4> HIDE DEF n
      <4>2. \A z \in (p + 1)..n : u[z] = q[z] /\ \A r \in (p + 1)..(z - 1) : u[r] = q[r]
        BY <1>1, <2>2
      <4>3. QED
        BY <4>1, <4>2
    <3>5. Echo(m, f, x) => \E r \in (p + 1)..n : News(u[r], f, x)
      <4>1. Echo(m, f, x) => ~h
        BY DEF Echo, News, Gone, Starts, Neutral
      <4>2. QED
        BY <3>3, <4>1
    <3>6. h2 \/ \E r \in (p + 1)..(n + 1) : News(u[r], f, x)
      <4>1. CASE News(m, f, x)
        <5> HIDE DEF n
        <5>1. n + 1 \in (p + 1)..(n + 1)
          BY <1>1, <2>2
        <5>2. QED
          BY <1>1, <4>1, <5>1
      <4>2. CASE ~News(m, f, x)
        <5>1. (h => h2) \/ ~h \/ h2
          BY <4>2
        <5>2. \A r \in (p + 1)..n : r \in (p + 1)..(n + 1)
          <6> HIDE DEF n
          <6>1. QED
            BY <1>1, <2>2
        <5>3. h => h2
          BY <4>2
        <5>4. QED
          BY <3>3, <5>2, <5>3
      <4>3. QED
        BY <4>1, <4>2
    <3> HIDE DEF n
    <3>7. ASSUME NEW z \in (p + 1)..(n + 1), Echo(u[z], f, x) PROVE \E r \in (p + 1)..(z - 1) : News(u[r], f, x)
      <4>1. CASE z = n + 1
        <5>1. z - 1 = n /\ u[z] = m
          BY <1>1, <4>1
        <5>2. QED
          BY <3>5, <3>7, <5>1
      <4>2. CASE z # n + 1
        <5>1. z \in (p + 1)..n
          BY <1>1, <2>2, <4>2
        <5>2. QED
          BY <3>4, <3>7, <5>1
      <4>3. QED
        BY <4>1, <4>2
    <3>8. QED
      BY <1>1, <3>6, <3>7 DEF Told
  <2>3. QED
    BY <1>1, <2>1, <2>2
<1>4. QED
  BY <1>1, <1>3 DEF Safe, u

LEMMA ConcatParts ==
    ASSUME NEW q \in Seq(Good), NEW ms \in Seq(Good), NEW u, u = q \o ms
    PROVE  /\ Len(q) \in Nat /\ Len(ms) \in Nat /\ Len(u) = Len(q) + Len(ms) /\ u \in Seq(Good)
           /\ \A i \in 1..Len(q) : u[i] = q[i]
           /\ \A i \in (Len(q) + 1)..Len(u) : i - Len(q) \in 1..Len(ms) /\ u[i] = ms[i - Len(q)]
<1>1. /\ Len(q) \in Nat /\ Len(ms) \in Nat /\ Len(u) = Len(q) + Len(ms) /\ u \in Seq(Good)
      /\ \A i \in 1..(Len(q) + Len(ms)) : u[i] = IF i <= Len(q) THEN q[i] ELSE ms[i - Len(q)]
  BY ConcatProperties, LenProperties
<1> DEFINE n == Len(q)
           l == Len(ms)
           t == Len(u)
<1>2. n \in Nat /\ l \in Nat /\ t = n + l /\ \A i \in 1..t : u[i] = IF i <= n THEN q[i] ELSE ms[i - n]
  BY <1>1
<1> HIDE DEF n, l, t
<1>3. ASSUME NEW i \in 1..n PROVE u[i] = q[i]
  <2>1. i \in 1..t /\ i <= n
    BY <1>2
  <2>2. QED
    BY <1>2, <2>1
<1>4. ASSUME NEW i \in (n + 1)..t PROVE i - n \in 1..l /\ u[i] = ms[i - n]
  <2>1. i \in 1..t /\ ~(i <= n) /\ i - n \in 1..l
    BY <1>2
  <2>2. QED
    BY <1>2, <2>1
<1>5. QED
  BY <1>1, <1>3, <1>4 DEF n, l, t

(* What c2s or the router adds: nothing about a session.                   *)
Mute(ms) == \A i \in 1..Len(ms) : ms[i].kind \notin {"started", "pkt failed", "sm up", "sm down"}

LEMMA ConcatSafe ==
    ASSUME NEW q \in Seq(Good), NEW ms \in Seq(Good), NEW k, NEW f, NEW x, NEW h, Safe(q, k, f, x, h), Mute(ms)
    PROVE  Safe(q \o ms, k, f, x, h)
<1> DEFINE u == q \o ms
           n == Len(q)
           t == Len(u)
<1>1. /\ n \in Nat /\ t \in Nat /\ n <= t /\ (\A i \in 1..n : u[i] = q[i])
      /\ \A i \in (n + 1)..t : ~Starts(u[i], f, x) /\ ~Echo(u[i], f, x)
  <2>1. /\ n \in Nat /\ Len(ms) \in Nat /\ t = n + Len(ms) /\ (\A i \in 1..n : u[i] = q[i])
        /\ \A i \in (n + 1)..t : i - n \in 1..Len(ms) /\ u[i] = ms[i - n]
    BY ConcatParts
  <2>2. n <= t /\ t \in Nat
    <3> DEFINE l == Len(ms)
    <3> HIDE DEF n, t, l
    <3>1. QED
      BY <2>1 DEF l
  <2>3. QED
    BY <2>1, <2>2 DEF Mute, Starts, Echo
<1>2. \A p \in 0..n : Knows(q, k, p, f, x) => Told(q, p, f, x, h)
  BY DEF Safe
<1> HIDE DEF u
<1>3. ASSUME NEW p \in 0..t, Knows(u, k, p, f, x) PROVE Told(u, p, f, x, h)
  <2>1. p \in 0..n /\ Knows(q, k, p, f, x)
    <3>1. (p = 0 /\ k) \/ (p \in 1..t /\ Starts(u[p], f, x))
      BY <1>3 DEF Knows
    <3>2. (p = 0 /\ k) \/ (p \in 1..n /\ Starts(q[p], f, x))
      <4> HIDE DEF n, t
      <4>1. p \in 1..t => p \in 1..n \/ p \in (n + 1)..t
        BY <1>1
      <4>2. QED
        BY <1>1, <3>1, <4>1
    <3>3. p \in 0..n
      <4> HIDE DEF n, t
      <4>1. QED
        BY <1>1, <3>2
    <3>4. QED
      BY <3>2, <3>3 DEF Knows
  <2>2. /\ h \/ \E r \in (p + 1)..n : News(q[r], f, x)
        /\ \A z \in (p + 1)..n : Echo(q[z], f, x) => \E r \in (p + 1)..(z - 1) : News(q[r], f, x)
    BY <1>2, <2>1 DEF Told
  <2> HIDE DEF n, t
  <2>3. h \/ \E r \in (p + 1)..t : News(u[r], f, x)
    <3>1. \A r \in (p + 1)..n : r \in (p + 1)..t /\ u[r] = q[r]
      BY <1>1, <2>1
    <3>2. QED
      BY <2>2, <3>1
  <2>4. ASSUME NEW z \in (p + 1)..t, Echo(u[z], f, x) PROVE \E r \in (p + 1)..(z - 1) : News(u[r], f, x)
    <3>1. z \in (p + 1)..n \/ z \in (n + 1)..t
      BY <1>1, <2>1
    <3>2. z \in (p + 1)..n
      BY <1>1, <2>4, <3>1
    <3>3. u[z] = q[z] /\ \A r \in (p + 1)..(z - 1) : u[r] = q[r]
      BY <1>1, <2>1, <3>2
    <3>4. QED
      BY <2>2, <2>4, <3>2, <3>3
  <2>5. QED
    BY <2>3, <2>4 DEF Told, t
<1>4. QED
  BY <1>3 DEF Safe, u

LEMMA TailParts ==
    ASSUME NEW q \in Seq(Good), q # <<>>
    PROVE  /\ Len(q) \in Nat \ {0} /\ Head(q) = q[1] /\ Tail(q) \in Seq(Good) /\ Len(Tail(q)) = Len(q) - 1
           /\ \A i \in 1..Len(Tail(q)) : Tail(q)[i] = q[i + 1]
BY HeadTailProperties, EmptySeq

(* c2s reads the first packet; k2 is what it takes for granted afterwards. *)
LEMMA TailSafe ==
    ASSUME NEW q \in Seq(Good), q # <<>>, NEW k, NEW f, NEW x, NEW h, Safe(q, k, f, x, h), NEW k2,
           k2 => (k /\ ~News(Head(q), f, x)) \/ Starts(Head(q), f, x)
    PROVE  Safe(Tail(q), k2, f, x, h)
<1> DEFINE t == Tail(q)
           n == Len(q)
           l == Len(t)
<1>1. n \in Nat \ {0} /\ Head(q) = q[1] /\ l = n - 1 /\ \A i \in 1..l : t[i] = q[i + 1]
  BY TailParts
<1>2. \A p \in 0..n : Knows(q, k, p, f, x) => Told(q, p, f, x, h)
  BY DEF Safe
<1> HIDE DEF t
<1>3. ASSUME NEW p \in 0..l, Knows(t, k2, p, f, x) PROVE Told(t, p, f, x, h)
  <2>1. \E s \in {p, p + 1} : s \in 0..n /\ Knows(q, k, s, f, x) /\ (s = p => p = 0 /\ ~News(q[1], f, x))
    <3>1. (p = 0 /\ k2) \/ (p \in 1..l /\ Starts(t[p], f, x))
      BY <1>3 DEF Knows
    <3>2. CASE p \in 1..l /\ Starts(t[p], f, x)
      <4>1. p + 1 \in 1..n /\ p + 1 \in 0..n /\ p + 1 # p /\ t[p] = q[p + 1]
        <5> HIDE DEF n, l
        <5>1. QED
          BY <1>1, <3>2
      <4>2. Knows(q, k, p + 1, f, x)
        BY <3>2, <4>1 DEF Knows
      <4>3. QED
        BY <4>1, <4>2
    <3>3. CASE p = 0 /\ k2
      <4>1. 1 \in 1..n /\ 0 \in 0..n /\ 1 \in 0..n
        <5> HIDE DEF n
        <5>1. QED
          BY <1>1
      <4>2. CASE k /\ ~News(q[1], f, x)
        <5>1. Knows(q, k, 0, f, x)
          BY <4>2 DEF Knows
        <5>2. QED
          BY <3>3, <4>1, <4>2, <5>1
      <4>3. CASE Starts(q[1], f, x)
        <5>1. Knows(q, k, 1, f, x)
          BY <4>1, <4>3 DEF Knows
        <5>2. QED
          BY <3>3, <4>1, <5>1
      <4>4. QED
        BY <1>1, <3>3, <4>2, <4>3
    <3>4. QED
      BY <3>1, <3>2, <3>3
  <2>2. PICK s \in {p, p + 1} : s \in 0..n /\ Knows(q, k, s, f, x) /\ (s = p => p = 0 /\ ~News(q[1], f, x))
    BY <2>1
  <2>3. /\ h \/ \E r \in (s + 1)..n : News(q[r], f, x)
        /\ \A z \in (s + 1)..n : Echo(q[z], f, x) => \E r \in (s + 1)..(z - 1) : News(q[r], f, x)
    BY <1>2, <2>2 DEF Told
  <2> HIDE DEF n, l
  <2>4. \A r \in (s + 1)..n : News(q[r], f, x) => r \in (p + 2)..n
    BY <1>1, <2>2
  <2>5. h \/ \E r \in (p + 1)..l : News(t[r], f, x)
    <3>1. \A r \in (p + 2)..n : r - 1 \in (p + 1)..l /\ t[r - 1] = q[r]
      BY <1>1
    <3>2. QED
      BY <2>3, <2>4, <3>1
  <2>6. ASSUME NEW z \in (p + 1)..l, Echo(t[z], f, x) PROVE \E r \in (p + 1)..(z - 1) : News(t[r], f, x)
    <3>1. z + 1 \in (s + 1)..n /\ t[z] = q[z + 1]
      BY <1>1, <2>2
    <3>2. PICK r \in (s + 1)..((z + 1) - 1) : News(q[r], f, x)
      BY <2>3, <2>6, <3>1
    <3>3. r \in (s + 1)..n
      BY <1>1, <2>2, <3>1, <3>2
    <3>4. r \in (p + 2)..n
      BY <2>4, <3>2, <3>3
    <3>5. r - 1 \in (p + 1)..(z - 1) /\ t[r - 1] = q[r]
      BY <1>1, <3>2, <3>4
    <3>6. QED
      BY <3>2, <3>5
  <2>7. QED
    BY <2>5, <2>6 DEF Told, l
<1>4. QED
  BY <1>3 DEF Safe, t


LEMMA CutParts ==
    ASSUME NEW q \in Seq(Good), NEW n \in 0..Len(q), NEW u, u = SubSeq(q, 1, n)
    PROVE  Len(q) \in Nat /\ Len(u) = n /\ u \in Seq(Good) /\ \A i \in 1..n : u[i] = q[i]
<1>1. Len(q) \in Nat
  BY LenProperties
<1>2. Len(u) = n /\ u \in Seq(Good) /\ \A i \in 1..n : u[i] = q[i]
  OBVIOUS
<1>3. QED
  BY <1>1, <1>2

LEMMA CutSafe ==
    ASSUME NEW q \in Seq(Good), NEW n \in 0..Len(q), NEW k, NEW f, NEW x, NEW h, Safe(q, k, f, x, h)
    PROVE  Safe(SubSeq(q, 1, n), k, f, x, TRUE)
<1> DEFINE u == SubSeq(q, 1, n)
           t == Len(q)
<1>1. t \in Nat /\ n \in 0..t /\ Len(u) = n /\ \A i \in 1..n : u[i] = q[i]
  BY CutParts
<1>2. \A p \in 0..t : Knows(q, k, p, f, x) => Told(q, p, f, x, h)
  BY DEF Safe
<1> HIDE DEF u
<1>3. ASSUME NEW p \in 0..n, Knows(u, k, p, f, x) PROVE Told(u, p, f, x, TRUE)
  <2>1. p \in 0..t /\ Knows(q, k, p, f, x)
    <3>1. (p = 0 /\ k) \/ (p \in 1..n /\ Starts(q[p], f, x))
      BY <1>1, <1>3 DEF Knows
    <3>2. p \in 0..t /\ (p \in 1..n => p \in 1..t)
      <4> HIDE DEF t
      <4>1. QED
        BY <1>1
    <3>3. QED
      BY <3>1, <3>2 DEF Knows
  <2>2. \A z \in (p + 1)..t : Echo(q[z], f, x) => \E r \in (p + 1)..(z - 1) : News(q[r], f, x)
    BY <1>2, <2>1 DEF Told
  <2> HIDE DEF t
  <2>3. ASSUME NEW z \in (p + 1)..n, Echo(u[z], f, x) PROVE \E r \in (p + 1)..(z - 1) : News(u[r], f, x)
    <3>1. z \in (p + 1)..t /\ u[z] = q[z] /\ \A r \in (p + 1)..(z - 1) : u[r] = q[r]
      BY <1>1, <2>1
    <3>2. QED
      BY <2>2, <2>3, <3>1
  <2>4. QED
    BY <1>1, <2>3 DEF Told
<1>4. QED
  BY <1>1, <1>3 DEF Safe, u

LEMMA DownSafe ==
    ASSUME NEW q \in Seq(Good), NEW n \in 0..Len(q), NEW k, NEW f, NEW x, NEW h, Safe(q, k, f, x, h),
           NEW m \in Good, m.kind = "sm down", NEW h2
    PROVE  Safe(Append(SubSeq(q, 1, n), m), k, f, x, h2)
<1> DEFINE u == SubSeq(q, 1, n)
<1>1. u \in Seq(Good) /\ Safe(u, k, f, x, TRUE) /\ News(m, f, x)
  BY CutParts, CutSafe DEF News
<1> HIDE DEF u
<1>2. Safe(Append(u, m), k, f, x, h2)
  BY <1>1, AppendSafe
<1>3. QED
  BY <1>2 DEF u

LEMMA WeakSafe ==
    ASSUME NEW q, NEW k, NEW f, NEW x, NEW h, Safe(q, k, f, x, h), NEW k2, k2 => k, NEW h2, h => h2
    PROVE  Safe(q, k2, f, x, h2)
<1>1. \A p \in 0..Len(q) : Knows(q, k2, p, f, x) => Knows(q, k, p, f, x)
  BY DEF Knows
<1>2. \A p \in 0..Len(q) : Told(q, p, f, x, h) => Told(q, p, f, x, h2)
  BY DEF Told
<1>3. QED
  BY <1>1, <1>2 DEF Safe

-----------------------------------------------------------------------------
(* The router's news of the sm                                             *)

Silent(ms) == \A i \in 1..Len(ms) : ms[i].kind \notin {"sm up", "sm down"}

LEMMA ConcatAlternate ==
    ASSUME NEW q \in Seq(Good), NEW ms \in Seq(Good), Silent(ms), NEW a, NEW o, Alternate(q, a, o)
    PROVE  Alternate(q \o ms, a, o)
<1> DEFINE u == q \o ms
<1> SUFFICES /\ Between(q) => Between(u)
             /\ Before(q) => Before(u)
             /\ After(q) => After(u)
             /\ Promised(q) => Promised(u)
  BY DEF Alternate
<1> DEFINE n == Len(q)
           t == Len(u)
<1>1. /\ n \in Nat /\ t \in Nat /\ n <= t /\ (\A i \in 1..n : u[i] = q[i])
      /\ \A i \in (n + 1)..t : ~Leaves(u[i]) /\ ~Returns(u[i])
  <2>1. /\ n \in Nat /\ Len(ms) \in Nat /\ t = n + Len(ms) /\ (\A i \in 1..n : u[i] = q[i])
        /\ \A i \in (n + 1)..t : i - n \in 1..Len(ms) /\ u[i] = ms[i - n]
    BY ConcatParts
  <2>2. n <= t /\ t \in Nat
    <3> DEFINE l == Len(ms)
    <3> HIDE DEF n, t, l
    <3>1. QED
      BY <2>1 DEF l
  <2>3. QED
    BY <2>1, <2>2 DEF Silent, Leaves, Returns
<1> HIDE DEF u
<1>2. \A i \in 1..t : (Leaves(u[i]) \/ Returns(u[i])) => i \in 1..n
  <2> HIDE DEF n, t
  <2> TAKE i \in 1..t
  <2>1. i \in 1..n \/ i \in (n + 1)..t
    BY <1>1
  <2>2. QED
    BY <1>1, <2>1
<1>3. \A i \in 1..n : i \in 1..t /\ u[i] = q[i]
  <2> HIDE DEF n, t
  <2>1. QED
    BY <1>1
<1>4. ASSUME Between(q) PROVE Between(u)
  <2> SUFFICES ASSUME NEW p \in 1..t, NEW r \in 1..t, p < r, Leaves(u[p]), Leaves(u[r])
               PROVE  \E z \in (p + 1)..(r - 1) : Returns(u[z])
    BY DEF Between
  <2>1. p \in 1..n /\ r \in 1..n
    BY <1>2
  <2>2. PICK z \in (p + 1)..(r - 1) : Returns(q[z])
    BY <1>3, <1>4, <2>1 DEF Between
  <2> HIDE DEF n, t
  <2>3. z \in 1..n
    BY <1>1, <2>1
  <2>4. QED
    BY <1>3, <2>2, <2>3
<1>5. ASSUME Before(q) PROVE Before(u)
  <2> SUFFICES ASSUME NEW r \in 1..t, Leaves(u[r]) PROVE \E z \in 1..(r - 1) : Returns(u[z])
    BY DEF Before
  <2>1. r \in 1..n
    BY <1>2
  <2>2. PICK z \in 1..(r - 1) : Returns(q[z])
    BY <1>3, <1>5, <2>1 DEF Before
  <2> HIDE DEF n, t
  <2>3. z \in 1..n
    BY <1>1, <2>1
  <2>4. QED
    BY <1>3, <2>2, <2>3
<1>6. ASSUME After(q) PROVE After(u)
  <2> SUFFICES ASSUME NEW p \in 1..t, Leaves(u[p]) PROVE \E z \in (p + 1)..t : Returns(u[z])
    BY DEF After
  <2>1. p \in 1..n
    BY <1>2
  <2>2. PICK z \in (p + 1)..n : Returns(q[z])
    BY <1>3, <1>6, <2>1 DEF After
  <2> HIDE DEF n, t
  <2>3. z \in 1..n /\ z \in (p + 1)..t
    BY <1>1, <2>1
  <2>4. QED
    BY <1>3, <2>2, <2>3
<1>7. Promised(q) => Promised(u)
  BY <1>3 DEF Promised
<1>8. QED
  BY <1>4, <1>5, <1>6, <1>7

(* What c2s makes of the first packet.                                     *)
Avail(m, a) == Returns(m) \/ (~Leaves(m) /\ a)

LEMMA TailAlternate ==
    ASSUME NEW q \in Seq(Good), q # <<>>, NEW a, NEW o, Alternate(q, a, o)
    PROVE  Alternate(Tail(q), Avail(Head(q), a), o) /\ (Leaves(Head(q)) => a)
<1> DEFINE t == Tail(q)
           up == Returns(Head(q))
           down == Leaves(Head(q))
<1> SUFFICES /\ Between(q) => Between(t)
             /\ After(q) => After(t)
             /\ Between(q) /\ down => Before(t)
             /\ Before(q) => ~down
             /\ Before(q) /\ ~up => Before(t)
             /\ After(q) /\ down => Promised(t)
             /\ Promised(q) /\ ~up => Promised(t)
  BY DEF Alternate, Avail
<1> DEFINE n == Len(q)
           l == Len(t)
<1>1. n \in Nat \ {0} /\ Head(q) = q[1] /\ l = n - 1 /\ \A i \in 1..l : t[i] = q[i + 1]
  BY TailParts
<1> HIDE DEF t
<1>2. 1 \in 1..n /\ 1..(1 - 1) = {} /\ (\A i \in 1..l : i + 1 \in 1..n /\ i \in 1..n /\ t[i] = q[i + 1])
  <2> HIDE DEF n, l
  <2>1. QED
    BY <1>1
<1>3. \A i \in 2..n : i - 1 \in 1..l /\ t[i - 1] = q[i]
  <2> HIDE DEF n, l
  <2>1. QED
    BY <1>1
<1>4. ASSUME Between(q) PROVE Between(t)
  <2> SUFFICES ASSUME NEW p \in 1..l, NEW r \in 1..l, p < r, Leaves(t[p]), Leaves(t[r])
               PROVE  \E z \in (p + 1)..(r - 1) : Returns(t[z])
    BY DEF Between
  <2>1. p + 1 \in 1..n /\ r + 1 \in 1..n /\ Leaves(q[p + 1]) /\ Leaves(q[r + 1])
    BY <1>2
  <2>2. p + 1 < r + 1
    <3> HIDE DEF n, l
    <3>1. QED
      BY <1>1
  <2>3. PICK z \in ((p + 1) + 1)..((r + 1) - 1) : Returns(q[z])
    BY <1>4, <2>1, <2>2 DEF Between
  <2> HIDE DEF n, l
  <2>4. z \in 2..n /\ z - 1 \in (p + 1)..(r - 1)
    BY <1>1, <2>1, <2>3
  <2>5. QED
    BY <1>3, <2>3, <2>4
<1>5. ASSUME After(q) PROVE After(t)
  <2> SUFFICES ASSUME NEW p \in 1..l, Leaves(t[p]) PROVE \E z \in (p + 1)..l : Returns(t[z])
    BY DEF After
  <2>1. p + 1 \in 1..n /\ Leaves(q[p + 1])
    BY <1>2
  <2>2. PICK z \in ((p + 1) + 1)..n : Returns(q[z])
    BY <1>5, <2>1 DEF After
  <2> HIDE DEF n, l
  <2>3. z \in 2..n /\ z - 1 \in (p + 1)..l
    BY <1>1, <2>1, <2>2
  <2>4. QED
    BY <1>3, <2>2, <2>3
<1>6. ASSUME NEW r \in 1..l, NEW z \in 2..((r + 1) - 1), Returns(q[z])
      PROVE  \E y \in 1..(r - 1) : Returns(t[y])
  <2> HIDE DEF n, l
  <2>1. z \in 2..n /\ z - 1 \in 1..(r - 1)
    BY <1>1
  <2>2. QED
    BY <1>3, <1>6, <2>1
<1>7. ASSUME Between(q), down PROVE Before(t)
  <2> SUFFICES ASSUME NEW r \in 1..l, Leaves(t[r]) PROVE \E z \in 1..(r - 1) : Returns(t[z])
    BY DEF Before
  <2>1. r + 1 \in 1..n /\ Leaves(q[r + 1]) /\ 1 \in 1..n /\ Leaves(q[1])
    BY <1>1, <1>2, <1>7
  <2>2. 1 < r + 1
    <3> HIDE DEF n, l
    <3>1. QED
      BY <1>1
  <2>3. PICK z \in (1 + 1)..((r + 1) - 1) : Returns(q[z])
    BY <1>7, <2>1, <2>2 DEF Between
  <2>4. z \in 2..((r + 1) - 1)
    BY <2>3
  <2>5. QED
    BY <1>6, <2>3, <2>4
<1>8. Before(q) => ~down
  BY <1>1, <1>2 DEF Before
<1>9. ASSUME Before(q), ~up PROVE Before(t)
  <2> SUFFICES ASSUME NEW r \in 1..l, Leaves(t[r]) PROVE \E z \in 1..(r - 1) : Returns(t[z])
    BY DEF Before
  <2>1. r + 1 \in 1..n /\ Leaves(q[r + 1])
    BY <1>2
  <2>2. PICK z \in 1..((r + 1) - 1) : Returns(q[z])
    BY <1>9, <2>1 DEF Before
  <2>3. z # 1
    BY <1>1, <1>9, <2>2
  <2>4. z \in 2..((r + 1) - 1)
    <3> HIDE DEF n, l
    <3>1. QED
      BY <1>1, <2>2, <2>3
  <2>5. QED
    BY <1>6, <2>2, <2>4
<1>10. ASSUME After(q), down PROVE Promised(t)
  <2>1. PICK z \in (1 + 1)..n : Returns(q[z])
    BY <1>1, <1>2, <1>10 DEF After
  <2>2. z \in 2..n
    BY <2>1
  <2>3. QED
    BY <1>3, <2>1, <2>2 DEF Promised
<1>11. ASSUME Promised(q), ~up PROVE Promised(t)
  <2>1. PICK z \in 1..n : Returns(q[z])
    BY <1>11 DEF Promised
  <2>2. z # 1
    BY <1>1, <1>11, <2>1
  <2>3. z \in 2..n
    <3> HIDE DEF n
    <3>1. QED
      BY <1>1, <2>1, <2>2
  <2>4. QED
    BY <1>3, <2>1, <2>3 DEF Promised
<1>12. QED
  BY <1>4, <1>5, <1>7, <1>8, <1>9, <1>10, <1>11

LEMMA DownAlternate ==
    ASSUME NEW q \in Seq(Good), NEW a, Alternate(q, a, TRUE), NEW m \in Good, Leaves(m),
           NEW n \in 0..Len(q), \A i \in (n + 1)..Len(q) : q[i].kind \notin RouterKinds
    PROVE  Alternate(Append(SubSeq(q, 1, n), m), a, FALSE)
<1> DEFINE c == SubSeq(q, 1, n)
           u == Append(c, m)
<1>0. Between(q) /\ After(q)
  BY DEF Alternate
<1> SUFFICES Between(u) /\ (Before(q) /\ Promised(q) => Before(u))
  BY DEF Alternate
<1> DEFINE t == Len(q)
<1>1. t \in Nat /\ n \in 0..t /\ Len(c) = n /\ c \in Seq(Good) /\ \A i \in 1..n : c[i] = q[i]
  BY CutParts
<1>2. Len(u) = n + 1 /\ u[n + 1] = m /\ \A i \in 1..n : u[i] = c[i]
  <2> HIDE DEF c
  <2>1. QED
    BY <1>1, AppendParts
<1>3. \A i \in (n + 1)..t : ~Returns(q[i])
  BY DEF RouterKinds, Returns
<1> HIDE DEF c, u
<1>4. \A i \in 1..n : u[i] = q[i] /\ i \in 1..t
  <2> HIDE DEF t
  <2>1. QED
    BY <1>1, <1>2
<1>5. \A i \in 1..(n + 1) : i \in 1..n \/ i = n + 1
  <2> HIDE DEF t
  <2>1. QED
    BY <1>1
<1>6. \A z \in 1..t : Returns(q[z]) => z \in 1..n
  <2> HIDE DEF t
  <2> TAKE z \in 1..t
  <2>1. z \in 1..n \/ z \in (n + 1)..t
    BY <1>1
  <2>2. QED
    BY <1>3, <2>1
<1>7. Between(u)
  <2> SUFFICES ASSUME NEW p \in 1..(n + 1), NEW r \in 1..(n + 1), p < r, Leaves(u[p]), Leaves(u[r])
               PROVE  \E z \in (p + 1)..(r - 1) : Returns(u[z])
    BY <1>2 DEF Between
  <2>1. p \in 1..n
    <3> HIDE DEF t
    <3>1. QED
      BY <1>1
  <2>2. p \in 1..t /\ Leaves(q[p])
    BY <1>4, <2>1
  <2>3. CASE r \in 1..n
    <3>1. r \in 1..t /\ Leaves(q[r])
      BY <1>4, <2>3
    <3>2. PICK z \in (p + 1)..(r - 1) : Returns(q[z])
      BY <1>0, <2>2, <3>1 DEF Between
    <3>3. z \in 1..n
      <4> HIDE DEF t
      <4>1. QED
        BY <1>1, <2>1, <2>3
    <3>4. QED
      BY <1>4, <3>2, <3>3
  <2>4. CASE r = n + 1
    <3>1. PICK z \in (p + 1)..t : Returns(q[z])
      BY <1>0, <2>2 DEF After
    <3>2. z \in 1..t
      <4> HIDE DEF t
      <4>1. QED
        BY <1>1, <2>1
    <3>3. z \in 1..n
      BY <1>6, <3>1, <3>2
    <3>4. z \in (p + 1)..(r - 1)
      <4> HIDE DEF t
      <4>1. QED
        BY <1>1, <2>1, <2>4, <3>1, <3>3
    <3>5. QED
      BY <1>4, <3>1, <3>3, <3>4
  <2>5. QED
    BY <1>5, <2>3, <2>4
<1>8. ASSUME Before(q), Promised(q) PROVE Before(u)
  <2> SUFFICES ASSUME NEW r \in 1..(n + 1), Leaves(u[r]) PROVE \E z \in 1..(r - 1) : Returns(u[z])
    BY <1>2 DEF Before
  <2>1. CASE r \in 1..n
    <3>1. r \in 1..t /\ Leaves(q[r])
      BY <1>4, <2>1
    <3>2. PICK z \in 1..(r - 1) : Returns(q[z])
      BY <1>8, <3>1 DEF Before
    <3>3. z \in 1..n
      <4> HIDE DEF t
      <4>1. QED
        BY <1>1, <2>1
    <3>4. QED
      BY <1>4, <3>2, <3>3
  <2>2. CASE r = n + 1
    <3>1. PICK z \in 1..t : Returns(q[z])
      BY <1>8 DEF Promised
    <3>2. z \in 1..n
      BY <1>6, <3>1
    <3>3. z \in 1..(r - 1)
      <4> HIDE DEF t
      <4>1. QED
        BY <1>1, <2>2, <3>2
    <3>4. QED
      BY <1>4, <3>1, <3>2, <3>3
  <2>3. QED
    BY <1>5, <2>1, <2>2
<1>9. QED
  BY <1>7, <1>8

LEMMA BackAlternate ==
    ASSUME NEW q \in Seq(Good), NEW a, Alternate(q, a, FALSE), NEW m \in Good, Returns(m)
    PROVE  Alternate(Append(q, m), a, TRUE)
<1> DEFINE u == Append(q, m)
<1>0. Between(q)
  BY DEF Alternate
<1> SUFFICES Between(u) /\ (Before(q) => Before(u)) /\ After(u) /\ Promised(u)
  BY DEF Alternate
<1> DEFINE n == Len(q)
<1>1. n \in Nat /\ Len(u) = n + 1 /\ u[n + 1] = m /\ \A i \in 1..n : u[i] = q[i]
  BY AppendParts
<1> HIDE DEF u
<1>2. n + 1 \in 1..(n + 1) /\ \A i \in 1..(n + 1) : i \in 1..n \/ i = n + 1
  <2> HIDE DEF n
  <2>1. QED
    BY <1>1
<1>3. \A i \in 1..(n + 1) : Leaves(u[i]) => i \in 1..n /\ Leaves(q[i])
  <2>1. ~Leaves(m)
    BY DEF Leaves, Returns
  <2>2. QED
    BY <1>1, <1>2, <2>1
<1>4. Between(u)
  <2> SUFFICES ASSUME NEW p \in 1..(n + 1), NEW r \in 1..(n + 1), p < r, Leaves(u[p]), Leaves(u[r])
               PROVE  \E z \in (p + 1)..(r - 1) : Returns(u[z])
    BY <1>1 DEF Between
  <2>1. p \in 1..n /\ r \in 1..n /\ Leaves(q[p]) /\ Leaves(q[r])
    BY <1>3
  <2>2. PICK z \in (p + 1)..(r - 1) : Returns(q[z])
    BY <1>0, <2>1 DEF Between
  <2> HIDE DEF n
  <2>3. z \in 1..n
    BY <1>1, <2>1
  <2>4. QED
    BY <1>1, <2>2, <2>3
<1>5. ASSUME Before(q) PROVE Before(u)
  <2> SUFFICES ASSUME NEW r \in 1..(n + 1), Leaves(u[r]) PROVE \E z \in 1..(r - 1) : Returns(u[z])
    BY <1>1 DEF Before
  <2>1. r \in 1..n /\ Leaves(q[r])
    BY <1>3
  <2>2. PICK z \in 1..(r - 1) : Returns(q[z])
    BY <1>5, <2>1 DEF Before
  <2> HIDE DEF n
  <2>3. z \in 1..n
    BY <1>1, <2>1
  <2>4. QED
    BY <1>1, <2>2, <2>3
<1>6. After(u)
  <2> SUFFICES ASSUME NEW p \in 1..(n + 1), Leaves(u[p]) PROVE \E z \in (p + 1)..(n + 1) : Returns(u[z])
    BY <1>1 DEF After
  <2>1. p \in 1..n
    BY <1>3
  <2> HIDE DEF n
  <2>2. n + 1 \in (p + 1)..(n + 1)
    BY <1>1, <2>1
  <2>3. QED
    BY <1>1, <2>2
<1>7. Promised(u)
  BY <1>1, <1>2 DEF Promised
<1>8. QED
  BY <1>4, <1>5, <1>6, <1>7

LEMMA AppendAlternate ==
    ASSUME NEW q \in Seq(Good), NEW m \in Good, ~Leaves(m), ~Returns(m), NEW a, NEW o, Alternate(q, a, o)
    PROVE  Alternate(q \o <<m>>, a, o)
<1> DEFINE ms == <<m>>
<1>1. ms \in Seq(Good) /\ Len(ms) = 1 /\ ms[1] = m
  OBVIOUS
<1> HIDE DEF ms
<1>2. Silent(ms)
  <2>1. 1..Len(ms) = {1}
    BY <1>1
  <2>2. m.kind \notin {"sm up", "sm down"}
    BY DEF Leaves, Returns
  <2>3. QED
    BY <1>1, <2>1, <2>2 DEF Silent
<1>3. Alternate(q \o ms, a, o)
  BY <1>1, <1>2, ConcatAlternate
<1>4. QED
  BY <1>3 DEF ms

-----------------------------------------------------------------------------
(* What the sm writes                                                      *)

(* One packet more, that says what has become of session x of f.           *)
Fits(m, f, x, h, h2) ==
    \/ News(m, f, x)
    \/ Starts(m, f, x) /\ h2
    \/ Echo(m, f, x) /\ ~h
    \/ Neutral(m, f, x) /\ (h => h2)

LEMMA AppendFits ==
    ASSUME NEW q \in Seq(Good), NEW m \in Good, NEW k, NEW f, NEW x, NEW h, NEW h2, Safe(q, k, f, x, h),
           Fits(m, f, x, h, h2)
    PROVE  Safe(q \o <<m>>, k, f, x, h2)
<1>1. Safe(Append(q, m), k, f, x, h2)
  BY AppendSafe DEF Fits
<1>2. QED
  BY <1>1, AppendIsConcat

LEMMA OneReply ==
    ASSUME SessInv, AllSafe, NEW m \in Good, toC2S' = toC2S \o <<m>>, UNCHANGED sess,
           \A f \in Fds, x \in Ids : Fits(m, f, x, Held(f, x), Held(f, x)')
    PROVE  AllSafe'
<1> SUFFICES ASSUME NEW f \in Fds, NEW x \in Ids PROVE Safe(toC2S', On(f, x)', f, x, Held(f, x)')
  BY DEF AllSafe
<1> DEFINE k == On(f, x)
           h == Held(f, x)
           h2 == Held(f, x)'
           k2 == On(f, x)'
           q == toC2S
           u == q \o <<m>>
<1>1. Safe(q, k, f, x, h) /\ q \in Seq(Good)
  BY InvParts DEF AllSafe
<1>2. Fits(m, f, x, h, h2)
  OBVIOUS
<1>3. (k2 => k) /\ toC2S' = u
  BY DEF On, Streaming
<1> HIDE DEF k, h, h2, k2, q
<1>4. Safe(u, k, f, x, h2)
  BY <1>1, <1>2, AppendFits
<1>5. Safe(u, k2, f, x, h2)
  BY <1>3, <1>4, WeakSafe
<1>6. QED
  BY <1>3, <1>5 DEF h2, k2

(* The packets of the sm that c2s does not learn from.                     *)
LEMMA PlainReply ==
    ASSUME SessInv, AllSafe, NEW m \in Good, m.kind \notin {"started", "pkt failed"},
           toC2S' = toC2S \o <<m>>, UNCHANGED <<sess, sm>>
    PROVE  AllSafe'
<1>1. \A f, x : Neutral(m, f, x)
  BY DEF Neutral, Starts, Echo
<1>2. \A f, x : Held(f, x) <=> Held(f, x)'
  BY DEF Held, Has, Live, SmId, FromThem
<1>3. \A f \in Fds, x \in Ids : Fits(m, f, x, Held(f, x), Held(f, x)')
  BY <1>1, <1>2 DEF Fits
<1>4. QED
  BY <1>3, OneReply

LEMMA NoReply ==
    ASSUME AllSafe, UNCHANGED <<sess, sm, toC2S>>
    PROVE  AllSafe'
BY DEF AllSafe, On, Streaming, Held, Has, Live, SmId, FromThem

(* Another session of the same JID is replaced first, and c2s is told so   *)
(* before it is told of the new one.                                       *)
LEMMA StartSafe ==
    ASSUME SessInv, AllSafe, NEW m \in Good, m.kind = "start", UNCHANGED sess, NEW j, j = m.id[1],
           NEW y, y = [m EXCEPT !.kind = "started", !.smid = <<j, now>>],
           sm' = [sm EXCEPT ![j] = [at |-> now, fd |-> m.fd]],
           toC2S' = toC2S \o (Replaced(j) \o <<y>>)
    PROVE  AllSafe'
<1>1. now \in 1..MaxNow /\ toC2S \in Seq(Good) /\ sm \in [Jids -> Sessions]
  BY InvParts DEF SessInv, SMType
<1>2. y \in Good /\ j \in Jids /\ y.kind = "started" /\ y.fd = m.fd /\ y.smid = <<j, now>> /\ <<j, now>>[1] = j
  <2>1. y \in Good /\ j \in Jids
    BY <1>1, StartedGood
  <2>2. m \in Msg
    BY MsgParts
  <2>3. y.kind = "started" /\ y.fd = m.fd /\ y.smid = <<j, now>>
    BY <2>2 DEF Msg
  <2>4. QED
    BY <2>1, <2>3
<1>3. ASSUME NEW f \in Fds, NEW x \in Ids
      PROVE  \E q \in Seq(Good) : toC2S' = q \o <<y>> /\ Safe(q, On(f, x), f, x, Held(f, x) /\ x[1] # j)
  <2> DEFINE k == On(f, x)
             h == Held(f, x)
             h1 == Held(f, x) /\ x[1] # j
             q == toC2S
  <2>1. Safe(q, k, f, x, h)
    BY DEF AllSafe
  <2>2. CASE Live(j)
    <3> DEFINE v == Control("replaced", sm[j].fd, SmId(j))
    <3>1. v \in Good /\ v.kind = "replaced" /\ v.fd = sm[j].fd /\ v.smid = SmId(j)
      BY <1>2, <2>2, LiveParts, PlainGood DEF Kinds, Control
    <3>2. Replaced(j) = <<v>>
      BY <2>2 DEF Replaced
    <3> HIDE DEF v
    <3>3. Fits(v, f, x, h, h1)
      <4>1. Neutral(v, f, x)
        BY <3>1 DEF Neutral, Starts, Echo
      <4>2. CASE x[1] # j
        BY <4>1, <4>2 DEF Fits
      <4>3. CASE x[1] = j
        <5>1. h => x = SmId(j) /\ f = sm[j].fd
          BY <4>3 DEF Held, Has, FromThem
        <5>2. h => News(v, f, x)
          BY <3>1, <5>1 DEF News, Gone
        <5>3. QED
          BY <4>1, <5>2 DEF Fits
      <4>4. QED
        BY <4>2, <4>3
    <3>4. toC2S' = (q \o <<v>>) \o <<y>> /\ q \o <<v>> \in Seq(Good)
      <4>1. q \in Seq(Good) /\ <<v>> \in Seq(Good) /\ <<y>> \in Seq(Good) /\ toC2S' = q \o (<<v>> \o <<y>>)
        BY <1>1, <1>2, <3>1, <3>2
      <4>2. QED
        BY <4>1, ConcatAssociative, SeqParts
    <3> HIDE DEF k, h, h1, q
    <3>5. Safe(q \o <<v>>, k, f, x, h1)
      BY <1>1, <2>1, <3>1, <3>3, AppendFits DEF q
    <3>6. QED
      BY <3>4, <3>5 DEF k, h1
  <2>3. CASE ~Live(j)
    <3>1. toC2S' = q \o <<y>>
      <4>1. Replaced(j) = <<>> /\ <<y>> \in Seq(Good)
        BY <1>2, <2>3 DEF Replaced
      <4>2. QED
        BY <4>1, ConcatEmptySeq
    <3>2. h => h1
      BY <2>3 DEF Held, Has
    <3> HIDE DEF k, h, h1, q
    <3>3. Safe(q, k, f, x, h1)
      BY <2>1, <3>2, WeakSafe
    <3>4. QED
      BY <1>1, <3>1, <3>3 DEF k, h1, q
  <2>4. QED
    BY <2>2, <2>3
<1>4. ASSUME NEW f \in Fds, NEW x \in Ids PROVE Safe(toC2S', On(f, x)', f, x, Held(f, x)')
  <2> DEFINE k == On(f, x)
             k2 == On(f, x)'
             h1 == Held(f, x) /\ x[1] # j
             h2 == Held(f, x)'
  <2>1. PICK q \in Seq(Good) : toC2S' = q \o <<y>> /\ Safe(q, k, f, x, h1)
    BY <1>3
  <2>2. Fits(y, f, x, h1, h2)
    <3>1. CASE f = m.fd /\ x = <<j, now>>
      <4>1. sm'[j] = [at |-> now, fd |-> m.fd]
        BY <1>1, <1>2
      <4>2. sm'[j].at = now /\ sm'[j].fd = m.fd /\ sm'[j] # NoSession
        <5>1. 0 # now
          BY <1>1
        <5>2. QED
          BY <4>1, <5>1 DEF NoSession
      <4>3. Held(f, x)'
        BY <1>2, <3>1, <4>2, IdParts DEF Held, Has, Live, SmId, FromThem
      <4>4. Starts(y, f, x)
        BY <1>2, <3>1 DEF Starts
      <4>5. QED
        BY <4>3, <4>4 DEF Fits
    <3>2. CASE ~(f = m.fd /\ x = <<j, now>>)
      <4>1. Neutral(y, f, x)
        BY <1>2, <3>2 DEF Neutral, Starts, Echo
      <4>2. h1 => h2
        <5>1. x[1] \in Jids
          BY IdParts
        <5>2. x[1] # j => sm'[x[1]] = sm[x[1]]
          BY <1>1, <5>1
        <5>3. QED
          BY <5>2 DEF Held, Has, Live, SmId, FromThem
      <4>3. QED
        BY <4>1, <4>2 DEF Fits
    <3>3. QED
      BY <3>1, <3>2
  <2>3. k2 => k
    BY DEF On, Streaming
  <2> HIDE DEF k, k2, h1, h2
  <2>4. Safe(q \o <<y>>, k, f, x, h2)
    BY <1>2, <2>1, <2>2, AppendFits
  <2>5. Safe(q \o <<y>>, k2, f, x, h2)
    BY <2>3, <2>4, WeakSafe
  <2>6. QED
    BY <2>1, <2>5 DEF k2, h2
<1>5. QED
  BY <1>4 DEF AllSafe

(* A session is ended: c2s is told so.                                     *)
LEMMA EndSafe ==
    ASSUME SessInv, AllSafe, NEW f0 \in Fds, NEW x0 \in Ids, Has(x0), FromThem(x0, f0), UNCHANGED sess,
           sm' = [sm EXCEPT ![x0[1]] = NoSession], toC2S' = toC2S \o <<Control("ended", f0, x0)>>
    PROVE  AllSafe'
<1> DEFINE v == Control("ended", f0, x0)
<1>1. v \in Good /\ v.kind = "ended" /\ v.fd = f0 /\ v.smid = x0
  BY PlainGood DEF Kinds, Control
<1>2. sm \in [Jids -> Sessions] /\ x0[1] \in Jids
  BY IdParts DEF SessInv, SMType
<1> HIDE DEF v
<1>3. ASSUME NEW f \in Fds, NEW x \in Ids PROVE Fits(v, f, x, Held(f, x), Held(f, x)')
  <2>1. Neutral(v, f, x)
    BY <1>1 DEF Neutral, Starts, Echo
  <2>2. CASE x[1] # x0[1]
    <3>1. sm'[x[1]] = sm[x[1]]
      BY <1>2, <2>2, IdParts
    <3>2. Held(f, x) => Held(f, x)'
      BY <3>1 DEF Held, Has, Live, SmId, FromThem
    <3>3. QED
      BY <2>1, <3>2 DEF Fits
  <2>3. CASE x[1] = x0[1]
    <3>1. Held(f, x) => x = x0 /\ f = f0
      BY <2>3 DEF Held, Has, FromThem
    <3>2. Held(f, x) => News(v, f, x)
      BY <1>1, <3>1 DEF News, Gone
    <3>3. QED
      BY <2>1, <3>2 DEF Fits
  <2>4. QED
    BY <2>2, <2>3
<1>4. toC2S' = toC2S \o <<v>>
  BY DEF v
<1>5. QED
  BY <1>1, <1>3, <1>4, OneReply

(* A stanza comes back only when the session it is for has gone.           *)
LEMMA EchoSafe ==
    ASSUME SessInv, AllSafe, NEW m \in Good, ~Has(m.smid), UNCHANGED <<sess, sm>>,
           toC2S' = toC2S \o <<[m EXCEPT !.kind = "pkt failed"]>>
    PROVE  AllSafe'
<1> DEFINE v == [m EXCEPT !.kind = "pkt failed"]
<1>1. v \in Good /\ v.kind = "pkt failed" /\ v.smid = m.smid
  <2>1. m \in Msg
    BY MsgParts
  <2>2. v.kind = "pkt failed" /\ v.smid = m.smid
    BY <2>1 DEF Msg
  <2>3. QED
    BY <2>2, Rekinded DEF Kinds
<1> HIDE DEF v
<1>2. ASSUME NEW f \in Fds, NEW x \in Ids PROVE Fits(v, f, x, Held(f, x), Held(f, x)')
  <2>1. Held(f, x) <=> Held(f, x)'
    BY DEF Held, Has, Live, SmId, FromThem
  <2>2. CASE Echo(v, f, x)
    BY <1>1, <2>2 DEF Fits, Echo, Held
  <2>3. CASE ~Echo(v, f, x)
    <3>1. Neutral(v, f, x)
      BY <1>1, <2>3 DEF Neutral, Starts
    <3>2. QED
      BY <2>1, <3>1 DEF Fits
  <2>4. QED
    BY <2>2, <2>3
<1>3. toC2S' = toC2S \o <<v>>
  BY DEF v
<1>4. QED
  BY <1>1, <1>2, <1>3, OneReply

(* None of this is news of the sm itself.                                  *)
LEMMA StartAlternate ==
    ASSUME SessInv, Alternate(toC2S, sm_avail, smUp), NEW j \in Jids, NEW y \in Good, y.kind = "started"
    PROVE  Alternate(toC2S \o (Replaced(j) \o <<y>>), sm_avail, smUp)
<1> DEFINE q == toC2S
<1>1. q \in Seq(Good) /\ <<y>> \in Seq(Good) /\ ~Leaves(y) /\ ~Returns(y)
  BY InvParts DEF Leaves, Returns
<1>2. CASE Live(j)
  <2> DEFINE v == Control("replaced", sm[j].fd, SmId(j))
  <2>1. v \in Good /\ ~Leaves(v) /\ ~Returns(v)
    BY <1>2, LiveParts, PlainGood DEF Kinds, Control, Leaves, Returns
  <2>2. Replaced(j) = <<v>>
    BY <1>2 DEF Replaced
  <2> HIDE DEF v
  <2>3. <<v>> \in Seq(Good)
    BY <2>1
  <2>4. q \o (<<v>> \o <<y>>) = (q \o <<v>>) \o <<y>> /\ q \o <<v>> \in Seq(Good)
    BY <1>1, <2>3, ConcatAssociative, SeqParts
  <2>5. Alternate(q \o <<v>>, sm_avail, smUp)
    BY <1>1, <2>1, AppendAlternate
  <2>6. Alternate((q \o <<v>>) \o <<y>>, sm_avail, smUp)
    BY <1>1, <2>4, <2>5, AppendAlternate
  <2>7. QED
    BY <2>2, <2>4, <2>6
<1>3. CASE ~Live(j)
  <2>1. Replaced(j) = <<>> /\ Replaced(j) \o <<y>> = <<y>>
    BY <1>1, <1>3, ConcatEmptySeq DEF Replaced
  <2>2. QED
    BY <1>1, <2>1, AppendAlternate
<1>4. QED
  BY <1>2, <1>3

SMTells == AllSafe' /\ Alternate(toC2S', sm_avail, smUp)

LEMMA RekindTells ==
    ASSUME SessInv, AllSafe, Alternate(toC2S, sm_avail, smUp), UNCHANGED <<sess, sm>>, NEW m \in Good,
           NEW k \in {"start failed", "end failed", "pkt"}, Reply(<<[m EXCEPT !.kind = k]>>, TRUE)
    PROVE  SMTells
<1> DEFINE v == [m EXCEPT !.kind = k]
<1>1. v \in Good /\ v.kind = k /\ toC2S' = toC2S \o <<v>>
  <2>1. m \in Msg
    BY MsgParts
  <2>2. v.kind = k
    BY <2>1 DEF Msg
  <2>3. QED
    BY <2>2, Rekinded DEF Kinds, Reply
<1> HIDE DEF v
<1>2. AllSafe'
  BY <1>1, PlainReply
<1>3. Alternate(toC2S \o <<v>>, sm_avail, smUp)
  BY <1>1, AppendAlternate, InvParts DEF Leaves, Returns
<1>4. QED
  BY <1>1, <1>2, <1>3 DEF SMTells

LEMMA ManagerTells ==
    ASSUME SessInv, GhostInv, Manager
    PROVE  SMTells /\ toSM' \in Seq(Asked)
<1> DEFINE m == Head(toSM)
<1>1. /\ toSM # <<>> /\ toSM' = Tail(toSM) /\ UNCHANGED <<now, smUp, sess, sm_avail, link, used, told, got>>
      /\ SessStart(m, TRUE) \/ SessEnd(m, TRUE) \/ InSess(m, TRUE) \/ C2SGone(m)
  BY DEF Manager, SMStep, c2sVars, GhostInv
<1>2. m \in Asked /\ toSM' \in Seq(Asked)
  BY <1>1, SeqParts DEF GhostInv
<1> HIDE DEF m
<1>3. m \in Good /\ m.kind # "c2s down" /\ m.fd \in Fds /\ m \in Msg
  BY <1>2, MsgParts DEF Asked
<1>4. AllSafe /\ Alternate(toC2S, sm_avail, smUp) /\ toC2S \in Seq(Good)
  BY InvParts DEF GhostInv
<1>5. CASE SessStart(m, TRUE)
  <2>1. CASE Reply(<<[m EXCEPT !.kind = "start failed"]>>, TRUE) /\ UNCHANGED sm
    BY <1>1, <1>2, <1>3, <1>4, <2>1, RekindTells
  <2> DEFINE j == m.id[1]
             y == [m EXCEPT !.kind = "started", !.smid = <<j, now>>]
  <2>2. CASE sm' = [sm EXCEPT ![j] = [at |-> now, fd |-> m.fd]] /\ Reply(Replaced(j) \o <<y>>, TRUE)
    <3>1. toC2S' = toC2S \o (Replaced(j) \o <<y>>) /\ m.kind = "start"
      BY <1>5, <2>2 DEF Reply, SessStart
    <3>2. AllSafe'
      BY <1>1, <1>3, <1>4, <2>2, <3>1, StartSafe
    <3>3. y \in Good /\ j \in Jids /\ y.kind = "started"
      BY <1>3, <3>1, StartedGood, InvParts DEF Msg
    <3> HIDE DEF y
    <3>4. Alternate(toC2S', sm_avail, smUp)
      BY <1>4, <3>1, <3>3, StartAlternate
    <3>5. QED
      BY <1>2, <3>2, <3>4 DEF SMTells
  <2>3. QED
    BY <1>2, <1>5, <2>1, <2>2 DEF SessStart
<1>6. CASE SessEnd(m, TRUE)
  <2>1. CASE Reply(<<[m EXCEPT !.kind = "end failed"]>>, TRUE) /\ UNCHANGED sm
    BY <1>1, <1>2, <1>3, <1>4, <2>1, RekindTells
  <2>2. CASE UNCHANGED <<sm, toC2S>>
    BY <1>1, <1>2, <1>4, <2>2, NoReply DEF SMTells
  <2>3. CASE /\ Has(m.smid) /\ FromThem(m.smid, m.fd) /\ sm' = [sm EXCEPT ![m.smid[1]] = NoSession]
             /\ Reply(<<Control("ended", m.fd, m.smid)>>, TRUE)
    <3> DEFINE v == Control("ended", m.fd, m.smid)
    <3>1. m.smid \in Ids
      BY <1>3, <2>3, MsgParts DEF Has
    <3>2. toC2S' = toC2S \o <<v>>
      BY <2>3 DEF Reply
    <3>3. AllSafe'
      BY <1>1, <1>3, <1>4, <2>3, <3>1, <3>2, EndSafe
    <3>4. v \in Good /\ ~Leaves(v) /\ ~Returns(v)
      BY <1>3, <3>1, PlainGood DEF Kinds, Control, Leaves, Returns
    <3> HIDE DEF v
    <3>5. Alternate(toC2S', sm_avail, smUp)
      BY <1>4, <3>2, <3>4, AppendAlternate
    <3>6. QED
      BY <1>2, <3>3, <3>5 DEF SMTells
  <2>4. QED
    BY <1>2, <1>6, <2>1, <2>2, <2>3 DEF SessEnd
<1>7. CASE InSess(m, TRUE)
  <2>1. UNCHANGED sm
    BY <1>7 DEF InSess
  <2>2. CASE Reply(<<[m EXCEPT !.kind = "pkt"]>>, TRUE)
    BY <1>1, <1>2, <1>3, <1>4, <2>1, <2>2, RekindTells
  <2>3. CASE UNCHANGED toC2S
    BY <1>1, <1>2, <1>4, <2>1, <2>3, NoReply DEF SMTells
  <2>4. CASE ~Has(m.smid) /\ Reply(<<[m EXCEPT !.kind = "pkt failed"]>>, TRUE)
    <3> DEFINE v == [m EXCEPT !.kind = "pkt failed"]
    <3>1. toC2S' = toC2S \o <<v>>
      BY <2>4 DEF Reply
    <3>2. AllSafe'
      BY <1>1, <1>3, <1>4, <2>1, <2>4, <3>1, EchoSafe
    <3>3. v \in Good /\ v.kind = "pkt failed"
      BY <1>3, Rekinded DEF Kinds, Msg
    <3> HIDE DEF v
    <3>4. Alternate(toC2S', sm_avail, smUp)
      BY <1>4, <3>1, <3>3, AppendAlternate DEF Leaves, Returns
    <3>5. QED
      BY <1>2, <3>2, <3>4 DEF SMTells
  <2>5. QED
    BY <1>2, <1>7, <2>2, <2>3, <2>4 DEF InSess
<1>8. QED
  BY <1>1, <1>2, <1>3, <1>5, <1>6, <1>7 DEF C2SGone

LEMMA ModulesTell ==
    ASSUME SessInv, GhostInv, Modules
    PROVE  SMTells
<1>1. PICK j \in Jids : Deliver(j, TRUE) /\ UNCHANGED c2sVars
  BY DEF Modules, GhostInv
<1> DEFINE m == Control("pkt", sm[j].fd, SmId(j))
<1>2. m \in Good /\ m.kind = "pkt"
  BY <1>1, LiveParts, PlainGood DEF Kinds, Deliver, Control
<1>3. toC2S' = toC2S \o <<m>> /\ UNCHANGED <<now, toSM, sm, smUp, sess, sm_avail, link, used, told, got>>
  BY <1>1 DEF Deliver, c2sVars, Reply
<1> HIDE DEF m
<1>4. AllSafe'
  BY <1>2, <1>3, PlainReply DEF GhostInv
<1>5. Alternate(toC2S \o <<m>>, sm_avail, smUp)
  BY <1>2, AppendAlternate, InvParts DEF Leaves, Returns, GhostInv
<1>6. QED
  BY <1>3, <1>4, <1>5 DEF SMTells

-----------------------------------------------------------------------------
(* What c2s writes and reads                                               *)

(* What the router returns to c2s says nothing of a session or of the sm.  *)
LEMMA WritesMute ==
    ASSUME NEW in \in Seq(Good), toSM \in Seq(Asked), NEW o, Writes(in, o)
    PROVE  /\ toSM' \in Seq(Asked)
           /\ toC2S' = in \/ \E bs \in Seq(Good) : Mute(bs) /\ toC2S' = in \o bs
<1>1. CASE toSM' = toSM /\ toC2S' = in
  BY <1>1
<1>2. CASE \E ms \in Seq(Asked) : Send(ms, in, o)
  <2>1. PICK ms \in Seq(Asked) : Send(ms, in, o)
    BY <1>2
  <2> DEFINE bs == [i \in DOMAIN ms |-> [ms[i] EXCEPT !.kind = "bounce"]]
  <2>2. ms \in [1..Len(ms) -> Asked] /\ Len(ms) \in Nat /\ DOMAIN ms = 1..Len(ms)
    BY LenProperties
  <2>3. ASSUME NEW i \in 1..Len(ms)
        PROVE  [ms[i] EXCEPT !.kind = "bounce"] \in Good /\ [ms[i] EXCEPT !.kind = "bounce"].kind = "bounce"
    <3> DEFINE y == ms[i]
    <3>1. y \in Good /\ y \in Msg
      BY <2>2, MsgParts DEF Asked
    <3> HIDE DEF y
    <3>2. [y EXCEPT !.kind = "bounce"] \in Good
      BY <3>1, Rekinded DEF Kinds
    <3>3. [y EXCEPT !.kind = "bounce"].kind = "bounce"
      BY <3>1 DEF Msg
    <3>4. QED
      BY <3>2, <3>3 DEF y
  <2>4. bs \in [1..Len(ms) -> Good] /\ \A i \in 1..Len(ms) : bs[i].kind = "bounce"
    BY <2>2, <2>3
  <2>5. (toSM' = toSM \o ms \/ toSM' = toSM) /\ (toC2S' = in \o bs \/ toC2S' = in)
    BY <2>1 DEF Send
  <2> HIDE DEF bs
  <2>6. bs \in Seq(Good) /\ Len(bs) = Len(ms)
    BY SMTT(30), <2>2, <2>4, SeqDef
  <2>7. Mute(bs)
    BY <2>4, <2>6 DEF Mute
  <2>8. toSM \o ms \in Seq(Asked)
    BY ConcatProperties
  <2>9. QED
    BY <2>5, <2>6, <2>7, <2>8
<1>3. QED
  BY <1>1, <1>2 DEF Writes

LEMMA MuteSilent ==
    ASSUME NEW ms, Mute(ms)
    PROVE  Silent(ms)
BY DEF Mute, Silent

LEMMA WritesSafe ==
    ASSUME NEW in \in Seq(Good), toSM \in Seq(Asked), NEW o, Writes(in, o), NEW k, NEW f, NEW x, NEW h,
           Safe(in, k, f, x, h)
    PROVE  Safe(toC2S', k, f, x, h)
BY ZenonT(40), WritesMute, ConcatSafe

LEMMA WritesAlternate ==
    ASSUME NEW in \in Seq(Good), toSM \in Seq(Asked), NEW o, Writes(in, o), NEW a, NEW u, Alternate(in, a, u)
    PROVE  Alternate(toC2S', a, u)
BY WritesMute, MuteSilent, ConcatAlternate

(* A client has no session yet, or gives it up, or keeps it.               *)
LEMMA ClientOn ==
    ASSUME SessInv, MaxRes <= 1, NEW c \in Fds, Client(c), NEW f \in Fds, NEW x
    PROVE  On(f, x)' => On(f, x)
<1> DEFINE s == sess[c]
           v == sess'[c]
<1>1. ClientStep(c, smUp) /\ SessOk(s) /\ s \in SessRec /\ sess \in [Fds -> SessRec]
  BY InvParts DEF Client, ClientStep
<1>2. ASSUME NEW t, SetSess(c, t) PROVE sess'[c] = t /\ \A g \in Fds : g # c => sess'[g] = sess[g]
  BY <1>1, <1>2 DEF SetSess
<1>3. \A g \in Fds : g # c => sess'[g] = sess[g]
  BY <1>1, <1>2 DEF ClientStep, Accept, Stream, SaslAuth, AuthSet, Bind, Unbind, Stanza, EndStream, Disconnect
<1>4. v.active /\ v.state \in {"stream", "open"} => s.active /\ s.state \in {"stream", "open"} /\ v.res = s.res
  <2>1. CASE Accept(c) \/ Disconnect(c, smUp)
    <3>1. v = Blank \/ v = [Blank EXCEPT !.state = "new"]
      BY <1>2, <2>1 DEF Accept, Disconnect
    <3>2. ~v.active
      BY <3>1 DEF Blank
    <3>3. QED
      BY <3>2
  <2>2. CASE Stream(c) \/ \E u \in Users : SaslAuth(c, u)
    <3>1. ~s.active
      BY <1>1, <2>2 DEF Stream, SaslAuth, SessOk, Early
    <3>2. ~v.active
      <4>1. CASE Stream(c)
        <5> DEFINE st == IF sm_avail THEN "stream" ELSE "closing"
        <5>1. v = [s EXCEPT !.state = st]
          BY <1>2, <4>1 DEF Stream
        <5> HIDE DEF s, v, st
        <5>2. v.active = s.active
          BY <1>1, <5>1 DEF SessRec
        <5>3. QED
          BY <3>1, <5>2
      <4>2. CASE \E u \in Users : SaslAuth(c, u)
        <5>1. PICK u \in Users : v = [s EXCEPT !.state = "open", !.user = u, !.sasl = TRUE]
          BY <1>2, <4>2 DEF SaslAuth
        <5> HIDE DEF s, v
        <5>2. v.active = s.active
          BY <1>1, <5>1 DEF SessRec
        <5>3. QED
          BY <3>1, <5>2
      <4>3. QED
        BY <2>2, <4>1, <4>2
    <3>3. QED
      BY <3>2
  <2>3. CASE \E j \in Jids : AuthSet(c, j, smUp)
    <3>1. PICK j \in Jids : AuthSet(c, j, smUp)
      BY <2>3
    <3> DEFINE b == [jid |-> j, smid |-> IF s.res = <<>> THEN NoId ELSE Head(s.res).smid, req |-> <<j, now>>]
    <3>2. ~s.active /\ v = [s EXCEPT !.user = j[1], !.res = <<b>>, !.result = <<"bind", j>>]
      BY <1>2, <3>1 DEF AuthSet
    <3> HIDE DEF s, v, b
    <3>3. v.active = s.active
      BY <1>1, <3>2 DEF SessRec
    <3>4. QED
      BY <3>2, <3>3
  <2>4. CASE \E j \in Jids : Bind(c, j, smUp)
    <3>1. PICK j \in Jids : Bind(c, j, smUp)
      BY <2>4
    <3> DEFINE b == [jid |-> j, smid |-> NoId, req |-> <<j, now>>]
    <3>2. Len(s.res) < MaxRes /\ v = [s EXCEPT !.res = Append(@, b), !.bound = @ + 1, !.result = <<"bind", j>>]
      BY <1>2, <3>1 DEF Bind
    <3>3. s.res = <<>>
      <4> DEFINE n == Len(s.res)
      <4>1. n \in Nat /\ n < MaxRes /\ MaxRes <= 1 /\ MaxRes \in Nat /\ s.res \in Seq(Bres)
        BY <1>1, <3>2, SessParts, C2SAssumption
      <4> HIDE DEF n
      <4>2. n = 0
        BY <4>1
      <4>3. QED
        BY <4>1, <4>2, EmptySeq DEF n
    <3>4. ~s.active
      BY <1>1, <3>3 DEF SessOk
    <3> HIDE DEF s, v, b
    <3>5. v.active = s.active
      BY <1>1, <3>2 DEF SessRec
    <3>6. QED
      BY <3>4, <3>5
  <2>5. CASE \E i \in 1..MaxRes : Unbind(c, i, smUp)
    <3>1. PICK i \in 1..MaxRes : v = [s EXCEPT !.result = <<"unbind", s.res[i].jid>>]
      BY <1>2, <2>5 DEF Unbind
    <3> DEFINE r == <<"unbind", s.res[i].jid>>
    <3>2. v = [s EXCEPT !.result = r]
      BY <3>1
    <3> HIDE DEF s, v, r
    <3>3. v.active = s.active /\ v.state = s.state /\ v.res = s.res
      BY <1>1, <3>2 DEF SessRec
    <3>4. QED
      BY <3>3
  <2>6. CASE EndStream(c) \/ \E k \in {"pkt", "xsess"} : Stanza(c, k, smUp)
    <3>1. v = s \/ v = Closing(s)
      BY <1>1, <1>2, <2>6 DEF EndStream, Stanza
    <3> HIDE DEF s, v
    <3>2. Closing(s).state = "closing"
      BY <1>1 DEF Closing, SessRec
    <3>3. QED
      BY <3>1, <3>2
  <2>7. QED
    BY <1>1, <2>1, <2>2, <2>3, <2>4, <2>5, <2>6 DEF ClientStep
<1>5. QED
  BY <1>3, <1>4 DEF On, Streaming

(* One resource: the packet that has found a resource has found the first. *)
LEMMA OneRes ==
    ASSUME NEW s, SessOk(s), MaxRes <= 1
    PROVE  /\ Len(s.res) \in {0, 1} /\ s.bound <= 1
           /\ \A i \in DOMAIN s.res : i = 1
           /\ s.active => 1 \in DOMAIN s.res /\ s.res[1].smid # NoId
<1> DEFINE n == Len(s.res)
           b == s.bound
<1>1. s \in SessRec /\ n \in Nat /\ b \in Int /\ DOMAIN s.res = 1..n /\ MaxRes \in Nat /\ s.res \in Seq(Bres)
  BY SessParts, C2SAssumption DEF SessOk
<1>2. n <= 1 /\ (b = n \/ b \in {0, -1})
  <2>1. (n <= MaxRes \/ n <= 1) /\ (b = n \/ b \in {0, -1})
    BY DEF SessOk, Counted
  <2> HIDE DEF n, b
  <2>2. QED
    BY <1>1, <2>1
<1>3. n \in {0, 1} /\ b <= 1 /\ \A i \in 1..n : i = 1
  <2> HIDE DEF n, b
  <2>1. QED
    BY <1>1, <1>2
<1>4. s.active => 1 \in DOMAIN s.res
  BY <1>1 DEF SessOk
<1>5. s.active => s.res[1].smid # NoId
  BY <1>4 DEF SessOk
<1>6. QED
  BY <1>1, <1>3, <1>4, <1>5

(* Its session has ended: with one resource the stream is closed.          *)
LEMMA EndedOff ==
    ASSUME NEW s, SessOk(s), MaxRes <= 1, NEW i
    PROVE  ~AfterEnd(s, i).active /\ AfterEnd(s, i).state = "closing" /\ AfterEnd(s, i).res = s.res
<1> DEFINE c == s.bound - 1
           left == [s EXCEPT !.bound = c, !.result = NoResult]
           t == [left EXCEPT !.active = FALSE]
           v == Closing(t)
<1>1. s \in SessRec /\ c \in Int /\ c < 1
  <2>1. s \in SessRec /\ s.bound \in Int /\ s.bound <= 1
    BY SessParts, OneRes DEF SessOk
  <2> DEFINE b == s.bound
  <2> HIDE DEF b
  <2>2. b - 1 \in Int /\ b - 1 < 1
    BY <2>1 DEF b
  <2>3. QED
    BY <2>1, <2>2 DEF b
<1>2. left.bound = c /\ left \in SessRec /\ left.res = s.res
  <2> HIDE DEF c
  <2>1. QED
    BY <1>1 DEF SessRec, Results
<1>3. LastGone(left.bound)
  BY <1>1, <1>2 DEF LastGone
<1>4. AfterEnd(s, i) = v
  BY <1>3 DEF AfterEnd
<1> HIDE DEF left
<1>5. t \in SessRec /\ t.active = FALSE /\ t.res = left.res
  BY <1>2 DEF SessRec
<1> HIDE DEF t
<1>6. v.active = t.active /\ v.state = "closing" /\ v.res = t.res
  BY <1>5 DEF SessRec, Closing
<1>7. QED
  BY <1>2, <1>4, <1>5, <1>6

(* Its session has started: the client has the session id of the packet.   *)
LEMMA StartedHas ==
    ASSUME NEW s, SessOk(s), MaxRes <= 1, NEW i \in DOMAIN s.res, NEW x \in Ids
    PROVE  AfterStart(s, i, x).res[1].smid = x
<1> DEFINE q == s.res
           b == q[1]
           b2 == [b EXCEPT !.smid = x, !.req = NoId]
           q2 == [q EXCEPT ![1] = b2]
           a == s.sasl \/ s.result # NoResult \/ s.active
           o == [s EXCEPT !.res = q2, !.active = a, !.result = NoResult]
           v == AfterStart(s, i, x)
<1>1. s \in SessRec /\ q \in Seq(Bres) /\ i = 1 /\ 1 \in DOMAIN q /\ b \in Bres
  BY SessParts, OneRes DEF SessOk
<1>2. v = IF s.sasl THEN o ELSE [o EXCEPT !.state = "open"]
  BY <1>1 DEF AfterStart
<1>3. b2.smid = x
  <2> HIDE DEF b
  <2>1. QED
    BY <1>1 DEF Bres
<1> HIDE DEF b2
<1>4. q2[1] = b2
  BY <1>1
<1> HIDE DEF q2, a
<1>5. o.res = q2 /\ [o EXCEPT !.state = "open"].res = q2
  BY <1>1 DEF SessRec
<1>6. v.res = q2
  BY <1>2, <1>5
<1>7. QED
  BY <1>3, <1>4, <1>6

(* What c2s takes for the session of f after it has read m.                *)
Learns(m, f, x) == On(f, x)' => (On(f, x) /\ ~News(m, f, x)) \/ Starts(m, f, x)

LEMMA SameLearns ==
    ASSUME NEW m, NEW f \in Fds, NEW x, sess'[f] = sess[f], ~News(m, f, x) \/ ~On(f, x)
    PROVE  Learns(m, f, x)
BY DEF Learns, On, Streaming

LEMMA OtherLearns ==
    ASSUME NEW m, m.kind # "sm down", NEW f \in Fds, NEW x, sess'[f] = sess[f], m.fd # f
    PROVE  Learns(m, f, x)
<1>1. ~News(m, f, x)
  BY DEF News, Gone
<1>2. QED
  BY <1>1, SameLearns

LEMMA OffLearns ==
    ASSUME NEW m, NEW f \in Fds, NEW x, ~sess'[f].active \/ sess'[f].state \notin {"stream", "open"}
    PROVE  Learns(m, f, x)
BY DEF Learns, On, Streaming

LEMMA PresenceLearns ==
    ASSUME NEW m, NEW in, Reading(m, in), Presence(m, in), m.kind = "sm down" => sm_avail, NEW f \in Fds, NEW x
    PROVE  Learns(m, f, x)
<1>1. CASE m.kind = "sm up" /\ UNCHANGED sess
  BY <1>1, SameLearns DEF News, Gone
<1>2. CASE /\ m.kind = "sm down"
           /\ sess' = [h \in Fds |-> IF sm_avail /\ Affected(sess[h])
                                     THEN Closing([sess[h] EXCEPT !.active = FALSE]) ELSE sess[h]]
  <2> DEFINE s == sess[f]
             t == [s EXCEPT !.active = FALSE]
  <2>1. s \in SessRec /\ SessOk(s)
    BY InvParts, ReadParts
  <2>2. sess'[f] = IF s.res # <<>> THEN Closing(t) ELSE s
    BY <1>2 DEF Affected
  <2>3. s.res = <<>> => ~s.active
    BY <2>1 DEF SessOk
  <2> HIDE DEF s
  <2>4. t \in SessRec /\ t.active = FALSE
    BY <2>1 DEF SessRec
  <2> HIDE DEF t
  <2>5. Closing(t).active = t.active
    BY <2>4 DEF SessRec, Closing
  <2>6. ~sess'[f].active
    BY <2>2, <2>3, <2>4, <2>5
  <2>7. QED
    BY <2>6, OffLearns
<1>3. QED
  BY <1>1, <1>2 DEF Presence

LEMMA ForResourceLearns ==
    ASSUME NEW m, NEW in, Reading(m, in), ForResource(m, in), MaxRes <= 1, m.kind \notin {"sm up", "sm down"},
           NEW f \in Fds, NEW x \in Ids
    PROVE  Learns(m, f, x)
<1> DEFINE s == sess[m.fd]
           i == Found(s, m)
<1>1. m.fd \in Fds /\ SessOk(s) /\ s \in SessRec /\ sess \in [Fds -> SessRec] /\ m \in Good
  BY ReadParts, InvParts
<1>2. i \in DOMAIN s.res /\ (Ended(m, i, in) \/ Started(m, i, in) \/ Unexpected(m, i, in) \/ ToClient(m, in))
  BY <1>1, FoundIn DEF ForResource
<1> HIDE DEF i
<1>3. CASE Ended(m, i, in)
  <2>1. sess' = [sess EXCEPT ![m.fd] = AfterEnd(s, i)]
    BY <1>3 DEF Ended, AfterEnd, SetSess
  <2>2. ~AfterEnd(s, i).active
    BY <1>1, EndedOff
  <2>3. CASE f = m.fd
    BY <1>1, <2>1, <2>2, <2>3, OffLearns
  <2>4. CASE f # m.fd
    BY <1>1, <2>1, <2>4, OtherLearns
  <2>5. QED
    BY <2>3, <2>4
<1>4. CASE Started(m, i, in)
  <2>1. sess' = [sess EXCEPT ![m.fd] = AfterStart(s, i, m.smid)] /\ m.kind = "started"
    BY <1>4 DEF Started, AfterStart, StartedId, SetSess
  <2>2. m.smid \in Ids
    BY <1>1, <2>1, MsgParts
  <2>3. AfterStart(s, i, m.smid).res[1].smid = m.smid
    BY <1>1, <1>2, <2>2, StartedHas
  <2>4. CASE f = m.fd
    <3>1. sess'[f] = AfterStart(s, i, m.smid)
      BY <1>1, <2>1, <2>4
    <3>2. On(f, x)' => x = m.smid
      BY <2>3, <3>1 DEF On
    <3>3. QED
      BY <2>1, <2>4, <3>2 DEF Learns, Starts
  <2>5. CASE f # m.fd
    BY <1>1, <2>1, <2>5, OtherLearns
  <2>6. QED
    BY <2>4, <2>5
<1>5. CASE Unexpected(m, i, in) \/ ToClient(m, in)
  <2>1. UNCHANGED sess
    BY <1>5 DEF Unexpected, ToClient, Ignore
  <2>2. m.kind \in {"ended", "replaced"} => ~s.active
    BY <1>5 DEF Unexpected, ToClient
  <2>3. ~News(m, f, x) \/ ~On(f, x)
    BY <2>2 DEF News, Gone, On
  <2>4. QED
    BY <2>1, <2>3, SameLearns
<1>6. QED
  BY <1>2, <1>3, <1>4, <1>5

LEMMA HandledLearns ==
    ASSUME NEW m, NEW in, Reading(m, in), Handled(m, in), MaxRes <= 1, m.kind = "sm down" => sm_avail,
           NEW f \in Fds, NEW x \in Ids
    PROVE  Learns(m, f, x)
<1>1. CASE Presence(m, in)
  BY <1>1, PresenceLearns
<1>2. ASSUME m.kind \notin {"sm up", "sm down"} PROVE News(m, f, x) => m.fd = f /\ m.smid = x /\ m.kind \in {"ended", "replaced"}
  BY <1>2 DEF News, Gone
<1>3. m.fd \in Fds /\ SessOk(sess[m.fd]) /\ sess \in [Fds -> SessRec] /\ sess[m.fd] \in SessRec
  BY ReadParts, InvParts
<1>4. CASE m.kind \notin {"sm up", "sm down"} /\ (Unknown(m, in, smUp) \/ Leftover(m, in))
  <2>1. UNCHANGED sess /\ ~sess[m.fd].active
    BY <1>3, <1>4 DEF Unknown, Leftover, Ignore, Tell, SessOk, Early
  <2>2. ~News(m, f, x) \/ ~On(f, x)
    BY <1>2, <1>4, <2>1 DEF On
  <2>3. QED
    BY <2>1, <2>2, SameLearns
<1>5. CASE m.kind \notin {"sm up", "sm down"} /\ RouteError(m, in)
  <2>1. sess' = [sess EXCEPT ![m.fd] = Closing(sess[m.fd])]
    BY <1>5 DEF RouteError, SetSess
  <2>2. Closing(sess[m.fd]).state = "closing"
    <3> DEFINE s == sess[m.fd]
    <3>1. s \in SessRec
      BY <1>3
    <3> HIDE DEF s
    <3>2. Closing(s).state = "closing"
      BY <3>1 DEF Closing, SessRec
    <3>3. QED
      BY <3>2 DEF s
  <2>3. CASE f = m.fd
    BY <1>3, <2>1, <2>2, <2>3, OffLearns
  <2>4. CASE f # m.fd
    BY <1>3, <1>5, <2>1, <2>4, OtherLearns
  <2>5. QED
    BY <2>3, <2>4
<1>6. CASE m.kind \notin {"sm up", "sm down"} /\ NoSmId(m, in)
  <2>1. UNCHANGED sess /\ m.smid = NoId
    BY <1>6 DEF NoSmId, Ignore, HasSmId
  <2>2. ~News(m, f, x)
    BY <1>2, <1>6, <2>1, IdParts
  <2>3. QED
    BY <2>1, <2>2, SameLearns
<1>7. CASE m.kind \notin {"sm up", "sm down"} /\ NoResource(m, in, smUp)
  <2>1. UNCHANGED sess /\ Matches(sess[m.fd], m) = {}
    BY <1>7 DEF NoResource, Ignore, Tell
  <2>2. ~News(m, f, x) \/ ~On(f, x)
    <3> SUFFICES ASSUME News(m, f, x), On(f, x) PROVE FALSE
      OBVIOUS
    <3>1. m.fd = f /\ m.smid = x
      BY <1>2, <1>7
    <3>2. sess[f].active /\ sess[f].res[1].smid = x
      BY DEF On
    <3>3. 1 \in DOMAIN sess[f].res
      BY <1>3, <3>1, <3>2, OneRes
    <3>4. 1 \in Matches(sess[m.fd], m)
      BY <3>1, <3>2, <3>3 DEF Matches
    <3>5. QED
      BY <2>1, <3>4
  <2>3. QED
    BY <2>1, <2>2, SameLearns
<1>8. CASE m.kind \notin {"sm up", "sm down"} /\ ForResource(m, in)
  BY <1>8, ForResourceLearns
<1>9. QED
  BY <1>1, <1>4, <1>5, <1>6, <1>7, <1>8 DEF Handled

(* A stanza the sm has sent back never reaches an active client: the news  *)
(* that its session has gone would have come first.                        *)
LEMMA HandledEchoes ==
    ASSUME NEW m, NEW in, Reading(m, in), Handled(m, in), MaxRes <= 1, AllSafe, NoEchoes,
           toC2S # <<>>, m = Head(toC2S)
    PROVE  NoEchoes'
<1> DEFINE s == sess[m.fd]
           owner == IF m.smid = NoId THEN NoId ELSE m.smid[1][1]
           g == got[m.fd] \cup {<<owner, m.kind>>}
<1>1. m.fd \in Fds /\ SessOk(s) /\ s \in SessRec /\ got \in [Fds -> SUBSET Packets] /\ m \in Good /\ toC2S \in Seq(Good)
  BY ReadParts, InvParts
<1>2. CASE UNCHANGED got
  BY <1>2 DEF NoEchoes
<1>3. CASE ForResource(m, in) /\ m.kind = "pkt" /\ got' = [got EXCEPT ![m.fd] = g]
  <2>1. \A x \in g : x[2] = "pkt"
    BY <1>1, <1>3 DEF NoEchoes
  <2> HIDE DEF g
  <2>2. QED
    BY <1>1, <1>3, <2>1 DEF NoEchoes
<1>4. CASE ForResource(m, in) /\ m.kind = "pkt failed" /\ s.active /\ s.state # "closing"
  <2> DEFINE i == Found(s, m)
             x == m.smid
  <2>1. i \in DOMAIN s.res /\ s.res[i].smid \in {NoId, x}
    BY <1>1, <1>4, FoundIn DEF ForResource
  <2>2. i = 1 /\ s.res[1].smid # NoId
    BY <1>1, <1>4, <2>1, OneRes
  <2>3. s.res[1].smid = x /\ x # NoId
    BY <2>1, <2>2
  <2>4. x \in Ids
    BY <1>1, <2>3, MsgParts
  <2>5. s.state \in {"stream", "open"}
    BY <1>1, <1>4, SessParts DEF SessOk, Early
  <2>6. On(m.fd, x)
    BY <1>4, <2>3, <2>5 DEF On, Streaming
  <2> DEFINE q == toC2S
             k == On(m.fd, x)
             h == Held(m.fd, x)
             n == Len(q)
  <2>7. Safe(q, k, m.fd, x, h) /\ k
    BY <1>1, <2>4, <2>6 DEF AllSafe
  <2>8. n \in Nat \ {0} /\ m = q[1]
    BY <1>1, TailParts
  <2>9. Echo(q[1], m.fd, x)
    BY <1>4, <2>8 DEF Echo
  <2> HIDE DEF k, h
  <2>10. Told(q, 0, m.fd, x, h)
    <3>1. 0 \in 0..n
      <4> HIDE DEF n
      <4>1. QED
        BY <2>8
    <3>2. QED
      BY <2>7, <3>1 DEF Safe, Knows
  <2>11. \A z \in (0 + 1)..n : Echo(q[z], m.fd, x) => \E r \in (0 + 1)..(z - 1) : News(q[r], m.fd, x)
    BY <2>10 DEF Told
  <2> HIDE DEF n
  <2>12. 1 \in (0 + 1)..n /\ (0 + 1)..(1 - 1) = {}
    BY <2>8
  <2>13. QED
    BY <2>9, <2>11, <2>12
<1>5. QED
  <2>1. CASE Presence(m, in)
    BY <1>2, <2>1 DEF Presence
  <2>2. CASE Unknown(m, in, smUp) \/ Leftover(m, in) \/ RouteError(m, in) \/ NoSmId(m, in) \/ NoResource(m, in, smUp)
    BY <1>2, <2>2 DEF Unknown, Leftover, RouteError, NoSmId, NoResource, Ignore, Tell
  <2>3. CASE ForResource(m, in)
    <3> DEFINE i == Found(s, m)
    <3>1. Ended(m, i, in) \/ Started(m, i, in) \/ Unexpected(m, i, in) \/ ToClient(m, in)
      BY <2>3 DEF ForResource
    <3> HIDE DEF i
    <3>2. CASE Ended(m, i, in) \/ Started(m, i, in) \/ Unexpected(m, i, in)
      BY <1>2, <3>2 DEF Ended, Started, Unexpected, Ignore
    <3>3. CASE ToClient(m, in)
      <4>1. \/ UNCHANGED got
            \/ s.active /\ s.state # "closing" /\ got' = [got EXCEPT ![m.fd] = g]
        BY <1>1, <3>3 DEF ToClient, Ignore
      <4>2. m.kind \in {"pkt", "pkt failed"}
        BY <3>3 DEF ToClient
      <4>3. QED
        BY <1>2, <1>3, <1>4, <2>3, <4>1, <4>2
    <3>4. QED
      BY <3>1, <3>2, <3>3
  <2>4. QED
    BY <2>1, <2>2, <2>3 DEF Handled

LEMMA HandledAvail ==
    ASSUME NEW m, NEW in, Handled(m, in)
    PROVE  \/ UNCHANGED sm_avail /\ ~Leaves(m) /\ ~Returns(m)
           \/ (sm_avail' <=> Returns(m)) /\ (Leaves(m) \/ Returns(m))
<1>1. CASE Presence(m, in)
  BY <1>1 DEF Presence, Leaves, Returns
<1>2. CASE /\ m.kind \notin {"sm up", "sm down"}
           /\ \/ Unknown(m, in, smUp) \/ Leftover(m, in) \/ RouteError(m, in) \/ NoSmId(m, in)
              \/ NoResource(m, in, smUp) \/ ForResource(m, in)
  <2>0. ~Leaves(m) /\ ~Returns(m)
    BY <1>2 DEF Leaves, Returns
  <2>1. CASE Unknown(m, in, smUp) \/ NoResource(m, in, smUp)
    BY <2>0, <2>1 DEF Unknown, NoResource, Ignore, Tell
  <2>2. CASE Leftover(m, in) \/ RouteError(m, in) \/ NoSmId(m, in)
    BY <2>0, <2>2 DEF Leftover, RouteError, NoSmId, Ignore
  <2>3. CASE ForResource(m, in)
    <3> DEFINE i == Found(sess[m.fd], m)
    <3>1. Ended(m, i, in) \/ Started(m, i, in) \/ Unexpected(m, i, in) \/ ToClient(m, in)
      BY <2>3 DEF ForResource
    <3> HIDE DEF i
    <3>2. UNCHANGED sm_avail
      BY <3>1 DEF Ended, Started, Unexpected, ToClient, Ignore
    <3>3. QED
      BY <2>0, <3>2
  <2>4. QED
    BY <1>2, <2>1, <2>2, <2>3
<1>3. QED
  BY <1>1, <1>2 DEF Handled

LEMMA FromRouterGhost ==
    ASSUME SessInv, GhostInv, MaxRes <= 1, FromRouter
    PROVE  GhostInv'
<1> DEFINE q == toC2S
           m == Head(q)
           in == Tail(q)
<1>1. q # <<>> /\ q \in Seq(Good) /\ UNCHANGED <<now, used, sm, smUp>>
  BY InvParts DEF FromRouter, C2SStep
<1>2. Reading(m, in)
  BY <1>1, SeqParts DEF Reading
<1>3. Handled(m, in)
  BY DEF FromRouter, C2SStep, Handled
<1>4. C2SKeeps(in) /\ in \in Seq(Good) /\ toSM \in Seq(Asked)
  BY <1>2, <1>3, HandledKeeps, ReadParts DEF GhostInv
<1>5. Alternate(in, Avail(m, sm_avail), smUp) /\ (Leaves(m) => sm_avail)
  BY <1>1, TailAlternate DEF GhostInv
<1>6. NoEchoes'
  BY <1>1, <1>2, <1>3, HandledEchoes DEF GhostInv
<1>7. Writes(in, smUp) /\ link' = "up" /\ sm_avail' \in BOOLEAN
  BY <1>4 DEF C2SKeeps, GhostInv
<1>8. sm_avail' <=> Avail(m, sm_avail)
  BY <1>3, HandledAvail DEF Avail
<1>9. AllSafe'
  <2> SUFFICES ASSUME NEW f \in Fds, NEW x \in Ids PROVE Safe(toC2S', On(f, x)', f, x, Held(f, x)')
    BY DEF AllSafe
  <2> DEFINE k == On(f, x)
             k2 == On(f, x)'
             h == Held(f, x)
             h2 == Held(f, x)'
  <2>1. Safe(q, k, f, x, h)
    BY DEF GhostInv, AllSafe
  <2>2. k2 => (k /\ ~News(m, f, x)) \/ Starts(m, f, x)
    <3>1. m.kind = "sm down" => sm_avail
      BY <1>5 DEF Leaves
    <3> HIDE DEF m, in
    <3>2. Learns(m, f, x)
      BY <1>2, <1>3, <3>1, HandledLearns
    <3>3. QED
      BY <3>2 DEF Learns
  <2>3. h => h2
    BY <1>1 DEF Held, Has, Live, SmId, FromThem
  <2> HIDE DEF k, k2, h, h2, q
  <2>4. Safe(in, k2, f, x, h)
    BY <1>1, <2>1, <2>2, TailSafe
  <2> HIDE DEF in
  <2>5. Safe(toC2S', k2, f, x, h)
    BY <1>4, <1>7, <2>4, WritesSafe
  <2>6. Safe(toC2S', k2, f, x, h2)
    BY <2>3, <2>5, WeakSafe
  <2>7. QED
    BY <2>6 DEF k2, h2
<1>10. Alternate(toC2S', sm_avail', smUp')
  <2> DEFINE a == Avail(m, sm_avail)
  <2>1. (sm_avail' <=> a) /\ Alternate(in, a, smUp)
    BY <1>5, <1>8
  <2> HIDE DEF a, in, m
  <2>2. Alternate(toC2S', a, smUp)
    BY <1>4, <1>7, <2>1, WritesAlternate
  <2>3. QED
    BY <1>1, <2>1, <2>2 DEF Alternate
<1>11. toSM' \in Seq(Asked)
  <2> HIDE DEF in
  <2>1. QED
    BY <1>4, <1>7, WritesMute
<1>12. QED
  BY <1>6, <1>7, <1>9, <1>10, <1>11 DEF GhostInv

LEMMA ClientGhost ==
    ASSUME SessInv, GhostInv, MaxRes <= 1, NEW c \in Fds, Client(c)
    PROVE  GhostInv'
<1>1. UNCHANGED <<now, sm_avail, link, sm, smUp>> /\ Writes(toC2S, smUp)
  BY ClientDoes
<1>2. toC2S \in Seq(Good) /\ toSM \in Seq(Asked)
  BY InvParts DEF GhostInv
<1>3. AllSafe'
  <2> SUFFICES ASSUME NEW f \in Fds, NEW x \in Ids PROVE Safe(toC2S', On(f, x)', f, x, Held(f, x)')
    BY DEF AllSafe
  <2> DEFINE k == On(f, x)
             k2 == On(f, x)'
             h == Held(f, x)
             h2 == Held(f, x)'
  <2>1. Safe(toC2S, k, f, x, h)
    BY DEF GhostInv, AllSafe
  <2>2. k2 => k
    BY ClientOn
  <2>3. h => h2
    BY <1>1 DEF Held, Has, Live, SmId, FromThem
  <2> HIDE DEF k, k2, h, h2
  <2>4. Safe(toC2S', k, f, x, h)
    BY <1>1, <1>2, <2>1, WritesSafe
  <2>5. Safe(toC2S', k2, f, x, h2)
    BY <2>2, <2>3, <2>4, WeakSafe
  <2>6. QED
    BY <2>5 DEF k2, h2
<1>4. Alternate(toC2S', sm_avail', smUp')
  <2>1. Alternate(toC2S', sm_avail, smUp)
    BY <1>1, <1>2, WritesAlternate DEF GhostInv
  <2>2. QED
    BY <1>1, <2>1
<1>5. NoEchoes'
  <2>1. got' = got \/ got' = [got EXCEPT ![c] = {}]
    BY DEF Client, Accept, Stream, SaslAuth, AuthSet, Bind, Unbind, Stanza, EndStream, Disconnect
  <2>2. got \in [Fds -> SUBSET Packets]
    BY InvParts
  <2>3. QED
    BY <2>1, <2>2 DEF GhostInv, NoEchoes
<1>6. toSM' \in Seq(Asked)
  BY <1>1, <1>2, WritesMute
<1>7. QED
  BY <1>1, <1>3, <1>4, <1>5, <1>6 DEF GhostInv

-----------------------------------------------------------------------------
(* The sm goes and comes back                                              *)

LEMMA SMDownGhost ==
    ASSUME SessInv, GhostInv, SMDown
    PROVE  GhostInv'
<1>1. /\ smUp /\ ~smUp' /\ toSM' = <<>> /\ UNCHANGED <<now, sess, sm_avail, link, used, told, got>>
  BY DEF SMDown, c2sVars
<1> DEFINE q == toC2S
           m == Advert("sm down")
<1>2. PICK n \in 0..Len(q) : /\ \A i \in (n + 1)..Len(q) : q[i].kind \notin RouterKinds
                             /\ toC2S' = Append(SubSeq(q, 1, n), m)
  BY DEF SMDown, CutOff, GhostInv
<1>3. m \in Good /\ m.kind = "sm down" /\ q \in Seq(Good)
  BY AdvertGood, InvParts
<1> HIDE DEF m
<1>4. AllSafe'
  <2> SUFFICES ASSUME NEW f \in Fds, NEW x \in Ids PROVE Safe(toC2S', On(f, x)', f, x, Held(f, x)')
    BY DEF AllSafe
  <2> DEFINE k == On(f, x)
             k2 == On(f, x)'
             h == Held(f, x)
             h2 == Held(f, x)'
  <2>1. Safe(q, k, f, x, h)
    BY DEF GhostInv, AllSafe
  <2>2. k2 => k
    BY <1>1 DEF On, Streaming
  <2> HIDE DEF k, k2, h, h2
  <2>3. Safe(toC2S', k, f, x, h2)
    BY <1>2, <1>3, <2>1, DownSafe
  <2>4. Safe(toC2S', k2, f, x, h2)
    BY <2>2, <2>3, WeakSafe
  <2>5. QED
    BY <2>4 DEF k2, h2
<1>5. Alternate(toC2S', sm_avail', smUp')
  <2>1. Alternate(q, sm_avail, TRUE)
    BY <1>1 DEF GhostInv, Alternate
  <2>2. Leaves(m)
    BY <1>3 DEF Leaves
  <2> HIDE DEF q
  <2>3. Alternate(toC2S', sm_avail, FALSE)
    BY <1>2, <1>3, <2>1, <2>2, DownAlternate
  <2>4. QED
    BY <1>1, <2>3 DEF Alternate
<1>6. NoEchoes' /\ link' = "up" /\ toSM' \in Seq(Asked)
  BY <1>1 DEF GhostInv, NoEchoes
<1>7. QED
  BY <1>4, <1>5, <1>6 DEF GhostInv

LEMMA SMBackGhost ==
    ASSUME SessInv, GhostInv, SMBack
    PROVE  GhostInv'
<1> DEFINE q == toC2S
           m == Advert("sm up")
<1>1. /\ ~smUp /\ smUp' /\ toC2S' = Append(q, m) /\ UNCHANGED <<now, toSM, sess, sm_avail, link, used, told, got, sm>>
  BY DEF SMBack, c2sVars, GhostInv
<1>2. m \in Good /\ m.kind = "sm up" /\ q \in Seq(Good)
  BY AdvertGood, InvParts
<1> HIDE DEF m
<1>3. AllSafe'
  <2>1. toC2S' = toC2S \o <<m>>
    BY <1>1, <1>2, AppendIsConcat
  <2>2. QED
    BY <1>1, <1>2, <2>1, PlainReply DEF GhostInv
<1>4. Alternate(toC2S', sm_avail', smUp')
  <2>1. Alternate(q, sm_avail, FALSE)
    BY <1>1 DEF GhostInv, Alternate
  <2>2. Returns(m)
    BY <1>2 DEF Returns
  <2> HIDE DEF q
  <2>3. Alternate(toC2S', sm_avail, TRUE)
    BY <1>1, <1>2, <2>1, <2>2, BackAlternate
  <2>4. QED
    BY <1>1, <2>3 DEF Alternate
<1>5. NoEchoes' /\ link' = "up" /\ toSM' \in Seq(Asked)
  BY <1>1 DEF GhostInv, NoEchoes
<1>6. QED
  BY <1>3, <1>4, <1>5 DEF GhostInv

LEMMA InitGhost == Init => GhostInv
<1> SUFFICES ASSUME Init PROVE GhostInv
  OBVIOUS
<1>1. /\ toSM = <<>> /\ toC2S = <<>> /\ link = "up" /\ sm_avail /\ smUp /\ sess = [f \in Fds |-> Blank]
      /\ got = [f \in Fds |-> {}]
  BY DEF Init, PathInit, C2SInit, SMInit
<1>2. Alternate(toC2S, sm_avail, smUp)
  BY <1>1 DEF Alternate, Between, After
<1>3. AllSafe
  <2> SUFFICES ASSUME NEW f \in Fds, NEW x \in Ids PROVE Safe(toC2S, On(f, x), f, x, Held(f, x))
    BY DEF AllSafe
  <2>1. ~On(f, x)
    BY <1>1 DEF On, Blank
  <2>2. \A p : ~Knows(toC2S, On(f, x), p, f, x)
    BY <1>1, <2>1 DEF Knows
  <2>3. QED
    BY <2>2 DEF Safe
<1>4. NoEchoes
  BY <1>1 DEF NoEchoes
<1>5. toSM \in Seq(Asked)
  BY <1>1
<1>6. QED
  BY <1>1, <1>2, <1>3, <1>4, <1>5 DEF GhostInv

LEMMA NextGhost ==
    ASSUME MaxRes <= 1, ~LinkMayFail
    PROVE  SessInv /\ GhostInv /\ [Next]_vars => GhostInv'
<1> SUFFICES ASSUME SessInv, GhostInv, [Next]_vars PROVE GhostInv'
  OBVIOUS
<1>1. CASE \E c \in Fds : Client(c)
  BY <1>1, ClientGhost
<1>2. CASE FromRouter
  BY <1>2, FromRouterGhost
<1>3. CASE Manager \/ Modules
  <2>1. UNCHANGED <<sm_avail, smUp, link, got>>
    BY <1>3 DEF Manager, SMStep, Modules, Deliver, c2sVars
  <2>2. SMTells /\ toSM' \in Seq(Asked)
    <3>1. CASE Manager
      BY <3>1, ManagerTells
    <3>2. CASE Modules
      BY <3>2, ModulesTell DEF Modules, Deliver, GhostInv
    <3>3. QED
      BY <1>3, <3>1, <3>2
  <2>3. QED
    BY <2>1, <2>2 DEF SMTells, GhostInv, NoEchoes
<1>4. CASE Clock \/ UNCHANGED vars
  <2>1. UNCHANGED <<toSM, toC2S, sess, sm_avail, link, used, told, got, sm, smUp>>
    BY <1>4 DEF Clock, Tick, vars, path, c2sVars
  <2>2. QED
    BY <2>1, NoReply DEF GhostInv, NoEchoes
<1>5. CASE LinkDown \/ LinkUp
  BY <1>5 DEF LinkDown, LinkUp, GhostInv
<1>6. CASE SMDown \/ SMBack
  BY <1>6, SMDownGhost, SMBackGhost
<1>7. QED
  BY <1>1, <1>2, <1>3, <1>4, <1>5, <1>6 DEF Next

LEMMA GhostQuiet ==
    ASSUME MaxRes <= 1
    PROVE  SessInv /\ GhostInv => NoGhosts
<1> SUFFICES ASSUME SessInv, GhostInv, Quiet, NEW f \in Fds, sess[f].active, Streaming(f),
                    NEW i \in DOMAIN sess[f].res, sess[f].res[i].smid # NoId
             PROVE  Held(f, sess[f].res[i].smid)
  BY DEF NoGhosts, Held
<1> DEFINE x == sess[f].res[i].smid
<1>1. i = 1 /\ x \in Ids
  BY InvParts, OneRes, SmIdOf
<1>2. On(f, x)
  BY <1>1 DEF On
<1> HIDE DEF x
<1>3. Safe(toC2S, On(f, x), f, x, Held(f, x))
  BY <1>1 DEF GhostInv, AllSafe
<1> DEFINE k == On(f, x)
           h == Held(f, x)
           q == toC2S
<1>4. Len(q) = 0
  BY DEF Quiet
<1> HIDE DEF k, h, q
<1>5. Told(q, 0, f, x, h)
  BY <1>2, <1>3, <1>4 DEF Safe, Knows, k, h, q
<1>6. h
  BY <1>4, <1>5 DEF Told
<1>7. QED
  BY <1>6 DEF h, x

-----------------------------------------------------------------------------
(* Results                                                                 *)

Proper(f) == \A i \in DOMAIN sess[f].res : sess[f].res[i].jid \in told[f] => sess[f].res[i].smid # NoId

LEMMA SameProper ==
    ASSUME NEW f, Proper(f), sess'[f].res = sess[f].res, told'[f] = told[f]
    PROVE  Proper(f)'
BY DEF Proper

LEMMA ClientProper ==
    ASSUME SessInv, MaxRes <= 1, NEW c \in Fds, Client(c), NEW f \in Fds, Proper(f)
    PROVE  Proper(f)'
<1> DEFINE s == sess[c]
           v == sess'[c]
<1>1. /\ ClientStep(c, smUp) /\ SessOk(s) /\ s \in SessRec /\ sess \in [Fds -> SessRec]
      /\ told \in [Fds -> SUBSET Jids]
  BY InvParts DEF Client, ClientStep
<1>2. ASSUME NEW t, SetSess(c, t) PROVE sess'[c] = t /\ \A g \in Fds : g # c => sess'[g] = sess[g]
  BY <1>1, <1>2 DEF SetSess
<1>3. CASE f # c
  <2>1. sess'[f] = sess[f]
    BY <1>1, <1>2, <1>3 DEF ClientStep, Accept, Stream, SaslAuth, AuthSet, Bind, Unbind, Stanza, EndStream, Disconnect
  <2>2. told'[f] = told[f]
    BY <1>1, <1>3 DEF ClientStep, Accept, Stream, SaslAuth, AuthSet, Bind, Unbind, Stanza, EndStream, Disconnect
  <2>3. QED
    BY <2>1, <2>2, SameProper
<1>4. CASE f = c
  <2>1. CASE Accept(c) \/ Disconnect(c, smUp)
    <3>1. v = Blank \/ v = [Blank EXCEPT !.state = "new"]
      BY <1>2, <2>1 DEF Accept, Disconnect
    <3>2. v.res = <<>>
      BY <3>1 DEF Blank
    <3>3. QED
      BY <1>4, <3>2 DEF Proper
  <2>2. CASE Stream(c) \/ (\E u \in Users : SaslAuth(c, u)) \/ EndStream(c) \/ (\E k \in {"pkt", "xsess"} : Stanza(c, k, smUp))
             \/ \E i \in 1..MaxRes : Unbind(c, i, smUp)
    <3>1. told' = told
      BY <2>2 DEF Stream, SaslAuth, EndStream, Stanza, Unbind
    <3>2. v.res = s.res
      <4>1. CASE Stream(c)
        <5> DEFINE st == IF sm_avail THEN "stream" ELSE "closing"
        <5>1. v = [s EXCEPT !.state = st]
          BY <1>2, <4>1 DEF Stream
        <5> HIDE DEF s, v, st
        <5>2. QED
          BY <1>1, <5>1 DEF SessRec
      <4>2. CASE \E u \in Users : SaslAuth(c, u)
        <5>1. PICK u \in Users : v = [s EXCEPT !.state = "open", !.user = u, !.sasl = TRUE]
          BY <1>2, <4>2 DEF SaslAuth
        <5> HIDE DEF s, v
        <5>2. QED
          BY <1>1, <5>1 DEF SessRec
      <4>3. CASE EndStream(c) \/ \E k \in {"pkt", "xsess"} : Stanza(c, k, smUp)
        <5>1. v = s \/ v = Closing(s)
          BY <1>1, <1>2, <4>3 DEF EndStream, Stanza
        <5> HIDE DEF s, v
        <5>2. Closing(s).res = s.res
          BY <1>1 DEF Closing, SessRec
        <5>3. QED
          BY <5>1, <5>2
      <4>4. CASE \E i \in 1..MaxRes : Unbind(c, i, smUp)
        <5>1. PICK i \in 1..MaxRes : v = [s EXCEPT !.result = <<"unbind", s.res[i].jid>>]
          BY <1>2, <4>4 DEF Unbind
        <5> DEFINE r == <<"unbind", s.res[i].jid>>
        <5>2. v = [s EXCEPT !.result = r]
          BY <5>1
        <5> HIDE DEF s, v, r
        <5>3. QED
          BY <1>1, <5>2 DEF SessRec
      <4>5. QED
        BY <2>2, <4>1, <4>2, <4>3, <4>4
    <3>3. QED
      BY <1>4, <3>1, <3>2, SameProper
  <2>3. ASSUME NEW j \in Jids, NEW b, b.jid = j, v.res = <<b>>, told' = [told EXCEPT ![c] = @ \ {j}]
        PROVE  Proper(f)'
    <3>1. told'[c] = told[c] \ {j}
      BY <1>1, <2>3
    <3>2. DOMAIN v.res = {1} /\ v.res[1] = b
      BY <2>3
    <3>3. QED
      BY <1>4, <2>3, <3>1, <3>2 DEF Proper
  <2>4. CASE \E j \in Jids : AuthSet(c, j, smUp)
    <3>1. PICK j \in Jids : AuthSet(c, j, smUp)
      BY <2>4
    <3> DEFINE b == [jid |-> j, smid |-> IF s.res = <<>> THEN NoId ELSE Head(s.res).smid, req |-> <<j, now>>]
    <3>2. v = [s EXCEPT !.user = j[1], !.res = <<b>>, !.result = <<"bind", j>>] /\ told' = [told EXCEPT ![c] = @ \ {j}]
      BY <1>2, <3>1 DEF AuthSet
    <3>3. b.jid = j
      OBVIOUS
    <3> HIDE DEF s, v, b
    <3>4. v.res = <<b>>
      BY <1>1, <3>2 DEF SessRec
    <3>5. QED
      BY <2>3, <3>2, <3>3, <3>4
  <2>5. CASE \E j \in Jids : Bind(c, j, smUp)
    <3>1. PICK j \in Jids : Bind(c, j, smUp)
      BY <2>5
    <3> DEFINE b == [jid |-> j, smid |-> NoId, req |-> <<j, now>>]
    <3>2. /\ Len(s.res) < MaxRes /\ v = [s EXCEPT !.res = Append(@, b), !.bound = @ + 1, !.result = <<"bind", j>>]
          /\ told' = [told EXCEPT ![c] = @ \ {j}]
      BY <1>2, <3>1 DEF Bind
    <3>3. s.res = <<>>
      <4> DEFINE n == Len(s.res)
      <4>1. n \in Nat /\ n < MaxRes /\ MaxRes <= 1 /\ MaxRes \in Nat /\ s.res \in Seq(Bres)
        BY <1>1, <3>2, SessParts, C2SAssumption
      <4> HIDE DEF n
      <4>2. n = 0
        BY <4>1
      <4>3. QED
        BY <4>1, <4>2, EmptySeq DEF n
    <3>4. b.jid = j
      OBVIOUS
    <3> HIDE DEF s, v, b
    <3>5. v.res = Append(s.res, b)
      BY <1>1, <3>2 DEF SessRec
    <3>6. v.res = <<b>>
      BY <3>3, <3>5
    <3>7. QED
      BY <2>3, <3>2, <3>4, <3>6
  <2>6. QED
    BY <1>1, <2>1, <2>2, <2>4, <2>5 DEF ClientStep
<1>5. QED
  BY <1>3, <1>4

LEMMA HandledProper ==
    ASSUME NEW m, NEW in, Reading(m, in), Handled(m, in), MaxRes <= 1, NEW f \in Fds, Proper(f)
    PROVE  Proper(f)'
<1> DEFINE s == sess[m.fd]
           i == Found(s, m)
<1>1. /\ m.fd \in Fds /\ SessOk(s) /\ s \in SessRec /\ sess \in [Fds -> SessRec] /\ m \in Good
      /\ told \in [Fds -> SUBSET Jids]
  BY ReadParts, InvParts
<1>2. \A t : Closing(t).res = t.res \/ t \notin SessRec
  BY DEF Closing, SessRec
<1>3. CASE UNCHANGED told /\ sess'[f] = sess[f]
  BY <1>3, SameProper
<1>4. CASE Presence(m, in)
  <2>1. CASE UNCHANGED sess
    BY <1>3, <1>4, <2>1 DEF Presence
  <2>2. CASE sess' = [h \in Fds |-> IF sm_avail /\ Affected(sess[h])
                                    THEN Closing([sess[h] EXCEPT !.active = FALSE]) ELSE sess[h]]
    <3> DEFINE w == sess[f]
               t == [w EXCEPT !.active = FALSE]
    <3>1. sess'[f] = w \/ sess'[f] = Closing(t)
      BY <2>2
    <3>2. w \in SessRec
      BY <1>1
    <3> HIDE DEF w
    <3>3. t \in SessRec /\ t.res = w.res
      BY <3>2 DEF SessRec
    <3> HIDE DEF t
    <3>4. sess'[f].res = w.res
      BY <1>2, <3>1, <3>3
    <3>5. told' = told
      BY <1>4 DEF Presence
    <3>6. QED
      BY <3>4, <3>5, SameProper DEF w
  <2>3. QED
    BY <1>4, <2>1, <2>2 DEF Presence
<1>5. CASE Unknown(m, in, smUp) \/ Leftover(m, in) \/ NoSmId(m, in) \/ NoResource(m, in, smUp)
  BY <1>3, <1>5 DEF Unknown, Leftover, NoSmId, NoResource, Ignore, Tell
<1>6. CASE RouteError(m, in)
  <2>1. told' = told /\ sess' = [sess EXCEPT ![m.fd] = Closing(s)]
    BY <1>6 DEF RouteError, SetSess
  <2>2. Closing(s).res = s.res
    BY <1>1, <1>2
  <2>3. sess'[f].res = sess[f].res
    BY <1>1, <2>1, <2>2
  <2>4. QED
    BY <2>1, <2>3, SameProper
<1>7. CASE ForResource(m, in)
  <2>1. i \in DOMAIN s.res /\ (Ended(m, i, in) \/ Started(m, i, in) \/ Unexpected(m, i, in) \/ ToClient(m, in))
    BY <1>1, <1>7, FoundIn DEF ForResource
  <2> HIDE DEF i
  <2>2. CASE Unexpected(m, i, in) \/ ToClient(m, in)
    BY <1>3, <2>2 DEF Unexpected, ToClient, Ignore
  <2>3. ASSUME NEW v, SessOk(v), sess' = [sess EXCEPT ![m.fd] = v], \A h \in Fds : h # m.fd => told'[h] = told[h],
               1 \in DOMAIN v.res => v.res[1].smid # NoId
        PROVE  Proper(f)'
    <3>1. CASE f = m.fd
      <4>1. sess'[f] = v /\ \A l \in DOMAIN v.res : l = 1
        BY <1>1, <2>3, <3>1, OneRes
      <4>2. QED
        BY <2>3, <4>1 DEF Proper
    <3>2. CASE f # m.fd
      BY <1>1, <2>3, <3>2, SameProper
    <3>3. QED
      BY <3>1, <3>2
  <2>4. \A h \in Fds : h # m.fd => Answered(m.fd)[h] = told[h]
    BY <1>1 DEF Answered
  <2>5. CASE Ended(m, i, in)
    <3>1. sess' = [sess EXCEPT ![m.fd] = AfterEnd(s, i)] /\ told' = Answered(m.fd) /\ s.active
      BY <2>5 DEF Ended, AfterEnd, SetSess
    <3>2. SessOk(AfterEnd(s, i))
      BY <1>1, <2>1, <3>1, EndedOk, ReadParts
    <3>3. AfterEnd(s, i).res = s.res
      BY <1>1, EndedOff
    <3>4. s.res[1].smid # NoId
      BY <1>1, <3>1, OneRes
    <3>5. QED
      BY <2>3, <2>4, <3>1, <3>2, <3>3, <3>4
  <2>6. CASE Started(m, i, in)
    <3>1. sess' = [sess EXCEPT ![m.fd] = AfterStart(s, i, m.smid)] /\ m.kind = "started" /\ Expected(s.res[i], m)
      BY <2>6 DEF Started, AfterStart, StartedId, SetSess
    <3>2. m.smid \in Ids /\ m.smid # NoId
      BY <1>1, <3>1, MsgParts, IdParts
    <3>3. AfterStart(s, i, m.smid).res[1].smid = m.smid
      BY <1>1, <2>1, <3>2, StartedHas
    <3>4. SessOk(AfterStart(s, i, m.smid))
      BY <1>1, <2>1, <3>1, StartedOk, ReadParts
    <3>5. \A h \in Fds : h # m.fd => told'[h] = told[h]
      BY <1>1, <2>4, <2>6 DEF Started
    <3>6. QED
      BY <2>3, <3>1, <3>2, <3>3, <3>4, <3>5
  <2>7. QED
    BY <2>1, <2>2, <2>5, <2>6
<1>8. QED
  BY <1>4, <1>5, <1>6, <1>7 DEF Handled

LEMMA NextProper ==
    ASSUME MaxRes <= 1
    PROVE  SessInv /\ ResultMeansSession /\ [Next]_vars => ResultMeansSession'
<1> SUFFICES ASSUME SessInv, ResultMeansSession, [Next]_vars, NEW f \in Fds PROVE Proper(f)'
  BY DEF ResultMeansSession, Proper
<1>1. Proper(f)
  BY DEF ResultMeansSession, Proper
<1>2. CASE \E c \in Fds : Client(c)
  BY <1>1, <1>2, ClientProper
<1>3. CASE FromRouter
  <2> DEFINE m == Head(toC2S)
             in == Tail(toC2S)
  <2>1. toC2S # <<>> /\ Handled(m, in)
    BY <1>3 DEF FromRouter, C2SStep, Handled
  <2>2. Reading(m, in)
    BY <2>1, InvParts, SeqParts DEF Reading
  <2> HIDE DEF m, in
  <2>3. QED
    BY <1>1, <2>1, <2>2, HandledProper
<1>4. CASE \/ Manager \/ Modules \/ Clock \/ LinkDown \/ LinkUp \/ SMDown \/ SMBack \/ UNCHANGED vars
  <2>1. UNCHANGED <<sess, told>>
    BY <1>4 DEF Manager, SMStep, Modules, Deliver, Clock, Tick, LinkDown, LinkUp, SMDown, SMBack, vars, path, c2sVars
  <2>2. QED
    BY <1>1, <2>1, SameProper
<1>5. QED
  BY <1>2, <1>3, <1>4 DEF Next

-----------------------------------------------------------------------------
(* The theorems                                                            *)

(* While the link between c2s and the router lasts, a client with one      *)
(* resource that c2s takes for online is online at the sm, under this      *)
(* client's descriptor, whenever nothing is under way: the end of a        *)
(* session, its replacement and the loss of the sm are never missed,       *)
(* although starts fail, the sm goes and comes back, clients do not wait   *)
(* and descriptors are handed out again.                                   *)
THEOREM NeverGhosts ==
    ASSUME MaxRes <= 1, ~LinkMayFail
    PROVE  Spec => []NoGhosts
BY GhostQuiet, InitInv, NextInv, InitGhost, NextGhost, PTL DEF Spec

(* Under the same conditions no client is handed back a stanza of its own  *)
(* that the sm refused.                                                    *)
THEOREM NeverEchoes ==
    ASSUME MaxRes <= 1, ~LinkMayFail
    PROVE  Spec => []NoEchoes
<1>1. GhostInv => NoEchoes
  BY DEF GhostInv
<1>2. QED
  BY <1>1, InitInv, NextInv, InitGhost, NextGhost, PTL DEF Spec

(* A client with one resource that has been told that its bind or auth     *)
(* succeeded has a session id for that JID: no answer overtakes the        *)
(* "started" of the sm, whoever ends, replaces or restarts what.  (With    *)
(* several resources the end of one answers for another.)                  *)
THEOREM ResultsMeanSessions ==
    ASSUME MaxRes <= 1
    PROVE  Spec => []ResultMeansSession
<1>1. Init => ResultMeansSession
  BY DEF Init, C2SInit, ResultMeansSession
<1>2. QED
  BY <1>1, InitInv, NextInv, NextProper, PTL DEF Spec
=============================================================================
