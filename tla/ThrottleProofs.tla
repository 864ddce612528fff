--------------------------- MODULE ThrottleProofs ---------------------------
(***************************************************************************)
(* Theorems about Throttle, for every limit, window, wait and buffer, of   *)
(* the router and of c2s.                                                  *)
(***************************************************************************)
EXTENDS Throttle, TLAPS

Ages == -1..MaxAge
RateRec == [time : Ages, count : Int, bad : Ages]
PeerRec ==
    [state : {"none", "up", "gone", "idle"}, rd : BOOLEAN, want : BOOLEAN, rate : RateRec, quiet : Ages,
     closed : BOOLEAN]
Span == 1..Conf.seconds

(* c2s counts an empty read as -1, once in a window.                       *)
Slack == IF Conf.kind = "router" THEN 0 ELSE 1

(* A limit is in effect exactly when the count has reached it.             *)
RateOk(rt) ==
    /\ rt \in RateRec
    /\ rt.time = Unset => rt.count = 0 /\ rt.bad = Unset
    /\ rt.bad = Unset <=> rt.count < Conf.total
    /\ 0 <= rt.count + Slack

(* What has been read (r) is accounted for by the window that runs and the *)
(* one before it, which the limit did not end; since the limit is in       *)
(* effect, and since the window was over, nothing has been read.           *)
Window(rt, r) ==
    /\ rt.time = Unset => \A i \in Span : r[i] = 0
    /\ rt.time # Unset => \A i \in Span :
          /\ i <= rt.time + 1 => r[i] <= rt.count + Slack
          /\ r[i] <= rt.count + Conf.total - 1 + Slack
          /\ i <= rt.time - Conf.seconds + 1 => r[i] = 0
    /\ rt.bad # Unset => \A i \in Span : i <= rt.bad => r[i] = 0
    /\ \A i \in Span : r[i] <= 2 * Conf.total - 1 + Slack

Waits == Conf.wait >= Conf.seconds

ThrottleInv ==
    /\ setting \in DOMAIN Settings
    /\ peer \in PeerRec
    /\ pending \in Nat
    /\ recent \in [Span -> Nat]
    /\ RateOk(peer.rate)
    /\ Waits => Window(peer.rate, recent)
    /\ Spared

-----------------------------------------------------------------------------
(* The limit                                                               *)

LEMMA ConfParts ==
    ASSUME setting \in DOMAIN Settings
    PROVE  /\ Conf.kind \in {"router", "c2s"}
           /\ Conf.total \in Nat \ {0} /\ Conf.seconds \in Nat \ {0} /\ Conf.wait \in Nat \ {0}
           /\ Conf.keepalive \in Nat /\ Conf.idle \in Nat /\ Slack \in {0, 1}
BY ThrottleAssumption DEF Conf, Slack

LEMMA MaxOfFour ==
    ASSUME NEW a \in Nat, NEW b \in Nat, NEW c \in Nat, NEW d \in Nat
    PROVE  /\ Max({a, b, c, d}) \in Nat
           /\ Max({a, b, c, d}) >= a /\ Max({a, b, c, d}) >= b /\ Max({a, b, c, d}) >= c /\ Max({a, b, c, d}) >= d
<1> DEFINE S == {a, b, c, d}
<1>1. \E x \in S : \A y \in S : x >= y
  <2>1. PICK e \in {a, b} : e >= a /\ e >= b
    OBVIOUS
  <2>2. PICK g \in {c, d} : g >= c /\ g >= d
    OBVIOUS
  <2>3. PICK x \in {e, g} : x >= e /\ x >= g
    OBVIOUS
  <2>4. x \in S /\ x >= a /\ x >= b /\ x >= c /\ x >= d
    BY <2>1, <2>2, <2>3
  <2>5. QED
    BY <2>4
<1>2. Max(S) \in S /\ \A y \in S : Max(S) >= y
  BY <1>1 DEF Max
<1>3. QED
  BY <1>2

LEMMA MinOfThree ==
    ASSUME NEW a \in Int, NEW b \in Int, NEW c \in Int
    PROVE  /\ Min({a, b, c}) \in {a, b, c}
           /\ Min({a, b, c}) <= a /\ Min({a, b, c}) <= b /\ Min({a, b, c}) <= c
<1> DEFINE S == {a, b, c}
<1>1. \E x \in S : \A y \in S : x <= y
  <2>1. PICK e \in {a, b} : e <= a /\ e <= b
    OBVIOUS
  <2>2. PICK x \in {e, c} : x <= e /\ x <= c
    OBVIOUS
  <2>3. x \in S /\ x <= a /\ x <= b /\ x <= c
    BY <2>1, <2>2
  <2>4. QED
    BY <2>3
<1>2. Min(S) \in S /\ \A y \in S : Min(S) <= y
  BY <1>1 DEF Min
<1>3. QED
  BY <1>2

LEMMA MaxAgeIs ==
    ASSUME setting \in DOMAIN Settings
    PROVE  MaxAge \in Nat /\ MaxAge > Conf.seconds /\ MaxAge > Conf.wait
<1> DEFINE a == Conf.seconds
           b == Conf.wait
           c == Conf.keepalive
           d == Conf.idle
           m == Max({a, b, c, d})
<1>1. a \in Nat /\ b \in Nat /\ c \in Nat /\ d \in Nat
  BY ConfParts
<1>2. MaxAge = 1 + m
  BY DEF MaxAge
<1> HIDE DEF a, b, c, d
<1>3. m \in Nat /\ m >= a /\ m >= b
  BY <1>1, MaxOfFour
<1> HIDE DEF m
<1>4. 1 + m \in Nat /\ 1 + m > a /\ 1 + m > b
  BY <1>1, <1>3
<1>5. QED
  BY <1>2, <1>4 DEF a, b

LEMMA ResetParts ==
    ASSUME setting \in DOMAIN Settings
    PROVE  /\ RateReset.time = Unset /\ RateReset.count = 0 /\ RateReset.bad = Unset /\ RateOk(RateReset)
           /\ Unset = -1
<1>1. RateReset.time = -1 /\ RateReset.count = 0 /\ RateReset.bad = -1 /\ Unset = -1
  BY DEF RateReset, Unset
<1>2. -1 \in Ages
  BY MaxAgeIs DEF Ages
<1>3. RateReset \in RateRec
  BY <1>2 DEF RateReset, RateRec, Unset
<1>4. 0 < Conf.total /\ 0 <= Slack /\ 0 + Slack = Slack
  BY ConfParts
<1>5. QED
  BY <1>1, <1>3, <1>4 DEF RateOk

(* rate_check lets through, and leaves a limit that is not in effect: it   *)
(* ends when the wait is over, in which nothing has been read.             *)
LEMMA CheckedParts ==
    ASSUME setting \in DOMAIN Settings, NEW rt, RateOk(rt), RateCheck(rt),
           NEW r \in [Span -> Nat], Waits => Window(rt, r)
    PROVE  /\ RateOk(RateChecked(rt)) /\ (Waits => Window(RateChecked(rt), r))
           /\ RateChecked(rt).bad = Unset /\ RateChecked(rt).count < Conf.total
           /\ rt.bad # Unset => RateChecked(rt) = RateReset
<1>1. rt.time \in Int /\ rt.count \in Int /\ rt.bad \in Int /\ rt.bad <= MaxAge /\ MaxAge \in Nat
  <2>1. rt.time \in Ages /\ rt.count \in Int /\ rt.bad \in Ages
    BY DEF RateOk, RateRec
  <2>2. QED
    BY <2>1, MaxAgeIs DEF Ages
<1>2. Conf.total \in Nat \ {0} /\ Conf.seconds \in Nat \ {0} /\ Conf.wait \in Nat \ {0} /\ Slack \in {0, 1}
  BY ConfParts
<1>3. CASE rt.bad = Unset
  <2>1. rt.count < Conf.total
    BY <1>3 DEF RateOk
  <2>2. RateChecked(rt) = rt
    BY <1>3 DEF RateChecked
  <2>3. QED
    BY <1>3, <2>1, <2>2
<1>4. CASE rt.bad # Unset
  <2>1. ~(rt.count < Conf.total) /\ rt.time # Unset
    BY <1>4 DEF RateOk
  <2>2. rt.bad >= Conf.wait /\ rt.count >= Conf.total
    BY <1>1, <1>2, <1>4, <2>1 DEF RateCheck
  <2>3. RateChecked(rt) = RateReset
    BY <1>4, <2>1, <2>2 DEF RateChecked
  <2>4. Waits => Window(RateReset, r)
    <3> SUFFICES ASSUME Waits PROVE Window(RateReset, r)
      OBVIOUS
    <3>1. \A i \in Span : i <= rt.bad
      BY <1>1, <1>2, <2>2 DEF Span, Waits
    <3>2. \A i \in Span : r[i] = 0
      BY <1>4, <3>1 DEF Window
    <3>3. 0 <= 2 * Conf.total - 1 + Slack
      BY <1>2
    <3>4. QED
      BY <3>2, <3>3, ResetParts DEF Window
  <2>5. 0 < Conf.total
    BY <1>2
  <2>6. QED
    BY <2>3, <2>4, <2>5, ResetParts
<1>5. QED
  BY <1>3, <1>4

(* What rate_add makes of a limit that is not in effect.                   *)
LEMMA AddParts ==
    ASSUME setting \in DOMAIN Settings, NEW rt, RateOk(rt), rt.bad = Unset, NEW n \in Int
    PROVE  LET fresh == rt.time = Unset \/ rt.time >= Conf.seconds
               v == RateAdd(rt, n)
           IN  /\ v.time = IF fresh THEN 0 ELSE rt.time
               /\ v.count = IF fresh THEN n ELSE rt.count + n
               /\ v.bad = IF v.count >= Conf.total THEN 0 ELSE Unset
               /\ v \in RateRec /\ v.time # Unset
<1> DEFINE fresh == rt.time = Unset \/ rt.time >= Conf.seconds
           r == IF fresh THEN RateReset ELSE rt
           t == IF r.time = Unset THEN 0 ELSE r.time
           k == r.count + n
           b == IF k >= Conf.total THEN 0 ELSE r.bad
           v == RateAdd(rt, n)
<1>1. rt.time \in Ages /\ rt.count \in Int /\ Unset = -1 /\ 0 \in Ages /\ -1 \in Ages
  BY MaxAgeIs DEF RateOk, RateRec, Ages, Unset
<1>2. v = [time |-> t, count |-> k, bad |-> b]
  BY DEF RateAdd
<1>3. t = (IF fresh THEN 0 ELSE rt.time) /\ k = (IF fresh THEN n ELSE rt.count + n) /\ r.bad = Unset
  BY <1>1, ResetParts
<1>4. t \in Ages /\ t # Unset /\ k \in Int
  BY <1>1, <1>3 DEF Ages
<1>5. b = (IF k >= Conf.total THEN 0 ELSE Unset) /\ b \in Ages
  BY <1>1, <1>3
<1> HIDE DEF r, t, k, b, v
<1>6. v.time = t /\ v.count = k /\ v.bad = b /\ v \in RateRec
  BY <1>2, <1>4, <1>5 DEF RateRec
<1>7. QED
  BY <1>3, <1>4, <1>5, <1>6 DEF v

(* An event is counted while a limit is not in effect.                     *)
LEMMA AddOk ==
    ASSUME setting \in DOMAIN Settings, NEW rt, RateOk(rt), rt.bad = Unset,
           NEW n \in Int, n >= 0 \/ (rt = RateReset /\ n + Slack = 0)
    PROVE  RateOk(RateAdd(rt, n))
<1> DEFINE v == RateAdd(rt, n)
           fresh == rt.time = Unset \/ rt.time >= Conf.seconds
<1>1. /\ v.count = (IF fresh THEN n ELSE rt.count + n) /\ v.bad = (IF v.count >= Conf.total THEN 0 ELSE Unset)
      /\ v \in RateRec /\ v.time # Unset
  BY AddParts
<1>2. Conf.total \in Nat \ {0} /\ Slack \in {0, 1} /\ rt.count \in Int /\ 0 <= rt.count + Slack /\ Unset = -1
  BY ConfParts, ResetParts DEF RateOk, RateRec
<1> HIDE DEF v
<1>3. v.count \in Int /\ 0 <= v.count + Slack
  <2>1. CASE n >= 0
    BY <1>1, <1>2, <2>1
  <2>2. CASE rt = RateReset /\ n + Slack = 0
    <3>1. fresh
      BY <2>2, ResetParts
    <3>2. QED
      BY <1>1, <1>2, <2>2, <3>1
  <2>3. QED
    BY <2>1, <2>2
<1>4. v.bad = Unset <=> v.count < Conf.total
  BY <1>1, <1>2, <1>3
<1>5. QED
  BY <1>1, <1>3, <1>4 DEF RateOk, v

(* Bytes are read, no more than are left: those of an old window count for *)
(* the new one, so that the two of them hold less than twice the limit.    *)
LEMMA AddWindow ==
    ASSUME setting \in DOMAIN Settings, NEW rt, RateOk(rt), rt.bad = Unset,
           NEW r \in [Span -> Nat], Window(rt, r), NEW n \in Nat, n <= Conf.total - rt.count
    PROVE  Window(RateAdd(rt, n), [i \in Span |-> r[i] + n])
<1> DEFINE v == RateAdd(rt, n)
           fresh == rt.time = Unset \/ rt.time >= Conf.seconds
           q == [i \in Span |-> r[i] + n]
           T == Conf.total
           S == Conf.seconds
           c == rt.count
           a == rt.time
           z == Slack
<1>1. /\ v.time = (IF fresh THEN 0 ELSE a) /\ v.count = (IF fresh THEN n ELSE c + n)
      /\ v.bad = (IF v.count >= T THEN 0 ELSE Unset) /\ v.time # Unset
  BY AddParts
<1>2. /\ T \in Nat \ {0} /\ S \in Nat \ {0} /\ z \in {0, 1} /\ c \in Int /\ a \in Int /\ 0 <= c + z /\ Unset = -1
      /\ n <= T - c /\ n \in Nat
  BY ConfParts, ResetParts DEF RateOk, RateRec, Ages
<1>3. Span = 1..S
  BY DEF Span
<1>4. a = Unset => c = 0
  BY DEF RateOk
<1>5. ASSUME NEW i \in 1..S
      PROVE  /\ a = Unset => r[i] = 0
             /\ a # Unset => /\ i <= a + 1 => r[i] <= c + z
                             /\ r[i] <= c + T - 1 + z
                             /\ i <= a - S + 1 => r[i] = 0
             /\ r[i] <= 2 * T - 1 + z
             /\ r[i] \in Nat /\ q[i] = r[i] + n
  BY <1>3 DEF Window
<1> HIDE DEF v, q, T, S, c, a, z
<1>6. ASSUME NEW i \in 1..S
      PROVE  /\ i <= v.time + 1 => q[i] <= v.count + z
             /\ q[i] <= v.count + T - 1 + z
             /\ i <= v.time - S + 1 => q[i] = 0
             /\ v.bad # Unset => (i <= v.bad => q[i] = 0)
             /\ q[i] <= 2 * T - 1 + z
  <2>0. q[i] = r[i] + n /\ r[i] \in Nat /\ i \in Int /\ 1 <= i /\ i <= S
    BY <1>2, <1>5
  <2>1. v.bad # Unset => ~(i <= v.bad)
    BY <1>1, <1>2, <2>0
  <2>2. CASE a = Unset
    <3>1. r[i] = 0 /\ c = 0 /\ q[i] = n
      BY <1>2, <1>4, <1>5, <2>0, <2>2
    <3>2. v.time = 0 /\ v.count = n
      BY <1>1, <2>2
    <3>3. QED
      BY <1>2, <2>0, <2>1, <3>1, <3>2
  <2>3. CASE a # Unset /\ a >= S
    <3>1. v.time = 0 /\ v.count = n
      BY <1>1, <2>3 DEF S, a
    <3>2. r[i] <= c + z
      <4>1. i <= a + 1
        BY <1>2, <2>0, <2>3
      <4>2. QED
        BY <1>5, <2>3, <4>1
    <3>3. i <= 1 => r[i] = 0
      <4>1. i <= 1 => i <= a - S + 1
        BY <1>2, <2>0, <2>3
      <4>2. QED
        BY <1>5, <2>3, <4>1
    <3>4. c < T
      <4>1. c < T
        BY DEF RateOk, c, T
      <4>2. QED
        BY <4>1
    <3>5. QED
      BY <1>2, <2>0, <2>1, <3>1, <3>2, <3>3, <3>4
  <2>4. CASE a # Unset /\ ~(a >= S)
    <3>1. v.time = a /\ v.count = c + n
      BY <1>1, <2>4 DEF S, a
    <3>2. ~(i <= a - S + 1)
      BY <1>2, <2>0, <2>4
    <3>3. (i <= a + 1 => r[i] <= c + z) /\ r[i] <= c + T - 1 + z
      BY <1>5, <2>4
    <3>4. QED
      BY <1>2, <2>0, <2>1, <3>1, <3>2, <3>3
  <2>5. QED
    BY <2>2, <2>3, <2>4
<1>7. Window(v, q)
  <2>1. v.time # Unset
    BY <1>1
  <2>2. QED
    BY <1>3, <1>6, <2>1 DEF Window, S, T, z
<1>8. QED
  BY <1>7 DEF v, q

(* Nothing is read, but counted: a new window may start.                   *)
LEMMA AddNothing ==
    ASSUME setting \in DOMAIN Settings, NEW rt, RateOk(rt), rt.bad = Unset,
           NEW r \in [Span -> Nat], Window(rt, r)
    PROVE  Window(RateAdd(rt, 0), r)
<1>1. 0 <= Conf.total - rt.count
  BY ConfParts DEF RateOk, RateRec
<1>2. [i \in Span |-> r[i] + 0] = r
  OBVIOUS
<1>3. QED
  BY <1>1, <1>2, AddWindow

LEMMA AddEmpty ==
    ASSUME setting \in DOMAIN Settings, NEW r \in [Span -> Nat], Window(RateReset, r), Slack = 1
    PROVE  Window(RateAdd(RateReset, -1), r)
<1> DEFINE v == RateAdd(RateReset, -1)
<1>1. Conf.total \in Nat \ {0} /\ Conf.seconds \in Nat \ {0}
  BY ConfParts
<1>2. v.time = 0 /\ v.count = -1 /\ v.bad = (IF v.count >= Conf.total THEN 0 ELSE Unset)
  BY AddParts, ResetParts
<1> HIDE DEF v
<1>3. v.bad = Unset /\ v.time # Unset /\ Unset = -1
  BY <1>1, <1>2, ResetParts
<1>4. \A i \in Span : r[i] = 0
  BY ResetParts DEF Window
<1>5. QED
  BY <1>1, <1>2, <1>3, <1>4 DEF Window, v

(* A second passes.                                                        *)
LEMMA OlderParts ==
    ASSUME setting \in DOMAIN Settings, NEW t \in Ages
    PROVE  /\ Older(t) \in Ages /\ (Older(t) = Unset <=> t = Unset)
           /\ t # Unset => Older(t) = t + 1 \/ (Older(t) = t /\ t = MaxAge)
BY MaxAgeIs DEF Older, Ages, Unset

Shifted(r) == [i \in DOMAIN r |-> IF i = 1 THEN 0 ELSE r[i - 1]]

LEMMA TickRate ==
    ASSUME setting \in DOMAIN Settings, NEW rt, RateOk(rt)
    PROVE  /\ RateOk(OlderRate(rt)) /\ OlderRate(rt).time = Older(rt.time) /\ OlderRate(rt).bad = Older(rt.bad)
           /\ OlderRate(rt).count = rt.count
<1>1. rt \in RateRec /\ rt.time \in Ages /\ rt.bad \in Ages
  BY DEF RateOk, RateRec
<1>2. Older(rt.time) \in Ages /\ Older(rt.bad) \in Ages /\ (Older(rt.time) = Unset <=> rt.time = Unset)
      /\ (Older(rt.bad) = Unset <=> rt.bad = Unset)
  BY <1>1, OlderParts
<1> DEFINE t == Older(rt.time)
           b == Older(rt.bad)
           v == OlderRate(rt)
<1>3. v = [rt EXCEPT !.time = t, !.bad = b]
  BY DEF OlderRate
<1> HIDE DEF t, b, v
<1>4. v \in RateRec /\ v.time = t /\ v.bad = b /\ v.count = rt.count
  BY <1>1, <1>2, <1>3 DEF RateRec, t, b
<1>5. RateOk(v)
  BY <1>2, <1>4 DEF RateOk, t, b
<1>6. QED
  BY <1>4, <1>5 DEF v, t, b

LEMMA TickWindow ==
    ASSUME setting \in DOMAIN Settings, NEW rt, RateOk(rt), NEW r \in [Span -> Nat], Window(rt, r)
    PROVE  Window(OlderRate(rt), Shifted(r))
<1> DEFINE v == OlderRate(rt)
           q == Shifted(r)
           T == Conf.total
           S == Conf.seconds
           c == rt.count
           a == rt.time
           b == rt.bad
           z == Slack
<1>1. /\ T \in Nat \ {0} /\ S \in Nat \ {0} /\ z \in {0, 1} /\ c \in Int /\ a \in Ages /\ b \in Ages /\ 0 <= c + z
      /\ Unset = -1 /\ MaxAge \in Nat /\ MaxAge > S
  BY ConfParts, ResetParts, MaxAgeIs DEF RateOk, RateRec
<1>2. /\ v.time = Older(a) /\ v.bad = Older(b) /\ v.count = c
      /\ (Older(a) = Unset <=> a = Unset) /\ (a # Unset => Older(a) = a + 1 \/ (Older(a) = a /\ a = MaxAge))
      /\ (Older(b) = Unset <=> b = Unset) /\ (b # Unset => Older(b) = b + 1 \/ (Older(b) = b /\ b = MaxAge))
  BY <1>1, TickRate, OlderParts
<1>3. Span = 1..S
  BY DEF Span
<1>4. ASSUME NEW i \in 1..S
      PROVE  /\ a = Unset => r[i] = 0
             /\ a # Unset => /\ i <= a + 1 => r[i] <= c + z
                             /\ r[i] <= c + T - 1 + z
                             /\ i <= a - S + 1 => r[i] = 0
             /\ b # Unset => (i <= b => r[i] = 0)
             /\ r[i] <= 2 * T - 1 + z
             /\ r[i] \in Nat
  BY <1>3 DEF Window
<1>5. ASSUME NEW i \in 1..S PROVE q[i] = IF i = 1 THEN 0 ELSE r[i - 1]
  BY <1>3 DEF Shifted
<1>6. a \in Int /\ b \in Int
  BY <1>1 DEF Ages
<1> HIDE DEF v, q, T, S, c, a, b, z
<1>7. ASSUME NEW i \in 1..S
      PROVE  /\ v.time = Unset => q[i] = 0
             /\ v.time # Unset => /\ i <= v.time + 1 => q[i] <= v.count + z
                                  /\ q[i] <= v.count + T - 1 + z
                                  /\ i <= v.time - S + 1 => q[i] = 0
             /\ v.bad # Unset => (i <= v.bad => q[i] = 0)
             /\ q[i] <= 2 * T - 1 + z
  <2>1. CASE i = 1
    <3>1. q[i] = 0
      BY <1>5, <2>1
    <3>2. 0 <= c + T - 1 + z /\ 0 <= 2 * T - 1 + z /\ 0 <= c + z
      BY <1>1
    <3>3. QED
      BY <1>2, <3>1, <3>2
  <2>2. CASE i # 1
    <3> DEFINE j == i - 1
    <3>1. j \in 1..S /\ q[i] = r[j] /\ i = j + 1
      BY <1>1, <1>5, <2>2
    <3> HIDE DEF j
    <3>2. /\ a = Unset => r[j] = 0
          /\ a # Unset => /\ j <= a + 1 => r[j] <= c + z
                          /\ r[j] <= c + T - 1 + z
                          /\ j <= a - S + 1 => r[j] = 0
          /\ b # Unset => (j <= b => r[j] = 0)
          /\ r[j] <= 2 * T - 1 + z
          /\ r[j] \in Nat
      BY <1>4, <3>1
    <3>3. v.time = Unset => q[i] = 0
      BY <1>2, <3>1, <3>2
    <3>4. ASSUME v.time # Unset
          PROVE  /\ i <= v.time + 1 => q[i] <= v.count + z
                 /\ q[i] <= v.count + T - 1 + z
                 /\ i <= v.time - S + 1 => q[i] = 0
      <4>1. CASE v.time = a + 1
        BY <1>1, <1>2, <1>6, <3>1, <3>2, <3>4, <4>1
      <4>2. CASE v.time = a /\ a = MaxAge
        BY <1>1, <1>2, <1>6, <3>1, <3>2, <3>4, <4>2
      <4>3. QED
        BY <1>2, <3>4, <4>1, <4>2
    <3>5. ASSUME v.bad # Unset PROVE i <= v.bad => q[i] = 0
      BY <1>1, <1>2, <1>6, <3>1, <3>2, <3>5
    <3>6. QED
      BY <3>1, <3>2, <3>3, <3>4, <3>5
  <2>3. QED
    BY <2>1, <2>2
<1>8. Window(v, q)
  BY <1>3, <1>7 DEF Window, S, T, z
<1>9. QED
  BY <1>8 DEF v, q

-----------------------------------------------------------------------------
(* A connection                                                            *)

(* What the invariant says of the next state, while the setting stays.     *)
After(p, n, r) ==
    /\ p \in PeerRec /\ n \in Nat /\ r \in [Span -> Nat]
    /\ RateOk(p.rate) /\ (Waits => Window(p.rate, r))
    /\ p.state = "gone" => p.closed /\ n = 0

LEMMA InvAfter == ThrottleInv <=> setting \in DOMAIN Settings /\ After(peer, pending, recent)
BY DEF ThrottleInv, After, Spared

LEMMA AfterInv ==
    ASSUME setting \in DOMAIN Settings, setting' = setting, After(peer', pending', recent')
    PROVE  ThrottleInv'
<1>1. Conf' = Conf
  BY DEF Conf
<1>2. Span' = Span /\ Slack' = Slack /\ MaxAge' = MaxAge /\ Waits' = Waits
  BY <1>1 DEF Span, Slack, MaxAge, Waits
<1>3. PeerRec' = PeerRec /\ RateRec' = RateRec
  BY <1>2 DEF PeerRec, RateRec, Ages
<1>4. RateOk(peer.rate)' /\ (Waits' => Window(peer.rate, recent)')
  BY <1>1, <1>2, <1>3 DEF RateOk, Window, After, Unset
<1>5. QED
  BY <1>2, <1>3, <1>4 DEF ThrottleInv, After, Spared

(* A connection changes without being read from: its limit stays.          *)
LEMMA SameRate ==
    ASSUME setting \in DOMAIN Settings, NEW p, NEW q, NEW n, NEW r, After(p, n, r),
           q \in PeerRec, q.rate = p.rate, q.state = "gone" => q.closed /\ n = 0
    PROVE  After(q, n, r)
BY DEF After

LEMMA PeerParts ==
    ASSUME NEW p, p \in PeerRec
    PROVE  /\ p.state \in {"none", "up", "gone", "idle"} /\ p.rd \in BOOLEAN /\ p.want \in BOOLEAN
           /\ p.rate \in RateRec /\ p.quiet \in Ages /\ p.closed \in BOOLEAN
BY DEF PeerRec

LEMMA WithRate ==
    ASSUME NEW p, p \in PeerRec, NEW rt, rt \in RateRec
    PROVE  LET q == [p EXCEPT !.rate = rt]
           IN  q \in PeerRec /\ q.rate = rt /\ q.state = p.state /\ q.closed = p.closed
BY DEF PeerRec

LEMMA KilledParts ==
    ASSUME NEW p, p \in PeerRec
    PROVE  Killed(p) \in PeerRec /\ Killed(p).rate = p.rate /\ Killed(p).closed = p.closed
BY DEF PeerRec, Killed

(* A limit that is not in effect leaves something to read: 0 bytes are     *)
(* read at the end of the stream only.                                     *)
LEMMA TakeParts ==
    ASSUME setting \in DOMAIN Settings, pending \in Nat, recent \in [Span -> Nat], NEW p, RateOk(p.rate), RateCheck(p.rate),
           NEW n \in CanTake(p)
    PROVE  \/ n = -1 /\ pending = 0 /\ ~p.closed
           \/ n = 0 /\ pending = 0 /\ p.closed
           \/ n \in Nat /\ n > 0 /\ n <= pending /\ n <= Conf.total - RateChecked(p.rate).count
<1> DEFINE rt == RateChecked(p.rate)
           left == RateLeft(rt)
           most == Min({left, BufLen, pending})
<1>1. rt.bad = Unset /\ rt.count < Conf.total /\ rt.count \in Int
  <2> DEFINE a == p.rate
  <2>1. a.bad = Unset <=> a.count < Conf.total
    BY DEF RateOk
  <2>2. a.time = Unset => a.bad = Unset
    BY DEF RateOk
  <2>3. CASE a.bad = Unset
    <3>1. rt = a
      BY <2>3 DEF RateChecked
    <3>2. QED
      BY <2>1, <2>3, <3>1 DEF RateOk, RateRec
  <2>4. CASE a.bad # Unset
    <3>1. a.bad >= Conf.wait /\ a.time # Unset /\ ~(a.count < Conf.total)
      BY <2>1, <2>2, <2>4 DEF RateCheck
    <3>2. a.count >= Conf.total
      BY <3>1, ConfParts DEF RateOk, RateRec
    <3>3. rt = RateReset
      BY <2>4, <3>1, <3>2 DEF RateChecked
    <3>4. 0 < Conf.total
      BY ConfParts
    <3>5. QED
      BY <3>3, <3>4, ResetParts
  <2>5. QED
    BY <2>3, <2>4
<1>2. left = Conf.total - rt.count
  BY <1>1 DEF RateLeft
<1>3. n \in IF pending = 0 /\ ~p.closed THEN {-1} ELSE IF most <= 0 THEN {0} ELSE 1..most
  BY DEF CanTake
<1> HIDE DEF rt, left
<1>4. left \in Int /\ left > 0 /\ BufLen \in Nat \ {0}
  BY <1>1, <1>2, ConfParts, ThrottleAssumption
<1>5. most \in {left, BufLen, pending} /\ most <= left /\ most <= pending
  <2>1. left \in Int /\ BufLen \in Int /\ pending \in Int
    BY <1>4
  <2>2. QED
    BY <2>1, MinOfThree
<1> HIDE DEF most
<1>6. most \in Int /\ (most <= 0 => pending = 0)
  BY <1>4, <1>5
<1>7. CASE pending = 0 /\ ~p.closed
  BY <1>3, <1>7
<1>8. CASE ~(pending = 0 /\ ~p.closed) /\ most <= 0
  BY <1>3, <1>6, <1>8
<1>9. CASE ~(pending = 0 /\ ~p.closed) /\ ~(most <= 0)
  <2>1. n \in 1..most
    BY <1>3, <1>9
  <2>2. n \in Nat /\ n > 0 /\ n <= pending /\ n <= left
    BY <1>4, <1>5, <1>6, <2>1
  <2>3. QED
    BY <1>2, <2>2 DEF rt
<1>10. QED
  BY <1>7, <1>8, <1>9

Pending(n) == IF n > 0 THEN pending - n ELSE pending
Recent(n) == IF n > 0 THEN [i \in DOMAIN recent |-> recent[i] + n] ELSE recent

(* The read of event_READ.                                                 *)
LEMMA TakenStep ==
    ASSUME setting \in DOMAIN Settings, NEW p, After(p, pending, recent), p.state = "up", RateCheck(p.rate),
           pending = 0 /\ ~p.closed => p.rate = RateReset /\ Conf.kind = "c2s",
           NEW n \in CanTake(p)
    PROVE  After(Taken(p, n), Pending(n), Recent(n))
<1> DEFINE rt == RateChecked(p.rate)
<1>1. /\ p \in PeerRec /\ pending \in Nat /\ recent \in [Span -> Nat] /\ RateOk(p.rate)
      /\ (Waits => Window(p.rate, recent)) /\ p.rate \in RateRec
  BY DEF After, RateOk
<1>2. /\ RateOk(rt) /\ (Waits => Window(rt, recent)) /\ rt.bad = Unset /\ rt.count < Conf.total /\ rt \in RateRec
      /\ p.rate.bad # Unset => rt = RateReset
  BY <1>1, CheckedParts DEF RateOk
<1>3. \/ n = -1 /\ pending = 0 /\ ~p.closed
      \/ n = 0 /\ pending = 0 /\ p.closed
      \/ n \in Nat /\ n > 0 /\ n <= pending /\ n <= Conf.total - rt.count
  BY <1>1, TakeParts
<1> DEFINE ra == IF Conf.kind = "c2s" \/ n > 0 THEN RateAdd(rt, n) ELSE rt
           q == [p EXCEPT !.rate = ra]
<1>4. Taken(p, n) = IF n = 0 THEN Killed(q) ELSE q
  BY DEF Taken
<1> HIDE DEF rt
<1>5. RateOk(ra) /\ ra \in RateRec /\ (Waits => Window(ra, Recent(n))) /\ Pending(n) \in Nat /\ Recent(n) \in [Span -> Nat]
      /\ (n = 0 => Pending(n) = 0 /\ p.closed)
  <2>1. CASE n = -1 /\ pending = 0 /\ ~p.closed
    <3>1. Pending(n) = pending /\ Recent(n) = recent
      BY <2>1 DEF Pending, Recent
    <3>2. p.rate = RateReset /\ Conf.kind = "c2s" /\ Slack = 1
      BY <2>1 DEF Slack
    <3>3. rt = RateReset
      BY <3>2, ResetParts DEF RateChecked, rt
    <3>4. ra = RateAdd(RateReset, -1)
      BY <2>1, <3>2, <3>3
    <3>5. RateOk(RateAdd(RateReset, -1))
      <4>1. -1 + Slack = 0 /\ -1 \in Int
        BY <3>2
      <4>2. QED
        BY <4>1, AddOk, ResetParts
    <3>6. Waits => Window(RateAdd(RateReset, -1), recent)
      BY <1>1, <1>2, <3>2, <3>3, AddEmpty
    <3>7. QED
      BY <1>1, <2>1, <3>1, <3>4, <3>5, <3>6 DEF RateOk
  <2>2. CASE n = 0 /\ pending = 0 /\ p.closed
    <3>1. Pending(n) = 0 /\ Recent(n) = recent
      BY <2>2 DEF Pending, Recent
    <3>2. RateOk(RateAdd(rt, 0)) /\ (Waits => Window(RateAdd(rt, 0), recent))
      BY <1>1, <1>2, AddOk, AddNothing
    <3>3. ra = rt \/ ra = RateAdd(rt, 0)
      BY <2>2
    <3>4. RateOk(ra) /\ (Waits => Window(ra, recent))
      BY <1>2, <3>2, <3>3
    <3> HIDE DEF ra
    <3>5. QED
      BY <1>1, <2>2, <3>1, <3>4 DEF RateOk
  <2>3. CASE n \in Nat /\ n > 0 /\ n <= pending /\ n <= Conf.total - rt.count
    <3>1. Pending(n) = pending - n /\ Recent(n) = [i \in Span |-> recent[i] + n] /\ n # 0
      BY <1>1, <2>3 DEF Pending, Recent
    <3>2. pending - n \in Nat /\ [i \in Span |-> recent[i] + n] \in [Span -> Nat]
      BY <1>1, <2>3
    <3>3. RateOk(RateAdd(rt, n)) /\ (Waits => Window(RateAdd(rt, n), [i \in Span |-> recent[i] + n]))
      BY <1>1, <1>2, <2>3, AddOk, AddWindow
    <3>4. ra = RateAdd(rt, n)
      BY <2>3
    <3> HIDE DEF ra
    <3>5. QED
      BY <3>1, <3>2, <3>3, <3>4 DEF RateOk
  <2>4. QED
    BY <1>3, <2>1, <2>2, <2>3
<1> HIDE DEF ra
<1>6. q \in PeerRec /\ q.rate = ra /\ q.state = "up" /\ q.closed = p.closed
  BY <1>1, <1>5, WithRate
<1> HIDE DEF q
<1>7. Killed(q) \in PeerRec /\ Killed(q).rate = ra /\ Killed(q).closed = p.closed
  BY <1>6, KilledParts
<1>8. CASE n = 0
  BY <1>4, <1>5, <1>7, <1>8 DEF After
<1>9. CASE n # 0
  BY <1>4, <1>5, <1>6, <1>9 DEF After
<1>10. QED
  BY <1>8, <1>9

LEMMA CanReadStep ==
    ASSUME setting \in DOMAIN Settings, NEW p, After(p, pending, recent), p.state = "up", CanRead(p),
           pending = 0 /\ ~p.closed => p.rate = RateReset /\ Conf.kind = "c2s"
    PROVE  After(peer', pending', recent')
<1>1. p \in PeerRec /\ RateOk(p.rate)
  BY DEF After
<1>2. CASE ~p.want
  <2> DEFINE q == [p EXCEPT !.rd = FALSE]
  <2>1. peer' = q /\ pending' = pending /\ recent' = recent
    BY <1>2 DEF CanRead
  <2>2. q \in PeerRec /\ q.rate = p.rate /\ q.state = p.state
    BY <1>1 DEF PeerRec
  <2> HIDE DEF q
  <2>3. After(q, pending, recent)
    BY <2>2, SameRate
  <2>4. QED
    BY <2>1, <2>3
<1>3. CASE p.want /\ ~RateCheck(p.rate)
  <2>1. peer' = Throttled(p) /\ pending' = pending /\ recent' = recent
    BY <1>3 DEF CanRead
  <2>2. RateChecked(p.rate) = p.rate
    <3>1. p.rate.bad # Unset /\ ~(p.rate.bad >= Conf.wait)
      BY <1>3 DEF RateCheck
    <3>2. QED
      BY <3>1 DEF RateChecked
  <2> DEFINE q == Throttled(p)
  <2>3. q \in PeerRec /\ q.rate = p.rate /\ q.state = p.state
    BY <1>1, <2>2 DEF PeerRec, Throttled
  <2> HIDE DEF q
  <2>4. After(q, pending, recent)
    BY <2>3, SameRate
  <2>5. QED
    BY <2>1, <2>4 DEF q
<1>4. CASE p.want /\ RateCheck(p.rate)
  <2>1. PICK n \in CanTake(p) : peer' = Taken(p, n) /\ pending' = Pending(n) /\ recent' = Recent(n)
    BY <1>4 DEF CanRead, Pending, Recent
  <2>2. QED
    BY <1>4, <2>1, TakenStep
<1>5. QED
  BY <1>2, <1>3, <1>4

-----------------------------------------------------------------------------
(* The actions                                                             *)

LEMMA NewPeer ==
    ASSUME setting \in DOMAIN Settings, NEW p,
           p \in {NoPeer, [NoPeer EXCEPT !.state = "up", !.rd = TRUE, !.want = TRUE]}
    PROVE  After(p, 0, Quiet)
<1>1. RateOk(RateReset) /\ RateReset \in RateRec /\ RateReset.time = Unset /\ RateReset.bad = Unset
  BY ResetParts DEF RateOk
<1>2. 0 \in Ages
  BY MaxAgeIs DEF Ages
<1>3. p \in PeerRec /\ p.rate = RateReset /\ p.state # "gone"
  <2>1. NoPeer \in PeerRec /\ NoPeer.rate = RateReset /\ NoPeer.state = "none"
    BY <1>1, <1>2 DEF NoPeer, PeerRec
  <2> DEFINE n == NoPeer
             q == [n EXCEPT !.state = "up", !.rd = TRUE, !.want = TRUE]
  <2> HIDE DEF n
  <2>2. q \in PeerRec /\ q.rate = n.rate /\ q.state = "up"
    BY <2>1 DEF PeerRec, n
  <2> HIDE DEF q
  <2>3. p = n \/ p = q
    BY DEF n, q
  <2>4. CASE p = n
    BY <2>1, <2>4 DEF n
  <2>5. CASE p = q
    BY <2>1, <2>2, <2>5 DEF n
  <2>6. QED
    BY <2>3, <2>4, <2>5
<1>4. Quiet \in [Span -> Nat] /\ \A i \in Span : Quiet[i] = 0
  BY ConfParts DEF Quiet, Span
<1>5. 0 <= 2 * Conf.total - 1 + Slack
  BY ConfParts
<1>6. Window(RateReset, Quiet)
  BY <1>1, <1>4, <1>5 DEF Window
<1>7. QED
  BY <1>1, <1>3, <1>4, <1>6 DEF After

LEMMA ReadStep ==
    ASSUME setting \in DOMAIN Settings, After(peer, pending, recent), Read
    PROVE  After(peer', pending', recent')
<1>1. peer \in PeerRec /\ pending \in Nat /\ peer.state = "up" /\ (pending > 0 \/ peer.closed)
  BY DEF After, Read
<1>2. CASE pending = 0
  <2>1. peer' = Killed(peer) /\ pending' = pending /\ recent' = recent /\ peer.closed
    BY <1>1, <1>2 DEF Read
  <2>2. Killed(peer) \in PeerRec /\ Killed(peer).rate = peer.rate /\ Killed(peer).closed = peer.closed
    BY <1>1, KilledParts
  <2> DEFINE q == Killed(peer)
  <2> HIDE DEF q
  <2>3. After(q, pending, recent)
    BY <1>2, <2>1, <2>2, SameRate DEF q
  <2>4. QED
    BY <2>1, <2>3 DEF q
<1>3. CASE pending # 0
  <2> DEFINE p == [peer EXCEPT !.quiet = 0]
  <2>1. CanRead(p)
    BY <1>3 DEF Read
  <2>2. 0 \in Ages
    BY MaxAgeIs DEF Ages
  <2>3. p \in PeerRec /\ p.rate = peer.rate /\ p.state = peer.state
    BY <1>1, <2>2 DEF PeerRec
  <2> HIDE DEF p
  <2>4. After(p, pending, recent)
    BY <1>1, <2>3, SameRate
  <2>5. QED
    BY <1>1, <1>3, <2>1, <2>3, <2>4, CanReadStep
<1>4. QED
  BY <1>2, <1>3

LEMMA WrittenParts ==
    ASSUME NEW p, p \in PeerRec
    PROVE  Written(p) \in PeerRec /\ Written(p).rate = p.rate /\ Written(p).state = p.state
<1>1. (p.rd \/ p.want) \in BOOLEAN
  OBVIOUS
<1> DEFINE b == p.rd \/ p.want
<1>2. Written(p) = [p EXCEPT !.rd = b]
  BY DEF Written
<1> HIDE DEF b
<1>3. b \in BOOLEAN
  BY <1>1 DEF b
<1>4. QED
  BY <1>2, <1>3 DEF PeerRec

LEMMA TimeChecksStep ==
    ASSUME setting \in DOMAIN Settings, After(peer, pending, recent), TimeChecks
    PROVE  After(peer', pending', recent')
<1>1. peer \in PeerRec /\ RateOk(peer.rate) /\ recent \in [Span -> Nat] /\ (Waits => Window(peer.rate, recent))
  BY DEF After
<1>2. Conf.kind = "c2s" /\ peer.state = "up"
  BY DEF TimeChecks
<1>3. CASE TimedOut
  <2> DEFINE q == [peer EXCEPT !.state = "idle", !.rd = FALSE]
  <2>1. peer' = q /\ pending' = pending /\ recent' = recent
    BY <1>3 DEF TimeChecks
  <2>2. q \in PeerRec /\ q.rate = peer.rate /\ q.state = "idle"
    BY <1>1 DEF PeerRec
  <2> HIDE DEF q
  <2>3. After(q, pending, recent)
    BY <2>2, SameRate
  <2>4. QED
    BY <2>1, <2>3
<1>4. KeptAlive \in PeerRec /\ KeptAlive.rate = peer.rate /\ KeptAlive.state = "up"
  BY <1>1, <1>2, WrittenParts DEF KeptAlive
<1>5. CASE ~TimedOut /\ peer.rate.bad # Unset /\ RateCheck(peer.rate)
  <2> DEFINE k == KeptAlive
             rt == RateChecked(k.rate)
             p == [k EXCEPT !.rate = rt, !.want = TRUE]
  <2>1. CanRead(p)
    BY <1>5 DEF TimeChecks
  <2>2. rt = RateReset /\ RateOk(rt) /\ (Waits => Window(rt, recent)) /\ rt \in RateRec
    BY <1>1, <1>4, <1>5, CheckedParts DEF RateOk
  <2> HIDE DEF k, rt
  <2>3. p \in PeerRec /\ p.rate = rt /\ p.state = "up"
    BY <1>4, <2>2 DEF PeerRec, k
  <2> HIDE DEF p
  <2>4. After(p, pending, recent)
    BY <2>2, <2>3 DEF After
  <2>5. QED
    BY <1>2, <2>1, <2>2, <2>3, <2>4, CanReadStep
<1>6. CASE ~TimedOut /\ ~(peer.rate.bad # Unset /\ RateCheck(peer.rate))
  <2>1. peer' = KeptAlive /\ pending' = pending /\ recent' = recent
    BY <1>6 DEF TimeChecks
  <2>2. After(KeptAlive, pending, recent)
    BY <1>4, SameRate
  <2>3. QED
    BY <2>1, <2>2
<1>7. QED
  BY <1>3, <1>5, <1>6

LEMMA TickStep ==
    ASSUME setting \in DOMAIN Settings, After(peer, pending, recent), Tick
    PROVE  After(peer', pending', recent')
<1>1. peer \in PeerRec /\ RateOk(peer.rate) /\ recent \in [Span -> Nat] /\ (Waits => Window(peer.rate, recent))
  BY DEF After
<1> DEFINE ra == OlderRate(peer.rate)
           a == Older(peer.quiet)
           q == [peer EXCEPT !.rate = ra, !.quiet = a]
<1>2. peer' = q /\ recent' = Shifted(recent) /\ pending' = pending
  BY DEF Tick, Shifted
<1>3. RateOk(ra) /\ (Waits => Window(ra, Shifted(recent))) /\ ra \in RateRec
  BY <1>1, TickRate, TickWindow DEF RateOk
<1>4. a \in Ages
  BY <1>1, PeerParts, OlderParts
<1> HIDE DEF ra, a
<1>5. q \in PeerRec /\ q.rate = ra /\ q.state = peer.state /\ q.closed = peer.closed
  BY <1>1, <1>3, <1>4 DEF PeerRec
<1>6. Shifted(recent) \in [Span -> Nat]
  <2>1. Conf.seconds \in Nat
    BY ConfParts
  <2>2. \A i \in Span : i # 1 => i - 1 \in Span
    BY <2>1 DEF Span
  <2>3. QED
    BY <1>1, <2>2 DEF Shifted
<1> HIDE DEF q
<1>7. QED
  BY <1>2, <1>3, <1>5, <1>6 DEF After

LEMMA ThrottleStep == ThrottleInv /\ [Next]_vars => ThrottleInv'
<1> SUFFICES ASSUME ThrottleInv, [Next]_vars PROVE ThrottleInv'
  OBVIOUS
<1>1. setting \in DOMAIN Settings /\ After(peer, pending, recent) /\ setting' = setting
  BY InvAfter DEF Next, vars, Connect, Read, Write, TimeChecks, Send, Hangup, Tick
<1>2. peer \in PeerRec /\ pending \in Nat
  BY <1>1 DEF After
<1> SUFFICES After(peer', pending', recent')
  BY <1>1, AfterInv
<1>3. CASE Connect
  <2>1. CASE RateCheck(conns)
    <3> DEFINE p == [NoPeer EXCEPT !.state = "up", !.rd = TRUE, !.want = TRUE]
    <3>1. peer' = p /\ pending' = 0 /\ recent' = Quiet
      BY <1>3, <2>1 DEF Connect
    <3>2. After(p, 0, Quiet)
      BY <1>1, NewPeer
    <3>3. QED
      BY <3>1, <3>2
  <2>2. CASE ~RateCheck(conns)
    BY <1>1, <1>3, <2>2 DEF Connect
  <2>3. QED
    BY <2>1, <2>2
<1>4. CASE Read
  BY <1>1, <1>4, ReadStep
<1>5. CASE Write
  <2>1. peer' = Written(peer) /\ pending' = pending /\ recent' = recent /\ peer.state = "up"
    BY <1>5 DEF Write
  <2>2. After(Written(peer), pending, recent)
    BY <1>1, <1>2, <2>1, WrittenParts, SameRate
  <2>3. QED
    BY <2>1, <2>2
<1>6. CASE TimeChecks
  BY <1>1, <1>6, TimeChecksStep
<1>7. CASE Send
  <2>1. peer' = peer /\ pending' = pending + 1 /\ recent' = recent /\ peer.state = "up"
    BY <1>7 DEF Send
  <2>2. pending + 1 \in Nat
    BY <1>2
  <2>3. QED
    BY <1>1, <2>1, <2>2 DEF After
<1>8. CASE Hangup
  <2> DEFINE q == [peer EXCEPT !.closed = TRUE]
  <2>1. peer' = q /\ pending' = pending /\ recent' = recent /\ peer.state = "up"
    BY <1>8 DEF Hangup
  <2>2. q \in PeerRec /\ q.rate = peer.rate /\ q.state = peer.state
    BY <1>2 DEF PeerRec
  <2> HIDE DEF q
  <2>3. After(q, pending, recent)
    BY <1>1, <2>1, <2>2, SameRate
  <2>4. QED
    BY <2>1, <2>3
<1>9. CASE Tick
  BY <1>1, <1>9, TickStep
<1>10. CASE UNCHANGED vars
  BY <1>1, <1>10 DEF vars
<1>11. QED
  BY <1>3, <1>4, <1>5, <1>6, <1>7, <1>8, <1>9, <1>10 DEF Next

LEMMA ThrottleAlways == Spec => []ThrottleInv
<1>1. Init => ThrottleInv
  <2> SUFFICES ASSUME Init PROVE ThrottleInv
    OBVIOUS
  <2>1. setting \in DOMAIN Settings /\ peer = NoPeer /\ pending = 0 /\ recent = Quiet
    BY DEF Init
  <2>2. After(NoPeer, 0, Quiet)
    BY <2>1, NewPeer
  <2>3. QED
    BY <2>1, <2>2, InvAfter
<1>2. QED
  BY <1>1, ThrottleStep, PTL DEF Spec

(* The limit of rate_add and rate_check holds for every window and wait at *)
(* least as long, every buffer and every order of reads, writes and time   *)
(* checks: in any `seconds' seconds a connection is read less than twice   *)
(* its total, one byte more in c2s.                                        *)
THEOREM AlwaysBounded == Spec => []Bounded
<1>1. ThrottleInv => Bounded
  <2> SUFFICES ASSUME ThrottleInv, Conf.wait >= Conf.seconds
               PROVE  recent[Conf.seconds] <= 2 * Conf.total - IF Conf.kind = "router" THEN 1 ELSE 0
    BY DEF Bounded
  <2>1. setting \in DOMAIN Settings /\ Window(peer.rate, recent) /\ recent \in [Span -> Nat]
    BY DEF ThrottleInv, Waits
  <2>2. Conf.seconds \in Span /\ Conf.total \in Nat
    BY <2>1, ConfParts DEF Span
  <2>3. recent[Conf.seconds] <= 2 * Conf.total - 1 + Slack /\ recent[Conf.seconds] \in Nat
    BY <2>1, <2>2 DEF Window
  <2>4. QED
    BY <2>2, <2>3 DEF Slack
<1>2. QED
  BY <1>1, ThrottleAlways, PTL

(* A limit never ends a connection: event_READ of neither program reads    *)
(* with no room left, which would look like the end of the stream.         *)
THEOREM AlwaysSpared == Spec => []Spared
<1>1. ThrottleInv => Spared
  BY DEF ThrottleInv
<1>2. QED
  BY <1>1, ThrottleAlways, PTL
=============================================================================
