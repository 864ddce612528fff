------------------------ MODULE SessionsOrphanProofs ------------------------
(***************************************************************************)
(* That nobody stays online after he has gone: every session of the sm is  *)
(* accounted for by its client or by a packet under way.                   *)
(***************************************************************************)
EXTENDS SessionsPathProofs

-----------------------------------------------------------------------------
(* The invariant                                                           *)

(* The packets under way in q.                                             *)
In(q) == {q[i] : i \in 1..Len(q)}

(* What is said of the one session a descriptor that is not handed out     *)
(* again ever has, if its client waits for answers.                        *)
Begin(m, f) == m.kind \in {"start", "started"} /\ m.fd = f
Over(m, f) == m.kind \in {"ended", "replaced"} /\ m.fd = f
About(m, f) == Begin(m, f) \/ Over(m, f)
Ends(m, f, x) == m.kind = "end" /\ m.fd = f /\ m.smid = x

(* The client of f has not asked for a session.                            *)
Fresh(f) == f \notin used \/ (sess[f].state # "none" /\ sess[f].res = <<>>)

(* It has asked with request id and has no answer, or has left.            *)
Pending(s, id) ==
    /\ s.res # <<>> /\ s.res[1].smid = NoId /\ s.res[1].req = id
    /\ ~s.active /\ (s.sasl \/ s.result # NoResult)
Waits(f, id) == (sess[f].state = "none" /\ f \in used) \/ Pending(sess[f], id)

Owns(f, x) == sess[f].active /\ sess[f].res[1].smid = x
Lives(f) == \E j \in Jids : Live(j) /\ sm[j].fd = f

(* At most one packet of q begins the session of f.                        *)
Once(q, f) == \A i, k \in 1..Len(q) : Begin(q[i], f) /\ Begin(q[k], f) => i = k

(* Session x of f is known to c2s, or c2s is about to learn of it, or the  *)
(* sm is about to learn that it has to end.                                *)
Accounted(f, x) ==
    \/ Owns(f, x)
    \/ \E m \in In(toC2S) : Starts(m, f, x)
    \/ \E m \in In(toSM) : Ends(m, f, x) \/ m.kind = "c2s down"

UnseenInv(f) == Fresh(f) => ~Lives(f) /\ \A m \in In(toSM) \cup In(toC2S) : ~About(m, f)
WaitInv(f) == \A m \in In(toSM) \cup In(toC2S) : Begin(m, f) => Waits(f, m.id)
OnceInv(f) == Once(toSM, f) /\ Once(toC2S, f)
StartInv(f) == (\E m \in In(toSM) : Begin(m, f)) => ~Lives(f) /\ \A m \in In(toC2S) : ~About(m, f)
OverInv(f) == (\E m \in In(toC2S) : Over(m, f)) => ~Lives(f)
AskInv(f) ==
    /\ sess[f].state = "stream" /\ sess[f].res # <<>> => sess[f].result # NoResult
    /\ sess[f].state # "none" => f \in used

ClientInv(f) == UnseenInv(f) /\ WaitInv(f) /\ OnceInv(f) /\ StartInv(f) /\ OverInv(f) /\ AskInv(f)

OneEach == \A j, k \in Jids : Live(j) /\ Live(k) /\ sm[j].fd = sm[k].fd => j = k
AllAccounted == \A j \in Jids : Live(j) => Accounted(sm[j].fd, SmId(j))
NoneDown == \A m \in In(toC2S) : m.kind # "sm down"

OrphanInv == (\A f \in Fds : ClientInv(f)) /\ OneEach /\ AllAccounted /\ NoneDown

-----------------------------------------------------------------------------
(* Packets under way                                                       *)

LEMMA InTail ==
    ASSUME NEW q \in Seq(Good), q # <<>>
    PROVE  /\ Head(q) \in In(q) /\ In(Tail(q)) \subseteq In(q)
           /\ \A m \in In(q) : m = Head(q) \/ m \in In(Tail(q))
<1> DEFINE t == Tail(q)
           n == Len(q)
           l == Len(t)
           hd == Head(q)
<1>1. n \in Nat \ {0} /\ hd = q[1] /\ l = n - 1 /\ \A i \in 1..l : t[i] = q[i + 1]
  BY TailParts
<1> HIDE DEF t, n, l, hd
<1>2. 1 \in 1..n /\ (\A i \in 1..l : i + 1 \in 1..n) /\ (\A i \in 1..n : i = 1 \/ (i - 1 \in 1..l /\ (i - 1) + 1 = i))
  BY <1>1
<1>3. In(q) = {q[i] : i \in 1..n} /\ In(t) = {t[i] : i \in 1..l}
  BY DEF In, n, l
<1>4. hd \in In(q) /\ In(t) \subseteq In(q)
  BY <1>1, <1>2, <1>3
<1>5. ASSUME NEW i \in 1..n PROVE q[i] = hd \/ q[i] \in In(t)
  <2>1. CASE i = 1
    BY <1>1, <2>1
  <2>2. CASE i - 1 \in 1..l /\ (i - 1) + 1 = i
    <3>1. t[i - 1] = q[i]
      BY <1>1, <2>2
    <3>2. QED
      BY <1>3, <2>2, <3>1
  <2>3. QED
    BY <1>2, <2>1, <2>2
<1>6. QED
  BY <1>3, <1>4, <1>5 DEF t, hd

LEMMA InConcat ==
    ASSUME NEW q \in Seq(Good), NEW ms \in Seq(Good)
    PROVE  In(q \o ms) = In(q) \cup In(ms)
<1> DEFINE u == q \o ms
           n == Len(q)
           l == Len(ms)
           t == Len(u)
<1>1. /\ n \in Nat /\ l \in Nat /\ t = n + l /\ (\A i \in 1..n : u[i] = q[i])
      /\ \A i \in (n + 1)..t : i - n \in 1..l /\ u[i] = ms[i - n]
  BY ConcatParts
<1>2. In(u) = {u[i] : i \in 1..t} /\ In(q) = {q[i] : i \in 1..n} /\ In(ms) = {ms[i] : i \in 1..l}
  BY DEF In
<1> HIDE DEF u, n, l, t
<1>3. (\A i \in 1..t : i \in 1..n \/ i \in (n + 1)..t) /\ (\A i \in 1..n : i \in 1..t)
  BY <1>1
<1>4. \A i \in 1..l : i + n \in (n + 1)..t /\ i + n \in 1..t /\ (i + n) - n = i
  BY <1>1
<1>5. In(u) \subseteq In(q) \cup In(ms)
  BY <1>1, <1>2, <1>3
<1>6. In(q) \subseteq In(u)
  BY <1>1, <1>2, <1>3
<1>7. In(ms) \subseteq In(u)
  <2> SUFFICES ASSUME NEW i \in 1..l PROVE ms[i] \in In(u)
    BY <1>2
  <2>1. u[i + n] = ms[i] /\ i + n \in 1..t
    BY <1>1, <1>4
  <2>2. QED
    BY <1>2, <2>1
<1>8. QED
  BY <1>5, <1>6, <1>7 DEF u

LEMMA InOne == In(<<>>) = {} /\ \A m : In(<<m>>) = {m}
BY DEF In

LEMMA InCut ==
    ASSUME NEW q \in Seq(Good), NEW t \in CutOff(q)
    PROVE  In(t) \subseteq In(q)
<1>1. PICK n \in 0..Len(q) : t = SubSeq(q, 1, n)
  BY DEF CutOff
<1>2. Len(q) \in Nat /\ Len(t) = n /\ \A i \in 1..n : t[i] = q[i]
  BY <1>1, CutParts
<1> DEFINE l == Len(q)
<1>3. \A i \in 1..n : i \in 1..l
  <2>1. l \in Nat /\ n \in 0..l
    BY <1>1, <1>2
  <2> HIDE DEF l
  <2>2. QED
    BY <2>1
<1>4. QED
  BY <1>2, <1>3 DEF In

LEMMA OnceTail ==
    ASSUME NEW q \in Seq(Good), q # <<>>, NEW f, Once(q, f)
    PROVE  Once(Tail(q), f) /\ (Begin(Head(q), f) => \A m \in In(Tail(q)) : ~Begin(m, f))
<1> DEFINE t == Tail(q)
           n == Len(q)
           l == Len(t)
           hd == Head(q)
<1>1. n \in Nat \ {0} /\ hd = q[1] /\ l = n - 1 /\ \A i \in 1..l : t[i] = q[i + 1]
  BY TailParts
<1>2. \A i, k \in 1..n : Begin(q[i], f) /\ Begin(q[k], f) => i = k
  BY DEF Once
<1> HIDE DEF t, n, l, hd
<1>3. 1 \in 1..n /\ \A i \in 1..l : i + 1 \in 1..n /\ i + 1 # 1 /\ t[i] = q[i + 1]
  BY <1>1
<1>4. \A i, k \in 1..l : i + 1 = k + 1 => i = k
  BY <1>1
<1>5. Once(t, f)
  <2>1. \A i, k \in 1..l : Begin(t[i], f) /\ Begin(t[k], f) => i = k
    BY <1>2, <1>3, <1>4
  <2>2. QED
    BY <2>1 DEF Once, l
<1>6. Begin(hd, f) => \A i \in 1..l : ~Begin(t[i], f)
  BY <1>1, <1>2, <1>3
<1>7. QED
  BY <1>5, <1>6 DEF In, t, l, hd

LEMMA OnceConcat ==
    ASSUME NEW q \in Seq(Good), NEW ms \in Seq(Good), NEW f, Once(q, f), \A m \in In(ms) : ~Begin(m, f)
    PROVE  Once(q \o ms, f)
<1> DEFINE u == q \o ms
           n == Len(q)
           l == Len(ms)
           t == Len(u)
<1>1. /\ n \in Nat /\ l \in Nat /\ t = n + l /\ (\A i \in 1..n : u[i] = q[i])
      /\ \A i \in (n + 1)..t : i - n \in 1..l /\ u[i] = ms[i - n]
  BY ConcatParts
<1>2. \A i, k \in 1..n : Begin(q[i], f) /\ Begin(q[k], f) => i = k
  BY DEF Once
<1>3. \A i \in 1..l : ~Begin(ms[i], f)
  BY DEF In
<1> HIDE DEF u, n, l, t
<1>4. \A i \in 1..t : i \in 1..n \/ i \in (n + 1)..t
  BY <1>1
<1>5. \A i \in 1..t : Begin(u[i], f) => i \in 1..n /\ Begin(q[i], f)
  BY <1>1, <1>3, <1>4
<1>6. \A i, k \in 1..t : Begin(u[i], f) /\ Begin(u[k], f) => i = k
  BY <1>2, <1>5
<1>7. QED
  BY <1>6 DEF Once, u, t

LEMMA OnceAppend ==
    ASSUME NEW q \in Seq(Good), NEW m \in Good, NEW f, \A x \in In(q) : ~Begin(x, f)
    PROVE  Once(q \o <<m>>, f)
<1> DEFINE u == Append(q, m)
           n == Len(q)
<1>1. n \in Nat /\ Len(u) = n + 1 /\ u[n + 1] = m /\ (\A i \in 1..n : u[i] = q[i]) /\ u = q \o <<m>>
  BY AppendParts, AppendIsConcat
<1>2. \A i \in 1..n : ~Begin(q[i], f)
  BY DEF In
<1> HIDE DEF u, n
<1>3. \A i \in 1..(n + 1) : i \in 1..n \/ i = n + 1
  BY <1>1
<1>4. \A i \in 1..(n + 1) : Begin(u[i], f) => i = n + 1
  BY <1>1, <1>2, <1>3
<1>5. Once(u, f)
  BY <1>1, <1>4 DEF Once
<1>6. QED
  BY <1>1, <1>5

LEMMA OnceCut ==
    ASSUME NEW q \in Seq(Good), NEW t \in CutOff(q), NEW f, Once(q, f)
    PROVE  Once(t, f)
<1>1. PICK n \in 0..Len(q) : t = SubSeq(q, 1, n)
  BY DEF CutOff
<1>2. Len(q) \in Nat /\ Len(t) = n /\ \A i \in 1..n : t[i] = q[i]
  BY <1>1, CutParts
<1> DEFINE l == Len(q)
<1>3. \A i \in 1..n : i \in 1..l
  <2>1. l \in Nat /\ n \in 0..l
    BY <1>1, <1>2
  <2> HIDE DEF l
  <2>2. QED
    BY <2>1
<1>4. QED
  BY <1>2, <1>3 DEF Once

-----------------------------------------------------------------------------
(* What a step adds to the path                                            *)

(* Of what is said of the session of f, q2 holds no more than q.           *)
Less(q2, q, f) ==
    /\ \A m \in In(q2) : About(m, f) => m \in In(q)
    /\ Once(q, f) => Once(q2, f)

(* Packets that say nothing of it.                                         *)
Still(ms, f) == \A m \in In(ms) : ~About(m, f)

LEMMA LessTail ==
    ASSUME NEW q \in Seq(Good), q # <<>>, NEW f
    PROVE  Less(Tail(q), q, f)
BY InTail, OnceTail DEF Less

LEMMA LessCut ==
    ASSUME NEW q \in Seq(Good), NEW t \in CutOff(q), NEW f
    PROVE  Less(t, q, f)
BY InCut, OnceCut DEF Less

LEMMA LessConcat ==
    ASSUME NEW q \in Seq(Good), NEW t \in Seq(Good), NEW f, Less(t, q, f), NEW ms \in Seq(Good), Still(ms, f)
    PROVE  Less(t \o ms, q, f)
<1>1. In(t \o ms) = In(t) \cup In(ms)
  BY InConcat
<1>2. \A m \in In(ms) : ~About(m, f) /\ ~Begin(m, f)
  BY DEF Still, About
<1>3. Once(t, f) => Once(t \o ms, f)
  BY <1>2, OnceConcat
<1> DEFINE u == t \o ms
<1> HIDE DEF u
<1>4. Less(u, q, f)
  BY <1>1, <1>2, <1>3 DEF Less, u
<1>5. QED
  BY <1>4 DEF u

LEMMA LessSame == \A q, f : Less(q, q, f)
BY DEF Less

LEMMA LessNone == \A q, f : Less(<<>>, q, f)
BY InOne DEF Less, Once

LEMMA StillOne ==
    ASSUME NEW m, NEW f, ~About(m, f)
    PROVE  Still(<<m>>, f)
BY InOne DEF Still

LEMMA AboutKinds ==
    ASSUME NEW m, NEW f, m.kind \notin {"start", "started", "ended", "replaced"} \/ m.fd # f
    PROVE  ~About(m, f)
BY DEF About, Begin, Over

(* What c2s holds of f: it asks for no session and forgets no request.     *)
Steady(f) ==
    /\ Fresh(f)' => Fresh(f)
    /\ \A i \in Ids : Waits(f, i) => Waits(f, i)'
    /\ AskInv(f)'

LEMMA SameSteady ==
    ASSUME NEW f, ClientInv(f), sess'[f] = sess[f], f \in used' <=> f \in used
    PROVE  Steady(f)
BY DEF Steady, ClientInv, AskInv, Fresh, Waits, Pending

LEMMA BeginId ==
    ASSUME NEW m \in Good, NEW f, Begin(m, f)
    PROVE  m.id \in Ids
BY MsgParts DEF Begin

LEMMA InGood ==
    ASSUME NEW q \in Seq(Good)
    PROVE  In(q) \subseteq Good
<1>1. Len(q) \in Nat /\ \A i \in 1..Len(q) : q[i] \in Good
  BY LenProperties
<1>2. QED
  BY <1>1 DEF In

LEMMA KeepClient ==
    ASSUME SessInv, NEW f, ClientInv(f), Steady(f), Less(toSM', toSM, f), Less(toC2S', toC2S, f), Lives(f)' => Lives(f)
    PROVE  ClientInv(f)'
<1>1. /\ UnseenInv(f) /\ WaitInv(f) /\ OnceInv(f) /\ StartInv(f) /\ OverInv(f)
      /\ \A m : Begin(m, f) => About(m, f)
      /\ \A m : Over(m, f) => About(m, f)
  BY DEF ClientInv, About
<1>2. /\ \A m \in In(toSM') : About(m, f) => m \in In(toSM)
      /\ \A m \in In(toC2S') : About(m, f) => m \in In(toC2S)
  BY DEF Less
<1>3. UnseenInv(f)'
  <2> SUFFICES ASSUME Fresh(f)' PROVE ~(Lives(f)') /\ \A m \in In(toSM') \cup In(toC2S') : ~About(m, f)
    BY DEF UnseenInv
  <2>1. Fresh(f)
    BY DEF Steady
  <2>2. QED
    BY <1>1, <1>2, <2>1 DEF UnseenInv
<1>4. WaitInv(f)'
  <2> SUFFICES ASSUME NEW m \in In(toSM') \cup In(toC2S'), Begin(m, f) PROVE Waits(f, m.id)'
    BY DEF WaitInv
  <2>1. m \in In(toSM) \cup In(toC2S)
    BY <1>1, <1>2
  <2>2. Waits(f, m.id) /\ m.id \in Ids
    BY <1>1, <2>1, InvParts, InGood, BeginId DEF WaitInv
  <2>3. QED
    BY <2>2 DEF Steady
<1>5. OnceInv(f)'
  BY <1>1 DEF Less, OnceInv
<1>6. StartInv(f)'
  BY <1>1, <1>2 DEF StartInv
<1>7. OverInv(f)'
  BY <1>1, <1>2 DEF OverInv
<1>8. AskInv(f)'
  BY DEF Steady
<1>9. QED
  BY <1>3, <1>4, <1>5, <1>6, <1>7, <1>8 DEF ClientInv

(* The session of f ends; c2s may be told.                                 *)
LEMMA OverClient ==
    ASSUME SessInv, NEW f, ClientInv(f), sess'[f] = sess[f], f \in used' <=> f \in used, Less(toSM', toSM, f),
           Once(toC2S, f) => Once(toC2S', f),
           \A m \in In(toC2S') : Begin(m, f) => m \in In(toC2S),
           Lives(f), ~(Lives(f)')
    PROVE  ClientInv(f)'
<1>1. /\ UnseenInv(f) /\ WaitInv(f) /\ OnceInv(f) /\ StartInv(f) /\ OverInv(f)
      /\ \A m : Begin(m, f) => About(m, f)
      /\ \A m : Over(m, f) => About(m, f)
  BY DEF ClientInv, About
<1>2. Steady(f)
  BY SameSteady
<1>3. \A m \in In(toSM') : About(m, f) => m \in In(toSM)
  BY DEF Less
<1>4. ~Fresh(f) /\ ~(Fresh(f)')
  BY <1>1, <1>2 DEF UnseenInv, Steady
<1>5. \A m \in In(toSM) : ~Begin(m, f)
  BY <1>1 DEF StartInv
<1>6. WaitInv(f)'
  <2> SUFFICES ASSUME NEW m \in In(toSM') \cup In(toC2S'), Begin(m, f) PROVE Waits(f, m.id)'
    BY DEF WaitInv
  <2>1. m \in In(toSM) \cup In(toC2S)
    BY <1>1, <1>3
  <2>2. Waits(f, m.id) /\ m.id \in Ids
    BY <1>1, <2>1, InvParts, InGood, BeginId DEF WaitInv
  <2>3. QED
    BY <1>2, <2>2 DEF Steady
<1>7. OnceInv(f)'
  BY <1>1 DEF Less, OnceInv
<1>8. UnseenInv(f)' /\ StartInv(f)' /\ OverInv(f)'
  BY <1>1, <1>3, <1>4, <1>5 DEF UnseenInv, StartInv, OverInv
<1>9. AskInv(f)'
  BY <1>2 DEF Steady
<1>10. QED
  BY <1>6, <1>7, <1>8, <1>9 DEF ClientInv

-----------------------------------------------------------------------------
(* The client's side                                                       *)

(* What c2s writes to the sm.                                              *)
Adds(ms) == toC2S' = toC2S /\ toSM' = IF link = "up" THEN toSM \o ms ELSE toSM

OthersSame(c) == \A f \in Fds : f # c => sess'[f] = sess[f] /\ (f \in used' <=> f \in used)

(* The client of c asks for no session, and if it gives its own up, or     *)
(* leaves, the sm is told.                                                 *)
Calm(c) ==
    /\ OthersSame(c) /\ Steady(c)
    /\ \E ms \in Seq(Good) :
          /\ Adds(ms) /\ \A f : Still(ms, f)
          /\ \A x : Owns(c, x) => Owns(c, x)' \/ \E m \in In(ms) : Ends(m, c, x)

(* It asks for its one session.                                            *)
Asks(c) ==
    /\ OthersSame(c) /\ Fresh(c) /\ ~(Fresh(c)') /\ AskInv(c)'
    /\ \E m \in Good : Begin(m, c) /\ Adds(<<m>>) /\ Waits(c, m.id)'

LEMMA SendAdds ==
    ASSUME smUp, NEW ms, Send(ms, toC2S, smUp)
    PROVE  Adds(ms)
BY DEF Send, Adds

LEMMA NothingAdds ==
    ASSUME SessInv, UNCHANGED <<toSM, toC2S>>
    PROVE  Adds(<<>>)
BY InvParts, ConcatEmptySeq DEF Adds

LEMMA SetOthers ==
    ASSUME NEW c \in Fds, NEW v, sess \in [Fds -> SessRec], SetSess(c, v), used' = used \/ used' = used \cup {c}
    PROVE  OthersSame(c) /\ sess'[c] = v
BY DEF SetSess, OthersSame

LEMMA NoneStill == \A f : Still(<<>>, f)
BY InOne DEF Still

LEMMA FreshParts ==
    ASSUME SessInv, NEW c \in Fds, ClientInv(c), Fresh(c)
    PROVE  sess[c].res = <<>> /\ ~sess[c].active /\ \A i \in Ids : ~Waits(c, i)
<1>1. SessOk(sess[c]) /\ sess[c] \in SessRec
  BY InvParts
<1>2. sess[c].state # "none" => c \in used
  BY DEF ClientInv, AskInv
<1>3. sess[c].res = <<>>
  BY <1>1, <1>2 DEF Fresh, SessOk, Early
<1>4. QED
  BY <1>1, <1>2, <1>3 DEF SessOk, Fresh, Waits, Pending

(* Connecting, opening a stream and SASL.                                  *)
LEMMA IdleCalm ==
    ASSUME SessInv, NEW c \in Fds, ClientInv(c), ~Reuse,
           Accept(c) \/ Stream(c) \/ \E u \in Users : SaslAuth(c, u)
    PROVE  Calm(c)
<1> DEFINE s == sess[c]
           v == sess'[c]
<1>1. SessOk(s) /\ s \in SessRec /\ sess \in [Fds -> SessRec]
  BY InvParts
<1>2. UNCHANGED <<toSM, toC2S>>
  BY DEF Accept, Stream, SaslAuth, path
<1>3. (s.state # "none" => c \in used) /\ Fresh(c) /\ OthersSame(c) /\ v.res = <<>> /\ v.state # "none" /\ c \in used'
  <2>1. s.state # "none" => c \in used
    BY DEF ClientInv, AskInv
  <2>2. CASE Accept(c)
    <3> DEFINE w == [Blank EXCEPT !.state = "new"]
    <3>1. SetSess(c, w) /\ c \notin used /\ used' = used \cup {c}
      BY <2>2 DEF Accept
    <3>2. w.res = <<>> /\ w.state = "new"
      BY DEF Blank
    <3> HIDE DEF w
    <3>3. OthersSame(c) /\ v = w
      BY <1>1, <3>1, SetOthers
    <3>4. QED
      BY <2>1, <3>1, <3>2, <3>3 DEF Fresh
  <2>3. CASE Stream(c)
    <3> DEFINE st == IF sm_avail THEN "stream" ELSE "closing"
               w == [s EXCEPT !.state = st]
    <3>1. SetSess(c, w) /\ s.state = "new" /\ used' = used /\ st # "none"
      BY <2>3 DEF Stream
    <3>2. s.res = <<>>
      BY <1>1, <3>1 DEF SessOk, Early
    <3>3. OthersSame(c) /\ v = w
      <4> HIDE DEF w
      <4>1. QED
        BY <1>1, <3>1, SetOthers
    <3> HIDE DEF s, v, st
    <3>4. v.res = s.res /\ v.state = st
      BY <1>1, <3>3 DEF SessRec
    <3>5. QED
      BY <2>1, <3>1, <3>2, <3>3, <3>4 DEF Fresh, s
  <2>4. CASE \E u \in Users : SaslAuth(c, u)
    <3>1. PICK u \in Users : SaslAuth(c, u)
      BY <2>4
    <3> DEFINE w == [s EXCEPT !.state = "open", !.user = u, !.sasl = TRUE]
    <3>2. SetSess(c, w) /\ s.state = "stream" /\ s.res = <<>> /\ used' = used
      BY <3>1 DEF SaslAuth
    <3>3. OthersSame(c) /\ v = w
      <4> HIDE DEF w
      <4>1. QED
        BY <1>1, <3>2, SetOthers
    <3> HIDE DEF s, v
    <3>4. v.res = s.res /\ v.state = "open"
      BY <1>1, <3>3 DEF SessRec
    <3>5. QED
      BY <2>1, <3>2, <3>3, <3>4 DEF Fresh, s
  <2>5. QED
    BY <2>2, <2>3, <2>4
<1>4. Steady(c) /\ \A x : ~Owns(c, x)
  BY <1>3, FreshParts DEF Steady, AskInv, Owns
<1>5. Adds(<<>>) /\ <<>> \in Seq(Good)
  BY <1>2, NothingAdds
<1>6. QED
  BY <1>3, <1>4, <1>5, NoneStill DEF Calm

(* Unbinding, stanzas and the end of the stream.                           *)
Milder(s, v) ==
    /\ s.state # "none" /\ v.state \in {s.state, "closing"} /\ v.res = s.res
    /\ (v.active <=> s.active) /\ (v.sasl <=> s.sasl)
    /\ s.result # NoResult => v.result # NoResult

LEMMA MildSteady ==
    ASSUME NEW c, ClientInv(c), Milder(sess[c], sess'[c]), used' = used
    PROVE  Steady(c) /\ \A x : Owns(c, x) => Owns(c, x)'
<1>1. AskInv(c)
  BY DEF ClientInv
<1>2. AskInv(c)'
  BY <1>1 DEF AskInv, Milder
<1>3. Fresh(c)' => Fresh(c)
  BY DEF Fresh, Milder
<1>4. \A i : Pending(sess[c], i) => Pending(sess'[c], i)
  BY DEF Pending, Milder
<1>5. \A i : Waits(c, i) => Waits(c, i)'
  BY <1>4 DEF Waits, Milder
<1>6. QED
  BY <1>2, <1>3, <1>5 DEF Steady, Owns, Milder

LEMMA ClosingMilder ==
    ASSUME NEW s \in SessRec, s.state # "none"
    PROVE  Milder(s, s) /\ Milder(s, Closing(s))
<1>1. /\ Closing(s).res = s.res /\ Closing(s).active = s.active /\ Closing(s).sasl = s.sasl
      /\ Closing(s).state = "closing" /\ Closing(s).result = s.result
  BY DEF Closing, SessRec
<1>2. QED
  BY <1>1 DEF Milder

LEMMA StillAsked ==
    ASSUME NEW m \in Good, m.kind \in {"end", "pkt", "xsess"}
    PROVE  <<m>> \in Seq(Good) /\ \A f : Still(<<m>>, f)
BY AboutKinds, StillOne

LEMMA MildCalm ==
    ASSUME SessInv, smUp, NEW c \in Fds, ClientInv(c),
           \/ \E i \in 1..MaxRes : Unbind(c, i, smUp)
           \/ \E k \in {"pkt", "xsess"} : Stanza(c, k, smUp)
           \/ EndStream(c)
    PROVE  Calm(c)
<1> DEFINE s == sess[c]
<1>1. SessOk(s) /\ s \in SessRec /\ sess \in [Fds -> SessRec] /\ used' = used
  BY InvParts DEF Unbind, Stanza, EndStream
<1>2. ASSUME NEW k \in {"end", "pkt", "xsess"}, NEW i \in DOMAIN s.res
      PROVE  Control(k, c, s.res[i].smid) \in Good /\ Control(k, c, s.res[i].smid).kind = k
  BY SmIdOf, PlainGood DEF Kinds, Control
<1>3. OthersSame(c) /\ Milder(s, sess'[c])
  <2>1. CASE \E i \in 1..MaxRes : Unbind(c, i, smUp)
    <3>1. PICK i \in 1..MaxRes : Unbind(c, i, smUp)
      BY <2>1
    <3> DEFINE r == <<"unbind", s.res[i].jid>>
               w == [s EXCEPT !.result = r]
    <3>2. SetSess(c, w) /\ s.state = "open"
      BY <3>1 DEF Unbind
    <3>3. r # NoResult
      BY DEF NoResult
    <3>4. OthersSame(c) /\ sess'[c] = w
      <4> HIDE DEF w
      <4>1. QED
        BY <1>1, <3>2, SetOthers
    <3> HIDE DEF s, r
    <3>5. w.state = s.state /\ w.res = s.res /\ w.active = s.active /\ w.sasl = s.sasl /\ w.result = r
      BY <1>1 DEF SessRec
    <3> HIDE DEF w
    <3>6. Milder(s, w)
      BY <3>2, <3>3, <3>5 DEF Milder
    <3>7. QED
      BY <3>4, <3>6
  <2>2. CASE EndStream(c) \/ \E k \in {"pkt", "xsess"} : Stanza(c, k, smUp)
    <3>1. s.state # "none" /\ (UNCHANGED sess \/ SetSess(c, Closing(s)))
      BY <2>2 DEF EndStream, Stanza, Streaming
    <3>2. OthersSame(c) /\ (sess'[c] = s \/ sess'[c] = Closing(s))
      <4>1. CASE UNCHANGED sess
        BY <1>1, <4>1 DEF OthersSame
      <4>2. CASE SetSess(c, Closing(s))
        <5> DEFINE w == Closing(s)
        <5> HIDE DEF w
        <5>1. OthersSame(c) /\ sess'[c] = w
          BY <1>1, <4>2, SetOthers DEF w
        <5>2. QED
          BY <5>1 DEF w
      <4>3. QED
        BY <3>1, <4>1, <4>2
    <3>3. QED
      BY <1>1, <3>1, <3>2, ClosingMilder
  <2>3. QED
    BY <2>1, <2>2
<1>4. Steady(c) /\ \A x : Owns(c, x) => Owns(c, x)'
  BY <1>1, <1>3, MildSteady
<1>5. \E ms \in Seq(Good) : Adds(ms) /\ \A f : Still(ms, f)
  <2>1. CASE UNCHANGED <<toSM, toC2S>>
    <3>1. Adds(<<>>) /\ <<>> \in Seq(Good)
      BY <2>1, NothingAdds
    <3>2. QED
      BY <3>1, NoneStill
  <2>2. ASSUME NEW m \in Good, m.kind \in {"end", "pkt", "xsess"}, Send(<<m>>, toC2S, smUp)
        PROVE  \E ms \in Seq(Good) : Adds(ms) /\ \A f : Still(ms, f)
    BY <2>2, StillAsked, SendAdds
  <2>3. CASE \E i \in 1..MaxRes : Unbind(c, i, smUp)
    BY <1>2, <2>2, <2>3 DEF Unbind
  <2>4. CASE \E k \in {"pkt", "xsess"} : Stanza(c, k, smUp)
    <3>1. PICK k \in {"pkt", "xsess"} : Stanza(c, k, smUp)
      BY <2>4
    <3>2. CASE s.active /\ \E i \in IF s.bound > 1 THEN DOMAIN s.res ELSE {1} :
                   Send(<<Control(k, c, s.res[i].smid)>>, toC2S, smUp)
      <4>1. s.res # <<>> /\ s.res \in Seq(Bres)
        BY <1>1, <3>2, SessParts DEF SessOk
      <4>2. 1 \in DOMAIN s.res
        BY <4>1
      <4>3. PICK i \in DOMAIN s.res : Send(<<Control(k, c, s.res[i].smid)>>, toC2S, smUp)
        BY <3>2, <4>2
      <4>4. QED
        BY <1>2, <2>2, <3>1, <4>3
    <3>3. QED
      BY <2>1, <3>1, <3>2 DEF Stanza
  <2>5. CASE EndStream(c)
    BY <2>1, <2>5 DEF EndStream, path
  <2>6. QED
    BY <2>3, <2>4, <2>5
<1>6. QED
  BY <1>3, <1>4, <1>5 DEF Calm

(* The connection is closed.                                               *)
LEMMA LeaveCalm ==
    ASSUME SessInv, smUp, MaxRes <= 1, NEW c \in Fds, ClientInv(c), Disconnect(c, smUp)
    PROVE  Calm(c)
<1> DEFINE s == sess[c]
           es == [i \in DOMAIN s.res |-> Control("end", c, s.res[i].smid)]
           ms == IF s.active THEN es ELSE <<>>
<1>1. SessOk(s) /\ s \in SessRec /\ sess \in [Fds -> SessRec]
  BY InvParts
<1>2. s.state # "none" /\ SetSess(c, Blank) /\ Send(ms, toC2S, smUp) /\ used' = used
  BY DEF Disconnect
<1>3. OthersSame(c) /\ sess'[c] = Blank /\ Blank.state = "none"
  <2> DEFINE w == Blank
  <2>1. w.state = "none"
    BY DEF Blank
  <2> HIDE DEF w
  <2>2. SetSess(c, w)
    BY <1>2 DEF w
  <2>3. OthersSame(c) /\ sess'[c] = w
    BY <1>1, <1>2, <2>2, SetOthers
  <2>4. QED
    BY <2>1, <2>3 DEF w
<1>4. c \in used
  BY <1>2 DEF ClientInv, AskInv
<1>5. Steady(c)
  BY <1>2, <1>3, <1>4 DEF Steady, Fresh, Waits, AskInv
<1>6. ASSUME NEW i \in DOMAIN s.res
      PROVE  /\ Control("end", c, s.res[i].smid) \in Good /\ Ends(Control("end", c, s.res[i].smid), c, s.res[i].smid)
             /\ \A f : ~About(Control("end", c, s.res[i].smid), f)
  <2>1. Control("end", c, s.res[i].smid) \in Good
    BY SmIdOf, PlainGood DEF Kinds
  <2>2. Ends(Control("end", c, s.res[i].smid), c, s.res[i].smid)
    BY DEF Ends, Control
  <2>3. \A f : ~About(Control("end", c, s.res[i].smid), f)
    BY <2>2, AboutKinds DEF Ends
  <2>4. QED
    BY <2>1, <2>2, <2>3
<1>7. es \in Seq(Good) /\ In(es) = {Control("end", c, s.res[i].smid) : i \in DOMAIN s.res}
  <2>1. Len(s.res) \in Nat /\ DOMAIN s.res = 1..Len(s.res)
    BY <1>1, SessParts
  <2>2. es \in [1..Len(s.res) -> Good]
    BY <1>6, <2>1
  <2>3. \A i \in 1..Len(s.res) : es[i] = Control("end", c, s.res[i].smid)
    BY <2>1
  <2> HIDE DEF es
  <2>4. es \in Seq(Good) /\ Len(es) = Len(s.res)
    BY <2>1, <2>2, SeqDef
  <2>5. QED
    BY <2>1, <2>3, <2>4 DEF In
<1> HIDE DEF es
<1>8. ms \in Seq(Good) /\ \A f : Still(ms, f)
  <2>1. \A f : Still(es, f)
    BY <1>6, <1>7 DEF Still
  <2>2. QED
    BY <1>7, <2>1, NoneStill
<1>9. ASSUME NEW x, Owns(c, x) PROVE \E m \in In(ms) : Ends(m, c, x)
  <2>1. s.active /\ s.res[1].smid = x /\ 1 \in DOMAIN s.res
    BY <1>1, <1>9, OneRes DEF Owns
  <2>2. QED
    BY <1>6, <1>7, <2>1
<1>10. Adds(ms)
  BY <1>2, SendAdds
<1> HIDE DEF ms
<1>11. QED
  BY <1>3, <1>5, <1>8, <1>9, <1>10 DEF Calm

(* A bind or iq:auth.                                                      *)
LEMMA PendingNew ==
    ASSUME NEW s \in SessRec, NEW b, NEW i, b.smid = NoId, b.req = i, NEW v,
           v.res = <<b>>, v.active = s.active, ~s.active, v.result # NoResult
    PROVE  Pending(v, i) /\ v.res # <<>>
<1>1. v.res[1] = b /\ v.res # <<>>
  OBVIOUS
<1>2. QED
  BY <1>1 DEF Pending

LEMMA AskAsks ==
    ASSUME SessInv, smUp, MaxRes <= 1, Patient, NEW c \in Fds, ClientInv(c), NEW j \in Jids,
           AuthSet(c, j, smUp) \/ Bind(c, j, smUp)
    PROVE  Asks(c)
<1> DEFINE s == sess[c]
           v == sess'[c]
           r == <<"bind", j>>
<1>0. PICK i : i = <<j, now>>
  OBVIOUS
<1> DEFINE b == [jid |-> j, smid |-> NoId, req |-> i]
<1>1. SessOk(s) /\ s \in SessRec /\ sess \in [Fds -> SessRec] /\ used' = used /\ s.result = NoResult /\ i \in Ids
  BY <1>0, InvParts, IdParts DEF AuthSet, Bind
<1>2. (s.state = "stream" /\ s.res # <<>> => s.result # NoResult) /\ (s.state # "none" => c \in used)
  BY DEF ClientInv, AskInv
<1>3. s.res = <<>> /\ s.state \in {"stream", "open"} /\ ~s.active
  <2>1. CASE AuthSet(c, j, smUp)
    BY <1>1, <1>2, <2>1 DEF AuthSet
  <2>2. CASE Bind(c, j, smUp)
    <3> DEFINE n == Len(s.res)
    <3>1. n \in Nat /\ n < MaxRes /\ MaxRes <= 1 /\ MaxRes \in Nat /\ s.res \in Seq(Bres)
      BY <1>1, <2>2, SessParts, C2SAssumption DEF Bind
    <3> HIDE DEF n
    <3>2. n = 0
      BY <3>1
    <3>3. s.res = <<>>
      BY <3>1, <3>2, EmptySeq DEF n
    <3>4. QED
      BY <1>1, <2>2, <3>3 DEF Bind, SessOk
  <2>3. QED
    BY <2>1, <2>2
<1>4. /\ OthersSame(c) /\ v.res = <<b>> /\ v.result = r /\ v.state = s.state /\ v.active = s.active
  <2>1. CASE AuthSet(c, j, smUp)
    <3> DEFINE w == [s EXCEPT !.user = j[1], !.res = <<b>>, !.result = r]
    <3>1. SetSess(c, w)
      BY <1>0, <1>3, <2>1 DEF AuthSet
    <3>2. OthersSame(c) /\ v = w
      <4> HIDE DEF w
      <4>1. QED
        BY <1>1, <3>1, SetOthers
    <3> HIDE DEF s, v, b, r
    <3>3. QED
      BY <1>1, <3>2 DEF SessRec
  <2>2. CASE Bind(c, j, smUp)
    <3> DEFINE w == [s EXCEPT !.res = Append(@, b), !.bound = @ + 1, !.result = r]
    <3>1. SetSess(c, w)
      BY <1>0, <2>2 DEF Bind
    <3>2. OthersSame(c) /\ v = w
      <4> HIDE DEF w
      <4>1. QED
        BY <1>1, <3>1, SetOthers
    <3> HIDE DEF s, v, b, r
    <3>3. v.res = Append(s.res, b) /\ v.result = r /\ v.state = s.state /\ v.active = s.active
      BY <1>1, <3>2 DEF SessRec
    <3>4. QED
      BY <1>3, <3>2, <3>3
  <2>3. QED
    BY <2>1, <2>2
<1>5. \E m \in Good : Begin(m, c) /\ m.id = i /\ Adds(<<m>>)
  <2>1. CASE AuthSet(c, j, smUp)
    <3> DEFINE m == [Request("start", c, i) EXCEPT !.smid = NoId]
    <3>1. Send(<<m>>, toC2S, smUp)
      BY <1>0, <1>3, <2>1 DEF AuthSet
    <3>2. m \in Good /\ Begin(m, c) /\ m.id = i
      BY <1>1, StartGood DEF Asked, Begin, Request
    <3> HIDE DEF m
    <3>3. QED
      BY <3>1, <3>2, SendAdds
  <2>2. CASE Bind(c, j, smUp)
    <3> DEFINE m == Request("start", c, i)
    <3>1. Send(<<m>>, toC2S, smUp)
      BY <1>0, <2>2 DEF Bind
    <3>2. m \in Good /\ Begin(m, c) /\ m.id = i
      BY <1>1, StartGood DEF Asked, Begin, Request
    <3> HIDE DEF m
    <3>3. QED
      BY <3>1, <3>2, SendAdds
  <2>3. QED
    BY <2>1, <2>2
<1>6. b.smid = NoId /\ b.req = i /\ r # NoResult
  BY DEF NoResult
<1> HIDE DEF b, r
<1>7. Pending(v, i) /\ v.res # <<>>
  BY <1>1, <1>3, <1>4, <1>6, PendingNew
<1>8. Waits(c, i)'
  BY <1>7 DEF Waits
<1>9. Fresh(c) /\ ~(Fresh(c)')
  BY <1>1, <1>2, <1>3, <1>7 DEF Fresh
<1>10. AskInv(c)'
  BY <1>1, <1>2, <1>3, <1>4, <1>6 DEF AskInv
<1>11. QED
  BY <1>4, <1>5, <1>8, <1>9, <1>10 DEF Asks

LEMMA ClientCalm ==
    ASSUME SessInv, smUp, MaxRes <= 1, Patient, ~Reuse, NEW c \in Fds, ClientInv(c), Client(c)
    PROVE  (Calm(c) \/ Asks(c)) /\ UNCHANGED <<sm, smUp, link>>
<1>1. UNCHANGED <<sm, smUp, link>>
  BY ClientDoes
<1>2. Calm(c) \/ Asks(c)
  BY IdleCalm, MildCalm, LeaveCalm, AskAsks DEF Client
<1>3. QED
  BY <1>1, <1>2

-----------------------------------------------------------------------------
(* What a client's step keeps                                              *)

(* All of OrphanInv but that the sessions are accounted for.               *)
Rest == (\A f \in Fds : ClientInv(f)) /\ OneEach /\ NoneDown

LEMMA SameLives ==
    ASSUME UNCHANGED sm
    PROVE  (\A f : Lives(f)' <=> Lives(f)) /\ (OneEach => OneEach') /\ \A j : (Live(j)' <=> Live(j)) /\ SmId(j)' = SmId(j)
<1>1. \A j : (Live(j)' <=> Live(j)) /\ SmId(j)' = SmId(j)
  BY DEF Live, SmId
<1>2. QED
  BY <1>1 DEF Lives, OneEach

LEMMA AddsLess ==
    ASSUME SessInv, NEW ms \in Seq(Good), Adds(ms), NEW f, Still(ms, f)
    PROVE  Less(toSM', toSM, f) /\ Less(toC2S', toC2S, f)
<1> DEFINE q == toSM
<1>1. q \in Seq(Good) /\ toC2S' = toC2S /\ (toSM' = q \o ms \/ toSM' = q)
  BY InvParts DEF Adds
<1>2. Less(q, q, f) /\ Less(toC2S, toC2S, f)
  BY LessSame
<1> HIDE DEF q
<1>3. Less(q \o ms, q, f)
  BY <1>1, <1>2, LessConcat
<1>4. QED
  BY <1>1, <1>2, <1>3 DEF q

LEMMA AddsIn ==
    ASSUME SessInv, NEW ms \in Seq(Good), Adds(ms)
    PROVE  /\ In(toSM) \subseteq In(toSM') /\ In(toC2S') = In(toC2S)
           /\ link = "up" => In(toSM') = In(toSM) \cup In(ms)
<1> DEFINE q == toSM
           u == q \o ms
<1>1. In(u) = In(q) \cup In(ms)
  BY InvParts, InConcat
<1>2. toC2S' = toC2S /\ (toSM' = u \/ toSM' = q) /\ (link = "up" => toSM' = u)
  BY DEF Adds
<1> HIDE DEF q, u
<1>3. QED
  BY <1>1, <1>2 DEF q

LEMMA OneAccounted ==
    ASSUME SessInv, AllAccounted, NEW j \in Jids, Live(j), sm'[j] = sm[j],
           \A f \in Fds, x \in Ids : f = sm[j].fd /\ x = SmId(j) /\ Accounted(f, x) => Accounted(f, x)'
    PROVE  Accounted(sm[j].fd, SmId(j))'
<1>1. PICK f \in Fds, x \in Ids : f = sm[j].fd /\ x = SmId(j)
  BY LiveParts
<1>2. Accounted(f, x)
  BY <1>1 DEF AllAccounted
<1>3. Accounted(f, x)'
  BY <1>1, <1>2
<1>4. f = sm'[j].fd /\ x = SmId(j)'
  BY <1>1 DEF SmId
<1>5. QED
  BY <1>3, <1>4 DEF Accounted, Owns

LEMMA SameAccounted ==
    ASSUME SessInv, AllAccounted, UNCHANGED sm, \A f \in Fds, x \in Ids : Accounted(f, x) => Accounted(f, x)'
    PROVE  AllAccounted'
<1> SUFFICES ASSUME NEW j \in Jids, Live(j)' PROVE Accounted(sm[j].fd, SmId(j))'
  BY DEF AllAccounted
<1>1. Live(j)
  BY SameLives
<1>2. QED
  BY <1>1, OneAccounted

LEMMA CalmKeeps ==
    ASSUME SessInv, OrphanInv, NEW c \in Fds, Calm(c), UNCHANGED sm
    PROVE  Rest' /\ (link = "up" => AllAccounted')
<1>1. PICK ms \in Seq(Good) :
          /\ Adds(ms) /\ \A f : Still(ms, f)
          /\ \A x : Owns(c, x) => Owns(c, x)' \/ \E m \in In(ms) : Ends(m, c, x)
  BY DEF Calm
<1>2. \A f \in Fds : ClientInv(f)'
  <2> SUFFICES ASSUME NEW f \in Fds PROVE ClientInv(f)'
    OBVIOUS
  <2>1. ClientInv(f)
    BY DEF OrphanInv
  <2>2. Steady(f)
    BY <2>1, SameSteady DEF Calm, OthersSame
  <2>3. Less(toSM', toSM, f) /\ Less(toC2S', toC2S, f)
    BY <1>1, AddsLess
  <2>4. Lives(f)' => Lives(f)
    BY SameLives
  <2>5. QED
    BY <2>1, <2>2, <2>3, <2>4, KeepClient
<1>3. /\ In(toSM) \subseteq In(toSM') /\ In(toC2S') = In(toC2S)
      /\ link = "up" => In(toSM') = In(toSM) \cup In(ms)
  BY <1>1, AddsIn
<1>4. OneEach' /\ NoneDown'
  BY <1>3, SameLives DEF OrphanInv, NoneDown
<1>5. ASSUME link = "up", NEW f \in Fds, NEW x \in Ids, Accounted(f, x) PROVE Accounted(f, x)'
  <2>1. Owns(f, x) => Owns(f, x)' \/ \E m \in In(ms) : Ends(m, f, x)
    <3>1. CASE f = c
      BY <1>1, <3>1
    <3>2. CASE f # c
      BY <3>2 DEF Calm, OthersSame, Owns
    <3>3. QED
      BY <3>1, <3>2
  <2>2. QED
    BY <1>3, <1>5, <2>1 DEF Accounted
<1>6. link = "up" => AllAccounted'
  BY <1>5, SameAccounted DEF OrphanInv
<1>7. QED
  BY <1>2, <1>4, <1>6 DEF Rest

LEMMA AsksKeep ==
    ASSUME SessInv, OrphanInv, NEW c \in Fds, Asks(c), UNCHANGED sm
    PROVE  Rest' /\ (link = "up" => AllAccounted')
<1>1. PICK m \in Good : Begin(m, c) /\ Adds(<<m>>) /\ Waits(c, m.id)'
  BY DEF Asks
<1>2. ClientInv(c) /\ Fresh(c) /\ ~(Fresh(c)') /\ AskInv(c)' /\ <<m>> \in Seq(Good)
  BY DEF OrphanInv, Asks
<1>3. ~Lives(c) /\ \A e \in In(toSM) \cup In(toC2S) : ~About(e, c)
  BY <1>2 DEF ClientInv, UnseenInv
<1>4. \A e : (Begin(e, c) => About(e, c)) /\ (Over(e, c) => About(e, c))
  BY DEF About
<1>5. /\ In(toSM) \subseteq In(toSM') /\ In(toC2S') = In(toC2S) /\ In(toSM') \subseteq In(toSM) \cup {m}
  <2> DEFINE q == toSM
             u == q \o <<m>>
  <2>1. In(u) = In(q) \cup In(<<m>>)
    BY <1>2, InvParts, InConcat
  <2>2. toC2S' = toC2S /\ (toSM' = u \/ toSM' = q)
    BY <1>1 DEF Adds
  <2> HIDE DEF q, u
  <2>3. QED
    BY <2>1, <2>2, InOne DEF q
<1>6. ClientInv(c)'
  <2>1. UnseenInv(c)' /\ AskInv(c)'
    BY <1>2 DEF UnseenInv
  <2>2. WaitInv(c)'
    BY <1>1, <1>3, <1>4, <1>5 DEF WaitInv
  <2>3. OnceInv(c)'
    <3> DEFINE q == toSM
    <3>1. q \in Seq(Good) /\ (\A e \in In(q) : ~Begin(e, c)) /\ (toSM' = q \o <<m>> \/ toSM' = q) /\ toC2S' = toC2S
      BY <1>1, <1>3, <1>4, InvParts DEF Adds
    <3>2. Once(q, c) /\ Once(toC2S, c)
      BY <1>2 DEF ClientInv, OnceInv
    <3> HIDE DEF q
    <3>3. Once(q \o <<m>>, c)
      BY <3>1, OnceAppend
    <3>4. Once(toSM', c) /\ Once(toC2S', c)
      BY <3>1, <3>2, <3>3
    <3>5. QED
      BY <3>4 DEF OnceInv
  <2>4. StartInv(c)' /\ OverInv(c)'
    BY <1>3, <1>4, <1>5, SameLives DEF StartInv, OverInv
  <2>5. QED
    BY <2>1, <2>2, <2>3, <2>4 DEF ClientInv
<1>7. ASSUME NEW f \in Fds, f # c PROVE ClientInv(f)'
  <2>1. ClientInv(f)
    BY DEF OrphanInv
  <2>2. Steady(f)
    BY <1>7, <2>1, SameSteady DEF Asks, OthersSame
  <2>3. Still(<<m>>, f)
    BY <1>1, <1>7, AboutKinds, StillOne DEF Begin
  <2>4. Less(toSM', toSM, f) /\ Less(toC2S', toC2S, f)
    BY <1>1, <1>2, <2>3, AddsLess
  <2>5. Lives(f)' => Lives(f)
    BY SameLives
  <2>6. QED
    BY <2>1, <2>2, <2>4, <2>5, KeepClient
<1>8. OneEach' /\ NoneDown'
  BY <1>5, SameLives DEF OrphanInv, NoneDown
<1>9. ASSUME NEW f \in Fds, NEW x \in Ids, Accounted(f, x) PROVE Accounted(f, x)'
  <2>1. Owns(f, x) => Owns(f, x)'
    <3>1. CASE f = c
      BY <1>2, <3>1, FreshParts DEF Owns
    <3>2. CASE f # c
      BY <3>2 DEF Asks, OthersSame, Owns
    <3>3. QED
      BY <3>1, <3>2
  <2>2. QED
    BY <1>5, <1>9, <2>1 DEF Accounted
<1>10. AllAccounted'
  BY <1>9, SameAccounted DEF OrphanInv
<1>11. QED
  BY <1>6, <1>7, <1>8, <1>10 DEF Rest

(* While the link is down the last thing under way ends every session.     *)
LEMMA DownAccounted == ~SMMayFail /\ SessInv /\ LinkInv /\ link = "down" => AllAccounted
<1> SUFFICES ASSUME ~SMMayFail, SessInv, LinkInv, link = "down", NEW j \in Jids, Live(j)
             PROVE  Accounted(sm[j].fd, SmId(j))
  BY DEF AllAccounted
<1> DEFINE n == Len(toSM)
<1>1. toSM # <<>> /\ toSM[n].kind = "c2s down" /\ toSM \in Seq(Good)
  BY InvParts DEF LinkInv
<1>2. n \in 1..n
  <2>1. n \in Nat \ {0}
    BY <1>1, TailParts
  <2> HIDE DEF n
  <2>2. QED
    BY <2>1
<1>3. toSM[n] \in In(toSM)
  BY <1>2 DEF In
<1>4. QED
  BY <1>1, <1>3 DEF Accounted

-----------------------------------------------------------------------------
(* What c2s reads                                                          *)

(* Nothing begins; if it was to, the sm is told to end it.                 *)
ReadCalm(m, in) ==
    /\ OthersSame(m.fd) /\ Steady(m.fd) /\ toC2S' = in
    /\ \A x : Owns(m.fd, x) => Owns(m.fd, x)' \/ Over(m, m.fd)
    /\ \E ms \in Seq(Good) :
          /\ toSM' = toSM \o ms /\ \A f : Still(ms, f)
          /\ \A x : Starts(m, m.fd, x) => \E e \in In(ms) : Ends(e, m.fd, x)

ReadStart(m, in) ==
    /\ OthersSame(m.fd) /\ toC2S' = in /\ toSM' = toSM
    /\ Begin(m, m.fd) /\ ~(Fresh(m.fd)') /\ AskInv(m.fd)' /\ Owns(m.fd, m.smid)'

LEMMA StartedActive ==
    ASSUME NEW s, SessOk(s), NEW i \in DOMAIN s.res, NEW x, s.sasl \/ s.result # NoResult
    PROVE  AfterStart(s, i, x).active
<1> DEFINE q2 == [s.res EXCEPT ![i].smid = x, ![i].req = NoId]
           a == s.sasl \/ s.result # NoResult \/ s.active
           o == [s EXCEPT !.res = q2, !.active = a, !.result = NoResult]
           v == AfterStart(s, i, x)
<1>1. s \in SessRec
  BY DEF SessOk
<1>2. v = IF s.sasl THEN o ELSE [o EXCEPT !.state = "open"]
  BY DEF AfterStart
<1>3. a = TRUE
  BY <1>1, SessParts
<1> HIDE DEF q2, a
<1>4. o.active = a /\ [o EXCEPT !.state = "open"].active = a
  BY <1>1 DEF SessRec
<1>5. QED
  BY <1>2, <1>3, <1>4

(* The packet is dropped.                                                  *)
LEMMA DropCalm ==
    ASSUME NEW m, NEW in, Reading(m, in), ClientInv(m.fd), used' = used, \A f \in Fds : sess'[f] = sess[f],
           toC2S' = in, toSM' = toSM, m.kind # "started"
    PROVE  ReadCalm(m, in)
<1>1. m.fd \in Fds /\ toSM \in Seq(Good)
  BY ReadParts
<1>2. Steady(m.fd) /\ OthersSame(m.fd)
  BY <1>1, SameSteady DEF OthersSame
<1>3. \A x : Owns(m.fd, x) => Owns(m.fd, x)'
  BY <1>1 DEF Owns
<1>4. toSM' = toSM \o <<>> /\ <<>> \in Seq(Good)
  BY <1>1, ConcatEmptySeq
<1>5. \A x : ~Starts(m, m.fd, x)
  BY DEF Starts
<1>6. QED
  BY <1>2, <1>3, <1>4, <1>5, NoneStill DEF ReadCalm

(* The sm is told to end the session.                                      *)
LEMMA TellCalm ==
    ASSUME NEW m, NEW in, Reading(m, in), ClientInv(m.fd), used' = used, smUp, link = "up", Tell(m, in, smUp)
    PROVE  ReadCalm(m, in)
<1> DEFINE e == Control("end", m.fd, m.smid)
<1>1. m.fd \in Fds /\ sess' = sess
  BY ReadParts DEF Tell
<1>2. Steady(m.fd) /\ OthersSame(m.fd)
  BY <1>1, SameSteady DEF OthersSame
<1>3. \A x : Owns(m.fd, x) => Owns(m.fd, x)'
  BY <1>1 DEF Owns
<1>4. e \in Good /\ e.kind = "end" /\ Ends(e, m.fd, m.smid)
  BY ReadParts, MsgParts, PlainGood DEF Kinds, Control, Ends
<1>5. toSM' = toSM \o <<e>> /\ toC2S' = in
  BY DEF Tell, Send
<1> HIDE DEF e
<1>6. <<e>> \in Seq(Good) /\ (\A f : Still(<<e>>, f)) /\ e \in In(<<e>>)
  BY <1>4, StillAsked, InOne
<1>7. \A x : Starts(m, m.fd, x) => Ends(e, m.fd, x)
  BY <1>4 DEF Starts, Ends
<1>8. QED
  BY <1>2, <1>3, <1>5, <1>6, <1>7 DEF ReadCalm

(* As Handled, with what c2s knows of the descriptor.                      *)
Reads(m, in) ==
    \/ Presence(m, in)
    \/ /\ m.kind \notin {"sm up", "sm down"}
       /\ \/ Unknown(m, in, smUp)
          \/ Leftover(m, in)
          \/ /\ sess[m.fd].state \in {"stream", "open", "closing"}
             /\ \/ RouteError(m, in)
                \/ NoSmId(m, in)
                \/ NoResource(m, in, smUp)
                \/ ForResource(m, in)

(* What holds when c2s reads m.                                            *)
Comes(m, in) ==
    /\ Reading(m, in) /\ ClientInv(m.fd) /\ m \in In(toC2S) /\ m.kind # "sm down"
    /\ used' = used /\ smUp /\ link = "up" /\ MaxRes <= 1

LEMMA ComesParts ==
    ASSUME NEW m, NEW in, Comes(m, in)
    PROVE  /\ Reading(m, in) /\ ClientInv(m.fd) /\ used' = used /\ smUp /\ link = "up" /\ MaxRes <= 1
           /\ m \in Good /\ m.fd \in Fds /\ SessOk(sess[m.fd]) /\ sess[m.fd] \in SessRec /\ sess \in [Fds -> SessRec]
           /\ sess[m.fd].state # "none" => m.fd \in used
           /\ m.kind = "started" => m.smid \in Ids /\ m.smid # NoId /\ m.id # NoId
<1>1. /\ Reading(m, in) /\ ClientInv(m.fd) /\ used' = used /\ smUp /\ link = "up" /\ MaxRes <= 1
  BY DEF Comes
<1>2. m \in Good /\ m.fd \in Fds /\ SessOk(sess[m.fd]) /\ sess[m.fd] \in SessRec /\ sess \in [Fds -> SessRec]
  BY <1>1, ReadParts DEF ClientsOk
<1>3. QED
  BY <1>1, <1>2, MsgParts, IdParts DEF ClientInv, AskInv

(* The answer to a start finds a client that waits for it, or none.        *)
LEMMA StartedAwaited ==
    ASSUME NEW m, NEW in, Comes(m, in), m.kind = "started"
    PROVE  /\ sess[m.fd].state # "new"
           /\ sess[m.fd].state # "none" => Pending(sess[m.fd], m.id)
<1>1. Begin(m, m.fd) /\ About(m, m.fd) /\ m \in In(toC2S)
  BY DEF Comes, Begin, About
<1>2. ~Fresh(m.fd) /\ Waits(m.fd, m.id)
  BY <1>1, ComesParts DEF ClientInv, UnseenInv, WaitInv
<1>3. sess[m.fd].state # "new"
  BY <1>2, ComesParts DEF Fresh, SessOk, Early
<1>4. QED
  BY <1>2, <1>3 DEF Waits

LEMMA RouteErrorCalm ==
    ASSUME NEW m, NEW in, Comes(m, in), sess[m.fd].state # "none", RouteError(m, in)
    PROVE  ReadCalm(m, in)
<1> DEFINE s == sess[m.fd]
           w == Closing(s)
<1>1. SetSess(m.fd, w) /\ toC2S' = in /\ toSM' = toSM /\ m.kind # "started"
  BY DEF RouteError
<1>2. Milder(s, w)
  BY ComesParts, ClosingMilder
<1> HIDE DEF w
<1>3. OthersSame(m.fd) /\ sess'[m.fd] = w
  BY <1>1, ComesParts, SetOthers
<1>4. Steady(m.fd) /\ \A x : Owns(m.fd, x) => Owns(m.fd, x)'
  BY <1>2, <1>3, ComesParts, MildSteady
<1>5. toSM' = toSM \o <<>> /\ <<>> \in Seq(Good)
  BY <1>1, ComesParts, ReadParts, ConcatEmptySeq
<1>6. \A x : ~Starts(m, m.fd, x)
  BY <1>1 DEF Starts
<1>7. QED
  BY <1>1, <1>3, <1>4, <1>5, <1>6, NoneStill DEF ReadCalm

LEMMA EndedCalm ==
    ASSUME NEW m, NEW in, Comes(m, in), sess[m.fd].state # "none", NEW i \in DOMAIN sess[m.fd].res, Ended(m, i, in)
    PROVE  ReadCalm(m, in)
<1> DEFINE s == sess[m.fd]
           w == AfterEnd(s, i)
<1>1. SetSess(m.fd, w) /\ toC2S' = in /\ toSM' = toSM /\ m.kind \in {"ended", "replaced"} /\ s.active
  BY DEF Ended, AfterEnd
<1>2. w.state = "closing" /\ w.res = s.res
  BY ComesParts, EndedOff
<1> HIDE DEF w
<1>3. OthersSame(m.fd) /\ sess'[m.fd] = w
  BY <1>1, ComesParts, SetOthers
<1>4. Steady(m.fd)
  <2>1. \A y : ~Waits(m.fd, y)
    BY <1>1 DEF Waits, Pending
  <2>2. Fresh(m.fd)' => Fresh(m.fd)
    BY <1>2, <1>3, ComesParts DEF Fresh
  <2>3. AskInv(m.fd)'
    BY <1>2, <1>3, ComesParts DEF AskInv
  <2>4. QED
    BY <2>1, <2>2, <2>3 DEF Steady
<1>5. toSM' = toSM \o <<>> /\ <<>> \in Seq(Good)
  BY <1>1, ComesParts, ReadParts, ConcatEmptySeq
<1>6. Over(m, m.fd) /\ \A x : ~Starts(m, m.fd, x)
  BY <1>1 DEF Starts, Over
<1>7. QED
  BY <1>1, <1>3, <1>4, <1>5, <1>6, NoneStill DEF ReadCalm

LEMMA StartedStart ==
    ASSUME NEW m, NEW in, Comes(m, in), sess[m.fd].state # "none", NEW i \in DOMAIN sess[m.fd].res, Started(m, i, in)
    PROVE  ReadStart(m, in)
<1> DEFINE s == sess[m.fd]
           w == AfterStart(s, i, m.smid)
<1>1. SetSess(m.fd, w) /\ toC2S' = in /\ toSM' = toSM /\ m.kind = "started" /\ Expected(s.res[i], m)
  BY DEF Started, AfterStart, StartedId
<1>2. s.sasl \/ s.result # NoResult
  BY <1>1, StartedAwaited DEF Pending
<1>3. w.active /\ w.res[1].smid = m.smid /\ SessOk(w)
  BY <1>1, <1>2, ComesParts, StartedActive, StartedHas, StartedOk, ReadParts
<1> HIDE DEF w
<1>4. w.res # <<>> /\ w.state \notin {"none", "new", "stream"}
  BY <1>3 DEF SessOk, Early
<1>5. OthersSame(m.fd) /\ sess'[m.fd] = w
  BY <1>1, ComesParts, SetOthers
<1>6. ~(Fresh(m.fd)') /\ AskInv(m.fd)' /\ Owns(m.fd, m.smid)'
  BY <1>3, <1>4, <1>5, ComesParts DEF Fresh, AskInv, Owns
<1>7. Begin(m, m.fd)
  BY <1>1 DEF Begin
<1>8. QED
  BY <1>1, <1>5, <1>6, <1>7 DEF ReadStart

LEMMA ReadsOne ==
    ASSUME NEW m, NEW in, Comes(m, in), Reads(m, in)
    PROVE  ReadCalm(m, in) \/ ReadStart(m, in)
<1> DEFINE s == sess[m.fd]
<1>1. CASE UNCHANGED sess /\ toC2S' = in /\ toSM' = toSM /\ m.kind # "started"
  BY <1>1, ComesParts, DropCalm
<1>2. CASE Tell(m, in, smUp)
  BY <1>2, ComesParts, TellCalm
<1>3. CASE Ignore(in) /\ m.kind # "started"
  BY <1>1, <1>3 DEF Ignore
<1>4. CASE Presence(m, in)
  <2>1. m.kind = "sm up" /\ UNCHANGED sess /\ toC2S' = in /\ toSM' = toSM
    BY <1>4 DEF Presence, Comes
  <2>2. QED
    BY <1>1, <2>1
<1>5. CASE Unknown(m, in, smUp)
  BY <1>2, <1>3, <1>5 DEF Unknown
<1>6. CASE Leftover(m, in)
  BY <1>3, <1>6, StartedAwaited DEF Leftover
<1>7. CASE NoSmId(m, in)
  BY <1>3, <1>7, ComesParts DEF NoSmId, HasSmId
<1>8. CASE NoResource(m, in, smUp)
  BY <1>2, <1>3, <1>8 DEF NoResource
<1>9. CASE s.state # "none" /\ ForResource(m, in)
  <2> DEFINE i == Found(s, m)
  <2>1. i \in DOMAIN s.res /\ (Ended(m, i, in) \/ Started(m, i, in) \/ Unexpected(m, i, in) \/ ToClient(m, in))
    BY <1>9, ComesParts, FoundIn DEF ForResource
  <2> HIDE DEF i
  <2>2. CASE Ended(m, i, in)
    BY <1>9, <2>1, <2>2, EndedCalm
  <2>3. CASE Started(m, i, in)
    BY <1>9, <2>1, <2>3, StartedStart
  <2>4. CASE Unexpected(m, i, in)
    <3>1. m.kind # "started"
      <4> SUFFICES ASSUME m.kind = "started" PROVE FALSE
        OBVIOUS
      <4>1. ~Expected(s.res[i], m)
        BY <2>4 DEF Unexpected
      <4>2. Pending(s, m.id) /\ i = 1 /\ m.id # NoId
        BY <1>9, <2>1, StartedAwaited, ComesParts, OneRes
      <4>3. QED
        BY <4>1, <4>2 DEF Expected, Pending
    <3>2. QED
      BY <1>3, <2>4, <3>1 DEF Unexpected
  <2>5. CASE ToClient(m, in)
    BY <1>1, <2>5 DEF ToClient, Ignore
  <2>6. QED
    BY <2>1, <2>2, <2>3, <2>4, <2>5
<1>10. QED
  BY <1>4, <1>5, <1>6, <1>7, <1>8, <1>9, RouteErrorCalm DEF Reads

(* A client that waits, or has left, has no active session.                *)
LEMMA WaitsIdle ==
    ASSUME SessInv, NEW f \in Fds, NEW i, Waits(f, i)
    PROVE  ~sess[f].active
BY InvParts DEF Waits, Pending, SessOk, Early

LEMMA ReadCalmKeeps ==
    ASSUME SessInv, OrphanInv, toC2S # <<>>, NEW m \in Good, m = Head(toC2S), ReadCalm(m, Tail(toC2S)), UNCHANGED sm
    PROVE  Rest' /\ AllAccounted'
<1> DEFINE q == toC2S
           t == Tail(q)
<1>1. PICK ms \in Seq(Good) :
          /\ toSM' = toSM \o ms /\ \A f : Still(ms, f)
          /\ \A x : Starts(m, m.fd, x) => \E e \in In(ms) : Ends(e, m.fd, x)
  BY DEF ReadCalm
<1>2. q \in Seq(Good) /\ toSM \in Seq(Good) /\ m.fd \in Fds /\ toC2S' = t
  BY InvParts, MsgParts DEF ReadCalm
<1>3. m \in In(q) /\ In(t) \subseteq In(q) /\ \A e \in In(q) : e = m \/ e \in In(t)
  BY <1>2, InTail
<1>4. In(toSM') = In(toSM) \cup In(ms)
  <2> DEFINE u == toSM
             v == u \o ms
  <2>1. In(v) = In(u) \cup In(ms)
    BY <1>2, InConcat
  <2>2. toSM' = v
    BY <1>1
  <2> HIDE DEF u, v
  <2>3. QED
    BY <2>1, <2>2 DEF u
<1>5. ASSUME NEW f \in Fds PROVE ClientInv(f)'
  <2>1. ClientInv(f)
    BY DEF OrphanInv
  <2>2. Steady(f)
    BY <2>1, SameSteady DEF ReadCalm, OthersSame
  <2>3. Less(toC2S', toC2S, f)
    BY <1>2, LessTail
  <2>4. Less(toSM', toSM, f)
    <3>1. Less(toSM, toSM, f) /\ Still(ms, f)
      BY <1>1, LessSame
    <3>2. Less(toSM \o ms, toSM, f)
      BY <1>2, <3>1, LessConcat
    <3>3. QED
      BY <1>1, <3>2
  <2>5. Lives(f)' => Lives(f)
    BY SameLives
  <2>6. QED
    BY <2>1, <2>2, <2>3, <2>4, <2>5, KeepClient
<1>6. OneEach' /\ NoneDown'
  BY <1>2, <1>3, SameLives DEF OrphanInv, NoneDown
<1>7. AllAccounted'
  <2> SUFFICES ASSUME NEW j \in Jids, Live(j)' PROVE Accounted(sm[j].fd, SmId(j))'
    BY DEF AllAccounted
  <2>1. Live(j)
    BY SameLives
  <2>2. ASSUME NEW f \in Fds, NEW x \in Ids, f = sm[j].fd, Accounted(f, x) PROVE Accounted(f, x)'
    <3>1. Lives(f)
      BY <2>1, <2>2 DEF Lives
    <3>2. ~Over(m, f)
      BY <1>3, <3>1 DEF OrphanInv, ClientInv, OverInv
    <3>3. Owns(f, x) => Owns(f, x)'
      <4>1. CASE f = m.fd
        BY <3>2, <4>1 DEF ReadCalm
      <4>2. CASE f # m.fd
        BY <4>2 DEF ReadCalm, OthersSame, Owns
      <4>3. QED
        BY <4>1, <4>2
    <3>4. Starts(m, f, x) => f = m.fd /\ \E e \in In(ms) : Ends(e, f, x)
      BY <1>1 DEF Starts
    <3>5. QED
      BY <1>2, <1>3, <1>4, <2>2, <3>3, <3>4 DEF Accounted
  <2>3. QED
    BY <2>1, <2>2, OneAccounted DEF OrphanInv
<1>8. QED
  BY <1>5, <1>6, <1>7 DEF Rest

LEMMA ReadStartKeeps ==
    ASSUME SessInv, OrphanInv, toC2S # <<>>, NEW m \in Good, m = Head(toC2S), ReadStart(m, Tail(toC2S)), UNCHANGED sm
    PROVE  Rest' /\ AllAccounted'
<1> DEFINE q == toC2S
           t == Tail(q)
           g == m.fd
<1>1. /\ q \in Seq(Good) /\ toSM \in Seq(Good) /\ g \in Fds /\ toC2S' = t /\ toSM' = toSM
      /\ Begin(m, g) /\ About(m, g) /\ ~(Fresh(g)') /\ AskInv(g)' /\ Owns(g, m.smid)'
  BY InvParts, MsgParts DEF ReadStart, About
<1>2. m \in In(q) /\ In(t) \subseteq In(q) /\ \A e \in In(q) : e = m \/ e \in In(t)
  BY <1>1, InTail
<1>3. ClientInv(g)
  BY <1>1 DEF OrphanInv
<1>4. ClientInv(g)'
  <2>1. Once(t, g) /\ \A e \in In(t) : ~Begin(e, g)
    BY <1>1, <1>3, OnceTail DEF ClientInv, OnceInv
  <2>2. \A e \in In(toSM) : ~Begin(e, g)
    BY <1>1, <1>2, <1>3 DEF ClientInv, StartInv
  <2>3. OverInv(g) /\ Once(toSM, g)
    BY <1>3 DEF ClientInv, OnceInv
  <2>4. UnseenInv(g)' /\ WaitInv(g)' /\ StartInv(g)'
    BY <1>1, <2>1, <2>2 DEF UnseenInv, WaitInv, StartInv
  <2>5. OverInv(g)'
    BY <1>1, <1>2, <2>3, SameLives DEF OverInv
  <2>6. OnceInv(g)'
    BY <1>1, <2>1, <2>3 DEF OnceInv
  <2>7. QED
    BY <1>1, <2>4, <2>5, <2>6 DEF ClientInv
<1>5. ASSUME NEW f \in Fds, f # g PROVE ClientInv(f)'
  <2>1. ClientInv(f)
    BY DEF OrphanInv
  <2>2. Steady(f)
    BY <1>5, <2>1, SameSteady DEF ReadStart, OthersSame
  <2>3. Less(toC2S', toC2S, f) /\ Less(toSM', toSM, f)
    BY <1>1, LessTail, LessSame
  <2>4. Lives(f)' => Lives(f)
    BY SameLives
  <2>5. QED
    BY <2>1, <2>2, <2>3, <2>4, KeepClient
<1>6. OneEach' /\ NoneDown'
  BY <1>1, <1>2, SameLives DEF OrphanInv, NoneDown
<1>7. ASSUME NEW f \in Fds, NEW x \in Ids, Accounted(f, x) PROVE Accounted(f, x)'
  <2>1. Owns(f, x) => Owns(f, x)'
    <3>1. CASE f = g
      <4>1. Waits(g, m.id)
        BY <1>1, <1>2, <1>3 DEF ClientInv, WaitInv
      <4>2. ~Owns(f, x)
        BY <1>1, <3>1, <4>1, WaitsIdle DEF Owns
      <4>3. QED
        BY <4>2
    <3>2. CASE f # g
      BY <3>2 DEF ReadStart, OthersSame, Owns
    <3>3. QED
      BY <3>1, <3>2
  <2>2. Starts(m, f, x) => Owns(f, x)'
    BY <1>1 DEF Starts
  <2>3. QED
    BY <1>1, <1>2, <1>7, <2>1, <2>2 DEF Accounted
<1>8. AllAccounted'
  BY <1>7, SameAccounted DEF OrphanInv
<1>9. QED
  BY <1>4, <1>5, <1>6, <1>8 DEF Rest

LEMMA FromRouterOrphan ==
    ASSUME SessInv, OrphanInv, smUp, MaxRes <= 1, FromRouter
    PROVE  Rest' /\ AllAccounted'
<1>1. PICK m : m = Head(toC2S)
  OBVIOUS
<1>2. PICK in : in = Tail(toC2S)
  OBVIOUS
<1>3. toC2S # <<>> /\ link = "up" /\ used' = used /\ UNCHANGED sm /\ Reads(m, in)
  BY <1>1, <1>2 DEF FromRouter, C2SStep, Reads
<1>4. m \in Good /\ in \in Seq(Good) /\ m \in In(toC2S) /\ m.fd \in Fds
  BY <1>1, <1>2, <1>3, InvParts, SeqParts, InTail, MsgParts
<1>5. Comes(m, in)
  BY <1>3, <1>4 DEF Comes, Reading, OrphanInv, NoneDown
<1>6. ReadCalm(m, in) \/ ReadStart(m, in)
  BY <1>3, <1>5, ReadsOne
<1>7. ReadCalm(m, Tail(toC2S)) \/ ReadStart(m, Tail(toC2S))
  BY <1>2, <1>6
<1>8. QED
  BY <1>1, <1>3, <1>4, <1>7, ReadCalmKeeps, ReadStartKeeps

-----------------------------------------------------------------------------
(* What the sm does                                                        *)

(* A packet that says nothing of a session or of the sm.                   *)
Plain(e) == e \in Good /\ e.kind \notin {"start", "started", "ended", "replaced", "sm down"}

SameClients == UNCHANGED <<sess, used>>

LEMMA ReplyIn ==
    ASSUME SessInv, NEW ms \in Seq(Good), NEW o, Reply(ms, o)
    PROVE  /\ In(toC2S) \subseteq In(toC2S') /\ In(toC2S') \subseteq In(toC2S) \cup In(ms)
           /\ o => In(toC2S') = In(toC2S) \cup In(ms)
<1> DEFINE q == toC2S
           u == q \o ms
<1>1. In(u) = In(q) \cup In(ms)
  BY InvParts, InConcat
<1>2. (toC2S' = u \/ toC2S' = q) /\ (o => toC2S' = u)
  BY DEF Reply
<1> HIDE DEF q, u
<1>3. QED
  BY <1>1, <1>2 DEF q

LEMMA ReplyLess ==
    ASSUME SessInv, NEW ms \in Seq(Good), NEW o, Reply(ms, o), NEW f, Still(ms, f)
    PROVE  Less(toC2S', toC2S, f)
<1> DEFINE q == toC2S
<1>1. q \in Seq(Good) /\ (toC2S' = q \o ms \/ toC2S' = q) /\ Less(q, q, f)
  BY InvParts, LessSame DEF Reply
<1> HIDE DEF q
<1>2. Less(q \o ms, q, f)
  BY <1>1, LessConcat
<1>3. QED
  BY <1>1, <1>2 DEF q

LEMMA ReplyOnce ==
    ASSUME SessInv, NEW ms \in Seq(Good), NEW o, Reply(ms, o), NEW f, \A m \in In(ms) : ~Begin(m, f), Once(toC2S, f)
    PROVE  Once(toC2S', f)
<1> DEFINE q == toC2S
<1>1. q \in Seq(Good) /\ (toC2S' = q \o ms \/ toC2S' = q) /\ Once(q, f)
  BY InvParts DEF Reply
<1> HIDE DEF q
<1>2. Once(q \o ms, f)
  BY <1>1, OnceConcat
<1>3. QED
  BY <1>1, <1>2

(* Nothing starts or ends.                                                 *)
LEMMA PlainRest ==
    ASSUME SessInv, OrphanInv, SameClients, UNCHANGED sm, \A f : Less(toSM', toSM, f),
           UNCHANGED toC2S \/ \E e : Plain(e) /\ \E o : Reply(<<e>>, o)
    PROVE  Rest' /\ In(toC2S) \subseteq In(toC2S')
<1>1. In(toC2S) \subseteq In(toC2S') /\ NoneDown' /\ \A f : Less(toC2S', toC2S, f)
  <2>1. CASE UNCHANGED toC2S
    BY <2>1, LessSame DEF OrphanInv, NoneDown
  <2>2. CASE \E e : Plain(e) /\ \E o : Reply(<<e>>, o)
    <3>1. PICK e, o : Plain(e) /\ Reply(<<e>>, o)
      BY <2>2
    <3>2. <<e>> \in Seq(Good) /\ \A f : Still(<<e>>, f)
      <4>1. e \in Good /\ \A f : ~About(e, f)
        BY <3>1, AboutKinds DEF Plain
      <4>2. QED
        BY <4>1, StillOne
    <3>3. In(toC2S) \subseteq In(toC2S') /\ In(toC2S') \subseteq In(toC2S) \cup {e}
      BY <3>1, <3>2, ReplyIn, InOne
    <3>4. QED
      BY <3>1, <3>2, <3>3, ReplyLess DEF OrphanInv, NoneDown, Plain
  <2>3. QED
    BY <2>1, <2>2
<1>2. ASSUME NEW f \in Fds PROVE ClientInv(f)'
  <2>1. ClientInv(f)
    BY DEF OrphanInv
  <2>2. Steady(f)
    BY <2>1, SameSteady DEF SameClients
  <2>3. Lives(f)' => Lives(f)
    BY SameLives
  <2>4. QED
    BY <1>1, <2>1, <2>2, <2>3, KeepClient
<1>3. OneEach'
  BY SameLives DEF OrphanInv
<1>4. QED
  BY <1>1, <1>2, <1>3 DEF Rest

LEMMA RekindPlain ==
    ASSUME NEW m \in Good, NEW k \in {"start failed", "end failed", "pkt", "pkt failed"}
    PROVE  Plain([m EXCEPT !.kind = k])
<1>1. [m EXCEPT !.kind = k] \in Good
  BY Rekinded DEF Kinds
<1>2. [m EXCEPT !.kind = k].kind = k
  BY MsgParts DEF Msg
<1>3. QED
  BY <1>1, <1>2 DEF Plain

(* What holds when the sm reads m.                                         *)
Arrives(m) ==
    /\ SessInv /\ OrphanInv /\ toSM # <<>> /\ m = Head(toSM) /\ toSM' = Tail(toSM) /\ SameClients /\ link \in {"up", "down"}

LEMMA ArrivesParts ==
    ASSUME NEW m, Arrives(m)
    PROVE  /\ SessInv /\ OrphanInv /\ SameClients /\ m \in Good /\ m.fd \in Fds /\ m \in In(toSM)
           /\ toSM \in Seq(Good) /\ toSM # <<>> /\ m = Head(toSM) /\ toSM' = Tail(toSM)
           /\ In(toSM') \subseteq In(toSM) /\ \A f : Less(toSM', toSM, f)
<1>1. SessInv /\ OrphanInv /\ SameClients /\ toSM # <<>> /\ m = Head(toSM) /\ toSM' = Tail(toSM)
  BY DEF Arrives
<1>2. toSM \in Seq(Good) /\ m \in Good /\ m.fd \in Fds
  BY <1>1, InvParts, SeqParts, MsgParts
<1>3. QED
  BY <1>1, <1>2, InTail, LessTail

(* The sm has read a packet that is not the one that accounts for j.       *)
LEMMA SMAccounted ==
    ASSUME NEW m, Arrives(m), In(toC2S) \subseteq In(toC2S'), NEW j \in Jids, Live(j), sm'[j] = sm[j],
           ~Ends(m, sm[j].fd, SmId(j)), m.kind # "c2s down"
    PROVE  Accounted(sm[j].fd, SmId(j))'
<1>1. \A e \in In(toSM) : e = m \/ e \in In(toSM')
  <2> DEFINE q == toSM
             t == Tail(q)
             hd == Head(q)
  <2>1. q \in Seq(Good) /\ q # <<>> /\ m = hd /\ toSM' = t
    BY ArrivesParts
  <2>2. \A e \in In(q) : e = hd \/ e \in In(t)
    BY <2>1, InTail
  <2> HIDE DEF hd, t
  <2>3. QED
    BY <2>1, <2>2
<1>2. ASSUME NEW f \in Fds, NEW x \in Ids, f = sm[j].fd, x = SmId(j), Accounted(f, x) PROVE Accounted(f, x)'
  <2>1. Owns(f, x) => Owns(f, x)'
    BY ArrivesParts DEF Owns, SameClients
  <2>2. ~Ends(m, f, x)
    BY <1>2
  <2>3. \A e \in In(toSM) : Ends(e, f, x) \/ e.kind = "c2s down" => e \in In(toSM')
    BY <1>1, <2>2
  <2>4. QED
    BY <1>2, <2>1, <2>3 DEF Accounted
<1>3. QED
  BY <1>2, OneAccounted, ArrivesParts DEF OrphanInv

LEMMA InSessOrphan ==
    ASSUME NEW m, Arrives(m), NEW o, InSess(m, o)
    PROVE  Rest' /\ AllAccounted'
<1>1. UNCHANGED sm /\ m.kind \in {"pkt", "xsess"}
  BY DEF InSess
<1>2. UNCHANGED toC2S \/ \E e : Plain(e) /\ \E p : Reply(<<e>>, p)
  BY ArrivesParts, RekindPlain DEF InSess
<1>3. Rest' /\ In(toC2S) \subseteq In(toC2S')
  BY <1>1, <1>2, ArrivesParts, PlainRest
<1>4. AllAccounted'
  <2> SUFFICES ASSUME NEW j \in Jids, Live(j)' PROVE Accounted(sm[j].fd, SmId(j))'
    BY DEF AllAccounted
  <2>1. Live(j) /\ sm'[j] = sm[j]
    BY <1>1, SameLives
  <2>2. ~Ends(m, sm[j].fd, SmId(j)) /\ m.kind # "c2s down"
    BY <1>1 DEF Ends
  <2>3. QED
    BY <1>3, <2>1, <2>2, SMAccounted
<1>5. QED
  BY <1>3, <1>4

LEMMA C2SGoneOrphan ==
    ASSUME NEW m, Arrives(m), C2SGone(m)
    PROVE  Rest' /\ AllAccounted'
<1>1. \A j \in Jids : ~(Live(j)')
  BY DEF C2SGone, Live
<1>2. \A f : ~(Lives(f)')
  BY <1>1 DEF Lives
<1>3. ASSUME NEW f \in Fds PROVE ClientInv(f)'
  <2>1. ClientInv(f)
    BY ArrivesParts DEF OrphanInv
  <2>2. Steady(f)
    BY <2>1, ArrivesParts, SameSteady DEF SameClients
  <2>3. Less(toC2S', toC2S, f)
    BY LessSame DEF C2SGone
  <2>4. QED
    BY <1>2, <2>1, <2>2, <2>3, ArrivesParts, KeepClient
<1>4. NoneDown'
  BY ArrivesParts DEF OrphanInv, NoneDown, C2SGone
<1>5. QED
  BY <1>1, <1>3, <1>4 DEF Rest, OneEach, AllAccounted

LEMMA EndOrphan ==
    ASSUME NEW m, Arrives(m), NEW o, SessEnd(m, o)
    PROVE  Rest' /\ AllAccounted'
<1> DEFINE k == m.smid[1]
           g == m.fd
<1>1. m.kind = "end" /\ g \in Fds /\ m.smid \in Ids \cup {NoId}
  BY ArrivesParts, MsgParts DEF SessEnd
<1>2. ASSUME NEW j \in Jids, Live(j), Ends(m, sm[j].fd, SmId(j)) PROVE Has(m.smid) /\ FromThem(m.smid, m.fd) /\ k = j
  <2>1. m.smid = SmId(j) /\ m.fd = sm[j].fd /\ SmId(j) # NoId
    BY <1>2, ArrivesParts, LiveParts DEF Ends
  <2>2. SmId(j)[1] = j
    BY DEF SmId
  <2>3. QED
    BY <1>2, <2>1, <2>2 DEF Has, FromThem
<1>3. ASSUME NEW j \in Jids, Live(j), sm'[j] = sm[j], ~Ends(m, sm[j].fd, SmId(j)), In(toC2S) \subseteq In(toC2S')
      PROVE  Accounted(sm[j].fd, SmId(j))'
  BY <1>1, <1>3, SMAccounted
<1>4. CASE /\ UNCHANGED sm /\ ~(Has(m.smid) /\ FromThem(m.smid, m.fd))
           /\ UNCHANGED toC2S \/ Reply(<<[m EXCEPT !.kind = "end failed"]>>, o)
  <2>1. UNCHANGED toC2S \/ \E e : Plain(e) /\ \E p : Reply(<<e>>, p)
    BY <1>4, ArrivesParts, RekindPlain
  <2>2. Rest' /\ In(toC2S) \subseteq In(toC2S')
    BY <1>4, <2>1, ArrivesParts, PlainRest
  <2>3. AllAccounted'
    <3> SUFFICES ASSUME NEW j \in Jids, Live(j)' PROVE Accounted(sm[j].fd, SmId(j))'
      BY DEF AllAccounted
    <3>1. Live(j) /\ sm'[j] = sm[j]
      BY <1>4, SameLives
    <3>2. QED
      BY <1>2, <1>3, <1>4, <2>2, <3>1
  <2>4. QED
    BY <2>2, <2>3
<1>5. CASE /\ Has(m.smid) /\ FromThem(m.smid, m.fd)
           /\ sm' = [sm EXCEPT ![k] = NoSession] /\ Reply(<<Control("ended", m.fd, m.smid)>>, o)
  <2> DEFINE e == Control("ended", g, m.smid)
  <2>1. e \in Good /\ e.kind = "ended" /\ e.fd = g
    BY <1>1, PlainGood DEF Kinds, Control
  <2>2. Reply(<<e>>, o)
    BY <1>5
  <2> HIDE DEF e
  <2>3. <<e>> \in Seq(Good) /\ In(<<e>>) = {e} /\ \A f : ~Begin(e, f) /\ (f # g => ~About(e, f))
    <3>1. \A f : ~Begin(e, f) /\ (f # g => ~About(e, f))
      BY <2>1 DEF Begin, Over, About
    <3>2. <<e>> \in Seq(Good) /\ In(<<e>>) = {e}
      BY <2>1, InOne
    <3>3. QED
      BY <3>1, <3>2
  <2>4. In(toC2S) \subseteq In(toC2S') /\ In(toC2S') \subseteq In(toC2S) \cup {e}
    BY <2>2, <2>3, ArrivesParts, ReplyIn
  <2>5. k \in Jids /\ Live(k) /\ sm[k].fd = g
    <3>1. m.smid \in Ids
      BY <1>1, <1>5 DEF Has
    <3>2. QED
      BY <1>5, <3>1, IdParts DEF Has, FromThem
  <2>6. \A j \in Jids : Live(j)' => Live(j) /\ sm'[j] = sm[j] /\ j # k
    <3>1. sm \in [Jids -> Sessions]
      BY ArrivesParts DEF SessInv, SMType
    <3>2. QED
      BY <1>5, <2>5, <3>1 DEF Live
  <2>7. OneEach
    BY ArrivesParts DEF OrphanInv
  <2>8. Lives(g) /\ ~(Lives(g)') /\ (\A f : Lives(f)' => Lives(f)) /\ OneEach'
    <3>1. Lives(g)
      BY <2>5 DEF Lives
    <3>2. ~(Lives(g)')
      BY <2>5, <2>6, <2>7 DEF Lives, OneEach
    <3>3. (\A f : Lives(f)' => Lives(f)) /\ OneEach'
      BY <2>6, <2>7 DEF Lives, OneEach
    <3>4. QED
      BY <3>1, <3>2, <3>3
  <2>9. ASSUME NEW f \in Fds PROVE ClientInv(f)'
    <3>1. ClientInv(f) /\ Less(toSM', toSM, f) /\ SessInv
      BY ArrivesParts DEF OrphanInv
    <3>2. CASE f # g
      <4>1. Steady(f)
        BY <3>1, ArrivesParts, SameSteady DEF SameClients
      <4>2. Less(toC2S', toC2S, f)
        BY <2>2, <2>3, <3>1, <3>2, ReplyLess DEF Still
      <4>3. QED
        BY <2>8, <3>1, <4>1, <4>2, KeepClient
    <3>3. CASE f = g
      <4>1. Once(toC2S, f) => Once(toC2S', f)
        BY <2>2, <2>3, <3>1, ReplyOnce
      <4>2. \A x \in In(toC2S') : Begin(x, f) => x \in In(toC2S)
        BY <2>3, <2>4
      <4>3. sess'[f] = sess[f] /\ (f \in used' <=> f \in used)
        BY ArrivesParts DEF SameClients
      <4>4. QED
        BY <2>8, <3>1, <3>3, <4>1, <4>2, <4>3, OverClient
    <3>4. QED
      BY <3>2, <3>3
  <2>10. NoneDown'
    BY <2>1, <2>4, ArrivesParts DEF OrphanInv, NoneDown
  <2>11. AllAccounted'
    <3> SUFFICES ASSUME NEW j \in Jids, Live(j)' PROVE Accounted(sm[j].fd, SmId(j))'
      BY DEF AllAccounted
    <3>1. Live(j) /\ sm'[j] = sm[j] /\ j # k
      BY <2>6
    <3>2. QED
      BY <1>2, <1>3, <2>4, <3>1
  <2>12. QED
    BY <2>8, <2>9, <2>10, <2>11 DEF Rest
<1>6. QED
  BY <1>4, <1>5 DEF SessEnd

(* The packets c2s is sent when session j is started, with the old session *)
(* of the same JID, if there is one, ended first.                          *)
LEMMA ReplacedParts ==
    ASSUME SessInv, NEW j \in Jids
    PROVE  /\ Replaced(j) \in Seq(Good)
           /\ \A e \in In(Replaced(j)) : Live(j) /\ e.kind = "replaced" /\ e.fd = sm[j].fd
<1>1. CASE Live(j)
  <2> DEFINE e == Control("replaced", sm[j].fd, SmId(j))
  <2>1. e \in Good /\ e.kind = "replaced" /\ e.fd = sm[j].fd
    BY <1>1, LiveParts, PlainGood DEF Kinds, Control
  <2>2. Replaced(j) = <<e>>
    BY <1>1 DEF Replaced
  <2> HIDE DEF e
  <2>3. QED
    BY <1>1, <2>1, <2>2, InOne
<1>2. CASE ~Live(j)
  <2>1. Replaced(j) = <<>>
    BY <1>2 DEF Replaced
  <2>2. QED
    BY <2>1, InOne
<1>3. QED
  BY <1>1, <1>2

LEMMA StartOrphan ==
    ASSUME NEW m, Arrives(m), NEW o \in BOOLEAN, SessStart(m, o)
    PROVE  Rest' /\ (o => AllAccounted')
<1>1. /\ m.kind = "start" /\ m.fd \in Fds /\ m.id \in Ids /\ m.id[1] \in Jids /\ SessInv /\ OrphanInv /\ m \in Good
      /\ sm \in [Jids -> Sessions] /\ now \in 1..MaxNow /\ toC2S \in Seq(Good)
  BY ArrivesParts, MsgParts, IdParts, InvParts DEF SessStart, SessInv, SMType
<1>2. ASSUME NEW j \in Jids, Live(j), sm'[j] = sm[j], In(toC2S) \subseteq In(toC2S')
      PROVE  Accounted(sm[j].fd, SmId(j))'
  <2>1. ~Ends(m, sm[j].fd, SmId(j)) /\ m.kind # "c2s down"
    BY <1>1 DEF Ends
  <2>2. QED
    BY <1>2, <2>1, SMAccounted
<1>3. CASE UNCHANGED sm /\ Reply(<<[m EXCEPT !.kind = "start failed"]>>, o)
  <2>1. \E e : Plain(e) /\ \E p : Reply(<<e>>, p)
    BY <1>1, <1>3, RekindPlain
  <2>2. Rest' /\ In(toC2S) \subseteq In(toC2S')
    BY <1>3, <2>1, ArrivesParts, PlainRest
  <2>3. AllAccounted'
    <3> SUFFICES ASSUME NEW j \in Jids, Live(j)' PROVE Accounted(sm[j].fd, SmId(j))'
      BY DEF AllAccounted
    <3>1. Live(j) /\ sm'[j] = sm[j]
      BY <1>3, SameLives
    <3>2. QED
      BY <1>2, <2>2, <3>1
  <2>4. QED
    BY <2>2, <2>3
<1>4. ASSUME NEW j \in Jids, j = m.id[1], NEW n \in 1..MaxNow, n = now, NEW g \in Fds, g = m.fd,
             NEW st \in Good, st.kind = "started", st.fd = g, st.smid = <<j, n>>, st.id = m.id,
             sm' = [sm EXCEPT ![j] = [at |-> n, fd |-> g]], Reply(Replaced(j) \o <<st>>, o)
      PROVE  Rest' /\ (o => AllAccounted')
  <2> DEFINE R == Replaced(j)
             ms == R \o <<st>>
             q == toC2S
             q2 == q \o R
  <2>1. R \in Seq(Good) /\ \A e \in In(R) : Live(j) /\ e.kind = "replaced" /\ e.fd = sm[j].fd
    BY <1>1, ReplacedParts
  <2>2. <<st>> \in Seq(Good) /\ In(<<st>>) = {st}
    BY InOne
  <2> HIDE DEF R
  <2>3. ms \in Seq(Good) /\ In(ms) = In(R) \cup {st} /\ q2 \in Seq(Good) /\ In(q2) = In(q) \cup In(R)
    <3>1. ms \in Seq(Good) /\ q2 \in Seq(Good)
      BY <1>1, <2>1, <2>2, ConcatProperties
    <3>2. In(ms) = In(R) \cup {st} /\ In(q2) = In(q) \cup In(R)
      BY ZenonT(40), <1>1, <2>1, <2>2, InConcat
    <3>3. QED
      BY <3>1, <3>2
  <2>4. Reply(ms, o) /\ (toC2S' = q \/ toC2S' = q2 \o <<st>>)
    <3>1. Reply(ms, o)
      BY <1>4 DEF R
    <3>2. q \o ms = q2 \o <<st>>
      BY <1>1, <2>1, <2>2, ConcatAssociative
    <3>3. toC2S' = q \/ toC2S' = q \o ms
      BY <3>1 DEF Reply
    <3>4. QED
      BY <3>1, <3>2, <3>3
  <2> HIDE DEF ms
  <2>5. In(q) \subseteq In(toC2S') /\ In(toC2S') \subseteq In(q) \cup In(R) \cup {st} /\ (o => st \in In(toC2S'))
    BY <1>1, <2>3, <2>4, ReplyIn
  <2>6. ClientInv(g) /\ Begin(m, g) /\ About(m, g) /\ m \in In(toSM)
    BY <1>1, <1>4, ArrivesParts DEF OrphanInv, Begin, About
  <2>7. ~Lives(g) /\ (\A e \in In(q) : ~About(e, g)) /\ ~Fresh(g) /\ Waits(g, m.id)
    BY <2>6 DEF ClientInv, StartInv, UnseenInv, WaitInv
  <2>8. Live(j) => sm[j].fd # g
    BY <2>7 DEF Lives
  <2>9. /\ Live(j)' /\ sm'[j].fd = g /\ sm'[j].at = n
        /\ \A k \in Jids : k # j => sm'[k] = sm[k] /\ (Live(k)' <=> Live(k))
    <3>1. sm'[j] = [at |-> n, fd |-> g] /\ \A k \in Jids : k # j => sm'[k] = sm[k]
      BY <1>1, <1>4
    <3>2. [at |-> n, fd |-> g] # NoSession
      <4>1. n # 0
        OBVIOUS
      <4>2. QED
        BY <4>1 DEF NoSession
    <3>3. QED
      BY <3>1, <3>2 DEF Live
  <2>10. OneEach
    BY <1>1 DEF OrphanInv
  <2>11. OneEach'
    <3> SUFFICES ASSUME NEW k \in Jids, NEW l \in Jids, Live(k)', Live(l)', sm'[k].fd = sm'[l].fd PROVE k = l
      BY DEF OneEach
    <3>1. \A i \in Jids : i # j /\ Live(i)' => sm'[i].fd # g
      BY <2>7, <2>9 DEF Lives
    <3>2. CASE k = j \/ l = j
      BY <2>9, <3>1, <3>2
    <3>3. CASE k # j /\ l # j
      BY <2>9, <2>10, <3>3 DEF OneEach
    <3>4. QED
      BY <3>2, <3>3
  <2>12. \A f : f # g => (Lives(f)' => Lives(f))
    BY <2>9 DEF Lives
  <2>13. NoneDown'
    BY <1>1, <1>4, <2>1, <2>5 DEF OrphanInv, NoneDown
  <2>14. \A e \in In(R) : \A f : ~Begin(e, f) /\ (f # sm[j].fd => ~About(e, f))
    BY <2>1 DEF Begin, Over, About
  <2>15. ClientInv(g)'
    <3>1. \A e : (Begin(e, g) => About(e, g)) /\ (Over(e, g) => About(e, g))
      BY DEF About
    <3>2. \A e \in In(R) : ~About(e, g)
      BY <2>1, <2>8, <2>14
    <3>3. ~Over(st, g)
      BY <1>4 DEF Over
    <3>4. /\ Once(toSM, g) /\ Once(toSM', g) /\ \A e \in In(toSM') : ~Begin(e, g)
      <4>1. Once(toSM, g)
        BY <2>6 DEF ClientInv, OnceInv
      <4>2. Begin(Head(toSM), g)
        BY <2>6, ArrivesParts
      <4>3. toSM \in Seq(Good) /\ toSM # <<>> /\ toSM' = Tail(toSM)
        BY ArrivesParts
      <4>4. Once(Tail(toSM), g) /\ \A e \in In(Tail(toSM)) : ~Begin(e, g)
        BY <4>1, <4>2, <4>3, OnceTail
      <4>5. QED
        BY <4>1, <4>3, <4>4
    <3>5. Once(toC2S', g)
      <4>1. Once(q, g)
        BY <2>6 DEF ClientInv, OnceInv
      <4>2. \A e \in In(q2) : ~Begin(e, g)
        BY <2>3, <2>7, <3>1, <3>2
      <4> HIDE DEF q2, q
      <4>3. Once(q2 \o <<st>>, g)
        BY <2>3, <4>2, OnceAppend
      <4>4. QED
        BY <2>4, <4>1, <4>3
    <3>6. SameClients
      BY ArrivesParts
    <3>7. UnseenInv(g)' /\ AskInv(g)'
      BY <2>6, <2>7, <3>6 DEF UnseenInv, Fresh, ClientInv, AskInv, SameClients
    <3>8. Waits(g, m.id)'
      BY <2>7, <3>6 DEF Waits, SameClients
    <3>9. WaitInv(g)'
      BY <1>4, <2>5, <2>7, <3>1, <3>2, <3>4, <3>8 DEF WaitInv
    <3>10. StartInv(g)' /\ OverInv(g)'
      BY <2>5, <2>7, <3>1, <3>2, <3>3, <3>4 DEF StartInv, OverInv
    <3>11. QED
      BY <3>4, <3>5, <3>7, <3>9, <3>10 DEF ClientInv, OnceInv
  <2>16. ASSUME NEW f \in Fds, f # g PROVE ClientInv(f)'
    <3>1. ClientInv(f) /\ Less(toSM', toSM, f)
      BY <1>1, ArrivesParts DEF OrphanInv
    <3>2. sess'[f] = sess[f] /\ (f \in used' <=> f \in used)
      BY ArrivesParts DEF SameClients
    <3>3. ~About(st, f) /\ ~Begin(st, f)
      BY <1>4, <2>16 DEF About, Begin, Over
    <3>4. CASE Live(j) /\ sm[j].fd = f
      <4>1. Lives(f)
        BY <3>4 DEF Lives
      <4>2. ~(Lives(f)')
        BY <2>9, <2>10, <2>16, <3>4 DEF Lives, OneEach
      <4>3. Once(toC2S, f) => Once(toC2S', f)
        BY <1>1, <2>3, <2>4, <2>14, <3>3, ReplyOnce
      <4>4. \A e \in In(toC2S') : Begin(e, f) => e \in In(toC2S)
        BY <2>5, <2>14, <3>3
      <4>5. QED
        BY <1>1, <3>1, <3>2, <4>1, <4>2, <4>3, <4>4, OverClient
    <3>5. CASE ~(Live(j) /\ sm[j].fd = f)
      <4>1. Still(ms, f)
        BY <2>1, <2>3, <2>14, <3>3, <3>5 DEF Still
      <4>2. Less(toC2S', toC2S, f)
        BY <1>1, <2>3, <2>4, <4>1, ReplyLess
      <4>3. Steady(f)
        BY <3>1, <3>2, SameSteady
      <4>4. QED
        BY <1>1, <2>12, <2>16, <3>1, <4>2, <4>3, KeepClient
    <3>6. QED
      BY <3>4, <3>5
  <2>17. ASSUME o PROVE AllAccounted'
    <3> SUFFICES ASSUME NEW k \in Jids, Live(k)' PROVE Accounted(sm[k].fd, SmId(k))'
      BY DEF AllAccounted
    <3>1. CASE k # j
      BY <1>2, <2>5, <2>9, <3>1
    <3>2. CASE k = j
      <4>1. SmId(k)' = <<j, n>> /\ sm'[k].fd = g
        BY <2>9, <3>2 DEF SmId
      <4>2. Starts(st, g, <<j, n>>)
        BY <1>4 DEF Starts
      <4>3. QED
        BY <2>5, <2>17, <4>1, <4>2 DEF Accounted
    <3>3. QED
      BY <3>1, <3>2
  <2>18. QED
    BY <2>11, <2>13, <2>15, <2>16, <2>17 DEF Rest
<1>5. CASE /\ sm' = [sm EXCEPT ![m.id[1]] = [at |-> now, fd |-> m.fd]]
           /\ Reply(Replaced(m.id[1]) \o <<[m EXCEPT !.kind = "started", !.smid = <<m.id[1], now>>]>>, o)
  <2>1. PICK j \in Jids, n \in 1..MaxNow, g \in Fds : j = m.id[1] /\ n = now /\ g = m.fd
    BY <1>1
  <2>2. PICK st : st = [m EXCEPT !.kind = "started", !.smid = <<j, n>>]
    OBVIOUS
  <2>3. st \in Good
    BY <1>1, <2>1, <2>2, StartedGood
  <2>4. st.kind = "started" /\ st.fd = g /\ st.smid = <<j, n>> /\ st.id = m.id
    BY <1>1, <2>1, <2>2, MsgParts DEF Msg
  <2>5. sm' = [sm EXCEPT ![j] = [at |-> n, fd |-> g]] /\ Reply(Replaced(j) \o <<st>>, o)
    BY <1>5, <2>1, <2>2
  <2>6. QED
    BY <1>4, <2>1, <2>3, <2>4, <2>5
<1>6. QED
  BY <1>3, <1>5 DEF SessStart

LEMMA ManagerOrphan ==
    ASSUME SessInv, OrphanInv, Manager
    PROVE  Rest' /\ (link = "up" => AllAccounted')
<1>1. PICK m : m = Head(toSM)
  OBVIOUS
<1>2. PICK o \in BOOLEAN : o <=> link = "up"
  OBVIOUS
<1>3. SessStart(m, link = "up") \/ SessEnd(m, link = "up") \/ InSess(m, link = "up") \/ C2SGone(m)
  BY <1>1 DEF Manager, SMStep
<1>4. \A ms : Reply(ms, link = "up") => Reply(ms, o)
  BY <1>2 DEF Reply
<1>5. SessStart(m, o) \/ SessEnd(m, o) \/ InSess(m, o) \/ C2SGone(m)
  BY <1>3, <1>4 DEF SessStart, SessEnd, InSess
<1>6. Arrives(m)
  BY <1>1 DEF Arrives, Manager, SMStep, c2sVars, SameClients, SessInv
<1>7. QED
  BY <1>2, <1>5, <1>6, StartOrphan, EndOrphan, InSessOrphan, C2SGoneOrphan

LEMMA ModulesOrphan ==
    ASSUME SessInv, OrphanInv, Modules
    PROVE  Rest' /\ AllAccounted'
<1>1. PICK j \in Jids : Deliver(j, link = "up") /\ UNCHANGED c2sVars
  BY DEF Modules
<1> DEFINE e == Control("pkt", sm[j].fd, SmId(j))
<1>2. e \in Good /\ e.kind = "pkt"
  BY <1>1, LiveParts, PlainGood DEF Kinds, Deliver, Control
<1>3. Plain(e)
  <2> HIDE DEF e
  <2>1. QED
    BY <1>2 DEF Plain
<1>4. Reply(<<e>>, link = "up") /\ UNCHANGED <<sm, toSM>> /\ SameClients
  BY <1>1 DEF Deliver, c2sVars, SameClients
<1> HIDE DEF e
<1>5. \A f : Less(toSM', toSM, f)
  BY <1>4, LessSame
<1>6. Rest' /\ In(toC2S) \subseteq In(toC2S')
  BY <1>3, <1>4, <1>5, PlainRest
<1>7. \A f \in Fds, x \in Ids : Accounted(f, x) => Accounted(f, x)'
  BY <1>4, <1>6 DEF Accounted, Owns, SameClients
<1>8. AllAccounted'
  BY <1>4, <1>7, SameAccounted DEF OrphanInv
<1>9. QED
  BY <1>6, <1>8

-----------------------------------------------------------------------------
(* The link                                                                *)

LEMMA LinkRest ==
    ASSUME SessInv, OrphanInv, SameClients, UNCHANGED sm, \A f : Less(toSM', toSM, f) /\ Less(toC2S', toC2S, f), NoneDown'
    PROVE  Rest'
<1>1. ASSUME NEW f \in Fds PROVE ClientInv(f)'
  <2>1. ClientInv(f)
    BY DEF OrphanInv
  <2>2. Steady(f)
    BY <2>1, SameSteady DEF SameClients
  <2>3. Lives(f)' => Lives(f)
    BY SameLives
  <2>4. QED
    BY <2>1, <2>2, <2>3, KeepClient
<1>2. OneEach'
  BY SameLives DEF OrphanInv
<1>3. QED
  BY <1>1, <1>2 DEF Rest

LEMMA LinkDownOrphan ==
    ASSUME SessInv, OrphanInv, smUp, LinkDown
    PROVE  Rest'
<1> DEFINE a == Advert("c2s down")
<1>1. PICK t \in CutOff(toSM) : toSM' = Append(t, a)
  BY DEF LinkDown
<1>2. a \in Good /\ a.kind = "c2s down" /\ t \in Seq(Good) /\ toSM \in Seq(Good)
  BY AdvertGood, InvParts, CutGood
<1> HIDE DEF a
<1>3. toSM' = t \o <<a>> /\ <<a>> \in Seq(Good) /\ \A f : Still(<<a>>, f)
  <2>1. toSM' = t \o <<a>> /\ <<a>> \in Seq(Good)
    <3>1. <<a>> \in Seq(Good)
      BY <1>2, SeqParts
    <3>2. Append(t, a) = t \o <<a>>
      BY <1>2, AppendIsConcat
    <3>3. QED
      BY <1>1, <3>1, <3>2
  <2>2. \A f : ~About(a, f)
    BY <1>2, AboutKinds
  <2>3. QED
    BY <2>1, <2>2, StillOne
<1>4. \A f : Less(toSM', toSM, f)
  <2> SUFFICES ASSUME NEW f PROVE Less(t \o <<a>>, toSM, f)
    BY <1>3
  <2>1. Less(t, toSM, f)
    BY <1>1, <1>2, LessCut
  <2>2. QED
    BY <1>2, <1>3, <2>1, LessConcat
<1>5. toC2S' = <<>> /\ UNCHANGED sm /\ SameClients
  BY DEF LinkDown, SameClients
<1>6. (\A f : Less(toC2S', toC2S, f)) /\ NoneDown'
  BY <1>5, LessNone, InOne DEF NoneDown
<1>7. QED
  BY <1>4, <1>5, <1>6, LinkRest

LEMMA LinkUpOrphan ==
    ASSUME SessInv, OrphanInv, LinkInv, ~SMMayFail, LinkUp
    PROVE  Rest' /\ AllAccounted'
<1> DEFINE a == Advert("sm up")
           q == toC2S
<1>1. link = "down" /\ toC2S' = <<a>> /\ UNCHANGED <<sm, toSM>> /\ SameClients
  BY DEF LinkUp, LinkInv, SameClients
<1>2. a \in Good /\ a.kind = "sm up" /\ q \in Seq(Good)
  BY AdvertGood, InvParts
<1> HIDE DEF a
<1>3. \A f : ~About(a, f) /\ ~Begin(a, f)
  BY <1>2, AboutKinds DEF About
<1>4. \A f : Less(toC2S', q, f)
  <2> SUFFICES ASSUME NEW f PROVE Less(<<a>>, q, f)
    BY <1>1
  <2>1. \A m \in In(<<a>>) : ~About(m, f) /\ ~Begin(m, f)
    BY <1>3, InOne
  <2>2. Once(<<a>>, f)
    BY <1>3 DEF Once
  <2>3. QED
    BY <2>1, <2>2 DEF Less
<1>5. NoneDown'
  BY <1>1, <1>2, InOne DEF NoneDown
<1>6. Rest'
  BY <1>1, <1>4, <1>5, LessSame, LinkRest
<1>7. ASSUME NEW j \in Jids, Live(j)' PROVE Accounted(sm[j].fd, SmId(j))'
  <2> DEFINE n == Len(toSM)
  <2>1. Live(j)
    BY <1>1, <1>7, SameLives
  <2>2. toSM # <<>> /\ toSM[n].kind = "c2s down" /\ toSM \in Seq(Good)
    BY <1>1, <2>1, InvParts DEF LinkInv
  <2>3. n \in 1..n
    <3>1. n \in Nat \ {0}
      BY <2>2, TailParts
    <3> HIDE DEF n
    <3>2. QED
      BY <3>1
  <2>4. toSM[n] \in In(toSM)
    BY <2>3 DEF In
  <2>5. QED
    BY <1>1, <2>2, <2>4 DEF Accounted
<1>8. QED
  BY <1>6, <1>7 DEF AllAccounted

-----------------------------------------------------------------------------
(* The theorem                                                             *)

LEMMA InitOrphan == Init => OrphanInv
<1> SUFFICES ASSUME Init PROVE OrphanInv
  OBVIOUS
<1>1. /\ toSM = <<>> /\ toC2S = <<>> /\ sess = [f \in Fds |-> Blank] /\ used = {} /\ sm = [j \in Jids |-> NoSession]
  BY DEF Init, PathInit, C2SInit, SMInit
<1>2. In(toSM) = {} /\ In(toC2S) = {} /\ \A j \in Jids : ~Live(j)
  BY <1>1, InOne DEF Live
<1>3. \A f \in Fds : sess[f].state = "none"
  BY <1>1 DEF Blank
<1>4. \A f \in Fds : ClientInv(f)
  <2> SUFFICES ASSUME NEW f \in Fds PROVE ClientInv(f)
    OBVIOUS
  <2>1. UnseenInv(f) /\ WaitInv(f) /\ StartInv(f) /\ OverInv(f)
    BY <1>2 DEF UnseenInv, WaitInv, StartInv, OverInv, Lives
  <2>2. OnceInv(f)
    BY <1>1 DEF OnceInv, Once
  <2>3. AskInv(f)
    BY <1>3 DEF AskInv
  <2>4. QED
    BY <2>1, <2>2, <2>3 DEF ClientInv
<1>5. QED
  BY <1>2, <1>4 DEF OrphanInv, OneEach, AllAccounted, NoneDown

LEMMA DownNext ==
    ASSUME ~SMMayFail
    PROVE  (SessInv /\ LinkInv /\ link = "down" => AllAccounted)'
<1>1. SessInv /\ LinkInv /\ link = "down" => AllAccounted
  BY DownAccounted
<1>2. QED
  BY <1>1, PTL

LEMMA NextOrphan ==
    ASSUME MaxRes <= 1, ~Reuse, Patient, ~SMMayFail
    PROVE  SessInv /\ LinkInv /\ SessInv' /\ LinkInv' /\ OrphanInv /\ [Next]_vars => OrphanInv'
<1> SUFFICES ASSUME SessInv, LinkInv, SessInv', LinkInv', OrphanInv, [Next]_vars PROVE OrphanInv'
  OBVIOUS
<1>1. smUp /\ link \in {"up", "down"} /\ link' \in {"up", "down"}
  BY DEF LinkInv, SessInv
<1>2. link' = "down" => AllAccounted'
  BY DownNext
<1>3. Rest' /\ (link' = "up" => AllAccounted')
  <2>1. CASE \E c \in Fds : Client(c)
    <3>1. PICK c \in Fds : Client(c)
      BY <2>1
    <3>2. ClientInv(c)
      BY DEF OrphanInv
    <3>3. (Calm(c) \/ Asks(c)) /\ UNCHANGED <<sm, smUp, link>>
      BY <1>1, <3>1, <3>2, ClientCalm
    <3>4. QED
      BY <3>3, CalmKeeps, AsksKeep
  <2>2. CASE FromRouter
    BY <1>1, <2>2, FromRouterOrphan
  <2>3. CASE Manager
    <3>1. link' = link
      BY <2>3 DEF Manager, c2sVars
    <3>2. QED
      BY <2>3, <3>1, ManagerOrphan
  <2>4. CASE Modules
    BY <2>4, ModulesOrphan
  <2>5. CASE Clock \/ UNCHANGED vars
    <3>1. UNCHANGED <<toSM, toC2S, sm, sess, used>>
      BY <2>5 DEF Clock, Tick, vars, path, c2sVars
    <3>2. Rest'
      BY <3>1, LessSame, LinkRest DEF OrphanInv, NoneDown, SameClients
    <3>3. \A f \in Fds, x \in Ids : Accounted(f, x) => Accounted(f, x)'
      BY <3>1 DEF Accounted, Owns
    <3>4. AllAccounted'
      BY <3>1, <3>3, SameAccounted DEF OrphanInv
    <3>5. QED
      BY <3>2, <3>4
  <2>6. CASE LinkDown
    BY <1>1, <2>6, LinkDownOrphan DEF LinkDown
  <2>7. CASE LinkUp
    BY <2>7, LinkUpOrphan
  <2>8. CASE SMDown \/ SMBack
    BY <1>1, <2>8 DEF SMDown, SMBack
  <2>9. QED
    BY <2>1, <2>2, <2>3, <2>4, <2>5, <2>6, <2>7, <2>8 DEF Next
<1>4. QED
  BY <1>1, <1>2, <1>3 DEF OrphanInv, Rest

LEMMA OrphanQuiet ==
    ASSUME MaxRes <= 1
    PROVE  SessInv /\ OrphanInv => NoOrphans
<1> SUFFICES ASSUME SessInv, OrphanInv, Quiet, NEW j \in Jids, Live(j)
             PROVE  sess[sm[j].fd].active /\ \E i \in DOMAIN sess[sm[j].fd].res : sess[sm[j].fd].res[i].smid = SmId(j)
  BY DEF NoOrphans
<1>1. In(toSM) = {} /\ In(toC2S) = {}
  BY InOne DEF Quiet
<1>2. Accounted(sm[j].fd, SmId(j))
  BY DEF OrphanInv, AllAccounted
<1>3. Owns(sm[j].fd, SmId(j)) /\ sm[j].fd \in Fds
  BY <1>1, <1>2, LiveParts DEF Accounted
<1>4. 1 \in DOMAIN sess[sm[j].fd].res
  BY <1>3, InvParts, OneRes DEF Owns
<1>5. QED
  BY <1>3, <1>4 DEF Owns

(* Nobody stays online after he has gone: when nothing is under way, every *)
(* session of the sm is that of an active client that knows it by its id,  *)
(* whoever binds, leaves, is replaced or refused, and whenever c2s loses   *)
(* its link to the router and gets it back.  Clients have one resource,    *)
(* wait for their answers, and come with descriptors not used before, and  *)
(* the sm keeps its own link: without any of the last three there are      *)
(* orphans, as TLC finds in a few steps.                                   *)
THEOREM NeverOrphans ==
    ASSUME MaxRes <= 1, ~Reuse, Patient, ~SMMayFail
    PROVE  Spec => []NoOrphans
BY OrphanQuiet, InitInv, NextInv, InitLink, NextLink, InitOrphan, NextOrphan, PTL DEF Spec
=============================================================================
