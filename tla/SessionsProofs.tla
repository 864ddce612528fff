--------------------------- MODULE SessionsProofs ---------------------------
(***************************************************************************)
(* Theorems about Sessions: c2s and the session manager, for every number  *)
(* of descriptors, users, resources and packets under way, with and        *)
(* without patient clients, descriptors handed out again and failures.     *)
(***************************************************************************)
EXTENDS Sessions, SequenceTheorems, WellFoundedInduction, TLAPS

-----------------------------------------------------------------------------
(* The invariant                                                           *)

(* Packets as they are made: a "start" carries the id of the request, a    *)
(* "started" this id and a session id of the same JID.                     *)
Good ==
    {m \in Msg : /\ m.kind = "start" => m.id # NoId
                 /\ m.kind = "started" => m.id # NoId /\ m.smid # NoId /\ m.smid[1] = m.id[1]}

(* What c2s writes for its clients.                                        *)
Asked == {m \in Good : m.kind \in {"start", "end", "pkt", "xsess"}}

SessRec ==
    [state : {"none", "new", "stream", "open", "closing"}, user : Users \cup {NoId}, sasl : BOOLEAN,
     res : Seq(Bres), bound : Int, active : BOOLEAN, result : Results]

Settled(b) == b.req = NoId

(* `bound' counts the resources, until the last one has ended, which stays *)
(* in the list and, if it was still to be started, may be ended once more. *)
(* After iq:auth the one resource is not counted.                          *)
Counted(s) ==
    IF s.sasl
    THEN /\ Len(s.res) <= MaxRes
         /\ \/ s.bound = Len(s.res)
            \/ /\ s.state = "closing" /\ Len(s.res) = 1 /\ s.bound \in {0, -1}
               /\ (s.active \/ s.bound = -1) => Settled(s.res[1])
               /\ s.bound = -1 => ~s.active
    ELSE /\ Len(s.res) <= 1 /\ s.bound \in {0, -1}
         /\ (s.active \/ s.bound = -1) => \A i \in DOMAIN s.res : Settled(s.res[i])
         /\ s.bound = -1 => ~s.active

(* The ids of a resource are those of its JID, which is the user's.        *)
OwnRes(s, b) ==
    /\ b.jid[1] = s.user
    /\ b.req # NoId => b.req[1] = b.jid
    /\ b.smid # NoId => b.smid[1] = b.jid

(* Before the session is open nothing of it is started.                    *)
Early(s) ==
    /\ s.state \in {"none", "new", "stream"} =>
          ~s.active /\ s.bound = 0 /\ ~s.sasl /\ \A i \in DOMAIN s.res : s.res[i].smid = NoId
    /\ s.state \in {"none", "new"} => s.res = <<>>

SessOk(s) ==
    /\ s \in SessRec
    /\ s.active => s.res # <<>>
    /\ Early(s)
    /\ Counted(s)
    /\ \A i \in DOMAIN s.res : OwnRes(s, s.res[i])
    /\ s.active /\ MaxRes <= 1 => \A i \in DOMAIN s.res : s.res[i].smid # NoId

Packets == (Users \cup {NoId}) \X {"pkt", "pkt failed"}

(* What a client has been given is its user's; nothing before it is open.  *)
Given(s, g) ==
    /\ g \in SUBSET Packets
    /\ s.state \in {"none", "new", "stream"} => g = {}
    /\ MaxRes <= 1 => \A x \in g : x[1] \in {s.user, NoId}

PathOk == now \in 1..MaxNow /\ toSM \in Seq(Good) /\ toC2S \in Seq(Good)
ClientOk(f) == SessOk(sess[f]) /\ Given(sess[f], got[f])

ClientsOk ==
    /\ sess \in [Fds -> SessRec] /\ got \in [Fds -> SUBSET Packets]
    /\ \A f \in Fds : ClientOk(f)

SessInv ==
    /\ PathOk
    /\ ClientsOk
    /\ sm_avail \in BOOLEAN /\ link \in {"up", "down"} /\ used \subseteq Fds
    /\ told \in [Fds -> SUBSET Jids]
    /\ SMType

(* While the sm keeps its own link, the advertisement that c2s has lost    *)
(* its is the last thing it hears from there.                              *)
LinkInv ==
    ~SMMayFail =>
        /\ smUp
        /\ link = "down" /\ toSM # <<>> => toSM[Len(toSM)].kind = "c2s down"
        /\ link = "down" /\ toSM = <<>> => \A j \in Jids : ~Live(j)

-----------------------------------------------------------------------------
(* Packets                                                                 *)

LEMMA MsgParts ==
    ASSUME NEW m \in Good
    PROVE  /\ m \in Msg /\ m.kind \in Kinds /\ m.fd \in Fds /\ m.smid \in Ids \cup {NoId} /\ m.id \in Ids \cup {NoId}
           /\ m.kind = "start" => m.id \in Ids
           /\ m.kind = "started" => m.id \in Ids /\ m.smid \in Ids /\ m.smid[1] = m.id[1]
BY DEF Good, Msg

LEMMA IdParts ==
    /\ NoId \notin Ids
    /\ \A x \in Ids : x[1] \in Jids /\ x[1][1] \in Users
    /\ \A j \in Jids : j[1] \in Users /\ \A n \in 1..MaxNow : <<j, n>> \in Ids /\ <<j, n>>[1] = j
BY SessAssumption DEF Ids, Jids

LEMMA PlainGood ==
    ASSUME NEW k \in Kinds \ {"start", "started"}, NEW f \in Fds, NEW i \in Ids \cup {NoId}
    PROVE  Control(k, f, i) \in Good
BY DEF Control, Good, Msg

LEMMA AdvertGood ==
    ASSUME NEW k \in {"sm up", "sm down", "c2s down"}
    PROVE  Advert(k) \in Good /\ Advert(k).kind = k
<1>1. (CHOOSE f \in Fds : TRUE) \in Fds
  BY SessAssumption
<1>2. QED
  BY <1>1 DEF Advert, Good, Msg, Kinds

LEMMA StartGood ==
    ASSUME NEW f \in Fds, NEW i \in Ids, NEW x \in Ids \cup {NoId}
    PROVE  [Request("start", f, i) EXCEPT !.smid = x] \in Asked /\ Request("start", f, i) \in Asked
BY IdParts DEF Request, Asked, Good, Msg, Kinds

LEMMA Rekinded ==
    ASSUME NEW m \in Good, NEW k \in Kinds \ {"start", "started"}
    PROVE  [m EXCEPT !.kind = k] \in Good
BY MsgParts DEF Good, Msg

LEMMA StartedGood ==
    ASSUME NEW m \in Good, m.kind = "start", NEW n \in 1..MaxNow
    PROVE  [m EXCEPT !.kind = "started", !.smid = <<m.id[1], n>>] \in Good /\ m.id[1] \in Jids
<1>1. m \in Msg /\ m.id \in Ids /\ m.id # NoId
  BY MsgParts, IdParts
<1>2. m.id[1] \in Jids /\ <<m.id[1], n>> \in Ids /\ <<m.id[1], n>>[1] = m.id[1] /\ <<m.id[1], n>> # NoId
  BY <1>1, IdParts
<1> DEFINE x == <<m.id[1], n>>
           j == m.id[1]
           v == [m EXCEPT !.kind = "started", !.smid = x]
<1> HIDE DEF x, j
<1>3. v \in Msg /\ v.id = m.id /\ v.smid = x /\ x[1] = j /\ j = m.id[1] /\ x # NoId
  BY <1>1, <1>2 DEF Msg, Kinds, x, j
<1> HIDE DEF v
<1>4. v \in Good
  BY <1>1, <1>3 DEF Good
<1>5. QED
  BY <1>2, <1>4 DEF v, x, j

LEMMA SeqParts ==
    ASSUME NEW S, NEW q \in Seq(S)
    PROVE  /\ q # <<>> => Head(q) \in S /\ Tail(q) \in Seq(S)
           /\ \A x \in S : Append(q, x) \in Seq(S) /\ <<x>> \in Seq(S)
           /\ \A t \in Seq(S) : q \o t \in Seq(S)
           /\ \A n \in 0..Len(q) : SubSeq(q, 1, n) \in Seq(S)
           /\ <<>> \in Seq(S)
<1>1. q # <<>> => Head(q) \in S /\ Tail(q) \in Seq(S)
  OBVIOUS
<1>2. \A x \in S : Append(q, x) \in Seq(S) /\ <<x>> \in Seq(S)
  OBVIOUS
<1>3. \A t \in Seq(S) : q \o t \in Seq(S)
  BY ConcatProperties
<1>4. \A n \in 0..Len(q) : SubSeq(q, 1, n) \in Seq(S)
  OBVIOUS
<1>5. QED
  BY <1>1, <1>2, <1>3, <1>4

LEMMA CutGood ==
    ASSUME NEW q \in Seq(Good), NEW t \in CutOff(q)
    PROVE  t \in Seq(Good)
<1>1. PICK n \in 0..Len(q) : t = SubSeq(q, 1, n)
  BY DEF CutOff
<1>2. QED
  BY <1>1, SeqParts

LEMMA SendGood ==
    ASSUME NEW ms \in Seq(Good), NEW in \in Seq(Good), toSM \in Seq(Good), NEW o, Send(ms, in, o)
    PROVE  toSM' \in Seq(Good) /\ toC2S' \in Seq(Good)
<1> DEFINE bs == [i \in DOMAIN ms |-> [ms[i] EXCEPT !.kind = "bounce"]]
<1>1. bs \in Seq(Good)
  <2>1. ms \in [1..Len(ms) -> Good] /\ Len(ms) \in Nat /\ DOMAIN ms = 1..Len(ms)
    BY LenProperties
  <2>2. \A i \in 1..Len(ms) : [ms[i] EXCEPT !.kind = "bounce"] \in Good
    BY <2>1, Rekinded DEF Kinds
  <2>3. bs \in [1..Len(ms) -> Good]
    BY <2>1, <2>2
  <2> HIDE DEF bs
  <2>4. QED
    BY SMTT(30), <2>1, <2>3
<1> HIDE DEF bs
<1>2. toSM \o ms \in Seq(Good) /\ in \o bs \in Seq(Good)
  BY <1>1, SeqParts
<1>3. (toSM' = toSM \o ms \/ toSM' = toSM) /\ (toC2S' = in \o bs \/ toC2S' = in)
  BY DEF Send, bs
<1>4. QED
  BY <1>2, <1>3

LEMMA ReplyGood ==
    ASSUME NEW ms \in Seq(Good), toC2S \in Seq(Good), NEW o, Reply(ms, o)
    PROVE  toC2S' \in Seq(Good)
<1>1. toC2S \o ms \in Seq(Good)
  BY SeqParts
<1>2. QED
  BY <1>1 DEF Reply

(* c2s writes to the router, or not; `in' is what is left to read.         *)
Writes(in, o) == (toSM' = toSM /\ toC2S' = in) \/ \E ms \in Seq(Asked) : Send(ms, in, o)

LEMMA AskedGood == Seq(Asked) \subseteq Seq(Good)
<1>1. Asked \subseteq Good
  BY DEF Asked
<1>2. QED
  BY <1>1

LEMMA WritesGood ==
    ASSUME NEW in \in Seq(Good), toSM \in Seq(Good), NEW o, Writes(in, o)
    PROVE  toSM' \in Seq(Good) /\ toC2S' \in Seq(Good)
BY SendGood, AskedGood DEF Writes

-----------------------------------------------------------------------------
(* A session of c2s                                                        *)

LEMMA SessParts ==
    ASSUME NEW s, s \in SessRec
    PROVE  /\ s.state \in {"none", "new", "stream", "open", "closing"} /\ s.user \in Users \cup {NoId}
           /\ s.sasl \in BOOLEAN /\ s.res \in Seq(Bres) /\ s.bound \in Int /\ s.active \in BOOLEAN
           /\ s.result \in Results /\ Len(s.res) \in Nat /\ DOMAIN s.res = 1..Len(s.res)
           /\ \A i \in DOMAIN s.res : s.res[i] \in Bres
<1>1. /\ s.state \in {"none", "new", "stream", "open", "closing"} /\ s.user \in Users \cup {NoId}
      /\ s.sasl \in BOOLEAN /\ s.res \in Seq(Bres) /\ s.bound \in Int /\ s.active \in BOOLEAN
      /\ s.result \in Results
  BY DEF SessRec
<1>2. Len(s.res) \in Nat /\ DOMAIN s.res = 1..Len(s.res) /\ \A i \in DOMAIN s.res : s.res[i] \in Bres
  BY <1>1, LenProperties
<1>3. QED
  BY <1>1, <1>2

LEMMA BresParts ==
    ASSUME NEW b, b \in Bres
    PROVE  b.jid \in Jids /\ b.smid \in Ids \cup {NoId} /\ b.req \in Ids \cup {NoId}
BY DEF Bres

LEMMA BlankOk ==
    ASSUME NEW s, s = Blank \/ s = [Blank EXCEPT !.state = "new"]
    PROVE  SessOk(s) /\ Given(s, {})
<1>1. /\ Blank \in SessRec /\ Blank.state = "none" /\ Blank.res = <<>> /\ ~Blank.active /\ ~Blank.sasl /\ Blank.bound = 0
  BY DEF Blank, SessRec, Results
<1> DEFINE e == Blank
           v == [e EXCEPT !.state = "new"]
<1> HIDE DEF e
<1>2. v \in SessRec /\ v.state = "new" /\ v.res = e.res /\ v.active = e.active /\ v.sasl = e.sasl /\ v.bound = e.bound
  BY <1>1 DEF SessRec, e
<1> HIDE DEF v
<1>3. s = e \/ s = v
  BY DEF e, v
<1>4. s \in SessRec /\ s.state \in {"none", "new"} /\ s.res = <<>> /\ ~s.active /\ ~s.sasl /\ s.bound = 0
  <2>1. CASE s = e
    BY <1>1, <2>1 DEF e
  <2>2. CASE s = v
    BY <1>1, <1>2, <2>2 DEF e
  <2>3. QED
    BY <1>3, <2>1, <2>2
<1>5. Len(s.res) = 0 /\ DOMAIN s.res = {}
  BY <1>4
<1>6. Early(s) /\ Counted(s)
  BY <1>4, <1>5 DEF Early, Counted
<1>7. SessOk(s)
  BY <1>4, <1>5, <1>6 DEF SessOk
<1>8. Given(s, {})
  BY DEF Given
<1>9. QED
  BY <1>7, <1>8

(* Closing, or another pending result, or no longer active.                *)
Like(s, v) ==
    /\ v \in SessRec
    /\ v.user = s.user /\ v.sasl = s.sasl /\ v.res = s.res /\ v.bound = s.bound
    /\ v.active => s.active
    /\ v.state = s.state \/ v.state = "closing"

LEMMA LikeOk ==
    ASSUME NEW s, SessOk(s), NEW v, Like(s, v), NEW g, Given(s, g)
    PROVE  SessOk(v) /\ Given(v, g)
<1>1. v.sasl <=> s.sasl
  BY DEF Like
<1>2. Early(v)
  BY <1>1 DEF Like, SessOk, Early
<1>3. Counted(v)
  BY <1>1 DEF Like, SessOk, Counted
<1>4. \A i \in DOMAIN v.res : OwnRes(v, v.res[i])
  BY DEF Like, SessOk, OwnRes
<1>5. SessOk(v)
  BY <1>2, <1>3, <1>4 DEF Like, SessOk
<1>6. Given(v, g)
  BY DEF Like, Given
<1>7. QED
  BY <1>5, <1>6

LEMMA ClosingLike ==
    ASSUME NEW s, s \in SessRec
    PROVE  Like(s, Closing(s)) /\ Like(s, Closing([s EXCEPT !.active = FALSE]))
<1> DEFINE t == [s EXCEPT !.active = FALSE]
<1>1. t \in SessRec /\ t.user = s.user /\ t.sasl = s.sasl /\ t.res = s.res /\ t.bound = s.bound /\ t.active = FALSE
  BY DEF SessRec
<1> HIDE DEF t
<1>2. ASSUME NEW u, u \in SessRec
      PROVE  /\ Closing(u) \in SessRec /\ Closing(u).user = u.user /\ Closing(u).sasl = u.sasl /\ Closing(u).res = u.res
             /\ Closing(u).bound = u.bound /\ Closing(u).active = u.active /\ Closing(u).state = "closing"
  BY <1>2 DEF SessRec, Closing
<1>3. Like(s, Closing(s))
  BY <1>2 DEF Like
<1>4. Like(s, Closing(t))
  <2>1. ~Closing(t).active
    BY <1>1, <1>2
  <2>2. QED
    BY <1>1, <1>2, <2>1 DEF Like
<1>5. QED
  BY <1>3, <1>4 DEF t

LEMMA WithResult ==
    ASSUME NEW s, s \in SessRec, NEW r \in Results
    PROVE  Like(s, [s EXCEPT !.result = r])
<1> DEFINE v == [s EXCEPT !.result = r]
<1>1. /\ v \in SessRec /\ v.user = s.user /\ v.sasl = s.sasl /\ v.res = s.res /\ v.bound = s.bound
      /\ v.active = s.active /\ v.state = s.state
  BY DEF SessRec
<1> HIDE DEF v
<1>2. Like(s, v)
  BY <1>1 DEF Like
<1>3. QED
  BY <1>2 DEF v

LEMMA StreamOk ==
    ASSUME NEW s, SessOk(s), s.state = "new", NEW st \in {"stream", "closing"}, Given(s, {})
    PROVE  LET v == [s EXCEPT !.state = st] IN SessOk(v) /\ Given(v, {})
<1> DEFINE v == [s EXCEPT !.state = st]
<1>1. /\ v \in SessRec /\ v.user = s.user /\ v.sasl = s.sasl /\ v.res = s.res /\ v.bound = s.bound
      /\ v.active = s.active /\ v.state = st
  BY DEF SessRec, SessOk
<1> HIDE DEF v
<1>2. s.res = <<>> /\ ~s.active /\ s.bound = 0 /\ ~s.sasl
  BY DEF SessOk, Early
<1>3. v.res = <<>> /\ ~v.active /\ v.bound = 0 /\ ~v.sasl /\ Len(v.res) = 0 /\ DOMAIN v.res = {}
  BY <1>1, <1>2
<1>4. Early(v) /\ Counted(v)
  BY <1>1, <1>3 DEF Early, Counted
<1>5. SessOk(v) /\ Given(v, {})
  BY <1>1, <1>3, <1>4 DEF SessOk, Given
<1>6. QED
  BY <1>5 DEF v

LEMMA SaslOk ==
    ASSUME NEW s, SessOk(s), s.state = "stream", s.res = <<>>, NEW u \in Users
    PROVE  LET v == [s EXCEPT !.state = "open", !.user = u, !.sasl = TRUE] IN SessOk(v) /\ Given(v, {})
<1> DEFINE v == [s EXCEPT !.state = "open", !.user = u, !.sasl = TRUE]
<1>1. /\ v \in SessRec /\ v.user = u /\ v.sasl = TRUE /\ v.res = s.res /\ v.bound = s.bound
      /\ v.active = s.active /\ v.state = "open"
  BY DEF SessRec, SessOk
<1> HIDE DEF v
<1>2. ~s.active /\ s.bound = 0
  BY DEF SessOk, Early
<1>3. v.res = <<>> /\ ~v.active /\ v.bound = 0 /\ v.sasl /\ Len(v.res) = 0 /\ DOMAIN v.res = {}
  BY <1>1, <1>2
<1>4. Early(v) /\ Counted(v)
  BY <1>1, <1>3, C2SAssumption DEF Early, Counted
<1>5. SessOk(v) /\ Given(v, {})
  BY <1>1, <1>3, <1>4 DEF SessOk, Given
<1>6. QED
  BY <1>5 DEF v

LEMMA BindResult ==
    ASSUME NEW j \in Jids
    PROVE  <<"bind", j>> \in Results /\ <<"unbind", j>> \in Results /\ NoResult \in Results
BY DEF Results

(* _authreg_auth_set makes the one resource, or makes it over.             *)
LEMMA AuthOk ==
    ASSUME NEW s, SessOk(s), s.state = "stream", NEW j \in Jids, NEW n \in 1..MaxNow, NEW x, x = NoId,
           NEW b, b = [jid |-> j, smid |-> x, req |-> <<j, n>>]
    PROVE  LET v == [s EXCEPT !.user = j[1], !.res = <<b>>, !.result = <<"bind", j>>] IN SessOk(v) /\ Given(v, {})
<1> DEFINE v == [s EXCEPT !.user = j[1], !.res = <<b>>, !.result = <<"bind", j>>]
<1>1. b \in Bres /\ b.jid = j /\ b.smid = NoId /\ b.req = <<j, n>> /\ b.req[1] = j /\ j[1] \in Users
  BY IdParts DEF Bres
<1>2. <<"bind", j>> \in Results
  BY BindResult
<1>3. <<b>> \in Seq(Bres)
  BY <1>1
<1>4. /\ v \in SessRec /\ v.user = j[1] /\ v.sasl = s.sasl /\ v.res = <<b>> /\ v.bound = s.bound
      /\ v.active = s.active /\ v.state = "stream"
  BY <1>1, <1>2, <1>3 DEF SessRec, SessOk
<1> HIDE DEF v
<1>5. ~s.active /\ s.bound = 0 /\ ~s.sasl
  BY DEF SessOk, Early
<1>6. ~v.active /\ v.bound = 0 /\ ~v.sasl
  BY <1>4, <1>5
<1>7. DOMAIN v.res = {1} /\ v.res[1] = b /\ Len(v.res) = 1
  BY <1>4
<1>8. OwnRes(v, b)
  BY <1>1, <1>4 DEF OwnRes
<1>9. Early(v) /\ Counted(v)
  BY <1>1, <1>4, <1>6, <1>7 DEF Early, Counted
<1>10. SessOk(v) /\ Given(v, {})
  BY <1>4, <1>6, <1>7, <1>8, <1>9 DEF SessOk, Given
<1>11. QED
  BY <1>10 DEF v

LEMMA BindOk ==
    ASSUME NEW s, SessOk(s), s.state = "open", s.sasl, NEW j \in Jids, s.user = j[1], NEW n \in 1..MaxNow,
           Len(s.res) < MaxRes, NEW g, Given(s, g), NEW b, b = [jid |-> j, smid |-> NoId, req |-> <<j, n>>]
    PROVE  LET v == [s EXCEPT !.res = Append(@, b), !.bound = @ + 1, !.result = <<"bind", j>>]
           IN  SessOk(v) /\ Given(v, g)
<1> DEFINE q == s.res
           r == Append(q, b)
           c == s.bound + 1
           v == [s EXCEPT !.res = r, !.bound = c, !.result = <<"bind", j>>]
<1>1. b \in Bres /\ b.jid = j /\ b.smid = NoId /\ b.req = <<j, n>> /\ b.req[1] = j
  BY IdParts DEF Bres
<1>2. <<"bind", j>> \in Results
  BY BindResult
<1>3. s \in SessRec /\ q \in Seq(Bres) /\ s.bound \in Int /\ Len(q) \in Nat /\ DOMAIN q = 1..Len(q)
  BY SessParts DEF SessOk
<1>4. s.bound = Len(q) /\ Len(q) < MaxRes
  BY DEF SessOk, Counted
<1>5. /\ r \in Seq(Bres) /\ Len(r) = Len(q) + 1 /\ DOMAIN r = 1..(Len(q) + 1) /\ r[Len(q) + 1] = b
      /\ \A i \in 1..Len(q) : r[i] = q[i]
  <2> HIDE DEF q
  <2>1. QED
    BY <1>1, <1>3
<1> HIDE DEF r, c
<1>6. c \in Int /\ c = Len(r)
  BY <1>3, <1>4, <1>5 DEF c
<1>7. /\ v \in SessRec /\ v.user = s.user /\ v.sasl = s.sasl /\ v.res = r /\ v.bound = c
      /\ v.active = s.active /\ v.state = "open"
  BY <1>2, <1>3, <1>5, <1>6 DEF SessRec
<1> HIDE DEF v
<1>8. v.sasl /\ Len(r) <= MaxRes
  BY <1>3, <1>4, <1>5, <1>7, C2SAssumption
<1>9. OwnRes(v, b)
  BY <1>1, <1>7 DEF OwnRes
<1>10. \A i \in DOMAIN r : OwnRes(v, r[i])
  <2>1. \A i \in DOMAIN q : OwnRes(s, q[i])
    BY DEF SessOk
  <2>2. \A i \in DOMAIN q : OwnRes(v, q[i])
    BY <1>7, <2>1 DEF OwnRes
  <2> HIDE DEF q
  <2>3. QED
    BY <1>3, <1>5, <1>9, <2>2
<1>11. v.active => r # <<>>
  BY <1>3, <1>5
<1>12. ~(v.active /\ MaxRes <= 1)
  <2>1. SUFFICES ASSUME s.active, MaxRes <= 1 PROVE FALSE
    BY <1>7
  <2>2. q # <<>>
    BY <2>1 DEF SessOk
  <2>3. Len(q) # 0
    BY <1>3, <2>2, EmptySeq
  <2>4. QED
    BY <1>3, <1>4, <2>1, <2>3, C2SAssumption
<1>13. Early(v) /\ Counted(v)
  BY <1>6, <1>7, <1>8 DEF Early, Counted
<1>14. SessOk(v) /\ Given(v, g)
  BY <1>7, <1>10, <1>11, <1>12, <1>13 DEF SessOk, Given
<1>15. QED
  BY <1>14 DEF v, r, c

LEMMA RemoveParts ==
    ASSUME NEW S, NEW q \in Seq(S), NEW i \in DOMAIN q
    PROVE  /\ RemoveAt(q, i) \in Seq(S) /\ Len(RemoveAt(q, i)) = Len(q) - 1
           /\ \A k \in DOMAIN RemoveAt(q, i) : \E l \in DOMAIN q : RemoveAt(q, i)[k] = q[l]
<1> DEFINE n == Len(q)
           a == SubSeq(q, 1, i - 1)
           b == SubSeq(q, i + 1, n)
<1>1. n \in Nat /\ DOMAIN q = 1..n /\ i \in 1..n /\ i \in Int
  BY LenProperties
<1>2. a \in Seq(S) /\ Len(a) = i - 1 /\ \A k \in 1..(i - 1) : a[k] = q[k]
  BY <1>1
<1>3. b \in Seq(S) /\ Len(b) = n - i /\ \A k \in 1..(n - i) : b[k] = q[k + i]
  BY <1>1
<1>4. RemoveAt(q, i) = a \o b
  BY DEF RemoveAt
<1> DEFINE x == a \o b
<1> HIDE DEF n, a, b
<1>5. /\ x \in Seq(S) /\ Len(x) = Len(a) + Len(b)
      /\ \A k \in 1..(Len(a) + Len(b)) : x[k] = IF k <= Len(a) THEN a[k] ELSE b[k - Len(a)]
  BY <1>2, <1>3, ConcatProperties
<1> HIDE DEF x
<1>6. Len(x) = n - 1 /\ DOMAIN x = 1..(n - 1)
  BY <1>1, <1>2, <1>3, <1>5, LenProperties
<1>7. ASSUME NEW k \in DOMAIN x PROVE \E l \in DOMAIN q : x[k] = q[l]
  <2>1. CASE k <= i - 1
    <3>1. k \in 1..(i - 1) /\ k \in 1..n /\ x[k] = a[k]
      BY SMTT(30), <1>1, <1>2, <1>3, <1>5, <1>6, <2>1
    <3>2. QED
      BY <1>1, <1>2, <3>1
  <2>2. CASE ~(k <= i - 1)
    <3> DEFINE l == k - (i - 1)
    <3>1. k \in 1..(n - 1)
      BY <1>6
    <3>2. l \in 1..(n - i) /\ l + i \in 1..n
      BY <1>1, <2>2, <3>1
    <3>3. x[k] = b[l]
      BY <1>1, <1>2, <1>3, <1>5, <2>2, <3>1
    <3> HIDE DEF l
    <3>4. b[l] = q[l + i]
      BY <1>3, <3>2
    <3>5. QED
      BY <1>1, <3>2, <3>3, <3>4
  <2>3. QED
    BY <2>1, <2>2
<1>8. QED
  BY <1>4, <1>5, <1>6, <1>7 DEF x, n

(* A resource has ended: it leaves the list, unless it is the last one.    *)
AfterEnd(s, i) ==
    LET left == [s EXCEPT !.bound = @ - 1, !.result = NoResult]
    IN  IF LastGone(left.bound) THEN Closing([left EXCEPT !.active = FALSE]) ELSE [left EXCEPT !.res = RemoveAt(@, i)]

LEMMA EndedOk ==
    ASSUME NEW s, SessOk(s), s.active, NEW i \in DOMAIN s.res, NEW g, Given(s, g)
    PROVE  SessOk(AfterEnd(s, i)) /\ Given(AfterEnd(s, i), g)
<1> DEFINE c == s.bound - 1
           left == [s EXCEPT !.bound = c, !.result = NoResult]
           q == s.res
           x == RemoveAt(q, i)
           v == Closing([left EXCEPT !.active = FALSE])
           w == [left EXCEPT !.res = x]
<1>1. s \in SessRec /\ q \in Seq(Bres) /\ s.bound \in Int /\ Len(q) \in Nat /\ DOMAIN q = 1..Len(q) /\ q # <<>> /\ c \in Int
  BY SessParts DEF SessOk
<1>2. NoResult \in Results
  BY DEF Results
<1> HIDE DEF c
<1>3. /\ left \in SessRec /\ left.user = s.user /\ left.sasl = s.sasl /\ left.res = q /\ left.bound = c
      /\ left.active = s.active /\ left.state = s.state
  BY <1>1, <1>2 DEF SessRec
<1>4. AfterEnd(s, i) = IF LastGone(c) THEN v ELSE w
  BY <1>3 DEF AfterEnd, c
<1>5. /\ v \in SessRec /\ v.user = s.user /\ v.sasl = s.sasl /\ v.res = q /\ v.bound = c
      /\ v.active = FALSE /\ v.state = "closing"
  <2> DEFINE t == [left EXCEPT !.active = FALSE]
  <2> HIDE DEF left
  <2>1. /\ t \in SessRec /\ t.user = left.user /\ t.sasl = left.sasl /\ t.res = left.res /\ t.bound = left.bound
        /\ t.active = FALSE
    BY <1>3 DEF SessRec
  <2> HIDE DEF t
  <2>2. /\ Closing(t) \in SessRec /\ Closing(t).user = t.user /\ Closing(t).sasl = t.sasl /\ Closing(t).res = t.res
        /\ Closing(t).bound = t.bound /\ Closing(t).active = t.active /\ Closing(t).state = "closing"
    BY <2>1 DEF SessRec, Closing
  <2>3. v = Closing(t)
    BY DEF t
  <2> HIDE DEF v
  <2>4. QED
    BY <1>3, <2>1, <2>2, <2>3
<1>6. /\ x \in Seq(Bres) /\ Len(x) = Len(q) - 1 /\ \A k \in DOMAIN x : \E l \in DOMAIN q : x[k] = q[l]
  <2> HIDE DEF q
  <2>1. i \in DOMAIN q
    BY DEF q
  <2>2. QED
    BY <1>1, <2>1, RemoveParts
<1> HIDE DEF x
<1>7. /\ w \in SessRec /\ w.user = s.user /\ w.sasl = s.sasl /\ w.res = x /\ w.bound = c
      /\ w.active = s.active /\ w.state = s.state
  <2> HIDE DEF left
  <2>1. QED
    BY <1>3, <1>6 DEF SessRec
<1> HIDE DEF v, w, left
<1>8. Len(q) \in Nat \ {0}
  BY <1>1, EmptySeq
<1>9. \A k \in DOMAIN q : OwnRes(s, q[k])
  BY DEF SessOk
<1>10. CASE c < 1
  <2>1. ~v.active /\ (v.sasl <=> s.sasl)
    BY <1>5
  <2>2. Counted(v)
    <3>1. CASE s.sasl
      <4>1. /\ Len(q) <= MaxRes
            /\ \/ s.bound = Len(q)
               \/ Len(q) = 1 /\ s.bound \in {0, -1} /\ Settled(q[1]) /\ s.bound # -1
        BY <3>1 DEF SessOk, Counted
      <4>2. CASE s.bound = Len(q)
        <5>1. c = 0 /\ Len(q) = 1
          <6> DEFINE n == Len(q)
          <6>1. n \in Nat \ {0} /\ c = n - 1 /\ c < 1
            BY <1>8, <1>10, <4>2 DEF c
          <6> HIDE DEF n
          <6>2. c = 0 /\ n = 1
            BY <6>1
          <6>3. QED
            BY <6>2 DEF n
        <5>2. QED
          BY <1>5, <2>1, <3>1, <4>1, <5>1 DEF Counted
      <4>3. CASE Len(q) = 1 /\ s.bound = 0 /\ Settled(q[1])
        <5>1. c = -1
          BY <4>3 DEF c
        <5>2. QED
          BY <1>5, <2>1, <3>1, <4>1, <4>3, <5>1 DEF Counted
      <4>4. QED
        BY <4>1, <4>2, <4>3
    <3>2. CASE ~s.sasl
      <4>1. Len(q) <= 1 /\ s.bound = 0 /\ \A k \in DOMAIN q : Settled(q[k])
        BY <3>2 DEF SessOk, Counted
      <4>2. c = -1
        BY <4>1 DEF c
      <4>3. QED
        BY <1>5, <2>1, <3>2, <4>1, <4>2 DEF Counted
    <3>3. QED
      BY <3>1, <3>2
  <2>3. \A k \in DOMAIN q : OwnRes(v, q[k])
    BY <1>5, <1>9 DEF OwnRes
  <2>4. SessOk(v) /\ Given(v, g)
    BY <1>5, <2>1, <2>2, <2>3 DEF SessOk, Early, Given
  <2>5. QED
    BY <1>4, <1>10, <2>4 DEF LastGone
<1>11. CASE ~(c < 1)
  <2>1. s.bound >= 2
    BY <1>1, <1>11 DEF c
  <2>2. s.sasl /\ s.bound = Len(q) /\ Len(q) <= MaxRes
    BY <2>1 DEF SessOk, Counted
  <2>3. c = Len(x) /\ Len(x) <= MaxRes /\ Len(x) >= 1 /\ ~(MaxRes <= 1)
    BY <1>6, <1>8, <2>1, <2>2, C2SAssumption DEF c
  <2>4. \A k \in DOMAIN x : OwnRes(w, x[k])
    BY <1>6, <1>7, <1>9 DEF OwnRes
  <2>5. Counted(w)
    BY <1>7, <2>2, <2>3 DEF Counted
  <2>6. Early(w)
    <3>1. s.state \notin {"none", "new", "stream"}
      BY DEF SessOk, Early
    <3>2. QED
      BY <1>7, <3>1 DEF Early
  <2>7. w.res # <<>>
    BY <1>7, <2>3
  <2>8. SessOk(w) /\ Given(w, g)
    BY <1>7, <2>3, <2>4, <2>5, <2>6, <2>7 DEF SessOk, Given
  <2>9. QED
    BY <1>4, <1>11, <2>8 DEF LastGone
<1>12. QED
  BY <1>10, <1>11

(* "session started" for the resource that has asked for it.               *)
AfterStart(s, i, x) ==
    LET now_open == [s EXCEPT !.res[i].smid = x, !.res[i].req = NoId,
                              !.active = s.sasl \/ s.result # NoResult \/ @, !.result = NoResult]
    IN  IF s.sasl THEN now_open ELSE [now_open EXCEPT !.state = "open"]

LEMMA StartedOk ==
    ASSUME NEW s, SessOk(s), NEW i \in DOMAIN s.res, NEW m \in Good, m.kind = "started", Expected(s.res[i], m),
           NEW g, Given(s, g)
    PROVE  SessOk(AfterStart(s, i, m.smid)) /\ Given(AfterStart(s, i, m.smid), g)
<1> DEFINE q == s.res
           b == q[i]
           y == m.smid
           b2 == [b EXCEPT !.smid = y, !.req = NoId]
           q2 == [q EXCEPT ![i] = b2]
           a == s.sasl \/ s.result # NoResult \/ s.active
           o == [s EXCEPT !.res = q2, !.active = a, !.result = NoResult]
           v == AfterStart(s, i, y)
<1>1. s \in SessRec /\ q \in Seq(Bres) /\ s.bound \in Int /\ Len(q) \in Nat /\ DOMAIN q = 1..Len(q) /\ b \in Bres
  BY SessParts DEF SessOk
<1>2. y \in Ids /\ y # NoId /\ y[1] = m.id[1] /\ b.req = m.id /\ b.req # NoId /\ OwnRes(s, b)
  BY MsgParts, IdParts DEF Expected, SessOk
<1>3. b2 \in Bres /\ b2.jid = b.jid /\ b2.smid = y /\ b2.req = NoId
  <2> HIDE DEF b, y
  <2>1. QED
    BY <1>1, <1>2 DEF Bres
<1>4. y[1] = b.jid /\ b.jid[1] = s.user
  BY <1>2 DEF OwnRes
<1>5. v = IF s.sasl THEN o ELSE [o EXCEPT !.state = "open"]
  BY <1>1 DEF AfterStart
<1> HIDE DEF b, b2, y
<1>6. /\ q2 \in Seq(Bres) /\ Len(q2) = Len(q) /\ DOMAIN q2 = DOMAIN q /\ q2[i] = b2 /\ i \in DOMAIN q
      /\ \A k \in DOMAIN q : k # i => q2[k] = q[k]
  <2>1. i \in DOMAIN q
    OBVIOUS
  <2> HIDE DEF q
  <2>2. q2 \in [1..Len(q) -> Bres]
    BY <1>1, <1>3, <2>1
  <2>3. q2 \in Seq(Bres) /\ Len(q2) = Len(q) /\ DOMAIN q2 = 1..Len(q)
    <3> HIDE DEF q2
    <3>1. QED
      BY <1>1, <2>2, SeqDef
  <2>4. QED
    BY <1>1, <2>1, <2>3
<1>7. a \in BOOLEAN /\ NoResult \in Results
  BY DEF Results
<1> HIDE DEF q2, a
<1>8. /\ o \in SessRec /\ o.user = s.user /\ o.sasl = s.sasl /\ o.res = q2 /\ o.bound = s.bound
      /\ o.state = s.state
  BY <1>1, <1>6, <1>7 DEF SessRec
<1>9. /\ v \in SessRec /\ v.user = s.user /\ v.sasl = s.sasl /\ v.res = q2 /\ v.bound = s.bound
      /\ v.state = IF s.sasl THEN s.state ELSE "open"
  <2> HIDE DEF o, v
  <2>1. CASE s.sasl
    BY <1>5, <1>8, <2>1
  <2>2. CASE ~s.sasl
    <3>1. v = [o EXCEPT !.state = "open"]
      BY <1>5, <2>2
    <3>2. QED
      BY <1>8, <2>2, <3>1 DEF SessRec
  <2>3. QED
    BY <2>1, <2>2
<1> HIDE DEF o, v
<1>10. v.sasl <=> s.sasl
  BY <1>9
<1>11. v.state \notin {"none", "new", "stream"}
  <2>1. CASE s.sasl
    BY <1>9, <2>1 DEF SessOk, Early
  <2>2. CASE ~s.sasl
    BY <1>9, <2>2
  <2>3. QED
    BY <2>1, <2>2
<1>12. \A k \in DOMAIN q2 : OwnRes(v, q2[k])
  <2>1. OwnRes(v, b2)
    BY <1>3, <1>4, <1>9 DEF OwnRes
  <2>2. \A k \in DOMAIN q : OwnRes(s, q[k])
    BY DEF SessOk
  <2>3. \A k \in DOMAIN q : k # i => OwnRes(v, q2[k])
    BY <1>6, <1>9, <2>2 DEF OwnRes
  <2> HIDE DEF q
  <2>4. QED
    BY <1>6, <2>1, <2>3
<1>13. Settled(b2) /\ ~Settled(q[i]) /\ i \in 1..Len(q) /\ b2.smid # NoId
  BY <1>1, <1>2, <1>3, <1>6 DEF Settled, b
<1>14. ASSUME Len(q) <= 1 PROVE i = 1 /\ Len(q) = 1 /\ DOMAIN q2 = {1} /\ q2[1] = b2
  <2> DEFINE n == Len(q)
  <2>1. n \in Nat /\ n <= 1 /\ i \in 1..n /\ DOMAIN q2 = 1..n /\ q2[i] = b2
    BY <1>1, <1>6, <1>13, <1>14
  <2> HIDE DEF n
  <2>2. i = 1 /\ n = 1 /\ 1..n = {1}
    BY <2>1
  <2>3. QED
    BY <2>1, <2>2 DEF n
<1>15. Counted(v)
  <2>1. CASE s.sasl
    <3>1. /\ Len(q) <= MaxRes
          /\ \/ s.bound = Len(q)
             \/ /\ s.state = "closing" /\ Len(q) = 1 /\ s.bound \in {0, -1}
                /\ (s.active \/ s.bound = -1) => Settled(q[1])
      BY <2>1 DEF SessOk, Counted
    <3>2. CASE s.bound = Len(q)
      BY <1>6, <1>9, <1>10, <2>1, <3>1, <3>2 DEF Counted
    <3>3. CASE s.state = "closing" /\ Len(q) = 1 /\ s.bound \in {0, -1} /\ ((s.active \/ s.bound = -1) => Settled(q[1]))
      <4>1. q2[1] = b2 /\ i = 1
        BY <1>14, <3>3
      <4>2. s.bound = 0
        BY <1>13, <3>3, <4>1
      <4>3. v.state = "closing" /\ Len(v.res) = 1 /\ v.bound = 0 /\ Settled(v.res[1]) /\ v.sasl
        BY <1>6, <1>9, <1>13, <2>1, <3>3, <4>1, <4>2
      <4>4. QED
        BY <1>6, <3>1, <4>3, <1>9 DEF Counted
    <3>4. QED
      BY <3>1, <3>2, <3>3
  <2>2. CASE ~s.sasl
    <3>1. /\ Len(q) <= 1 /\ s.bound \in {0, -1} /\ (s.bound = -1 => \A k \in DOMAIN q : Settled(q[k]))
      BY <2>2 DEF SessOk, Counted
    <3>2. s.bound = 0
      BY <1>6, <1>13, <3>1
    <3>3. DOMAIN q2 = {1} /\ q2[1] = b2
      BY <1>14, <3>1
    <3>4. QED
      BY <1>6, <1>9, <1>10, <1>13, <2>2, <3>1, <3>2, <3>3 DEF Counted
  <2>3. QED
    BY <2>1, <2>2
<1>16. MaxRes <= 1 => \A k \in DOMAIN q2 : q2[k].smid # NoId
  <2> SUFFICES ASSUME MaxRes <= 1 PROVE \A k \in DOMAIN q2 : q2[k].smid # NoId
    OBVIOUS
  <2>1. Len(q) <= 1
    BY <1>1, C2SAssumption DEF SessOk, Counted
  <2>2. QED
    BY <1>13, <1>14, <2>1
<1>17. q2 # <<>>
  BY <1>6
<1>18. SessOk(v)
  BY <1>9, <1>11, <1>12, <1>15, <1>16, <1>17 DEF SessOk, Early
<1>19. Given(v, g)
  BY <1>9, <1>11 DEF Given
<1>20. QED
  BY <1>18, <1>19 DEF v, y

-----------------------------------------------------------------------------
(* The client's side                                                       *)

LEMMA InvParts ==
    ASSUME SessInv
    PROVE  /\ now \in 1..MaxNow /\ toSM \in Seq(Good) /\ toC2S \in Seq(Good) /\ ClientsOk
           /\ told \in [Fds -> SUBSET Jids]
           /\ \A f \in Fds : SessOk(sess[f]) /\ sess[f] \in SessRec /\ Given(sess[f], got[f])
           /\ sess \in [Fds -> SessRec] /\ got \in [Fds -> SUBSET Packets]
BY DEF SessInv, PathOk, ClientsOk, ClientOk

LEMMA OneSess ==
    ASSUME ClientsOk, NEW f \in Fds, NEW s, SessOk(s), SetSess(f, s), NEW g, Given(s, g), got' = [got EXCEPT ![f] = g]
    PROVE  ClientsOk'
<1>1. s \in SessRec /\ g \in SUBSET Packets
  BY DEF SessOk, Given
<1>2. sess' \in [Fds -> SessRec] /\ got' \in [Fds -> SUBSET Packets]
  BY <1>1 DEF ClientsOk, SetSess
<1>3. ASSUME NEW h \in Fds PROVE SessOk(sess'[h]) /\ Given(sess'[h], got'[h])
  <2>1. CASE h = f
    BY <2>1 DEF ClientsOk, SetSess
  <2>2. CASE h # f
    BY <2>2 DEF ClientsOk, ClientOk, SetSess
  <2>3. QED
    BY <2>1, <2>2
<1>4. QED
  BY <1>2, <1>3 DEF ClientsOk, ClientOk

LEMMA SameGot ==
    ASSUME ClientsOk, NEW f \in Fds, NEW s, SessOk(s), SetSess(f, s), Given(s, got[f]), UNCHANGED got
    PROVE  ClientsOk'
<1>1. got' = [got EXCEPT ![f] = got[f]]
  BY DEF ClientsOk
<1>2. QED
  BY <1>1, OneSess

LEMMA NoneSess == ClientsOk /\ UNCHANGED <<sess, got>> => ClientsOk'
BY DEF ClientsOk, ClientOk

ClientStep(f, o) ==
    \/ Accept(f)
    \/ Stream(f)
    \/ \E u \in Users : SaslAuth(f, u)
    \/ \E j \in Jids : AuthSet(f, j, o) \/ Bind(f, j, o)
    \/ \E i \in 1..MaxRes : Unbind(f, i, o)
    \/ \E k \in {"pkt", "xsess"} : Stanza(f, k, o)
    \/ EndStream(f)
    \/ Disconnect(f, o)

ToldOk == told' \in [Fds -> SUBSET Jids]

LEMMA TellParts ==
    ASSUME told \in [Fds -> SUBSET Jids], NEW f \in Fds, NEW j \in Jids,
           told' = [told EXCEPT ![f] = @ \ {j}] \/ told' = told \/ told' = [told EXCEPT ![f] = {}]
    PROVE  ToldOk
BY DEF ToldOk

LEMMA AuthSetStep ==
    ASSUME SessInv, NEW f \in Fds, NEW j \in Jids, NEW o, AuthSet(f, j, o)
    PROVE  ClientsOk' /\ Writes(toC2S, o) /\ ToldOk
<1> DEFINE s == sess[f]
           x == IF s.res = <<>> THEN NoId ELSE Head(s.res).smid
           b == [jid |-> j, smid |-> x, req |-> <<j, now>>]
           v == [s EXCEPT !.user = j[1], !.res = <<b>>, !.result = <<"bind", j>>]
           ms == <<[Request("start", f, b.req) EXCEPT !.smid = b.smid]>>
<1>1. now \in 1..MaxNow /\ toSM \in Seq(Good) /\ toC2S \in Seq(Good) /\ SessOk(s) /\ Given(s, got[f]) /\ ClientsOk
  BY InvParts
<1>2. s.state = "stream" /\ SetSess(f, v) /\ UNCHANGED got /\ Send(ms, toC2S, o) /\ told' = [told EXCEPT ![f] = @ \ {j}]
  BY DEF AuthSet
<1>3. x = NoId
  <2>1. \A i \in DOMAIN s.res : s.res[i].smid = NoId
    BY <1>1, <1>2 DEF SessOk, Early
  <2>2. s.res # <<>> => Head(s.res) = s.res[1] /\ 1 \in DOMAIN s.res
    BY <1>1, SessParts DEF SessOk
  <2>3. QED
    BY <2>1, <2>2
<1>4. got[f] = {}
  BY <1>1, <1>2 DEF Given
<1>5. SessOk(v) /\ Given(v, {})
  <2> HIDE DEF s, x
  <2>1. QED
    BY <1>1, <1>2, <1>3, AuthOk DEF s
<1>6. ClientsOk'
  <2> HIDE DEF v
  <2>1. QED
    BY <1>1, <1>2, <1>4, <1>5, SameGot
<1>7. ms \in Seq(Asked)
  <2>1. b.req \in Ids /\ b.smid \in Ids \cup {NoId}
    BY <1>1, <1>3, IdParts
  <2> HIDE DEF b
  <2> DEFINE m == [Request("start", f, b.req) EXCEPT !.smid = b.smid]
  <2>2. m \in Asked
    BY <2>1, StartGood
  <2> HIDE DEF m
  <2>3. <<m>> \in Seq(Asked)
    BY <2>2
  <2>4. QED
    BY <2>3 DEF m
<1> HIDE DEF ms
<1>8. QED
  BY <1>1, <1>2, <1>6, <1>7, TellParts, InvParts DEF Writes

LEMMA BindStep ==
    ASSUME SessInv, NEW f \in Fds, NEW j \in Jids, NEW o, Bind(f, j, o)
    PROVE  ClientsOk' /\ Writes(toC2S, o) /\ ToldOk
<1> DEFINE s == sess[f]
           b == [jid |-> j, smid |-> NoId, req |-> <<j, now>>]
           v == [s EXCEPT !.res = Append(@, b), !.bound = @ + 1, !.result = <<"bind", j>>]
           ms == <<Request("start", f, b.req)>>
<1>1. now \in 1..MaxNow /\ toSM \in Seq(Good) /\ toC2S \in Seq(Good) /\ SessOk(s) /\ Given(s, got[f]) /\ ClientsOk
  BY InvParts
<1>2. /\ s.state = "open" /\ s.sasl /\ s.user = j[1] /\ Len(s.res) < MaxRes
      /\ SetSess(f, v) /\ UNCHANGED got /\ Send(ms, toC2S, o) /\ told' = [told EXCEPT ![f] = @ \ {j}]
  BY DEF Bind
<1>3. SessOk(v) /\ Given(v, got[f])
  <2> HIDE DEF s
  <2>1. QED
    BY <1>1, <1>2, BindOk
<1>4. ClientsOk'
  <2> HIDE DEF v
  <2>1. QED
    BY <1>1, <1>2, <1>3, SameGot
<1>5. ms \in Seq(Asked)
  <2>1. b.req \in Ids
    BY <1>1, IdParts
  <2> HIDE DEF b
  <2> DEFINE m == Request("start", f, b.req)
  <2>2. m \in Asked
    BY <2>1, StartGood
  <2> HIDE DEF m
  <2>3. <<m>> \in Seq(Asked)
    BY <2>2
  <2>4. QED
    BY <2>3 DEF m
<1> HIDE DEF ms
<1>6. QED
  BY <1>1, <1>2, <1>4, <1>5, TellParts, InvParts DEF Writes

LEMMA OneControl ==
    ASSUME NEW k \in {"end", "pkt", "xsess"}, NEW f \in Fds, NEW i \in Ids \cup {NoId}
    PROVE  <<Control(k, f, i)>> \in Seq(Asked)
<1> DEFINE m == Control(k, f, i)
<1>1. m \in Asked
  BY PlainGood DEF Kinds, Asked, Control
<1> HIDE DEF m
<1>2. <<m>> \in Seq(Asked)
  BY <1>1
<1>3. QED
  BY <1>2 DEF m

LEMMA SmIdOf ==
    ASSUME SessInv, NEW f \in Fds, NEW i \in DOMAIN sess[f].res
    PROVE  sess[f].res[i].smid \in Ids \cup {NoId} /\ sess[f].res[i].jid \in Jids
BY InvParts, SessParts, BresParts

LEMMA UnbindStep ==
    ASSUME SessInv, NEW f \in Fds, NEW i, NEW o, Unbind(f, i, o)
    PROVE  ClientsOk' /\ Writes(toC2S, o) /\ ToldOk
<1> DEFINE s == sess[f]
           r == <<"unbind", s.res[i].jid>>
           v == [s EXCEPT !.result = r]
<1>1. toSM \in Seq(Good) /\ toC2S \in Seq(Good) /\ SessOk(s) /\ Given(s, got[f]) /\ ClientsOk /\ s \in SessRec
  BY InvParts
<1>2. /\ i \in DOMAIN s.res /\ SetSess(f, v) /\ UNCHANGED <<got, told>>
      /\ Send(<<Control("end", f, s.res[i].smid)>>, toC2S, o)
  BY DEF Unbind
<1>3. s.res[i].smid \in Ids \cup {NoId} /\ r \in Results
  BY <1>2, SmIdOf, BindResult
<1>4. SessOk(v) /\ Given(v, got[f])
  <2> HIDE DEF s, r
  <2>1. QED
    BY <1>1, <1>3, WithResult, LikeOk
<1>5. ClientsOk'
  <2> HIDE DEF v
  <2>1. QED
    BY <1>1, <1>2, <1>4, SameGot
<1>6. <<Control("end", f, s.res[i].smid)>> \in Seq(Asked)
  BY <1>3, OneControl
<1>7. Writes(toC2S, o)
  BY <1>2, <1>6 DEF Writes
<1>8. QED
  BY <1>2, <1>5, <1>7, InvParts DEF ToldOk

LEMMA CloseSess ==
    ASSUME SessInv, NEW f \in Fds, SetSess(f, Closing(sess[f])), UNCHANGED got
    PROVE  ClientsOk'
BY InvParts, ClosingLike, LikeOk, SameGot

LEMMA StanzaStep ==
    ASSUME SessInv, NEW f \in Fds, NEW k \in {"pkt", "xsess"}, NEW o, Stanza(f, k, o)
    PROVE  ClientsOk' /\ Writes(toC2S, o) /\ ToldOk
<1> DEFINE s == sess[f]
<1>1. toSM \in Seq(Good) /\ toC2S \in Seq(Good) /\ SessOk(s) /\ ClientsOk /\ s \in SessRec
  BY InvParts
<1>2. UNCHANGED <<got, told>>
  BY DEF Stanza
<1>3. CASE ~s.active /\ SetSess(f, Closing(s)) /\ UNCHANGED <<toSM, toC2S>>
  BY <1>1, <1>2, <1>3, CloseSess, InvParts DEF ToldOk, Writes
<1>4. CASE /\ s.active /\ UNCHANGED sess
           /\ \E i \in IF s.bound > 1 THEN DOMAIN s.res ELSE {1} : Send(<<Control(k, f, s.res[i].smid)>>, toC2S, o)
  <2>1. PICK i \in IF s.bound > 1 THEN DOMAIN s.res ELSE {1} : Send(<<Control(k, f, s.res[i].smid)>>, toC2S, o)
    BY <1>4
  <2>2. i \in DOMAIN s.res
    <3>1. s.res # <<>> /\ s.res \in Seq(Bres)
      BY <1>1, <1>4, SessParts DEF SessOk
    <3>2. 1 \in DOMAIN s.res
      BY <3>1
    <3>3. QED
      BY <2>1, <3>2
  <2>3. <<Control(k, f, s.res[i].smid)>> \in Seq(Asked)
    BY <2>2, SmIdOf, OneControl
  <2>4. Writes(toC2S, o)
    BY <2>1, <2>3 DEF Writes
  <2>5. QED
    BY <1>1, <1>2, <1>4, <2>4, NoneSess, InvParts DEF ToldOk
<1>5. QED
  BY <1>3, <1>4 DEF Stanza

LEMMA DisconnectStep ==
    ASSUME SessInv, NEW f \in Fds, NEW o, Disconnect(f, o)
    PROVE  ClientsOk' /\ Writes(toC2S, o) /\ ToldOk
<1> DEFINE s == sess[f]
           es == [i \in DOMAIN s.res |-> Control("end", f, s.res[i].smid)]
           ms == IF s.active THEN es ELSE <<>>
<1>1. toSM \in Seq(Good) /\ toC2S \in Seq(Good) /\ SessOk(s) /\ ClientsOk /\ s \in SessRec
  BY InvParts
<1>2. /\ Send(ms, toC2S, o) /\ SetSess(f, Blank)
      /\ told' = [told EXCEPT ![f] = {}] /\ got' = [got EXCEPT ![f] = {}]
  BY DEF Disconnect
<1>3. es \in Seq(Asked)
  <2>1. Len(s.res) \in Nat /\ DOMAIN s.res = 1..Len(s.res)
    BY <1>1, SessParts
  <2>2. \A i \in DOMAIN s.res : Control("end", f, s.res[i].smid) \in Asked
    BY SmIdOf, PlainGood DEF Kinds, Asked, Control
  <2>3. es \in [1..Len(s.res) -> Asked]
    BY <2>1, <2>2
  <2> HIDE DEF es
  <2>4. QED
    BY <2>1, <2>3
<1>4. ms \in Seq(Asked)
  BY <1>3
<1> HIDE DEF ms
<1>5. SessOk(Blank) /\ Given(Blank, {})
  BY BlankOk
<1>6. ClientsOk'
  BY <1>1, <1>2, <1>5, OneSess
<1>7. told' \in [Fds -> SUBSET Jids]
  BY <1>2, InvParts
<1>8. QED
  BY <1>1, <1>2, <1>4, <1>6, <1>7 DEF ToldOk, Writes

LEMMA AcceptStep ==
    ASSUME SessInv, NEW f \in Fds, Accept(f)
    PROVE  ClientsOk'
<1> DEFINE v == [Blank EXCEPT !.state = "new"]
<1>1. ClientsOk /\ Given(sess[f], got[f]) /\ sess[f].state = "none" /\ SetSess(f, v) /\ UNCHANGED got
  BY InvParts DEF Accept
<1>2. got[f] = {}
  BY <1>1 DEF Given
<1>3. SessOk(v) /\ Given(v, {})
  BY BlankOk
<1> HIDE DEF v
<1>4. QED
  BY <1>1, <1>2, <1>3, SameGot

LEMMA StreamStep ==
    ASSUME SessInv, NEW f \in Fds, Stream(f) \/ \E u \in Users : SaslAuth(f, u)
    PROVE  ClientsOk'
<1>1. ClientsOk /\ Given(sess[f], got[f]) /\ SessOk(sess[f]) /\ UNCHANGED got
  BY InvParts DEF Stream, SaslAuth
<1>2. sess[f].state \in {"new", "stream"}
  BY DEF Stream, SaslAuth
<1>3. got[f] = {}
  BY <1>1, <1>2 DEF Given
<1> DEFINE s == sess[f]
<1>4. CASE Stream(f)
  <2> DEFINE st == IF sm_avail THEN "stream" ELSE "closing"
             v == [s EXCEPT !.state = st]
  <2>1. SetSess(f, v) /\ st \in {"stream", "closing"} /\ s.state = "new"
    BY <1>4 DEF Stream
  <2>2. SessOk(v) /\ Given(v, {})
    <3> HIDE DEF s, st
    <3>1. QED
      BY <1>1, <1>3, <2>1, StreamOk DEF s
  <2> HIDE DEF v
  <2>3. QED
    BY <1>1, <1>3, <2>1, <2>2, SameGot
<1>5. CASE \E u \in Users : SaslAuth(f, u)
  <2>1. PICK u \in Users : SaslAuth(f, u)
    BY <1>5
  <2> DEFINE v == [s EXCEPT !.state = "open", !.user = u, !.sasl = TRUE]
  <2>2. SetSess(f, v) /\ s.state = "stream" /\ s.res = <<>>
    BY <2>1 DEF SaslAuth
  <2>3. SessOk(v) /\ Given(v, {})
    <3> HIDE DEF s
    <3>1. QED
      BY <1>1, <2>2, SaslOk DEF s
  <2> HIDE DEF v
  <2>4. QED
    BY <1>1, <1>3, <2>2, <2>3, SameGot
<1>6. QED
  BY <1>4, <1>5

(* Whatever a client does.                                                 *)
LEMMA ClientDoes ==
    ASSUME SessInv, NEW f \in Fds, Client(f)
    PROVE  /\ UNCHANGED <<now, sm_avail, link, sm, smUp>> /\ used' \subseteq Fds
           /\ ClientsOk' /\ Writes(toC2S, smUp) /\ ToldOk
<1>1. UNCHANGED <<sm, smUp>> /\ ClientStep(f, smUp)
  BY DEF Client, ClientStep
<1>2. UNCHANGED <<now, sm_avail, link>> /\ used' \subseteq Fds
  BY <1>1 DEF ClientStep, SessInv, path, Accept, Stream, SaslAuth, AuthSet, Bind, Unbind, Stanza, EndStream, Disconnect
<1>3. ClientsOk' /\ Writes(toC2S, smUp) /\ ToldOk
  <2>1. CASE Accept(f)
    BY <2>1, AcceptStep, InvParts DEF Accept, path, ToldOk, Writes
  <2>2. CASE Stream(f) \/ \E u \in Users : SaslAuth(f, u)
    <3>1. UNCHANGED <<toSM, toC2S, told>>
      BY <2>2 DEF Stream, SaslAuth, path
    <3>2. QED
      BY <2>2, <3>1, StreamStep, InvParts DEF ToldOk, Writes
  <2>3. CASE \E j \in Jids : AuthSet(f, j, smUp) \/ Bind(f, j, smUp)
    BY <2>3, AuthSetStep, BindStep
  <2>4. CASE \E i \in 1..MaxRes : Unbind(f, i, smUp)
    BY <2>4, UnbindStep
  <2>5. CASE \E k \in {"pkt", "xsess"} : Stanza(f, k, smUp)
    BY <2>5, StanzaStep
  <2>6. CASE EndStream(f)
    BY <2>6, CloseSess, InvParts DEF EndStream, path, ToldOk, Writes
  <2>7. CASE Disconnect(f, smUp)
    BY <2>7, DisconnectStep
  <2>8. QED
    BY <1>1, <2>1, <2>2, <2>3, <2>4, <2>5, <2>6, <2>7 DEF ClientStep
<1>4. QED
  BY <1>1, <1>2, <1>3

LEMMA ClientKeeps ==
    ASSUME SessInv, NEW f \in Fds, Client(f)
    PROVE  SessInv'
<1>1. /\ UNCHANGED <<now, sm_avail, link, sm, smUp>> /\ used' \subseteq Fds
      /\ ClientsOk' /\ Writes(toC2S, smUp) /\ ToldOk
  BY ClientDoes
<1>2. toSM' \in Seq(Good) /\ toC2S' \in Seq(Good)
  BY <1>1, InvParts, WritesGood
<1>3. QED
  BY <1>1, <1>2 DEF SessInv, PathOk, ToldOk, SMType

-----------------------------------------------------------------------------
(* Packets for c2s                                                         *)

LEMMA FoundIn ==
    ASSUME NEW s, s \in SessRec, NEW m, Matches(s, m) # {}
    PROVE  Found(s, m) \in DOMAIN s.res /\ s.res[Found(s, m)].smid \in {NoId, m.smid}
<1> DEFINE T == Matches(s, m)
<1>1. T \subseteq Nat /\ T # {}
  BY SessParts DEF Matches
<1>2. \A i \in T : i \in DOMAIN s.res /\ s.res[i].smid \in {NoId, m.smid}
  BY DEF Matches
<1> HIDE DEF T
<1>3. PICK x \in T : \A y \in T : ~(<<y, x>> \in OpToRel(<, Nat))
  BY <1>1, WFMin, NatLessThanWellFounded
<1>4. \A y \in T : x <= y
  <2> SUFFICES ASSUME NEW y \in T PROVE ~(y < x)
    BY <1>1
  <2>1. x \in Nat /\ y \in Nat /\ <<y, x>> \in Nat \X Nat
    BY <1>1
  <2>2. ~(<<y, x>> \in OpToRel(<, Nat))
    BY <1>3
  <2> DEFINE z == <<y, x>>
  <2>3. z \in Nat \X Nat /\ z[1] = y /\ z[2] = x
    BY <2>1
  <2>4. ~(z[1] < z[2])
    <3> HIDE DEF z
    <3>1. ~(z \in OpToRel(<, Nat))
      BY <2>2 DEF z
    <3>2. QED
      BY <2>3, <3>1 DEF OpToRel
  <2>5. QED
    BY <2>3, <2>4
<1>5. (CHOOSE i \in T : \A k \in T : i <= k) \in T
  BY <1>4
<1>6. QED
  BY <1>2, <1>5 DEF Found, T

(* What a packet for c2s must preserve, given what is left to read.        *)
C2SKeeps(in) ==
    /\ ClientsOk' /\ Writes(in, smUp) /\ ToldOk
    /\ sm_avail' \in BOOLEAN /\ link' = link

Reading(m, in) == SessInv /\ m \in Good /\ in \in Seq(Good)

LEMMA ReadParts ==
    ASSUME NEW m, NEW in, Reading(m, in)
    PROVE  /\ SessInv /\ m \in Good /\ in \in Seq(Good) /\ m.fd \in Fds /\ toSM \in Seq(Good) /\ ClientsOk
           /\ SessOk(sess[m.fd]) /\ sess[m.fd] \in SessRec /\ Given(sess[m.fd], got[m.fd])
           /\ told \in [Fds -> SUBSET Jids] /\ sm_avail \in BOOLEAN
BY InvParts, MsgParts DEF Reading, SessInv

LEMMA IgnoreKeeps ==
    ASSUME NEW m, NEW in, Reading(m, in), Ignore(in)
    PROVE  C2SKeeps(in)
BY ReadParts, NoneSess DEF C2SKeeps, Writes, Ignore, ToldOk

LEMMA TellKeeps ==
    ASSUME NEW m, NEW in, Reading(m, in), Tell(m, in, smUp)
    PROVE  C2SKeeps(in)
<1>1. <<Control("end", m.fd, m.smid)>> \in Seq(Asked)
  BY ReadParts, MsgParts, OneControl
<1>2. Writes(in, smUp)
  BY <1>1 DEF Tell, Writes
<1>3. QED
  BY <1>2, ReadParts, NoneSess DEF C2SKeeps, Tell, ToldOk

LEMMA RouteErrorKeeps ==
    ASSUME NEW m, NEW in, Reading(m, in), RouteError(m, in)
    PROVE  C2SKeeps(in)
<1>1. ClientsOk'
  BY ReadParts, CloseSess DEF RouteError
<1>2. QED
  BY <1>1, ReadParts DEF C2SKeeps, Writes, RouteError, ToldOk

LEMMA AnsweredOk ==
    ASSUME NEW m, NEW in, Reading(m, in)
    PROVE  /\ Answered(m.fd) \in [Fds -> SUBSET Jids]
           /\ [told EXCEPT ![m.fd] = @ \cup {r[2] : r \in {sess[m.fd].result} \ {NoResult}}] \in [Fds -> SUBSET Jids]
<1> DEFINE x == sess[m.fd].result
<1>1. told \in [Fds -> SUBSET Jids] /\ m.fd \in Fds /\ x \in Results
  BY ReadParts, SessParts
<1>2. x # NoResult => x[2] \in Jids
  <2> HIDE DEF x
  <2>1. QED
    BY <1>1 DEF Results
<1>3. QED
  BY <1>1, <1>2 DEF Answered

LEMMA EndedKeeps ==
    ASSUME NEW m, NEW in, Reading(m, in), NEW i \in DOMAIN sess[m.fd].res, Ended(m, i, in)
    PROVE  C2SKeeps(in)
<1> DEFINE s == sess[m.fd]
           v == AfterEnd(s, i)
<1>1. s.active /\ SetSess(m.fd, v) /\ UNCHANGED <<got, toSM, sm_avail, link>> /\ toC2S' = in /\ told' = Answered(m.fd)
  BY DEF Ended, AfterEnd
<1>2. SessOk(v) /\ Given(v, got[m.fd])
  BY <1>1, ReadParts, EndedOk
<1> HIDE DEF v
<1>3. ClientsOk'
  BY <1>1, <1>2, ReadParts, SameGot
<1>4. QED
  BY <1>1, <1>3, ReadParts, AnsweredOk DEF C2SKeeps, Writes, ToldOk

LEMMA StartedKeeps ==
    ASSUME NEW m, NEW in, Reading(m, in), NEW i \in DOMAIN sess[m.fd].res, Started(m, i, in)
    PROVE  C2SKeeps(in)
<1> DEFINE s == sess[m.fd]
           v == AfterStart(s, i, m.smid)
<1>1. SetSess(m.fd, v) /\ UNCHANGED <<got, toSM, sm_avail, link>> /\ toC2S' = in /\ m.kind = "started" /\ Expected(s.res[i], m)
  BY DEF Started, AfterStart, StartedId
<1>2. SessOk(v) /\ Given(v, got[m.fd])
  BY <1>1, ReadParts, StartedOk
<1> HIDE DEF v
<1>3. ClientsOk'
  BY <1>1, <1>2, ReadParts, SameGot
<1>4. told' \in [Fds -> SUBSET Jids]
  BY AnsweredOk DEF Started
<1>5. QED
  BY <1>1, <1>3, <1>4, ReadParts DEF C2SKeeps, Writes, ToldOk

(* A stanza for an active client has found a resource of this client: with *)
(* at most one resource this one has the session id the packet carries.    *)
LEMMA ToClientKeeps ==
    ASSUME NEW m, NEW in, Reading(m, in), NEW i \in DOMAIN sess[m.fd].res,
           sess[m.fd].res[i].smid \in {NoId, m.smid}, ToClient(m, in)
    PROVE  C2SKeeps(in)
<1> DEFINE s == sess[m.fd]
           owner == IF m.smid = NoId THEN NoId ELSE m.smid[1][1]
           g == got[m.fd] \cup {<<owner, m.kind>>}
<1>1. CASE Ignore(in)
  BY <1>1, IgnoreKeeps
<1>2. CASE s.active /\ toC2S' = in /\ UNCHANGED <<toSM, sess, sm_avail, link, told>> /\ got' = got
  BY <1>2, ReadParts, NoneSess DEF C2SKeeps, Writes, ToldOk
<1>3. CASE /\ s.active /\ toC2S' = in /\ UNCHANGED <<toSM, sess, sm_avail, link, told>>
           /\ got' = [got EXCEPT ![m.fd] = g]
  <2>1. owner \in Users \cup {NoId} /\ m.kind \in {"pkt", "pkt failed"}
    <3>1. m.smid \in Ids \cup {NoId}
      BY ReadParts, MsgParts
    <3>2. QED
      BY <3>1, IdParts DEF ToClient
  <2>2. s.state \notin {"none", "new", "stream"}
    BY <1>3, ReadParts DEF SessOk, Early
  <2>3. MaxRes <= 1 => owner = s.user
    <3>1. MaxRes <= 1 => s.res[i].smid # NoId
      BY <1>3, ReadParts DEF SessOk
    <3>2. OwnRes(s, s.res[i])
      BY ReadParts DEF SessOk
    <3>3. MaxRes <= 1 => s.res[i].smid = m.smid /\ m.smid # NoId /\ m.smid[1] = s.res[i].jid /\ s.res[i].jid[1] = s.user
      BY <3>1, <3>2 DEF OwnRes
    <3>4. QED
      BY <3>3
  <2>4. Given(s, g)
    <3>1. got[m.fd] \in SUBSET Packets /\ (MaxRes <= 1 => \A x \in got[m.fd] : x[1] \in {s.user, NoId})
      BY ReadParts DEF Given
    <3>2. g \in SUBSET Packets
      <4> HIDE DEF owner
      <4>1. <<owner, m.kind>> \in Packets
        BY <2>1 DEF Packets
      <4>2. QED
        BY <3>1, <4>1
    <3>3. MaxRes <= 1 => \A x \in g : x[1] \in {s.user, NoId}
      BY <2>3, <3>1
    <3>4. QED
      BY <2>2, <3>2, <3>3 DEF Given
  <2> HIDE DEF g
  <2>5. SetSess(m.fd, s)
    BY <1>3, ReadParts DEF SetSess, ClientsOk
  <2>6. ClientsOk'
    BY <1>3, <2>4, <2>5, ReadParts, OneSess
  <2>7. QED
    BY <1>3, <2>6, ReadParts DEF C2SKeeps, Writes, ToldOk
<1>4. QED
  BY <1>1, <1>2, <1>3 DEF ToClient

LEMMA ForResourceKeeps ==
    ASSUME NEW m, NEW in, Reading(m, in), ForResource(m, in)
    PROVE  C2SKeeps(in)
<1> DEFINE i == Found(sess[m.fd], m)
<1>1. i \in DOMAIN sess[m.fd].res /\ sess[m.fd].res[i].smid \in {NoId, m.smid}
  BY ReadParts, FoundIn DEF ForResource
<1>2. Ended(m, i, in) \/ Started(m, i, in) \/ Unexpected(m, i, in) \/ ToClient(m, in)
  BY DEF ForResource
<1> HIDE DEF i
<1>3. QED
  BY <1>1, <1>2, EndedKeeps, StartedKeeps, ToClientKeeps, IgnoreKeeps DEF Unexpected

(* The sm comes and goes: sessions are closed and no longer active.        *)
LEMMA PresenceKeeps ==
    ASSUME NEW m, NEW in, Reading(m, in), Presence(m, in)
    PROVE  C2SKeeps(in)
<1>1. toC2S' = in /\ UNCHANGED <<toSM, link, told, got>> /\ sm_avail' \in BOOLEAN
  BY DEF Presence
<1>2. ClientsOk'
  <2>1. CASE UNCHANGED sess
    BY <1>1, <2>1, ReadParts, NoneSess
  <2>2. CASE sess' = [f \in Fds |-> IF sm_avail /\ Affected(sess[f])
                                    THEN Closing([sess[f] EXCEPT !.active = FALSE]) ELSE sess[f]]
    <3>1. ASSUME NEW f \in Fds PROVE SessOk(sess'[f]) /\ Given(sess'[f], got[f]) /\ sess'[f] \in SessRec
      <4>1. SessOk(sess[f]) /\ sess[f] \in SessRec /\ Given(sess[f], got[f])
        BY InvParts, ReadParts
      <4>2. sess'[f] = sess[f] \/ sess'[f] = Closing([sess[f] EXCEPT !.active = FALSE])
        BY <2>2
      <4> DEFINE v == Closing([sess[f] EXCEPT !.active = FALSE])
      <4>3. SessOk(v) /\ Given(v, got[f])
        BY <4>1, ClosingLike, LikeOk
      <4> HIDE DEF v
      <4>4. QED
        BY <4>1, <4>2, <4>3 DEF v, SessOk
    <3>2. sess' \in [Fds -> SessRec]
      BY <2>2, <3>1
    <3>3. QED
      BY <1>1, <3>1, <3>2, ReadParts DEF ClientsOk, ClientOk
  <2>3. QED
    BY <2>1, <2>2 DEF Presence
<1>3. QED
  BY <1>1, <1>2, ReadParts DEF C2SKeeps, Writes, ToldOk

(* The seven things that can become of a packet.                           *)
Handled(m, in) ==
    \/ Presence(m, in)
    \/ /\ m.kind \notin {"sm up", "sm down"}
       /\ \/ Unknown(m, in, smUp) \/ Leftover(m, in) \/ RouteError(m, in) \/ NoSmId(m, in)
          \/ NoResource(m, in, smUp) \/ ForResource(m, in)

LEMMA HandledKeeps ==
    ASSUME NEW m, NEW in, Reading(m, in), Handled(m, in)
    PROVE  C2SKeeps(in)
<1>1. CASE Presence(m, in)
  BY <1>1, PresenceKeeps
<1>2. CASE Unknown(m, in, smUp) \/ NoResource(m, in, smUp)
  BY <1>2, IgnoreKeeps, TellKeeps DEF Unknown, NoResource
<1>3. CASE Leftover(m, in) \/ NoSmId(m, in)
  BY <1>3, IgnoreKeeps DEF Leftover, NoSmId
<1>4. CASE RouteError(m, in)
  BY <1>4, RouteErrorKeeps
<1>5. CASE ForResource(m, in)
  BY <1>5, ForResourceKeeps
<1>6. QED
  BY <1>1, <1>2, <1>3, <1>4, <1>5 DEF Handled

LEMMA FromRouterKeeps ==
    ASSUME SessInv, FromRouter
    PROVE  SessInv'
<1> DEFINE m == Head(toC2S)
           in == Tail(toC2S)
<1>1. toC2S # <<>> /\ UNCHANGED <<now, used, sm, smUp>>
  BY DEF FromRouter, C2SStep
<1>2. Reading(m, in)
  BY <1>1, InvParts, SeqParts DEF Reading
<1>3. Handled(m, in)
  BY DEF FromRouter, C2SStep, Handled
<1> HIDE DEF m, in
<1>4. C2SKeeps(in)
  BY <1>2, <1>3, HandledKeeps
<1>5. toSM' \in Seq(Good) /\ toC2S' \in Seq(Good)
  BY <1>2, <1>4, ReadParts, WritesGood DEF C2SKeeps
<1>6. QED
  BY <1>1, <1>4, <1>5 DEF SessInv, PathOk, C2SKeeps, ToldOk, SMType

-----------------------------------------------------------------------------
(* The session manager's side, and failures                                *)

LEMMA LiveParts ==
    ASSUME SessInv, NEW j \in Jids, Live(j)
    PROVE  sm[j].fd \in Fds /\ SmId(j) \in Ids /\ SmId(j) # NoId
<1>1. sm[j] \in [at : 1..MaxNow, fd : Fds]
  BY DEF SessInv, SMType, Live, Sessions
<1>2. sm[j].at \in 1..MaxNow /\ sm[j].fd \in Fds
  BY <1>1
<1>3. QED
  BY <1>2, IdParts DEF SmId

LEMMA ReplacedGood ==
    ASSUME SessInv, NEW j \in Jids
    PROVE  Replaced(j) \in Seq(Good)
<1>1. CASE Live(j)
  <2> DEFINE m == Control("replaced", sm[j].fd, SmId(j))
  <2>1. m \in Good
    BY <1>1, LiveParts, PlainGood DEF Kinds
  <2>2. Replaced(j) = <<m>>
    BY <1>1 DEF Replaced
  <2> HIDE DEF m
  <2>3. QED
    BY <2>1, <2>2
<1>2. CASE ~Live(j)
  BY <1>2 DEF Replaced
<1>3. QED
  BY <1>1, <1>2

(* What the sm's step must preserve.                                       *)
SMKeeps == toC2S' \in Seq(Good) /\ sm' \in [Jids -> Sessions]

LEMMA SessStartKeeps ==
    ASSUME SessInv, NEW m \in Good, NEW o, SessStart(m, o)
    PROVE  SMKeeps
<1> DEFINE j == m.id[1]
           f == [m EXCEPT !.kind = "start failed"]
           y == [m EXCEPT !.kind = "started", !.smid = <<j, now>>]
<1>1. now \in 1..MaxNow /\ toC2S \in Seq(Good) /\ sm \in [Jids -> Sessions] /\ m.fd \in Fds /\ m.kind = "start"
  BY InvParts, MsgParts DEF SessInv, SMType, SessStart
<1>2. f \in Good /\ y \in Good /\ j \in Jids
  BY <1>1, Rekinded, StartedGood DEF Kinds
<1>3. Replaced(j) \in Seq(Good)
  BY <1>2, ReplacedGood
<1>4. \/ Reply(<<f>>, o) /\ UNCHANGED sm
      \/ sm' = [sm EXCEPT ![j] = [at |-> now, fd |-> m.fd]] /\ Reply(Replaced(j) \o <<y>>, o)
  BY DEF SessStart
<1>5. [at |-> now, fd |-> m.fd] \in Sessions
  BY <1>1 DEF Sessions
<1> HIDE DEF f, y, j
<1> DEFINE r == Replaced(j) \o <<y>>
<1>6. <<f>> \in Seq(Good) /\ <<y>> \in Seq(Good)
  BY <1>2
<1>7. r \in Seq(Good)
  BY <1>3, <1>6, SeqParts
<1> HIDE DEF r
<1>8. Reply(<<f>>, o) \/ Reply(r, o)
  BY <1>4 DEF r
<1>9. toC2S' \in Seq(Good)
  BY <1>1, <1>6, <1>7, <1>8, ReplyGood
<1>10. sm' \in [Jids -> Sessions]
  BY <1>1, <1>2, <1>4, <1>5
<1>11. QED
  BY <1>9, <1>10 DEF SMKeeps

LEMMA OneRekinded ==
    ASSUME toC2S \in Seq(Good), NEW m \in Good, NEW o, NEW k \in Kinds \ {"start", "started"},
           Reply(<<[m EXCEPT !.kind = k]>>, o)
    PROVE  toC2S' \in Seq(Good)
<1> DEFINE v == [m EXCEPT !.kind = k]
<1>1. v \in Good /\ Reply(<<v>>, o)
  BY Rekinded
<1> HIDE DEF v
<1>2. <<v>> \in Seq(Good)
  BY <1>1
<1>3. QED
  BY <1>1, <1>2, ReplyGood

LEMMA SessEndKeeps ==
    ASSUME SessInv, NEW m \in Good, NEW o, SessEnd(m, o)
    PROVE  SMKeeps
<1>1. toC2S \in Seq(Good) /\ sm \in [Jids -> Sessions] /\ m.fd \in Fds /\ m.smid \in Ids \cup {NoId}
  BY InvParts, MsgParts DEF SessInv, SMType
<1>2. CASE Reply(<<[m EXCEPT !.kind = "end failed"]>>, o) /\ UNCHANGED sm
  BY <1>1, <1>2, OneRekinded DEF SMKeeps, Kinds
<1>3. CASE UNCHANGED <<sm, toC2S>>
  BY <1>1, <1>3 DEF SMKeeps
<1>4. CASE sm' = [sm EXCEPT ![m.smid[1]] = NoSession] /\ Reply(<<Control("ended", m.fd, m.smid)>>, o)
  <2> DEFINE v == Control("ended", m.fd, m.smid)
  <2>1. v \in Good
    BY <1>1, PlainGood DEF Kinds
  <2>2. Reply(<<v>>, o)
    BY <1>4
  <2> HIDE DEF v
  <2>3. <<v>> \in Seq(Good)
    BY <2>1
  <2>4. toC2S' \in Seq(Good)
    BY <1>1, <2>2, <2>3, ReplyGood
  <2>5. NoSession \in Sessions
    BY DEF Sessions
  <2>6. QED
    BY <1>1, <1>4, <2>4, <2>5 DEF SMKeeps
<1>5. QED
  BY <1>2, <1>3, <1>4 DEF SessEnd

LEMMA InSessKeeps ==
    ASSUME SessInv, NEW m \in Good, NEW o, InSess(m, o)
    PROVE  SMKeeps
<1>1. toC2S \in Seq(Good) /\ sm \in [Jids -> Sessions] /\ UNCHANGED sm
  BY InvParts DEF SessInv, SMType, InSess
<1>2. toC2S' \in Seq(Good)
  <2>1. CASE Reply(<<[m EXCEPT !.kind = "pkt"]>>, o)
    BY <1>1, <2>1, OneRekinded DEF Kinds
  <2>2. CASE Reply(<<[m EXCEPT !.kind = "pkt failed"]>>, o)
    BY <1>1, <2>2, OneRekinded DEF Kinds
  <2>3. CASE UNCHANGED toC2S
    BY <1>1, <2>3
  <2>4. QED
    BY <2>1, <2>2, <2>3 DEF InSess
<1>3. QED
  BY <1>1, <1>2 DEF SMKeeps

LEMMA ManagerKeeps ==
    ASSUME SessInv, Manager
    PROVE  SessInv'
<1> DEFINE m == Head(toSM)
           o == link = "up"
<1>1. /\ toSM # <<>> /\ toSM' = Tail(toSM) /\ UNCHANGED <<now, smUp, sess, sm_avail, link, used, told, got>>
      /\ SessStart(m, o) \/ SessEnd(m, o) \/ InSess(m, o) \/ C2SGone(m)
  BY DEF Manager, SMStep, c2sVars
<1>2. m \in Good /\ toSM' \in Seq(Good)
  BY <1>1, InvParts, SeqParts
<1> HIDE DEF m, o
<1>3. SMKeeps
  <2>1. CASE C2SGone(m)
    BY <2>1, InvParts DEF C2SGone, SMKeeps, Sessions
  <2>2. QED
    BY <1>1, <1>2, <2>1, SessStartKeeps, SessEndKeeps, InSessKeeps
<1>4. ClientsOk'
  BY <1>1, InvParts, NoneSess
<1>5. QED
  BY <1>1, <1>2, <1>3, <1>4 DEF SessInv, PathOk, SMType, SMKeeps

LEMMA ModulesKeep ==
    ASSUME SessInv, Modules
    PROVE  SessInv'
<1>1. PICK j \in Jids : Deliver(j, link = "up") /\ UNCHANGED c2sVars
  BY DEF Modules
<1> DEFINE m == Control("pkt", sm[j].fd, SmId(j))
           o == link = "up"
<1>2. m \in Good
  BY <1>1, LiveParts, PlainGood DEF Kinds, Deliver
<1>3. Reply(<<m>>, o) /\ UNCHANGED <<now, toSM, sm, smUp, sess, sm_avail, link, used, told, got>>
  BY <1>1 DEF Deliver, c2sVars
<1> HIDE DEF m, o
<1>4. <<m>> \in Seq(Good)
  BY <1>2
<1>5. toC2S' \in Seq(Good)
  BY <1>3, <1>4, InvParts, ReplyGood
<1>6. ClientsOk'
  BY <1>3, InvParts, NoneSess
<1>7. QED
  BY <1>3, <1>5, <1>6 DEF SessInv, PathOk, SMType

(* The clock, and the links going and coming back.                         *)
LEMMA WorldKeeps ==
    ASSUME SessInv, Clock \/ LinkDown \/ LinkUp \/ SMDown \/ SMBack
    PROVE  SessInv'
<1>1. UNCHANGED <<sess, got, sm_avail, used, told>>
  BY DEF Clock, LinkDown, LinkUp, SMDown, SMBack, c2sVars
<1>2. ClientsOk'
  BY <1>1, InvParts, NoneSess
<1>3. now' \in 1..MaxNow /\ link' \in {"up", "down"}
  <2>1. now \in 1..MaxNow /\ link \in {"up", "down"} /\ MaxNow \in Nat
    BY SessAssumption DEF SessInv, PathOk
  <2>2. CASE Clock
    <3>1. now' = now + 1 /\ now < MaxNow /\ link' = link
      BY <2>2 DEF Clock, Tick, c2sVars
    <3>2. QED
      BY <2>1, <3>1
  <2>3. CASE LinkDown \/ LinkUp \/ SMDown \/ SMBack
    <3>1. now' = now /\ link' \in {link, "up", "down"}
      BY <2>3 DEF LinkDown, LinkUp, SMDown, SMBack, c2sVars
    <3>2. QED
      BY <2>1, <3>1
  <2>4. QED
    BY <2>2, <2>3
<1>4. toSM \in Seq(Good) /\ toC2S \in Seq(Good)
  BY InvParts
<1>5. \A k \in {"sm up", "sm down", "c2s down"} : \A q \in Seq(Good) :
          Append(q, Advert(k)) \in Seq(Good) /\ <<Advert(k)>> \in Seq(Good)
  BY AdvertGood, SeqParts
<1>6. <<>> \in Seq(Good)
  OBVIOUS
<1>7. toSM' \in Seq(Good) /\ toC2S' \in Seq(Good)
  <2>1. CASE Clock
    BY <1>4, <2>1 DEF Clock, Tick
  <2>2. CASE LinkDown
    <3>1. PICK t \in CutOff(toSM) : toSM' = IF smUp THEN Append(t, Advert("c2s down")) ELSE <<>>
      BY <2>2 DEF LinkDown
    <3>2. t \in Seq(Good)
      BY <1>4, CutGood
    <3>3. QED
      BY <1>5, <1>6, <2>2, <3>1, <3>2 DEF LinkDown
  <2>3. CASE LinkUp
    BY <1>4, <1>5, <1>6, <2>3 DEF LinkUp
  <2>4. CASE SMDown
    <3>1. PICK t \in CutOff(toC2S) : toC2S' = IF link = "up" THEN Append(t, Advert("sm down")) ELSE <<>>
      BY <2>4 DEF SMDown
    <3>2. t \in Seq(Good)
      BY <1>4, CutGood
    <3>3. QED
      BY <1>5, <1>6, <2>4, <3>1, <3>2 DEF SMDown
  <2>5. CASE SMBack
    BY <1>4, <1>5, <2>5 DEF SMBack
  <2>6. QED
    BY <2>1, <2>2, <2>3, <2>4, <2>5
<1>8. SMType'
  BY DEF SessInv, SMType, Sessions, Clock, LinkDown, LinkUp, SMDown, SMBack
<1>9. QED
  BY <1>1, <1>2, <1>3, <1>7, <1>8 DEF SessInv, PathOk

LEMMA InitInv == Init => SessInv
<1> SUFFICES ASSUME Init PROVE SessInv
  OBVIOUS
<1>1. SessOk(Blank) /\ Given(Blank, {}) /\ Blank \in SessRec
  BY BlankOk DEF SessOk
<1>2. ClientsOk
  <2>1. sess = [f \in Fds |-> Blank] /\ got = [f \in Fds |-> {}]
    BY DEF Init, C2SInit
  <2>2. QED
    BY <1>1, <2>1 DEF ClientsOk, ClientOk
<1>3. PathOk
  BY SessAssumption DEF Init, PathInit, PathOk
<1>4. SMType
  BY DEF Init, SMInit, SMType, Sessions
<1>5. QED
  BY <1>2, <1>3, <1>4 DEF Init, C2SInit, SessInv

LEMMA NextInv == SessInv /\ [Next]_vars => SessInv'
<1> SUFFICES ASSUME SessInv, [Next]_vars PROVE SessInv'
  OBVIOUS
<1>1. CASE \E f \in Fds : Client(f)
  BY <1>1, ClientKeeps
<1>2. CASE FromRouter
  BY <1>2, FromRouterKeeps
<1>3. CASE Manager \/ Modules
  BY <1>3, ManagerKeeps, ModulesKeep
<1>4. CASE Clock \/ LinkDown \/ LinkUp \/ SMDown \/ SMBack
  BY <1>4, WorldKeeps
<1>5. CASE UNCHANGED vars
  <2>1. UNCHANGED <<now, toSM, toC2S, sess, sm_avail, link, used, told, got, sm, smUp>>
    BY <1>5 DEF vars, path, c2sVars
  <2>2. ClientsOk'
    BY <2>1, InvParts, NoneSess
  <2>3. QED
    BY <2>1, <2>2 DEF SessInv, PathOk, SMType
<1>6. QED
  BY <1>1, <1>2, <1>3, <1>4, <1>5 DEF Next

LEMMA AlwaysInv == Spec => []SessInv
BY InitInv, NextInv, PTL DEF Spec

-----------------------------------------------------------------------------
(* The advertisement of a lost link                                        *)

(* While the link is down nothing is added to what the sm has still to     *)
(* read.                                                                   *)
LEMMA DownSends ==
    ASSUME SessInv, link = "down", NEW f \in Fds, Client(f)
    PROVE  UNCHANGED <<toSM, sm, smUp, link>>
<1>1. UNCHANGED <<sm, smUp>> /\ ClientStep(f, smUp)
  BY DEF Client, ClientStep
<1>2. \A ms, in, o : Send(ms, in, o) => toSM' = toSM
  BY DEF Send
<1>3. QED
  BY <1>1, <1>2 DEF ClientStep, path, Accept, Stream, SaslAuth, AuthSet, Bind, Unbind, Stanza, EndStream, Disconnect

LEMMA ClientLink ==
    ASSUME NEW f, Client(f)
    PROVE  UNCHANGED <<link, smUp>>
<1>1. UNCHANGED <<sm, smUp>> /\ ClientStep(f, smUp)
  BY DEF Client, ClientStep
<1>2. QED
  BY <1>1 DEF ClientStep, path, Accept, Stream, SaslAuth, AuthSet, Bind, Unbind, Stanza, EndStream, Disconnect

LEMMA RouterLink ==
    ASSUME FromRouter
    PROVE  UNCHANGED <<link, smUp>> /\ link = "up"
BY DEF FromRouter, C2SStep, Presence, Unknown, Leftover, RouteError, NoSmId, NoResource, ForResource,
       Ended, Started, Unexpected, ToClient, Ignore, Tell

LEMMA ManagerLink ==
    ASSUME SessInv, LinkInv, ~SMMayFail, Manager, link = "down"
    PROVE  LinkInv'
<1> DEFINE m == Head(toSM)
           t == Tail(toSM)
           n == Len(toSM)
<1>1. /\ toSM # <<>> /\ toSM' = t /\ UNCHANGED <<smUp, link>> /\ smUp
      /\ SessStart(m, FALSE) \/ SessEnd(m, FALSE) \/ InSess(m, FALSE) \/ C2SGone(m)
  BY DEF Manager, SMStep, c2sVars
<1>2. toSM \in Seq(Good) /\ toSM[n].kind = "c2s down"
  BY <1>1, InvParts DEF LinkInv
<1> DEFINE q == toSM
<1>3. /\ n \in Nat \ {0} /\ Head(q) = q[1] /\ Tail(q) \in Seq(Good) /\ Len(Tail(q)) = n - 1
      /\ (Len(Tail(q)) # 0 => Tail(q)[Len(Tail(q))] = q[n])
  <2>1. q \in Seq(Good) /\ q # <<>>
    BY <1>1, <1>2
  <2> HIDE DEF q
  <2>2. n = Len(q)
    BY DEF q
  <2>3. Len(q) \in Nat \ {0} /\ Head(q) = q[1]
    BY <2>1
  <2>4. Tail(q) \in Seq(Good) /\ Len(Tail(q)) = Len(q) - 1 /\ \A i \in 1..Len(Tail(q)) : Tail(q)[i] = q[i + 1]
    BY <2>1, HeadTailProperties
  <2> DEFINE k == Len(q)
             l == Len(Tail(q))
             z == Tail(q)
  <2>5. k \in Nat \ {0} /\ l = k - 1 /\ \A i \in 1..l : z[i] = q[i + 1]
    BY <2>3, <2>4
  <2> HIDE DEF k, l, z
  <2>6. l # 0 => z[l] = q[k]
    BY <2>5
  <2>7. QED
    BY <2>2, <2>3, <2>4, <2>6 DEF k, l, z
<1>4. CASE t = <<>>
  <2>1. n = 1 /\ m = toSM[1]
    <3>1. Len(Tail(q)) = 0
      BY <1>4, EmptySeq
    <3>2. n - 1 = 0 /\ n \in Nat
      BY <1>3, <3>1
    <3>3. n = 1
      <4> HIDE DEF n
      <4>1. QED
        BY <3>2
    <3>4. QED
      BY <1>3, <3>3
  <2>2. m.kind = "c2s down"
    BY <1>2, <2>1
  <2> HIDE DEF m
  <2>3. C2SGone(m)
    BY <1>1, <2>2 DEF SessStart, SessEnd, InSess
  <2>4. \A j \in Jids : ~(Live(j)')
    BY <2>3 DEF C2SGone, Live
  <2>5. QED
    BY <1>1, <1>4, <2>4 DEF LinkInv
<1>5. CASE t # <<>>
  <2>1. t[Len(t)] = toSM[n]
    <3>1. Len(t) # 0
      BY <1>5, <1>3
    <3>2. QED
      BY <1>3, <3>1
  <2>2. QED
    BY <1>1, <1>2, <1>5, <2>1 DEF LinkInv
<1>6. QED
  BY <1>4, <1>5

LEMMA InitLink == Init => LinkInv
BY DEF Init, C2SInit, SMInit, LinkInv

LEMMA NextLink == SessInv /\ LinkInv /\ [Next]_vars => LinkInv'
<1> SUFFICES ASSUME SessInv, LinkInv, [Next]_vars, ~SMMayFail PROVE LinkInv'
  BY DEF LinkInv
<1>1. smUp
  BY DEF LinkInv
<1>2. ASSUME link' = "up", smUp' = smUp PROVE LinkInv'
  BY <1>1, <1>2 DEF LinkInv
<1>3. ASSUME UNCHANGED <<toSM, sm, smUp, link>> PROVE LinkInv'
  BY <1>3 DEF LinkInv, Live
<1>4. link \in {"up", "down"}
  BY DEF SessInv
<1>5. CASE \E f \in Fds : Client(f)
  <2>1. CASE link = "up"
    BY <1>2, <1>5, <2>1, ClientLink
  <2>2. CASE link = "down"
    BY <1>3, <1>5, <2>2, DownSends
  <2>3. QED
    BY <1>4, <2>1, <2>2
<1>6. CASE FromRouter
  BY <1>2, <1>6, RouterLink
<1>7. CASE Manager
  <2>1. CASE link = "up"
    BY <1>2, <1>7, <2>1 DEF Manager, SMStep, c2sVars
  <2>2. CASE link = "down"
    BY <1>7, <2>2, ManagerLink
  <2>3. QED
    BY <1>4, <2>1, <2>2
<1>8. CASE Modules
  BY <1>3, <1>8 DEF Modules, Deliver, c2sVars
<1>9. CASE Clock
  BY <1>3, <1>9 DEF Clock, Tick, c2sVars
<1>10. CASE LinkDown
  <2>1. PICK t \in CutOff(toSM) : toSM' = Append(t, Advert("c2s down"))
    BY <1>1, <1>10 DEF LinkDown
  <2>2. t \in Seq(Good)
    BY InvParts, CutGood
  <2> DEFINE a == Advert("c2s down")
  <2>3. a \in Good /\ a.kind = "c2s down"
    BY AdvertGood
  <2> HIDE DEF a
  <2>4. toSM' # <<>> /\ toSM'[Len(toSM')] = a
    <3> DEFINE u == Append(t, a)
    <3>1. Len(u) = Len(t) + 1 /\ u[Len(t) + 1] = a /\ Len(t) \in Nat
      <4>1. Len(t) \in Nat
        BY <2>2
      <4>2. t \in Seq(Good) /\ a \in Good
        BY <2>2, <2>3
      <4>3. QED
        BY <4>1, <4>2, AppendProperties
    <3>2. toSM' = u
      BY <2>1 DEF a
    <3> HIDE DEF u
    <3>3. u # <<>> /\ u[Len(u)] = a
      BY <3>1
    <3>4. QED
      BY <3>2, <3>3
  <2>5. smUp'
    BY <1>1, <1>10 DEF LinkDown
  <2>6. QED
    BY <2>3, <2>4, <2>5 DEF LinkInv
<1>11. CASE LinkUp
  BY <1>2, <1>11 DEF LinkUp
<1>12. CASE SMDown \/ SMBack
  BY <1>1, <1>12 DEF SMDown, SMBack
<1>13. CASE UNCHANGED vars
  BY <1>3, <1>13 DEF vars, path, c2sVars
<1>14. QED
  BY <1>5, <1>6, <1>7, <1>8, <1>9, <1>10, <1>11, <1>12, <1>13 DEF Next

-----------------------------------------------------------------------------
(* The theorems                                                            *)

LEMMA InvTyped == SessInv => TypeOK
<1> SUFFICES ASSUME SessInv PROVE TypeOK
  OBVIOUS
<1>1. PathType
  <2>1. Good \subseteq Msg
    BY DEF Good
  <2>2. Seq(Good) \subseteq Seq(Msg)
    BY <2>1
  <2>3. QED
    BY <2>2 DEF SessInv, PathOk, PathType
<1>2. ASSUME NEW f \in Fds
      PROVE  /\ sess[f].state \in {"none", "new", "stream", "open", "closing"}
             /\ sess[f].user \in Users \cup {NoId}
             /\ sess[f].sasl \in BOOLEAN
             /\ sess[f].res \in Seq(Bres)
             /\ sess[f].bound \in {-1} \cup 0..MaxRes
             /\ sess[f].active \in BOOLEAN
             /\ sess[f].result \in Results
  <2> DEFINE s == sess[f]
             n == Len(s.res)
             b == s.bound
  <2>1. SessOk(s) /\ s \in SessRec
    BY InvParts
  <2>2. n \in Nat /\ MaxRes \in Nat
    BY <2>1, SessParts, C2SAssumption
  <2>3. (n <= MaxRes /\ b = n) \/ b \in {0, -1}
    BY <2>1 DEF SessOk, Counted
  <2> HIDE DEF n, b
  <2>4. b \in {-1} \cup 0..MaxRes
    BY <2>2, <2>3
  <2>5. QED
    BY <2>1, <2>4, SessParts DEF b
<1>3. C2SType
  BY <1>2 DEF C2SType, SessInv, ClientsOk, Packets
<1>4. QED
  BY <1>1, <1>3 DEF TypeOK, SessInv

LEMMA InvActive == SessInv => ActiveHasResources
<1> SUFFICES ASSUME SessInv, NEW f \in Fds, sess[f].active
             PROVE  /\ sess[f].res # <<>>
                    /\ sess[f].sasl => sess[f].bound \in 0..Len(sess[f].res)
                    /\ sess[f].sasl /\ sess[f].state = "open" => sess[f].bound = Len(sess[f].res)
  BY DEF ActiveHasResources
<1> DEFINE s == sess[f]
           n == Len(s.res)
           b == s.bound
<1>1. SessOk(s) /\ s \in SessRec /\ s.active
  BY InvParts
<1>2. n \in Nat /\ s.res # <<>>
  BY <1>1, SessParts DEF SessOk
<1>3. s.sasl => b = n \/ (s.state = "closing" /\ n = 1 /\ b = 0)
  BY <1>1 DEF SessOk, Counted
<1> HIDE DEF n, b
<1>4. s.sasl => b \in 0..n /\ (s.state = "open" => b = n)
  BY <1>2, <1>3
<1>5. QED
  BY <1>2, <1>4 DEF n, b

(* Every variable of c2s, the session manager and the path between them    *)
(* keeps its type; `bound' stays between -1 and the number of resources.   *)
THEOREM TypesKept == Spec => []TypeOK
BY AlwaysInv, InvTyped, PTL

(* The assertion of client_sx_callback for a stanza of an active client    *)
(* holds, and `bound' counts the resources as long as the stream is open,  *)
(* however starts, ends, replacements, unbinds, lost links and clients     *)
(* that do not wait for answers interleave.                                *)
THEOREM ActiveAlwaysHasResources == Spec => []ActiveHasResources
BY AlwaysInv, InvActive, PTL

(* A client with one resource is only given stanzas of its own user's      *)
(* sessions, although the descriptor that addresses it may have been       *)
(* another client's.  (With several resources one that is still to be      *)
(* started takes any packet for the descriptor, whoever it was for.)       *)
THEOREM OwnPacketsOnly ==
    ASSUME MaxRes <= 1
    PROVE  Spec => []OwnPackets
<1>1. SessInv => OwnPackets
  <2> SUFFICES ASSUME SessInv, NEW f \in Fds, NEW g \in got[f] PROVE g[1] \in {sess[f].user, NoId}
    BY DEF OwnPackets
  <2>1. QED
    BY InvParts DEF Given
<1>2. QED
  BY <1>1, AlwaysInv, PTL

(* When the sm, whose own link holds, has read everything c2s sent before  *)
(* c2s lost its link, no session is left: the advertisement of the router  *)
(* comes last and ends them all.                                           *)
THEOREM LostLinkAlwaysEndsAll ==
    ASSUME ~SMMayFail
    PROVE  Spec => []LostLinkEndsAll
<1>1. LinkInv => LostLinkEndsAll
  BY DEF LinkInv, LostLinkEndsAll, Quiet
<1>2. QED
  BY <1>1, InitInv, NextInv, InitLink, NextLink, PTL DEF Spec
=============================================================================
