--------------------------- MODULE Proxy65Proofs ---------------------------
(***************************************************************************)
(* Theorems about Proxy65, for every number of connections, bytestreams,   *)
(* pieces of data and attempts to reach the router.                        *)
(***************************************************************************)
EXTENDS Proxy65, SequenceTheorems, TLAPS

-----------------------------------------------------------------------------
(* The link to the router                                                  *)

LinkType ==
    [state : {"down", "connecting", "open", "online"}, lost : BOOLEAN, left : Int, fails : Nat,
     losses : Nat, opened : BOOLEAN, listening : BOOLEAN, shutdown : BOOLEAN]

(* The attempts granted since the link was last open.                      *)
Granted == IF link.opened THEN RetryLost ELSE RetryInit

(* Every failed attempt is paid for: what has failed and what is left make *)
(* up what was granted, with the loss that started it.  A negative number  *)
(* of attempts is never used up.                                           *)
LinkInv ==
    /\ link \in LinkType
    /\ link.shutdown => link.lost /\ link.left = 0
    /\ link.lost => link.state = "down"
    /\ Granted < 0 => link.left = Granted
    /\ Granted >= 0 =>
          /\ link.left >= 0
          /\ link.lost => link.fails + link.left = 1 + Granted
          /\ link.state # "down" => link.fails + link.left = Granted

(* An attempt of _proxy65_router_connect is under way, has failed at once, *)
(* or cannot be made.                                                      *)
LEMMA ConnectEnds ==
    ASSUME NEW l \in LinkType, NEW k \in Connect(l)
    PROVE  /\ k \in LinkType /\ k.left = l.left /\ k.opened = l.opened /\ k.shutdown = l.shutdown
           /\ \/ k.state = "connecting" /\ k.lost = FALSE /\ k.fails = l.fails
              \/ k.state = l.state /\ k.lost = TRUE /\ k.fails = l.fails + 1
              \/ k.state = l.state /\ k.lost = FALSE /\ k.fails = l.fails
<1>1. CASE k = [l EXCEPT !.state = "connecting", !.lost = FALSE]
  BY <1>1 DEF LinkType
<1>2. CASE k = [l EXCEPT !.lost = TRUE, !.fails = @ + 1]
  <2>1. l.fails + 1 \in Nat
    BY DEF LinkType
  <2>2. QED
    BY <1>2, <2>1 DEF LinkType
<1>3. CASE k = [l EXCEPT !.lost = FALSE]
  BY <1>3 DEF LinkType
<1>4. QED
  BY <1>1, <1>2, <1>3 DEF Connect

LEMMA LinkStep == LinkInv /\ [Next]_vars => LinkInv'
<1> SUFFICES ASSUME LinkInv, [Next]_vars PROVE LinkInv'
  OBVIOUS
<1>0. RetryInit \in Int /\ RetryLost \in Int /\ link \in LinkType /\ Granted \in Int
  BY Proxy65Assumption DEF LinkInv, LinkType, Granted
<1>1. CASE UNCHANGED link
  BY <1>1 DEF LinkInv, Granted
<1>2. CASE LinkLost
  <2>1. link' = [link EXCEPT !.state = "down", !.lost = TRUE, !.losses = @ + 1, !.fails = @ + 1]
    BY <1>2 DEF LinkLost
  <2>2. link.state # "down" /\ ~link.shutdown
    BY <1>2 DEF LinkLost
  <2>a. /\ link'.state = "down" /\ link'.lost = TRUE /\ link'.fails = link.fails + 1
        /\ link'.left = link.left /\ link'.opened = link.opened /\ link'.shutdown = link.shutdown
    BY <1>0, <2>1 DEF LinkType
  <2>c. link.fails + 1 \in Nat /\ link.losses + 1 \in Nat
    BY <1>0 DEF LinkType
  <2>b. link' \in LinkType
    BY <1>0, <2>1, <2>c DEF LinkType
  <2>3. /\ link'.state = "down" /\ link'.lost /\ link'.fails = link.fails + 1 /\ link'.left = link.left
        /\ link'.opened = link.opened /\ ~link'.shutdown /\ link' \in LinkType
    BY <2>2, <2>a, <2>b
  <2>4. Granted' = Granted
    BY <2>3 DEF Granted
  <2>5. link.fails \in Int /\ link.left \in Int
    BY <1>0 DEF LinkType
  <2>6. QED
    BY <1>0, <2>2, <2>3, <2>4, <2>5 DEF LinkInv
<1>3. CASE LinkOpen
  <2>1. link' = [link EXCEPT !.state = "open", !.opened = TRUE, !.left = RetryLost, !.fails = 0]
    BY <1>3 DEF LinkOpen, OpenLink
  <2>2. link.state # "down"
    BY <1>3 DEF LinkOpen
  <2>3. ~link.lost /\ ~link.shutdown
    BY <2>2 DEF LinkInv
  <2>4. /\ link'.state = "open" /\ link'.left = RetryLost /\ link'.fails = 0 /\ link'.opened
        /\ ~link'.lost /\ ~link'.shutdown /\ link' \in LinkType
    BY <1>0, <2>1, <2>3 DEF LinkType
  <2>5. Granted' = RetryLost
    BY <2>4 DEF Granted
  <2>6. QED
    BY <1>0, <2>4, <2>5 DEF LinkInv
<1>4. CASE Bound
  BY <1>4 DEF Bound, LinkInv, LinkType, Granted
<1>5. CASE Retry
  <2> DEFINE l == [link EXCEPT !.left = IF @ > 0 THEN @ - 1 ELSE @]
  <2>a. l \in LinkType /\ l.state = link.state /\ l.shutdown = link.shutdown /\ l.opened = link.opened
    BY <1>0 DEF LinkType
  <2>b. link.state = "down" /\ ~link.shutdown
    BY <1>5 DEF Retry, LinkInv
  <2>1. l \in LinkType /\ l.state = "down" /\ ~l.shutdown /\ l.opened = link.opened
    BY <2>a, <2>b
  <2>d. /\ l.left = (IF link.left > 0 THEN link.left - 1 ELSE link.left) /\ l.fails = link.fails
        /\ link.left \in Int /\ link.fails \in Int
    BY <1>0 DEF LinkType
  <2>e. link.lost /\ link.left # 0
    BY <1>5 DEF Retry
  <2> HIDE DEF l
  <2>2. Granted >= 0 => l.left >= 0 /\ l.fails + l.left = Granted
    BY <1>0, <2>d, <2>e DEF LinkInv
  <2>3. Granted < 0 => l.left = Granted
    BY <1>0, <2>d, <2>e DEF LinkInv
  <2> USE DEF l
  <2>4. link' \in Connect(l)
    BY <1>5 DEF Retry
  <2> HIDE DEF l
  <2>c. /\ link' \in LinkType /\ link'.left = l.left /\ link'.opened = l.opened /\ link'.shutdown = l.shutdown
        /\ \/ link'.state = "connecting" /\ link'.lost = FALSE /\ link'.fails = l.fails
           \/ link'.state = l.state /\ link'.lost = TRUE /\ link'.fails = l.fails + 1
           \/ link'.state = l.state /\ link'.lost = FALSE /\ link'.fails = l.fails
    BY <2>1, <2>4, ConnectEnds
  <2>5. /\ link' \in LinkType /\ link'.left = l.left /\ link'.opened = link.opened /\ ~link'.shutdown
        /\ \/ link'.state = "connecting" /\ ~link'.lost /\ link'.fails = l.fails
           \/ link'.state = "down" /\ link'.lost /\ link'.fails = l.fails + 1
           \/ link'.state = "down" /\ ~link'.lost /\ link'.fails = l.fails
    BY <2>1, <2>c
  <2>6. Granted' = Granted
    BY <2>5 DEF Granted
  <2>7. l.fails \in Int /\ l.left \in Int
    BY <2>1 DEF LinkType
  <2>8. QED
    BY <1>0, <2>2, <2>3, <2>5, <2>6, <2>7 DEF LinkInv
<1>6. CASE Shutdown
  BY <1>6 DEF Shutdown, LinkInv, LinkType, Granted
<1>7. QED
  <2>1. ASSUME NEW c \in Conns,
               \/ Accept(c) \/ ReadData(c) \/ ReadEnd(c) \/ Reset(c)
               \/ Push(c) \/ Drain(c) \/ Leave(c)
               \/ \E h \in Hashes : Speak(c, h)
        PROVE  UNCHANGED link
    BY <2>1 DEF Accept, ReadData, ReadEnd, Reset, Push, Drain, Leave, Speak
  <2>2. ASSUME Expire \/ \E h \in Hashes : Activate(h) \/ Age(h)
        PROVE  UNCHANGED link
    BY <2>2 DEF Expire, Activate, Age
  <2>3. CASE UNCHANGED vars
    BY <1>1, <2>3 DEF vars
  <2>4. QED
    BY <1>1, <1>2, <1>3, <1>4, <1>5, <1>6, <2>1, <2>2, <2>3 DEF Next

(* The proxy ends only after the loss of the link and exactly as many      *)
(* failed attempts as retry_init or retry_lost grant, however losses,      *)
(* refusals and successes follow each other.                               *)
THEOREM GivesUpInTime == Spec => []GivesUp
<1>1. Init => LinkInv
  <2> SUFFICES ASSUME Init PROVE LinkInv
    OBVIOUS
  <2> DEFINE l == [state |-> "down", lost |-> FALSE, left |-> RetryInit, fails |-> 0, losses |-> 0,
                   opened |-> FALSE, listening |-> FALSE, shutdown |-> FALSE]
  <2>1. link \in Connect(l)
    BY DEF Init
  <2>2. RetryInit \in Int /\ RetryLost \in Int
    BY Proxy65Assumption
  <2>a. /\ l \in LinkType /\ l.left = RetryInit /\ l.opened = FALSE /\ l.shutdown = FALSE
        /\ l.state = "down" /\ l.fails = 0
    BY <2>2 DEF LinkType
  <2> HIDE DEF l
  <2>b. /\ link \in LinkType /\ link.left = l.left /\ link.opened = l.opened /\ link.shutdown = l.shutdown
        /\ \/ link.state = "connecting" /\ link.lost = FALSE /\ link.fails = l.fails
           \/ link.state = l.state /\ link.lost = TRUE /\ link.fails = l.fails + 1
           \/ link.state = l.state /\ link.lost = FALSE /\ link.fails = l.fails
    BY <2>1, <2>a, ConnectEnds
  <2>3. /\ link \in LinkType /\ link.left = RetryInit /\ ~link.opened /\ ~link.shutdown
        /\ \/ link.state = "connecting" /\ ~link.lost /\ link.fails = 0
           \/ link.state = "down" /\ link.lost /\ link.fails = 1
           \/ link.state = "down" /\ ~link.lost /\ link.fails = 0
    BY <2>a, <2>b
  <2>4. Granted = RetryInit
    BY <2>3 DEF Granted
  <2>5. QED
    BY <2>2, <2>3, <2>4 DEF LinkInv
<1>2. LinkInv => GivesUp
  BY Proxy65Assumption DEF LinkInv, LinkType, Granted, GivesUp
<1>3. QED
  BY <1>1, <1>2, LinkStep, PTL DEF Spec

-----------------------------------------------------------------------------
(* The table of bytestreams                                                *)

Phases == {"none", "greeting", "request", "connected", "relay", "closed"}
Handshake == {"half", "bad"} \X Hashes
Piece == {"data"} \X Conns \X Nat
Answer == {<<"method">>, <<"ok">>, <<"refused">>}

ConnRec ==
    [state : Phases, rd : BOOLEAN, rbuf : Seq(Handshake), wbuf : Seq(Piece), bs : Hashes \cup {None}]
StreamRec == [on : BOOLEAN, peers : Seq(Conns), activated : BOOLEAN, old : BOOLEAN]
WorkRec ==
    [conn : [Conns -> ConnRec], stream : [Hashes -> StreamRec], sock : [Conns -> Seq(Answer \cup Piece)],
     ret : {0, -1}]

(* What a bytestream and its connections say of each other.                *)
PairedIn(w, h) ==
    /\ \A i \in DOMAIN w.stream[h].peers : w.conn[w.stream[h].peers[i]].bs = h
    /\ \A c \in Conns : w.conn[c].bs = h => \E i \in DOMAIN w.stream[h].peers : w.stream[h].peers[i] = c
    /\ \A i, j \in DOMAIN w.stream[h].peers : w.stream[h].peers[i] = w.stream[h].peers[j] => i = j
    /\ Len(w.stream[h].peers) <= 2
    /\ w.stream[h].on <=> w.stream[h].peers # <<>>
    /\ w.stream[h].activated => Len(w.stream[h].peers) = 2
    /\ \A c \in Conns : w.conn[c].bs = h =>
          w.conn[c].state = IF w.stream[h].activated THEN "relay" ELSE "connected"

(* Outside a bytestream a connection is still shaking hands or is closed,  *)
(* and only in the relay is anything kept for it.                          *)
Sound(w) ==
    /\ w \in WorkRec
    /\ \A h \in Hashes : PairedIn(w, h)
    /\ \A c \in Conns :
          /\ w.conn[c].bs = None => w.conn[c].state \notin {"connected", "relay"}
          /\ w.conn[c].wbuf # <<>> => w.conn[c].state = "relay"

LEMMA WorkParts ==
    ASSUME NEW w, w \in WorkRec
    PROVE  /\ w.conn \in [Conns -> ConnRec] /\ w.stream \in [Hashes -> StreamRec]
           /\ w.sock \in [Conns -> Seq(Answer \cup Piece)] /\ w.ret \in {0, -1}
BY DEF WorkRec

LEMMA ConnParts ==
    ASSUME NEW r, r \in ConnRec
    PROVE  /\ r.state \in Phases /\ r.rd \in BOOLEAN /\ r.rbuf \in Seq(Handshake)
           /\ r.wbuf \in Seq(Piece) /\ r.bs \in Hashes \cup {None}
BY DEF ConnRec

LEMMA GoneType ==
    /\ Gone \in ConnRec /\ Gone.state = "closed" /\ Gone.bs = None /\ Gone.wbuf = <<>> /\ ~Gone.rd
    /\ NoConn \in ConnRec /\ NoConn.state = "none" /\ NoConn.bs = None /\ NoConn.wbuf = <<>>
    /\ NoStream \in StreamRec /\ NoStream.peers = <<>> /\ ~NoStream.on /\ ~NoStream.activated
<1>1. <<>> \in Seq(Handshake) /\ <<>> \in Seq(Piece) /\ <<>> \in Seq(Conns)
  OBVIOUS
<1> HIDE DEF Handshake, Piece
<1>2. /\ NoConn \in ConnRec /\ NoConn.state = "none" /\ NoConn.bs = None /\ NoConn.wbuf = <<>>
  BY <1>1 DEF NoConn, ConnRec, Phases
<1>3. /\ Gone \in ConnRec /\ Gone.state = "closed" /\ Gone.bs = None /\ Gone.wbuf = <<>> /\ ~Gone.rd
  BY <1>2 DEF Gone, NoConn, ConnRec, Phases
<1>4. NoStream \in StreamRec /\ NoStream.peers = <<>> /\ ~NoStream.on /\ ~NoStream.activated
  BY <1>1 DEF NoStream, StreamRec
<1>5. QED
  BY <1>2, <1>3, <1>4

(* A change that leaves the bytestreams, and who belongs to which, alone.  *)
LEMMA KeepsPairs ==
    ASSUME NEW w, Sound(w), NEW v, v \in WorkRec, v.stream = w.stream,
           \A c \in Conns :
              /\ v.conn[c].bs = w.conn[c].bs
              /\ v.conn[c].state = w.conn[c].state
                    \/ (w.conn[c].bs = None /\ v.conn[c].state \notin {"connected", "relay"}
                          /\ v.conn[c].wbuf = w.conn[c].wbuf /\ w.conn[c].state # "relay")
              /\ v.conn[c].wbuf = w.conn[c].wbuf \/ v.conn[c].state = "relay"
    PROVE  Sound(v)
<1>1. w.stream \in [Hashes -> StreamRec] /\ None \notin Hashes
  BY WorkParts, Proxy65Assumption DEF Sound
<1>2. ASSUME NEW h \in Hashes PROVE PairedIn(v, h)
  <2>1. PairedIn(w, h)
    BY DEF Sound
  <2>2. w.stream[h] \in StreamRec
    BY <1>1
  <2>3. \A i \in DOMAIN w.stream[h].peers : w.stream[h].peers[i] \in Conns
    BY <2>2 DEF StreamRec
  <2>4. \A c \in Conns : w.conn[c].bs = h => v.conn[c].state = w.conn[c].state
    BY <1>1
  <2>5. QED
    BY <2>1, <2>3, <2>4 DEF PairedIn
<1>3. QED
  BY <1>2 DEF Sound

(* Connections of whole bytestreams go, and with them the bytestreams.     *)
LEMMA DropsPairs ==
    ASSUME NEW w, Sound(w), NEW v, v \in WorkRec, NEW H \in SUBSET Hashes, NEW C \in SUBSET Conns,
           \A c \in Conns : w.conn[c].bs \in H => c \in C,
           \A c \in C : w.conn[c].bs \in H \cup {None},
           v.conn = [c \in Conns |-> IF c \in C THEN Gone ELSE w.conn[c]],
           v.stream = [h \in Hashes |-> IF h \in H THEN NoStream ELSE w.stream[h]]
    PROVE  Sound(v)
<1>1. None \notin Hashes /\ w.stream \in [Hashes -> StreamRec]
  BY WorkParts, Proxy65Assumption DEF Sound
<1>2. ASSUME NEW h \in H PROVE PairedIn(v, h)
  <2>1. v.stream[h] = NoStream
    OBVIOUS
  <2>2. \A c \in Conns : v.conn[c].bs # h
    BY <1>1, GoneType
  <2>3. /\ DOMAIN NoStream.peers = {} /\ Len(NoStream.peers) = 0 /\ NoStream.peers = <<>>
        /\ ~NoStream.on /\ ~NoStream.activated
    BY GoneType
  <2>4. QED
    BY <2>1, <2>2, <2>3 DEF PairedIn
<1>3. ASSUME NEW h \in Hashes \ H PROVE PairedIn(v, h)
  <2>1. PairedIn(w, h) /\ v.stream[h] = w.stream[h] /\ w.stream[h] \in StreamRec
    BY <1>1 DEF Sound
  <2>2. \A c \in Conns : w.conn[c].bs = h => v.conn[c] = w.conn[c]
    BY <1>1
  <2>3. \A c \in Conns : v.conn[c].bs = h => v.conn[c] = w.conn[c]
    BY <1>1, GoneType
  <2>4. \A i \in DOMAIN w.stream[h].peers : w.stream[h].peers[i] \in Conns
    BY <2>1 DEF StreamRec
  <2>5. QED
    BY <2>1, <2>2, <2>3, <2>4 DEF PairedIn
<1>4. \A c \in Conns : /\ v.conn[c].bs = None => v.conn[c].state \notin {"connected", "relay"}
                       /\ v.conn[c].wbuf # <<>> => v.conn[c].state = "relay"
  BY GoneType DEF Sound
<1>5. QED
  BY <1>2, <1>3, <1>4 DEF Sound

(* The other end of a bytestream.                                          *)
LEMMA PeerIs ==
    ASSUME NEW w, Sound(w), NEW c \in Conns
    PROVE  /\ Peer(w, c) = {d \in Conns \ {c} : w.conn[d].bs = w.conn[c].bs /\ w.conn[c].bs # None}
           /\ \A d, e \in Peer(w, c) : d = e
           /\ w.conn[c].state = "relay" => Peer(w, c) # {}
<1>1. /\ None \notin Hashes /\ w.stream \in [Hashes -> StreamRec] /\ w.conn[c] \in ConnRec
      /\ w.conn[c].bs \in Hashes \cup {None}
  BY WorkParts, ConnParts, Proxy65Assumption DEF Sound
<1>2. CASE w.conn[c].bs = None
  BY <1>1, <1>2 DEF Peer, Sound
<1>3. CASE w.conn[c].bs \in Hashes
  <2> DEFINE h == w.conn[c].bs
             p == w.stream[h].peers
  <2>1. PairedIn(w, h) /\ w.stream[h] \in StreamRec /\ p \in Seq(Conns)
    BY <1>1, <1>3 DEF Sound, StreamRec
  <2>2. Peer(w, c) = {p[i] : i \in DOMAIN p} \ {c}
    BY <1>1, <1>3 DEF Peer, ToSet
  <2>3. /\ \A i \in DOMAIN p : p[i] \in Conns /\ w.conn[p[i]].bs = h
        /\ \A d \in Conns : w.conn[d].bs = h => \E i \in DOMAIN p : p[i] = d
        /\ \A i, j \in DOMAIN p : p[i] = p[j] => i = j
        /\ Len(p) <= 2
        /\ w.conn[c].state = "relay" => Len(p) = 2
    <3>1. \A i \in DOMAIN p : p[i] \in Conns
      BY <2>1
    <3>2. w.conn[c].state = "relay" => w.stream[h].activated
      BY <2>1 DEF PairedIn
    <3>3. QED
      BY <2>1, <3>1, <3>2 DEF PairedIn
  <2>4. h # None /\ DOMAIN p = 1..Len(p) /\ Len(p) \in Nat
    <3>1. p \in Seq(Conns)
      BY <2>1
    <3> HIDE DEF p
    <3>2. QED
      BY <1>1, <1>3, <3>1
  <2> HIDE DEF p
  <2>5. Peer(w, c) = {d \in Conns \ {c} : w.conn[d].bs = h /\ h # None}
    BY <2>2, <2>3, <2>4
  <2>6. PICK i \in DOMAIN p : p[i] = c
    BY <2>3
  <2>7. \A j, k \in DOMAIN p : j # i /\ k # i => j = k
    BY <2>3, <2>4
  <2>8. \A d, e \in Peer(w, c) : d = e
    BY <2>2, <2>6, <2>7
  <2>9. w.conn[c].state = "relay" => Peer(w, c) # {}
    <3> SUFFICES ASSUME Len(p) = 2 PROVE \E j \in DOMAIN p : p[j] # c
      BY <2>2, <2>3
    <3>1. 1 \in DOMAIN p /\ 2 \in DOMAIN p
      BY <2>4
    <3>2. QED
      BY <2>3, <3>1
  <2>10. QED
    BY <2>5, <2>8, <2>9
<1>4. QED
  BY <1>1, <1>2, <1>3

(* _sock_conn_close takes a bytestream and its connections away together.  *)
LEMMA CloseParts ==
    ASSUME NEW w, Sound(w), NEW c \in Conns
    PROVE  /\ Sound(Close(w, c)) /\ Close(w, c).sock = w.sock
           /\ \A d \in Conns : Close(w, c).conn[d] \in {w.conn[d], Gone}
           /\ Close(w, c).conn[c].state = "closed"
<1>1. /\ None \notin Hashes /\ w.stream \in [Hashes -> StreamRec] /\ w.conn \in [Conns -> ConnRec]
      /\ w.conn[c].bs \in Hashes \cup {None} /\ w \in WorkRec
  BY WorkParts, ConnParts, Proxy65Assumption DEF Sound
<1>2. CASE w.conn[c].state = "closed"
  BY <1>2 DEF Close
<1>3. CASE w.conn[c].state # "closed"
  <2> DEFINE h == w.conn[c].bs
             C == {c} \cup Peer(w, c)
             H == {h} \ {None}
             cn == [d \in Conns |-> IF d \in C THEN Gone ELSE w.conn[d]]
             st == [g \in Hashes |-> IF g \in H THEN NoStream ELSE w.stream[g]]
             both == {c} \cup IF h = None THEN {} ELSE ToSet(w.stream[h].peers)
             v == Close(w, c)
  <2>1. C \in SUBSET Conns /\ (\A d \in Conns : w.conn[d].bs \in H => d \in C)
        /\ \A d \in C : w.conn[d].bs \in H \cup {None}
    BY <1>1, PeerIs
  <2>2. both = C
    BY DEF Peer
  <2>3. /\ v = [w EXCEPT !.conn = [d \in Conns |-> IF d \in both THEN Gone ELSE w.conn[d]],
                         !.stream = [g \in Hashes |-> IF g = h THEN NoStream ELSE w.stream[g]],
                         !.ret = 0]
    BY <1>3 DEF Close
  <2>4. [g \in Hashes |-> IF g = h THEN NoStream ELSE w.stream[g]] = st
    BY <1>1
  <2>5. cn \in [Conns -> ConnRec] /\ st \in [Hashes -> StreamRec]
    BY <1>1, GoneType
  <2> HIDE DEF C, H, both
  <2>6. v = [w EXCEPT !.conn = cn, !.stream = st, !.ret = 0]
    BY <2>2, <2>3, <2>4
  <2> HIDE DEF cn, st, v
  <2>7. v \in WorkRec /\ v.conn = cn /\ v.stream = st /\ v.sock = w.sock
    BY <1>1, <2>5, <2>6 DEF WorkRec
  <2> USE DEF cn, st
  <2>8. H \in SUBSET Hashes
    BY <1>1 DEF H
  <2>9. Sound(v)
    BY <2>1, <2>7, <2>8, DropsPairs
  <2>10. c \in C
    BY DEF C
  <2>11. QED
    BY <2>7, <2>9, <2>10, GoneType DEF v
<1>4. QED
  BY <1>2, <1>3

(* proxy65_stream_free does the same for several at once.                  *)
LEMMA FreeParts ==
    ASSUME NEW w, Sound(w), NEW H \in SUBSET Hashes
    PROVE  /\ Sound(StreamFree(w, H)) /\ StreamFree(w, H).sock = w.sock
           /\ \A d \in Conns : StreamFree(w, H).conn[d] \in {w.conn[d], Gone}
           /\ \A h \in Hashes : StreamFree(w, H).stream[h] = IF h \in H THEN NoStream ELSE w.stream[h]
<1>1. /\ None \notin Hashes /\ w.stream \in [Hashes -> StreamRec] /\ w.conn \in [Conns -> ConnRec] /\ w \in WorkRec
  BY WorkParts, Proxy65Assumption DEF Sound
<1> DEFINE C == {d \in Conns : w.conn[d].bs \in H}
           cn == [d \in Conns |-> IF d \in C THEN Gone ELSE w.conn[d]]
           st == [g \in Hashes |-> IF g \in H THEN NoStream ELSE w.stream[g]]
           v == StreamFree(w, H)
<1>2. ASSUME NEW d \in Conns
      PROVE  (\E h \in H : d \in ToSet(w.stream[h].peers)) <=> d \in C
  <2>1. ASSUME NEW h \in H PROVE d \in ToSet(w.stream[h].peers) <=> w.conn[d].bs = h
    <3>1. PairedIn(w, h)
      BY DEF Sound
    <3>2. QED
      BY <3>1 DEF PairedIn, ToSet
  <2>2. QED
    BY <2>1
<1>3. cn = [d \in Conns |-> IF \E h \in H : d \in ToSet(w.stream[h].peers) THEN Gone ELSE w.conn[d]]
  BY <1>2
<1>4. cn \in [Conns -> ConnRec] /\ st \in [Hashes -> StreamRec]
  BY <1>1, GoneType
<1>5. v = [w EXCEPT !.conn = cn, !.stream = st]
  BY <1>3 DEF StreamFree
<1> HIDE DEF cn, st, v, C
<1>6. v \in WorkRec /\ v.conn = cn /\ v.stream = st /\ v.sock = w.sock
  BY <1>1, <1>4, <1>5 DEF WorkRec
<1> USE DEF cn, st
<1>7. C \in SUBSET Conns /\ (\A d \in Conns : w.conn[d].bs \in H => d \in C)
      /\ \A d \in C : w.conn[d].bs \in H \cup {None}
  BY DEF C
<1>8. Sound(v)
  BY <1>6, <1>7, DropsPairs
<1>9. QED
  BY <1>6, <1>8 DEF v

-----------------------------------------------------------------------------
(* A client and its connection                                             *)

ClientRec ==
    [step : 0..3, h : Hashes \cup {None}, told : {"none", "method", "ok", "refused"}, sent : Nat,
     closed : BOOLEAN]

TypeInv ==
    /\ pipe \in [Conns -> Seq(Handshake \cup Piece)]
    /\ client \in [Conns -> ClientRec]
    /\ got \in [Conns -> Seq(Answer \cup Piece)]

(* Before the request has been answered: p, what client k has sent and has *)
(* not been read, is part of the handshake like what is kept of it in r;   *)
(* the client has not been let in, by g, what it has read, or by s, what   *)
(* it will.                                                                *)
Early(r, s, p, k, g) ==
    /\ p \in Seq(Handshake)
    /\ \A i \in DOMAIN p : p[i][2] = k.h
    /\ \A i \in DOMAIN r.rbuf : r.rbuf[i][2] = k.h
    /\ \A i \in DOMAIN s : s[i] # <<"ok">>
    /\ k.told # "ok" /\ k.sent = 0

(* What is unread of a client that has been let in: the last pieces it has *)
(* sent.                                                                   *)
Late(c, r, p, k) ==
    /\ k.step = 3 /\ k.h = r.bs /\ Len(p) <= k.sent
    /\ \A i \in DOMAIN p : p[i] = <<"data", c, k.sent - Len(p) + i>>

Talk(c, r, s, p, k, g) ==
    /\ r.state = "none" => k.step = 0 /\ p = <<>> /\ Len(g) + Len(s) = 0
    /\ r.state \in {"none", "greeting", "request"} => Early(r, s, p, k, g)
    /\ r.state = "greeting" => k.step = Len(r.rbuf) + Len(p) /\ Len(g) + Len(s) = 0
    /\ r.state = "request" => k.step = 1 + Len(r.rbuf) + Len(p) /\ Len(g) + Len(s) = 1
    /\ r.state \in {"connected", "relay"} => Late(c, r, p, k)
    /\ r.state = "connected" => Len(p) = k.sent /\ Len(g) + Len(s) = 2

(* Only a connection in the handshake or in the relay is read from.        *)
Watch(r) == r.rd => r.state \in {"greeting", "request", "relay"}

TalkInv ==
    \A c \in Conns : Watch(conn[c]) /\ Talk(c, conn[c], sock[c], pipe[c], client[c], got[c])

(* Everything that came for c, read, sent or kept.                         *)
Came(c) == (got[c] \o sock[c]) \o conn[c].wbuf

(* After the two answers it is what has been read from d.                  *)
Chain(c, d) ==
    /\ Len(Came(c)) = 2 + client[d].sent - Len(pipe[d])
    /\ \A i \in 3..Len(Came(c)) : Came(c)[i] = <<"data", d, i - 2>>

RelayInv ==
    \A c, d \in Conns : c # d /\ conn[c].state = "relay" /\ conn[c].bs = conn[d].bs => Chain(c, d)

(* What Faithful says of one client, which has then asked for a            *)
(* bytestream; and of those whose connection is closed.                    *)
Told(c) ==
    LET all == got[c] \o sock[c]
    IN  Len(all) > 2 =>
        /\ client[c].h # None
        /\ \E d \in Conns \ {c} : client[d].h = client[c].h /\ \A i \in 3..Len(all) : all[i] = <<"data", d, i - 2>>
        /\ conn[c].state \in {"relay", "closed"}
AllTold == \A c \in Conns : conn[c].state = "closed" => Told(c)

ProxyInv == Sound(Work) /\ TypeInv /\ TalkInv /\ RelayInv /\ AllTold

-----------------------------------------------------------------------------
(* The handshake                                                           *)

Others(w, v, c) == \A d \in Conns \ {c} : v.conn[d] = w.conn[d] /\ v.sock[d] = w.sock[d]

(* A handler that changes one connection, in no bytestream or in the relay *)
(* and not its place in it, and what is sent to its client.                *)
OneConn(w, c, r, s, rt) ==
    [conn |-> [w.conn EXCEPT ![c] = r], stream |-> w.stream, sock |-> [w.sock EXCEPT ![c] = s], ret |-> rt]

LEMMA OneConnParts ==
    ASSUME NEW w, Sound(w), NEW c \in Conns, NEW r \in ConnRec, NEW s \in Seq(Answer \cup Piece),
           NEW rt \in {0, -1}, r.bs = w.conn[c].bs,
           r.state = w.conn[c].state
              \/ (w.conn[c].bs = None /\ w.conn[c].state # "relay" /\ r.state \notin {"connected", "relay"}),
           r.wbuf = w.conn[c].wbuf \/ (r.state = "relay" /\ w.conn[c].state = "relay")
    PROVE  LET v == OneConn(w, c, r, s, rt)
           IN  /\ Sound(v) /\ Others(w, v, c) /\ v.conn[c] = r /\ v.sock[c] = s
               /\ v.stream = w.stream /\ v.ret = rt
<1> DEFINE v == OneConn(w, c, r, s, rt)
<1>1. /\ w.conn \in [Conns -> ConnRec] /\ w.stream \in [Hashes -> StreamRec]
      /\ w.sock \in [Conns -> Seq(Answer \cup Piece)]
  BY WorkParts DEF Sound
<1> DEFINE cn == [w.conn EXCEPT ![c] = r]
           so == [w.sock EXCEPT ![c] = s]
<1>2. cn \in [Conns -> ConnRec] /\ cn[c] = r /\ \A d \in Conns \ {c} : cn[d] = w.conn[d]
  BY <1>1
<1>3. so \in [Conns -> Seq(Answer \cup Piece)] /\ so[c] = s /\ \A d \in Conns \ {c} : so[d] = w.sock[d]
  BY <1>1
<1>4. v = [conn |-> cn, stream |-> w.stream, sock |-> so, ret |-> rt]
  BY DEF OneConn
<1> HIDE DEF cn, so, v
<1>5. v \in WorkRec /\ v.conn = cn /\ v.stream = w.stream /\ v.sock = so /\ v.ret = rt
  BY <1>1, <1>2, <1>3, <1>4 DEF WorkRec
<1>6. Sound(v)
  <2>1. ASSUME NEW d \in Conns
        PROVE  /\ v.conn[d].bs = w.conn[d].bs
               /\ v.conn[d].state = w.conn[d].state
                    \/ (w.conn[d].bs = None /\ v.conn[d].state \notin {"connected", "relay"}
                          /\ v.conn[d].wbuf = w.conn[d].wbuf /\ w.conn[d].state # "relay")
               /\ v.conn[d].wbuf = w.conn[d].wbuf \/ v.conn[d].state = "relay"
    <3>1. CASE d = c
      BY <1>2, <1>5, <3>1
    <3>2. CASE d # c
      BY <1>2, <1>5, <3>2
    <3>3. QED
      BY <3>1, <3>2
  <2>2. QED
    BY <1>5, <2>1, KeepsPairs
<1>7. QED
  BY <1>2, <1>3, <1>5, <1>6 DEF Others, v

Joined(r, h) == [r EXCEPT !.bs = h, !.state = "connected"]

(* _stream_get_or_create and the join of a bytestream that has room.       *)
LEMMA JoinParts ==
    ASSUME NEW w, Sound(w), NEW c \in Conns, NEW h \in Hashes,
           w.conn[c].bs = None, w.conn[c].state # "relay",
           Len(w.stream[h].peers) < 2, ~w.stream[h].activated
    PROVE  LET v == Join(w, c, h)
           IN  /\ Sound(v) /\ Others(w, v, c) /\ v.sock = w.sock /\ v.ret = w.ret
               /\ v.conn[c] = Joined(w.conn[c], h)
<1>1. /\ w.conn \in [Conns -> ConnRec] /\ w.stream \in [Hashes -> StreamRec] /\ w \in WorkRec
      /\ None \notin Hashes
  BY WorkParts, Proxy65Assumption DEF Sound
<1> DEFINE v == Join(w, c, h)
           r == [w.conn[c] EXCEPT !.bs = h, !.state = "connected"]
           t == [w.stream[h] EXCEPT !.on = TRUE, !.peers = Append(@, c)]
           p == w.stream[h].peers
           q == Append(p, c)
           cn == [w.conn EXCEPT ![c] = r]
           st == [w.stream EXCEPT ![h] = t]
<1>2. r \in ConnRec /\ r.bs = h /\ r.state = "connected" /\ r.wbuf = w.conn[c].wbuf
  BY <1>1 DEF ConnRec, Phases
<1>3. w.stream[h] \in StreamRec /\ p \in Seq(Conns)
  BY <1>1 DEF StreamRec
<1>4. q \in Seq(Conns) /\ Len(q) = Len(p) + 1 /\ (\A i \in 1..Len(p) : q[i] = p[i]) /\ q[Len(p) + 1] = c
      /\ DOMAIN q = 1..(Len(p) + 1) /\ DOMAIN p = 1..Len(p) /\ Len(p) \in Nat
  <2> HIDE DEF p
  <2>1. QED
    BY <1>3
<1>5. t \in StreamRec /\ t.on /\ t.peers = q /\ ~t.activated
  <2> HIDE DEF q
  <2>a. t = [w.stream[h] EXCEPT !.on = TRUE, !.peers = q]
    BY DEF q
  <2>b. w.stream[h].activated = FALSE
    BY <1>3 DEF StreamRec
  <2>1. t \in StreamRec /\ t.on = TRUE /\ t.peers = q /\ t.activated = FALSE
    BY <1>3, <1>4, <2>a, <2>b DEF StreamRec
  <2>2. QED
    BY <2>1
<1>6. /\ cn \in [Conns -> ConnRec] /\ cn[c] = r /\ (\A d \in Conns \ {c} : cn[d] = w.conn[d])
      /\ st \in [Hashes -> StreamRec] /\ st[h] = t /\ \A g \in Hashes \ {h} : st[g] = w.stream[g]
  <2> HIDE DEF r, t
  <2>1. QED
    BY <1>1, <1>2, <1>5
<1>7. v = [w EXCEPT !.stream = st, !.conn = cn]
  BY <1>1, <1>3 DEF Join, WorkRec
<1>8. v \in WorkRec /\ v.conn = cn /\ v.stream = st /\ v.sock = w.sock /\ v.ret = w.ret
  <2> HIDE DEF cn, st, v
  <2>1. QED
    BY <1>1, <1>6, <1>7 DEF WorkRec
<1> HIDE DEF v, r, t, cn, st, p, q
<1>9. PairedIn(v, h)
  <2>1. PairedIn(w, h) /\ v.stream[h] = t
    BY <1>6, <1>8 DEF Sound
  <2>2. \A i \in DOMAIN q : q[i] \in Conns /\ v.conn[q[i]].bs = h
    <3>1. \A i \in 1..Len(p) : p[i] \in Conns /\ w.conn[p[i]].bs = h /\ p[i] # c
      BY <1>1, <1>3, <1>4, <2>1 DEF PairedIn, p
    <3>2. QED
      BY <1>2, <1>4, <1>6, <1>8, <3>1
  <2>3. \A d \in Conns : v.conn[d].bs = h => \E i \in DOMAIN q : q[i] = d
    <3>1. \A d \in Conns : w.conn[d].bs = h => \E i \in 1..Len(p) : p[i] = d
      BY <1>4, <2>1 DEF PairedIn, p
    <3>2. ASSUME NEW d \in Conns \ {c}, v.conn[d].bs = h PROVE \E i \in DOMAIN q : q[i] = d
      BY <1>4, <1>6, <1>8, <3>1, <3>2
    <3>3. Len(p) + 1 \in DOMAIN q
      BY <1>4
    <3>4. QED
      BY <1>4, <3>2, <3>3
  <2>4. \A i, j \in DOMAIN q : q[i] = q[j] => i = j
    <3>1. \A i, j \in 1..Len(p) : p[i] = p[j] => i = j
      BY <1>4, <2>1 DEF PairedIn, p
    <3>2. \A i \in 1..Len(p) : p[i] # c
      BY <1>1, <1>4, <2>1 DEF PairedIn, p
    <3>3. QED
      BY <1>4, <3>1, <3>2
  <2>5. Len(q) <= 2 /\ q # <<>>
    BY <1>3, <1>4 DEF p
  <2>6. \A d \in Conns : v.conn[d].bs = h => v.conn[d].state = "connected"
    BY <1>2, <1>6, <1>8, <2>1 DEF PairedIn
  <2>7. QED
    BY <1>5, <2>1, <2>2, <2>3, <2>4, <2>5, <2>6 DEF PairedIn
<1>10. ASSUME NEW g \in Hashes \ {h} PROVE PairedIn(v, g)
  <2>1. PairedIn(w, g) /\ v.stream[g] = w.stream[g] /\ w.stream[g] \in StreamRec
    BY <1>1, <1>6, <1>8 DEF Sound
  <2>2. \A d \in Conns : v.conn[d].bs = g => v.conn[d] = w.conn[d] /\ w.conn[d].bs = g
    BY <1>2, <1>6, <1>8
  <2>3. \A d \in Conns : w.conn[d].bs = g => v.conn[d] = w.conn[d]
    BY <1>1, <1>6, <1>8
  <2>4. \A i \in DOMAIN w.stream[g].peers : w.stream[g].peers[i] \in Conns
    BY <2>1 DEF StreamRec
  <2>5. QED
    BY <2>1, <2>2, <2>3, <2>4 DEF PairedIn
<1>11. \A d \in Conns : /\ v.conn[d].bs = None => v.conn[d].state \notin {"connected", "relay"}
                        /\ v.conn[d].wbuf # <<>> => v.conn[d].state = "relay"
  BY <1>1, <1>2, <1>6, <1>8 DEF Sound
<1>12. Sound(v)
  BY <1>8, <1>9, <1>10, <1>11 DEF Sound
<1>13. QED
  BY <1>6, <1>8, <1>12 DEF Others, v, r, Joined

(* What _socks_process makes of what has come: an end, or a connection     *)
(* that fits what its client has said and been told.                       *)
Verdict(v, c, p, k, g) ==
    \/ v.ret = -1 /\ v.conn[c].state \in {"greeting", "request"} /\ Len(g) + Len(v.sock[c]) <= 2
    \/ /\ v.ret = 0 /\ v.conn[c].state \in {"greeting", "request", "connected"}
       /\ Talk(c, v.conn[c], v.sock[c], p, k, g)

LEMMA TokenTypes ==
    /\ \A x \in Handshake : x[1] \in {"half", "bad"} /\ x[2] \in Hashes
    /\ \A x \in Piece : x[1] = "data"
BY DEF Handshake, Piece

LEMMA Answered ==
    ASSUME NEW s \in Seq(Answer \cup Piece), NEW a \in {"method", "ok", "refused"}
    PROVE  /\ Append(s, <<a>>) \in Seq(Answer \cup Piece) /\ Len(Append(s, <<a>>)) = Len(s) + 1
           /\ a # "ok" /\ (\A i \in DOMAIN s : s[i] # <<"ok">>) =>
                 \A i \in DOMAIN Append(s, <<a>>) : Append(s, <<a>>)[i] # <<"ok">>
<1>1. <<a>> \in Answer \cup Piece /\ (a # "ok" => <<a>> # <<"ok">>)
  BY DEF Answer
<1> DEFINE x == <<a>>
           y == <<"ok">>
           S == Answer \cup Piece
<1> HIDE DEF x, y, S
<1>2. x \in S /\ s \in Seq(S) /\ (a # "ok" => x # y)
  BY <1>1 DEF x, y, S
<1>3. /\ Append(s, x) \in Seq(S) /\ Len(Append(s, x)) = Len(s) + 1 /\ DOMAIN Append(s, x) = 1..(Len(s) + 1)
      /\ DOMAIN s = 1..Len(s) /\ (\A i \in 1..Len(s) : Append(s, x)[i] = s[i]) /\ Append(s, x)[Len(s) + 1] = x
      /\ Len(s) \in Nat
  BY <1>2
<1>4. ASSUME a # "ok", \A i \in DOMAIN s : s[i] # y PROVE \A i \in DOMAIN Append(s, x) : Append(s, x)[i] # y
  BY <1>2, <1>3, <1>4
<1>5. QED
  BY <1>3, <1>4 DEF x, y, S

LEMMA Stripped ==
    ASSUME NEW S, NEW b \in Seq(S), NEW m \in 1..(Len(b) + 1)
    PROVE  /\ SubSeq(b, m, Len(b)) \in Seq(S) /\ Len(SubSeq(b, m, Len(b))) = Len(b) - m + 1
           /\ \A i \in DOMAIN SubSeq(b, m, Len(b)) : m - 1 + i \in DOMAIN b /\ SubSeq(b, m, Len(b))[i] = b[m - 1 + i]
OBVIOUS

(* The sending of an answer, and the part of a connection's buffer that is *)
(* used up.                                                                *)
LEMMA ReplyParts ==
    ASSUME NEW w, Sound(w), NEW c \in Conns, NEW a \in {"method", "ok", "refused"}
    PROVE  LET v == Reply(w, c, a)
           IN  /\ Sound(v) /\ Others(w, v, c) /\ v.ret = w.ret /\ v.conn[c] = w.conn[c]
               /\ v.sock[c] = Append(w.sock[c], <<a>>)
<1>1. /\ w.conn \in [Conns -> ConnRec] /\ w.sock \in [Conns -> Seq(Answer \cup Piece)] /\ w \in WorkRec
      /\ w.stream \in [Hashes -> StreamRec] /\ w.ret \in {0, -1}
  BY WorkParts DEF Sound
<1> DEFINE s == Append(w.sock[c], <<a>>)
           so == [w.sock EXCEPT ![c] = s]
<1>2. s \in Seq(Answer \cup Piece) /\ w.conn[c] \in ConnRec
  BY <1>1, Answered
<1>3. w.conn = [w.conn EXCEPT ![c] = w.conn[c]]
  BY <1>1
<1>4. Reply(w, c, a) = [w EXCEPT !.sock = so]
  BY DEF Reply
<1> HIDE DEF s, so
<1>5. [w EXCEPT !.sock = so] = [conn |-> w.conn, stream |-> w.stream, sock |-> so, ret |-> w.ret]
  BY <1>1 DEF WorkRec
<1>6. Reply(w, c, a) = OneConn(w, c, w.conn[c], s, w.ret)
  BY <1>3, <1>4, <1>5 DEF OneConn, so
<1> DEFINE v == Reply(w, c, a)
<1> HIDE DEF v
<1>7. v = OneConn(w, c, w.conn[c], s, w.ret)
  BY <1>6 DEF v
<1>8. Sound(v) /\ Others(w, v, c) /\ v.ret = w.ret /\ v.conn[c] = w.conn[c] /\ v.sock[c] = s
  <2> DEFINE r == w.conn[c]
             rt == w.ret
  <2>1. r \in ConnRec /\ r.bs = w.conn[c].bs /\ r.state = w.conn[c].state /\ r.wbuf = w.conn[c].wbuf
        /\ rt \in {0, -1} /\ v = OneConn(w, c, r, s, rt)
    BY <1>1, <1>2, <1>7
  <2> HIDE DEF r, rt
  <2>2. Sound(v) /\ Others(w, v, c) /\ v.ret = rt /\ v.conn[c] = r /\ v.sock[c] = s
    BY <1>2, <2>1, OneConnParts
  <2>3. QED
    BY <2>2 DEF r, rt
<1>9. QED
  BY <1>8 DEF v, s

(* The change of one connection, as _socks_process makes it.               *)
LEMMA ConnOnly ==
    ASSUME NEW w, Sound(w), NEW c \in Conns, NEW r \in ConnRec, r.bs = w.conn[c].bs, r.wbuf = w.conn[c].wbuf,
           r.state = w.conn[c].state
              \/ (w.conn[c].bs = None /\ w.conn[c].state # "relay" /\ r.state \notin {"connected", "relay"})
    PROVE  LET v == [w EXCEPT !.conn[c] = r]
           IN  Sound(v) /\ Others(w, v, c) /\ v.ret = w.ret /\ v.conn[c] = r /\ v.sock = w.sock
<1>1. /\ w.conn \in [Conns -> ConnRec] /\ w.sock \in [Conns -> Seq(Answer \cup Piece)] /\ w \in WorkRec
      /\ w.stream \in [Hashes -> StreamRec] /\ w.ret \in {0, -1}
  BY WorkParts DEF Sound
<1> DEFINE cn == [w.conn EXCEPT ![c] = r]
           v == [w EXCEPT !.conn[c] = r]
<1>2. w.sock = [w.sock EXCEPT ![c] = w.sock[c]] /\ w.sock[c] \in Seq(Answer \cup Piece)
  BY <1>1
<1>3. v = [w EXCEPT !.conn = cn]
  OBVIOUS
<1> HIDE DEF cn
<1>4. [w EXCEPT !.conn = cn] = [conn |-> cn, stream |-> w.stream, sock |-> w.sock, ret |-> w.ret]
  BY SMTT(30), <1>1 DEF WorkRec
<1>5. v = OneConn(w, c, r, w.sock[c], w.ret)
  BY <1>2, <1>3, <1>4 DEF OneConn, cn
<1>6. v.sock = w.sock
  BY <1>3, <1>4
<1> HIDE DEF v
<1>7. Sound(v) /\ Others(w, v, c) /\ v.ret = w.ret /\ v.conn[c] = r
  BY <1>1, <1>2, <1>5, OneConnParts
<1>8. QED
  BY <1>6, <1>7 DEF v

Rest(r, n) == [r EXCEPT !.rbuf = SubSeq(@, n + 1, Len(@))]

LEMMA StripParts ==
    ASSUME NEW w, Sound(w), NEW c \in Conns, NEW n \in Nat, n <= Len(w.conn[c].rbuf)
    PROVE  LET v == Strip(w, c, n)
           IN  /\ Sound(v) /\ Others(w, v, c) /\ v.ret = w.ret /\ v.sock = w.sock
               /\ v.conn[c] = Rest(w.conn[c], n)
<1> DEFINE b == w.conn[c].rbuf
           b2 == SubSeq(b, n + 1, Len(b))
           r == [w.conn[c] EXCEPT !.rbuf = b2]
<1>1. w.conn[c] \in ConnRec /\ b \in Seq(Handshake) /\ w \in WorkRec
  BY WorkParts, ConnParts DEF Sound
<1>2. b2 \in Seq(Handshake)
  <2> HIDE DEF b
  <2>1. n + 1 \in 1..(Len(b) + 1)
    BY <1>1 DEF b
  <2>2. QED
    BY <1>1, <2>1, Stripped
<1> HIDE DEF b2
<1>3. r \in ConnRec /\ r.state = w.conn[c].state /\ r.bs = w.conn[c].bs /\ r.wbuf = w.conn[c].wbuf
  BY <1>1, <1>2 DEF ConnRec
<1>4. Strip(w, c, n) = [w EXCEPT !.conn[c] = r]
  BY <1>1 DEF Strip, WorkRec, b2
<1> DEFINE v == Strip(w, c, n)
<1> HIDE DEF r, v
<1>5. v = [w EXCEPT !.conn[c] = r]
  BY <1>4 DEF v
<1>6. Sound(v) /\ Others(w, v, c) /\ v.ret = w.ret /\ v.conn[c] = r /\ v.sock = w.sock
  BY <1>3, <1>5, ConnOnly
<1>7. QED
  BY <1>6 DEF v, r, b2, Rest

(* The refusal of a connection that is in no bytestream.                   *)
LEMMA Refused ==
    ASSUME NEW w, Sound(w), NEW c \in Conns
    PROVE  LET v == Fail(Reply(w, c, "refused"))
           IN  /\ Sound(v) /\ Others(w, v, c) /\ v.ret = -1 /\ v.conn[c] = w.conn[c]
               /\ Len(v.sock[c]) = Len(w.sock[c]) + 1
<1> DEFINE u == Reply(w, c, "refused")
           v == Fail(u)
<1>1. /\ Sound(u) /\ Others(w, u, c) /\ u.conn[c] = w.conn[c] /\ u.sock[c] = Append(w.sock[c], <<"refused">>)
  BY ReplyParts
<1>2. u \in WorkRec /\ w.sock[c] \in Seq(Answer \cup Piece)
  BY <1>1, WorkParts DEF Sound
<1> HIDE DEF u
<1>3. v \in WorkRec /\ v.conn = u.conn /\ v.stream = u.stream /\ v.sock = u.sock /\ v.ret = -1
  BY <1>2 DEF Fail, WorkRec
<1> HIDE DEF v
<1>4. Sound(v)
  BY <1>1, <1>3, KeepsPairs
<1>5. Len(u.sock[c]) = Len(w.sock[c]) + 1
  BY <1>1, <1>2, Answered
<1>6. QED
  BY <1>1, <1>3, <1>4, <1>5 DEF Others, v, u

LEMMA Unpaired ==
    ASSUME NEW w, Sound(w), NEW c \in Conns, w.conn[c].state \in {"none", "greeting", "request", "closed"}
    PROVE  w.conn[c].bs = None
<1>1. w.conn[c].bs \in Hashes \cup {None}
  BY WorkParts, ConnParts DEF Sound
<1>2. QED
  BY <1>1 DEF Sound, PairedIn

LEMMA LastHalf ==
    ASSUME NEW n \in Nat, NEW m \in Nat, NEW k \in 0..3, k = 1 + n + m, n >= 2
    PROVE  n = 2 /\ m = 0 /\ k = 3
OBVIOUS

LEMMA NotEmpty ==
    ASSUME NEW S, NEW b \in Seq(S), Len(b) = 2
    PROVE  b # <<>> /\ 1 \in DOMAIN b /\ 2 \in DOMAIN b
OBVIOUS

(* The first part of _socks_process.                                       *)
LEMMA GreetingParts ==
    ASSUME NEW w, Sound(w), NEW c \in Conns, NEW p, NEW k \in ClientRec, NEW g \in Seq(Answer \cup Piece),
           w.ret = 0, w.conn[c].state = "greeting", Talk(c, w.conn[c], w.sock[c], p, k, g)
    PROVE  LET v == Greeting(w, c)
           IN  /\ Sound(v) /\ Others(w, v, c) /\ Verdict(v, c, p, k, g)
               /\ v.conn[c].state \in {"greeting", "request"} /\ v.conn[c].rd = w.conn[c].rd
<1> DEFINE v == Greeting(w, c)
           b == w.conn[c].rbuf
<1>1. /\ w.conn \in [Conns -> ConnRec] /\ w.sock \in [Conns -> Seq(Answer \cup Piece)] /\ w \in WorkRec
      /\ w.conn[c] \in ConnRec /\ w.sock[c] \in Seq(Answer \cup Piece) /\ b \in Seq(Handshake)
      /\ None \notin Hashes /\ w.conn[c].bs \in Hashes \cup {None}
  BY WorkParts, ConnParts, Proxy65Assumption DEF Sound
<1>2. w.conn[c].bs = None
  BY Unpaired
<1>3. /\ k.step = Len(b) + Len(p) /\ Len(g) + Len(w.sock[c]) = 0 /\ Early(w.conn[c], w.sock[c], p, k, g)
  BY DEF Talk
<1>4. Len(g) \in Nat /\ Len(w.sock[c]) \in Nat /\ p \in Seq(Handshake) /\ Len(p) \in Nat /\ Len(b) \in Nat
  BY <1>1, <1>3 DEF Early
<1>5. CASE b # <<>> /\ Bad(b[1])
  <2>1. v = Fail(Reply(w, c, "refused"))
    BY <1>5 DEF Greeting
  <2>2. Sound(v) /\ Others(w, v, c) /\ v.ret = -1 /\ v.conn[c] = w.conn[c] /\ Len(v.sock[c]) = Len(w.sock[c]) + 1
    BY <2>1, Refused
  <2> HIDE DEF v
  <2>3. Verdict(v, c, p, k, g)
    BY <1>2, <1>3, <1>4, <2>2 DEF Verdict
  <2>4. QED
    BY <2>2, <2>3 DEF v
<1>6. CASE b # <<>> /\ ~Bad(b[1])
  <2> DEFINE r1 == [w.conn[c] EXCEPT !.state = "request"]
             u == [w EXCEPT !.conn[c].state = "request"]
             n == 1
             x == Strip(u, c, n)
             b2 == SubSeq(b, n + 1, Len(b))
             s2 == Append(w.sock[c], <<"method">>)
             r == [r1 EXCEPT !.rbuf = b2]
  <2> HIDE DEF n
  <2>1. Len(b) >= 1
    <3> HIDE DEF b
    <3>1. QED
      BY <1>1, <1>6
  <2>2. /\ b2 \in Seq(Handshake) /\ Len(b2) = Len(b) - 1
        /\ \A i \in DOMAIN b2 : 1 + i \in DOMAIN b /\ b2[i] = b[1 + i]
    <3> HIDE DEF b
    <3> DEFINE m == n + 1
    <3>0. m = 2
      BY DEF n
    <3>1. m \in 1..(Len(b) + 1)
      BY <1>4, <2>1 DEF n
    <3> HIDE DEF m, b2
    <3>2. b2 = SubSeq(b, m, Len(b)) /\ b \in Seq(Handshake)
      BY <1>1 DEF m, b2
    <3>3. /\ b2 \in Seq(Handshake) /\ Len(b2) = Len(b) - m + 1
          /\ \A i \in DOMAIN b2 : m - 1 + i \in DOMAIN b /\ b2[i] = b[m - 1 + i]
      BY <3>1, <3>2, Stripped
    <3>4. DOMAIN b2 = 1..Len(b2) /\ \A i \in DOMAIN b2 : m - 1 + i = 1 + i
      BY <3>0, <3>1, <3>3
    <3>5. QED
      BY <1>4, <3>0, <3>3, <3>4
  <2>3. /\ s2 \in Seq(Answer \cup Piece) /\ Len(s2) = Len(w.sock[c]) + 1
        /\ (\A i \in DOMAIN w.sock[c] : w.sock[c][i] # <<"ok">>) => \A i \in DOMAIN s2 : s2[i] # <<"ok">>
    BY <1>1, Answered
  <2>4. /\ r1 \in ConnRec /\ r1.state = "request" /\ r1.rbuf = b /\ r1.bs = w.conn[c].bs
        /\ r1.wbuf = w.conn[c].wbuf /\ r1.rd = w.conn[c].rd
    BY <1>1 DEF ConnRec, Phases
  <2>5. u = [w EXCEPT !.conn[c] = r1]
    BY <1>1 DEF WorkRec
  <2> HIDE DEF b2, s2, u
  <2>6. r.state = "request" /\ r.rbuf = b2 /\ r.rd = w.conn[c].rd
    BY <1>1, <2>2, <2>4 DEF ConnRec
  <2>7. v = Reply(x, c, "method")
    BY <1>6 DEF Greeting, u, n
  <2> HIDE DEF r1
  <2>8. Sound(u) /\ Others(w, u, c) /\ u.ret = 0 /\ u.conn[c] = r1 /\ u.sock = w.sock
    BY <1>2, <2>4, <2>5, ConnOnly
  <2>9. Sound(x) /\ Others(u, x, c) /\ x.ret = 0 /\ x.conn[c] = r /\ x.sock = u.sock
    <3>1. n \in Nat /\ n <= Len(u.conn[c].rbuf)
      BY <2>1, <2>4, <2>8 DEF n
    <3>2. /\ Sound(x) /\ Others(u, x, c) /\ x.ret = u.ret /\ x.sock = u.sock
          /\ x.conn[c] = Rest(u.conn[c], n)
      <4>1. Sound(u)
        BY <2>8
      <4>2. QED
        BY <3>1, <4>1, StripParts
    <3>3. QED
      BY <2>4, <2>8, <3>2 DEF b2, Rest
  <2> HIDE DEF x, r, v
  <2>10. Sound(v) /\ Others(x, v, c) /\ v.ret = 0 /\ v.conn[c] = r /\ v.sock[c] = s2
    <3>1. /\ Sound(v) /\ Others(x, v, c) /\ v.ret = x.ret /\ v.conn[c] = x.conn[c]
          /\ v.sock[c] = Append(x.sock[c], <<"method">>)
      BY <2>7, <2>9, ReplyParts
    <3>2. QED
      BY <2>8, <2>9, <3>1 DEF s2
  <2>11. Others(w, v, c)
    BY <2>8, <2>9, <2>10 DEF Others
  <2>12. Early(r, s2, p, k, g)
    BY <1>3, <2>2, <2>3, <2>6 DEF Early
  <2>13. k.step = 1 + Len(b2) + Len(p) /\ Len(g) + Len(s2) = 1
    BY <1>3, <1>4, <2>2, <2>3
  <2>14. Talk(c, r, s2, p, k, g)
    BY <2>6, <2>12, <2>13 DEF Talk
  <2>15. QED
    BY <2>6, <2>10, <2>11, <2>14 DEF Verdict, v
<1>7. CASE b = <<>>
  <2>1. v = w
    BY <1>7 DEF Greeting
  <2>2. QED
    BY <2>1 DEF Others, Verdict
<1>8. QED
  BY <1>5, <1>6, <1>7

(* The second part: a bytestream is joined, or the connection refused.     *)
LEMMA RequestParts ==
    ASSUME NEW w, Sound(w), NEW c \in Conns, NEW p, NEW k \in ClientRec, NEW g \in Seq(Answer \cup Piece),
           w.ret = 0, w.conn[c].state = "request", Talk(c, w.conn[c], w.sock[c], p, k, g)
    PROVE  LET v == Request(w, c)
           IN  Sound(v) /\ Others(w, v, c) /\ Verdict(v, c, p, k, g)
<1> DEFINE v == Request(w, c)
           b == w.conn[c].rbuf
           h == b[2][2]
           full == Len(w.stream[h].peers) >= 2 \/ w.stream[h].activated
<1>1. /\ w.conn \in [Conns -> ConnRec] /\ w.sock \in [Conns -> Seq(Answer \cup Piece)] /\ w \in WorkRec
      /\ w.conn[c] \in ConnRec /\ w.sock[c] \in Seq(Answer \cup Piece) /\ b \in Seq(Handshake)
      /\ None \notin Hashes /\ w.conn[c].bs \in Hashes \cup {None} /\ w.stream \in [Hashes -> StreamRec]
  BY WorkParts, ConnParts, Proxy65Assumption DEF Sound
<1>2. w.conn[c].bs = None
  BY Unpaired
<1>3. /\ k.step = 1 + Len(b) + Len(p) /\ Len(g) + Len(w.sock[c]) = 1 /\ Early(w.conn[c], w.sock[c], p, k, g)
  BY DEF Talk
<1>4. /\ Len(g) \in Nat /\ Len(w.sock[c]) \in Nat /\ p \in Seq(Handshake) /\ Len(p) \in Nat /\ Len(b) \in Nat
      /\ k.step \in 0..3
  BY <1>1, <1>3 DEF Early, ClientRec
<1> HIDE DEF b, h, full, v
<1>5. ASSUME v = Fail(Reply(w, c, "refused"))
      PROVE  Sound(v) /\ Others(w, v, c) /\ Verdict(v, c, p, k, g)
  <2>2. Sound(v) /\ Others(w, v, c) /\ v.ret = -1 /\ v.conn[c] = w.conn[c] /\ Len(v.sock[c]) = Len(w.sock[c]) + 1
    BY <1>5, Refused
  <2>3. Verdict(v, c, p, k, g)
    BY <1>2, <1>3, <1>4, <2>2 DEF Verdict
  <2>4. QED
    BY <2>2, <2>3
<1>6. CASE Len(b) >= 2 /\ ~Bad(b[1]) /\ ~full
  <2> DEFINE n == 2
             u == Join(w, c, h)
             x == Strip(u, c, n)
             b2 == SubSeq(b, n + 1, Len(b))
             s2 == Append(w.sock[c], <<"ok">>)
             r1 == Joined(w.conn[c], h)
             r == Rest(r1, n)
  <2>1. Len(b) = 2 /\ Len(p) = 0 /\ k.step = 3 /\ k.sent = 0 /\ DOMAIN p = {}
    <3>1. Len(b) = 2 /\ Len(p) = 0 /\ k.step = 3 /\ k.sent = 0
      <4>1. k.sent = 0
        BY <1>3 DEF Early
      <4>2. k.step = 1 + Len(b) + Len(p)
        BY <1>3
      <4>3. Len(b) >= 2
        BY <1>6
      <4>4. Len(p) \in Nat /\ Len(b) \in Nat /\ k.step \in 0..3
        BY <1>4
      <4>5. QED
        BY <4>1, <4>2, <4>3, <4>4, LastHalf
    <3>2. QED
      BY <1>4, <3>1
  <2>2. h = k.h /\ h \in Hashes
    <3>1. 2 \in DOMAIN b
      BY <1>1, <2>1
    <3>2. b[2] \in Handshake
      BY <1>1, <3>1
    <3>3. QED
      BY <1>3, <3>1, <3>2, TokenTypes DEF Early, b, h
  <2>3. Len(w.stream[h].peers) < 2 /\ ~w.stream[h].activated
    <3>1. w.stream[h].peers \in Seq(Conns)
      BY <1>1, <2>2 DEF StreamRec
    <3>2. Len(w.stream[h].peers) \in Nat
      BY <3>1
    <3>3. QED
      BY <1>6, <3>2 DEF full
  <2>4. v = Reply(x, c, "ok")
    <3>1. b # <<>>
      <4>1. Len(b) = 2 /\ b \in Seq(Handshake)
        BY <1>1, <2>1
      <4>2. QED
        BY <4>1, NotEmpty
    <3>2. QED
      BY <1>6, <3>1 DEF Request, v, b, h, full
  <2> HIDE DEF n, u, x
  <2>5. /\ r1 \in ConnRec /\ r1.state = "connected" /\ r1.rbuf = b /\ r1.bs = h
    BY <1>1, <2>2 DEF ConnRec, Phases, Joined, b
  <2>6. Sound(u) /\ Others(w, u, c) /\ u.ret = 0 /\ u.conn[c] = r1 /\ u.sock = w.sock
    BY <1>2, <2>2, <2>3, JoinParts DEF u
  <2> HIDE DEF r1
  <2>7. Sound(x) /\ Others(u, x, c) /\ x.ret = 0 /\ x.conn[c] = r /\ x.sock = u.sock
    <3>1. n \in Nat /\ n <= Len(u.conn[c].rbuf)
      <4>1. Len(b) = 2
        BY <2>1
      <4>2. u.conn[c].rbuf = b
        BY <2>5, <2>6
      <4>3. Len(u.conn[c].rbuf) = 2 /\ n = 2
        BY <4>1, <4>2 DEF n
      <4>4. QED
        BY <4>3
    <3>2. Sound(u)
      BY <2>6
    <3>3. /\ Sound(x) /\ Others(u, x, c) /\ x.ret = u.ret /\ x.sock = u.sock
          /\ x.conn[c] = Rest(u.conn[c], n)
      BY <3>1, <3>2, StripParts DEF x
    <3>4. QED
      BY <2>6, <3>3
  <2>8. r.state = "connected" /\ r.bs = h
    BY <2>5 DEF ConnRec, Rest
  <2> HIDE DEF r
  <2>9. /\ Sound(v) /\ Others(x, v, c) /\ v.ret = x.ret /\ v.conn[c] = x.conn[c]
        /\ v.sock[c] = Append(x.sock[c], <<"ok">>)
    BY <2>4, <2>7, ReplyParts
  <2>10. Others(w, v, c) /\ v.sock[c] = s2 /\ v.ret = 0 /\ v.conn[c] = r
    BY <2>6, <2>7, <2>9 DEF Others
  <2>11. Len(g) + Len(s2) = 2
    BY <1>1, <1>3, <1>4, Answered
  <2> HIDE DEF s2
  <2>12. Late(c, r, p, k)
    BY <2>1, <2>2, <2>8 DEF Late
  <2>13. Talk(c, r, s2, p, k, g)
    BY <2>1, <2>8, <2>11, <2>12 DEF Talk
  <2>14. QED
    BY <2>8, <2>9, <2>10, <2>13 DEF Verdict, v
<1>7. CASE (b = <<>> \/ ~Bad(b[1])) /\ Len(b) < 2
  <2>1. v = w
    <3>1. ~(Len(b) >= 2)
      BY <1>4, <1>7
    <3>2. QED
      BY <1>7, <3>1 DEF Request, v, b
  <2>2. QED
    BY <2>1 DEF Others, Verdict, v
<1>8. CASE b # <<>> /\ Bad(b[1])
  BY <1>5, <1>8 DEF Request, v, b
<1>9. CASE Len(b) >= 2 /\ ~Bad(b[1]) /\ full
  <2>1. b # <<>>
    BY <1>9
  <2>2. v = Fail(Reply(w, c, "refused"))
    BY <1>9, <2>1 DEF Request, v, b, h, full
  <2>3. QED
    BY <1>5, <2>2 DEF v
<1>10. Len(b) >= 2 \/ Len(b) < 2
  BY <1>4
<1>11. (b # <<>> /\ Bad(b[1])) \/ b = <<>> \/ ~Bad(b[1])
  OBVIOUS
<1>12. b = <<>> => Len(b) < 2
  OBVIOUS
<1>13. QED
  BY <1>6, <1>7, <1>8, <1>9, <1>10, <1>11, <1>12 DEF v

(* action_READ before the relay: whatever has come, the connection goes on *)
(* with the handshake, is let in, or is closed.                            *)
LEMMA HandshakeParts ==
    ASSUME NEW w, Sound(w), NEW c \in Conns, NEW p, NEW k \in ClientRec, NEW g \in Seq(Answer \cup Piece),
           w.ret = 0, w.conn[c].state \in {"greeting", "request"}, Talk(c, w.conn[c], w.sock[c], p, k, g)
    PROVE  LET v == Processed(Process(w, c), c)
           IN  /\ Sound(v) /\ \A d \in Conns \ {c} : v.conn[d] \in {w.conn[d], Gone} /\ v.sock[d] = w.sock[d]
               /\ \/ v.conn[c].state = "closed" /\ ~v.conn[c].rd /\ Len(g) + Len(v.sock[c]) <= 2
                  \/ /\ v.conn[c].state \in {"greeting", "request", "connected"} /\ Watch(v.conn[c])
                     /\ Talk(c, v.conn[c], v.sock[c], p, k, g)
<1> DEFINE x == IF w.conn[c].state = "greeting" THEN Greeting(w, c) ELSE w
           u == Process(w, c)
           v == Processed(u, c)
<1>1. Sound(x) /\ Others(w, x, c) /\ Verdict(x, c, p, k, g) /\ x.conn[c].state \in {"greeting", "request"}
  <2>1. CASE w.conn[c].state = "greeting"
    BY <2>1, GreetingParts
  <2>2. CASE w.conn[c].state # "greeting"
    BY <2>2 DEF Others, Verdict
  <2>3. QED
    BY <2>1, <2>2
<1>2. u = IF x.ret = 0 /\ x.conn[c].state = "request" THEN Request(x, c) ELSE x
  BY DEF Process
<1> HIDE DEF x, u
<1>3. Sound(u) /\ Others(w, u, c) /\ Verdict(u, c, p, k, g)
  <2>1. CASE x.ret = 0 /\ x.conn[c].state = "request"
    <3>1. Talk(c, x.conn[c], x.sock[c], p, k, g)
      BY <1>1, <2>1 DEF Verdict
    <3>2. Sound(u) /\ Others(x, u, c) /\ Verdict(u, c, p, k, g)
      BY <1>1, <1>2, <2>1, <3>1, RequestParts
    <3>3. QED
      BY <1>1, <3>2 DEF Others
  <2>2. CASE ~(x.ret = 0 /\ x.conn[c].state = "request")
    BY <1>1, <1>2, <2>2
  <2>3. QED
    BY <2>1, <2>2
<1>4. CASE u.ret = -1
  <2>1. v = Close(u, c)
    BY <1>4 DEF Processed
  <2>2. /\ Sound(v) /\ v.sock = u.sock /\ (\A d \in Conns : v.conn[d] \in {u.conn[d], Gone})
        /\ v.conn[c].state = "closed"
    BY <1>3, <2>1, CloseParts
  <2>3. Len(g) + Len(v.sock[c]) <= 2
    BY <1>3, <1>4, <2>2 DEF Verdict
  <2>4. v.conn[c] = Gone
    BY <1>3, <1>4, <2>2 DEF Verdict
  <2> HIDE DEF v
  <2>5. ~v.conn[c].rd
    BY <2>4, GoneType
  <2>6. QED
    BY <1>3, <2>2, <2>3, <2>5 DEF Others, v, u
<1>5. CASE u.ret = 0
  <2> DEFINE rd == u.conn[c].state \in {"greeting", "request"}
             r == [u.conn[c] EXCEPT !.rd = rd]
  <2>1. u \in WorkRec /\ u.conn[c] \in ConnRec /\ rd \in BOOLEAN
    BY <1>3, WorkParts DEF Sound
  <2>2. v = [u EXCEPT !.conn[c] = r]
    BY <1>5, <2>1 DEF Processed, WorkRec
  <2>3. /\ r \in ConnRec /\ r.bs = u.conn[c].bs /\ r.wbuf = u.conn[c].wbuf /\ r.state = u.conn[c].state
        /\ r.rbuf = u.conn[c].rbuf /\ r.rd = rd
    <3> HIDE DEF rd
    <3>1. QED
      BY <2>1 DEF ConnRec
  <2> HIDE DEF r, v
  <2>4. Sound(v) /\ Others(u, v, c) /\ v.conn[c] = r /\ v.sock = u.sock
    BY <1>3, <2>2, <2>3, ConnOnly
  <2>5. u.conn[c].state \in {"greeting", "request", "connected"} /\ Talk(c, u.conn[c], u.sock[c], p, k, g)
    BY <1>3, <1>5 DEF Verdict
  <2>6. Talk(c, r, u.sock[c], p, k, g)
    BY <2>3, <2>5 DEF Talk, Early, Late
  <2>7. Watch(r)
    BY <2>3 DEF Watch
  <2>8. QED
    BY <1>3, <2>3, <2>4, <2>5, <2>6, <2>7 DEF Others, v, u
<1>6. QED
  BY <1>3, <1>4, <1>5 DEF Verdict

-----------------------------------------------------------------------------
(* The relay                                                               *)

Token == Answer \cup Piece

LEMMA PieceIsToken == Seq(Piece) \subseteq Seq(Token)
BY SeqMonotonic DEF Token

LEMMA ThreeParts ==
    ASSUME NEW S PROVE \A s, t, u \in Seq(S) : (s \o t) \o u = s \o (t \o u)
BY ConcatAssociative

(* A sequence cut in two after its k-th element.                           *)
LEMMA Cut ==
    ASSUME NEW S, NEW t \in Seq(S), NEW k \in 0..Len(t)
    PROVE  /\ SubSeq(t, 1, k) \in Seq(S) /\ SubSeq(t, k + 1, Len(t)) \in Seq(S)
           /\ Len(SubSeq(t, 1, k)) = k /\ Len(SubSeq(t, k + 1, Len(t))) = Len(t) - k
           /\ SubSeq(t, 1, k) \o SubSeq(t, k + 1, Len(t)) = t
           /\ \A i \in 1..k : SubSeq(t, 1, k)[i] = t[i]
           /\ \A i \in 1..(Len(t) - k) : SubSeq(t, k + 1, Len(t))[i] = t[k + i]
<1> DEFINE a == SubSeq(t, 1, k)
           b == SubSeq(t, k + 1, Len(t))
<1>1. /\ a \in Seq(S) /\ Len(a) = k /\ \A i \in 1..k : a[i] = t[i]
  OBVIOUS
<1>2. /\ b \in Seq(S) /\ Len(b) = Len(t) - k /\ \A i \in 1..(Len(t) - k) : b[i] = t[k + i]
  OBVIOUS
<1> HIDE DEF a, b
<1>3. a \o b = t
  <2>1. a \o b \in Seq(S) /\ Len(a \o b) = Len(t)
    BY <1>1, <1>2
  <2>2. ASSUME NEW i \in 1..Len(t) PROVE (a \o b)[i] = t[i]
    <3>1. CASE i <= k
      BY <1>1, <1>2, <3>1
    <3>2. CASE ~(i <= k)
      <4>1. i - k \in 1..(Len(t) - k) /\ k + (i - k) = i
        BY <3>2
      <4>2. (a \o b)[i] = b[i - k]
        BY <1>1, <1>2, <3>2
      <4>3. QED
        BY <1>2, <4>1, <4>2
    <3>3. QED
      BY <3>1, <3>2
  <2>3. QED
    BY <2>1, <2>2, SeqEqual
<1>4. QED
  BY <1>1, <1>2, <1>3 DEF a, b

(* What goes on is added at the end of what is sent to d and kept for it;  *)
(* nothing else changes but that connections of the relay are read again.  *)
Flows(w, v, d, toks) ==
    /\ Sound(v)
    /\ v.sock[d] \o v.conn[d].wbuf = w.sock[d] \o toks
    /\ \A e \in Conns :
          /\ v.conn[e].state = w.conn[e].state /\ v.conn[e].bs = w.conn[e].bs /\ v.conn[e].rbuf = w.conn[e].rbuf
          /\ v.conn[e].rd = w.conn[e].rd \/ w.conn[e].state = "relay"
    /\ \A e \in Conns \ {d} : v.sock[e] = w.sock[e] /\ v.conn[e].wbuf = w.conn[e].wbuf

LEMMA SockEdit ==
    ASSUME NEW w, w \in WorkRec, NEW so
    PROVE  [w EXCEPT !.sock = so] = [conn |-> w.conn, stream |-> w.stream, sock |-> so, ret |-> w.ret]
BY DEF WorkRec

(* send takes a part from the start, the rest is kept.                     *)
LEMMA SentParts ==
    ASSUME NEW w, Sound(w), NEW d \in Conns, w.conn[d].state = "relay", NEW toks \in Seq(Piece)
    PROVE  Flows(w, Sent(w, d, toks), d, toks)
<1>1. /\ w.conn \in [Conns -> ConnRec] /\ w.sock \in [Conns -> Seq(Token)] /\ w \in WorkRec
      /\ w.stream \in [Hashes -> StreamRec] /\ w.ret \in {0, -1}
  BY WorkParts DEF Sound, Token
<1> DEFINE n == Cap - Len(w.sock[d])
           k == IF n < 0 THEN 0 ELSE IF n > Len(toks) THEN Len(toks) ELSE n
           a == SubSeq(toks, 1, k)
           b == SubSeq(toks, k + 1, Len(toks))
           r == [w.conn[d] EXCEPT !.wbuf = b]
           s == w.sock[d] \o a
           so == [w.sock EXCEPT ![d] = s]
           cn == [w.conn EXCEPT ![d] = r]
           v == Sent(w, d, toks)
<1>2. k \in 0..Len(toks)
  <2>1. n \in Int /\ Len(toks) \in Nat
    <3>1. w.sock[d] \in Seq(Token)
      BY <1>1
    <3>2. QED
      BY <3>1, Proxy65Assumption
  <2> HIDE DEF n
  <2>2. QED
    BY <2>1
<1> HIDE DEF k
<1>3. a \in Seq(Piece) /\ b \in Seq(Piece) /\ a \o b = toks
  BY <1>2, Cut
<1>4. v = [w EXCEPT !.sock = so, !.conn = cn]
  BY <1>1 DEF Sent, k
<1> HIDE DEF a, b
<1>5. /\ r \in ConnRec /\ r.wbuf = b /\ r.state = w.conn[d].state /\ r.bs = w.conn[d].bs
      /\ r.rbuf = w.conn[d].rbuf /\ r.rd = w.conn[d].rd
  BY <1>1, <1>3 DEF ConnRec
<1>6. s \in Seq(Token)
  <2>1. w.sock[d] \in Seq(Token) /\ a \in Seq(Token)
    BY <1>1, <1>3, PieceIsToken
  <2>2. QED
    BY <2>1, ConcatProperties
<1> HIDE DEF r, s, v, so, cn
<1>7. v = OneConn(w, d, r, s, w.ret)
  <2> DEFINE y == [w EXCEPT !.sock = so]
  <2>3. y = [conn |-> w.conn, stream |-> w.stream, sock |-> so, ret |-> w.ret]
    <3>1. w \in WorkRec
      BY <1>1
    <3>2. QED
      BY <3>1, SockEdit
  <2>4. [w EXCEPT !.sock = so, !.conn = cn] = [y EXCEPT !.conn = cn]
    BY <1>1 DEF WorkRec
  <2> HIDE DEF y
  <2>1. [w EXCEPT !.sock = so, !.conn = cn] = [conn |-> cn, stream |-> w.stream, sock |-> so, ret |-> w.ret]
    BY <2>3, <2>4
  <2>2. QED
    BY <1>4, <2>1 DEF OneConn, so, cn
<1>8. Sound(v) /\ Others(w, v, d) /\ v.conn[d] = r /\ v.sock[d] = s
  <2>1. s \in Seq(Answer \cup Piece)
    BY <1>6 DEF Token
  <2>2. r.state = w.conn[d].state /\ r.state = "relay" /\ w.ret \in {0, -1} /\ r.bs = w.conn[d].bs
    BY <1>1, <1>5
  <2>3. QED
    BY <1>5, <1>7, <2>1, <2>2, OneConnParts
<1>9. s \o b = w.sock[d] \o toks
  <2>1. w.sock[d] \in Seq(Token) /\ a \in Seq(Token) /\ b \in Seq(Token)
    BY <1>1, <1>3, PieceIsToken
  <2> DEFINE x == w.sock[d]
  <2> HIDE DEF x
  <2>2. x \in Seq(Token)
    BY <2>1 DEF x
  <2>3. (x \o a) \o b = x \o (a \o b)
    BY <2>1, <2>2, ThreeParts
  <2>4. QED
    BY <1>3, <2>3 DEF s, x
<1>10. QED
  BY <1>5, <1>8, <1>9 DEF Flows, Others, v

LEMMA FlowsOn ==
    ASSUME NEW w, NEW u, NEW v, NEW d \in Conns, NEW toks, Flows(w, u, d, toks), Flows(u, v, d, u.conn[d].wbuf)
    PROVE  Flows(w, v, d, toks)
BY DEF Flows

(* "peer may have been paused": the other connection is read again.        *)
LEMMA ResumeParts ==
    ASSUME NEW w, Sound(w), NEW d \in Conns, w.conn[d].state = "relay"
    PROVE  Flows(w, Resume(w, d), d, w.conn[d].wbuf)
<1> DEFINE v == Resume(w, d)
           cn == [e \in Conns |-> IF e \in Peer(w, d) THEN [w.conn[e] EXCEPT !.rd = TRUE] ELSE w.conn[e]]
<1>1. /\ w.conn \in [Conns -> ConnRec] /\ w \in WorkRec /\ w.stream \in [Hashes -> StreamRec]
      /\ w.conn[d].bs \in Hashes \cup {None}
  BY WorkParts, ConnParts DEF Sound
<1>2. CASE w.conn[d].wbuf # <<>>
  <2>1. v = w
    BY <1>2 DEF Resume
  <2>2. QED
    BY <2>1 DEF Flows
<1>3. CASE w.conn[d].wbuf = <<>>
  <2>1. v = [w EXCEPT !.conn = cn]
    BY <1>3 DEF Resume
  <2>2. ASSUME NEW e \in Conns
        PROVE  /\ cn[e] \in ConnRec /\ cn[e].state = w.conn[e].state /\ cn[e].bs = w.conn[e].bs
               /\ cn[e].rbuf = w.conn[e].rbuf /\ cn[e].wbuf = w.conn[e].wbuf
               /\ cn[e].rd = w.conn[e].rd \/ e \in Peer(w, d)
    <3>1. w.conn[e] \in ConnRec
      BY <1>1
    <3>2. CASE e \in Peer(w, d)
      BY <3>1, <3>2 DEF ConnRec
    <3>3. CASE e \notin Peer(w, d)
      BY <3>1, <3>3
    <3>4. QED
      BY <3>2, <3>3
  <2>3. \A e \in Peer(w, d) : w.conn[e].state = "relay"
    <3>1. \A e \in Peer(w, d) : e \in Conns /\ w.conn[e].bs = w.conn[d].bs /\ w.conn[d].bs # None
      BY PeerIs
    <3>2. QED
      BY <1>1, <3>1 DEF Sound, PairedIn
  <2>4. cn \in [Conns -> ConnRec]
    BY <2>2
  <2> HIDE DEF cn, v
  <2>5. v \in WorkRec /\ v.conn = cn /\ v.stream = w.stream /\ v.sock = w.sock
    BY <1>1, <2>1, <2>4 DEF WorkRec
  <2>6. Sound(v)
    BY <2>2, <2>5, KeepsPairs
  <2>7. Flows(w, v, d, w.conn[d].wbuf)
    BY <2>2, <2>3, <2>5, <2>6 DEF Flows
  <2>8. QED
    BY <2>7 DEF v
<1>4. QED
  BY <1>2, <1>3

(* action_WRITE *)
LEMMA ActionWriteParts ==
    ASSUME NEW w, Sound(w), NEW d \in Conns, w.conn[d].state = "relay"
    PROVE  Flows(w, ActionWrite(w, d), d, w.conn[d].wbuf)
<1> DEFINE t == w.conn[d].wbuf
           u == Sent(w, d, t)
           v == ActionWrite(w, d)
<1>1. t \in Seq(Piece)
  BY WorkParts, ConnParts DEF Sound
<1>2. v = Resume(u, d)
  BY DEF ActionWrite
<1> HIDE DEF t, u, v
<1>3. Flows(w, u, d, t)
  BY <1>1, SentParts DEF u
<1>4. Sound(u) /\ u.conn[d].state = "relay"
  BY <1>3 DEF Flows
<1>5. Flows(u, v, d, u.conn[d].wbuf)
  BY <1>2, <1>4, ResumeParts
<1>6. QED
  BY <1>3, <1>5, FlowsOn DEF v, t

(* _socks_relay_write *)
LEMMA RelayWriteParts ==
    ASSUME NEW w, Sound(w), NEW d \in Conns, w.conn[d].state = "relay", NEW toks \in Seq(Piece)
    PROVE  Flows(w, RelayWrite(w, d, toks), d, w.conn[d].wbuf \o toks)
<1> DEFINE t == w.conn[d].wbuf \o toks
           u == Sent(w, d, t)
           v == RelayWrite(w, d, toks)
<1>1. t \in Seq(Piece)
  <2>1. w.conn[d].wbuf \in Seq(Piece)
    BY WorkParts, ConnParts DEF Sound
  <2>2. QED
    BY <2>1, ConcatProperties
<1>2. v = IF u.conn[d].wbuf # <<>> THEN ActionWrite(u, d) ELSE u
  BY DEF RelayWrite, Unsent
<1> HIDE DEF t, u, v
<1>3. Flows(w, u, d, t)
  BY <1>1, SentParts DEF u
<1>4. Sound(u) /\ u.conn[d].state = "relay"
  BY <1>3 DEF Flows
<1>5. Flows(u, ActionWrite(u, d), d, u.conn[d].wbuf)
  BY <1>4, ActionWriteParts
<1>6. Flows(w, v, d, t)
  BY <1>2, <1>3, <1>5, FlowsOn
<1>7. QED
  BY <1>6 DEF v, t

-----------------------------------------------------------------------------
(* The steps                                                               *)

LEMMA WorkFields == Work.conn = conn /\ Work.stream = stream /\ Work.sock = sock /\ Work.ret = 0
BY DEF Work

LEMMA ProxyTypes ==
    ASSUME Sound(Work)
    PROVE  /\ conn \in [Conns -> ConnRec] /\ stream \in [Hashes -> StreamRec] /\ sock \in [Conns -> Seq(Token)]
           /\ \A c \in Conns : /\ conn[c].state \in Phases /\ conn[c].wbuf \in Seq(Piece)
                               /\ conn[c].rbuf \in Seq(Handshake) /\ conn[c].bs \in Hashes \cup {None}
BY WorkParts, ConnParts, WorkFields DEF Sound, Token

LEMMA Landed ==
    ASSUME NEW w, Sound(w), Become(w)
    PROVE  Sound(Work)'
<1> DEFINE v == [conn |-> w.conn, stream |-> w.stream, sock |-> w.sock, ret |-> 0]
<1>1. v \in WorkRec /\ v.conn = w.conn /\ v.stream = w.stream
  BY WorkParts DEF Sound, WorkRec
<1>2. v = Work'
  BY DEF Become, Work
<1> HIDE DEF v
<1>3. Sound(v)
  BY <1>1, KeepsPairs
<1>4. QED
  BY <1>2, <1>3 DEF Sound, PairedIn

(* The two ends of the relay are each other's.                             *)
LEMMA RelayPair ==
    ASSUME Sound(Work), NEW c \in Conns, conn[c].state = "relay"
    PROVE  /\ \E d \in Conns \ {c} : conn[d].bs = conn[c].bs
           /\ \A d \in Conns : conn[d].bs = conn[c].bs => conn[d].state = "relay"
           /\ \A d, e \in Conns \ {c} : conn[d].bs = conn[c].bs /\ conn[e].bs = conn[c].bs => d = e
           /\ conn[c].bs \in Hashes
<1>1. conn[c].bs \in Hashes
  BY ProxyTypes, WorkFields DEF Sound
<1>2. \A d \in Conns : conn[d].bs = conn[c].bs => conn[d].state = "relay"
  BY <1>1, WorkFields DEF Sound, PairedIn
<1>3. conn[c].bs # None
  BY <1>1, Proxy65Assumption
<1>4. /\ Peer(Work, c) = {d \in Conns \ {c} : conn[d].bs = conn[c].bs /\ conn[c].bs # None}
      /\ (\A d, e \in Peer(Work, c) : d = e) /\ Peer(Work, c) # {}
  BY PeerIs, WorkFields
<1>5. QED
  BY <1>1, <1>2, <1>3, <1>4

(* The invariant says of every client what Faithful does.                  *)
LEMMA ToldAll ==
    ASSUME ProxyInv, NEW c \in Conns
    PROVE  Told(c)
<1> USE DEF ProxyInv
<1> DEFINE all == got[c] \o sock[c]
<1>1. got[c] \in Seq(Token) /\ sock[c] \in Seq(Token) /\ conn[c].wbuf \in Seq(Token) /\ conn[c].state \in Phases
  BY ProxyTypes, PieceIsToken DEF TypeInv, Token
<1>2. all \in Seq(Token) /\ Len(all) = Len(got[c]) + Len(sock[c])
  BY <1>1, ConcatProperties
<1>3. CASE conn[c].state = "closed"
  BY <1>3 DEF AllTold
<1>4. CASE conn[c].state = "relay"
  <2>1. PICK d \in Conns \ {c} : conn[d].bs = conn[c].bs
    BY <1>4, RelayPair
  <2>2. conn[d].state = "relay"
    BY <1>4, <2>1, RelayPair
  <2>3. client[d].h = client[c].h /\ client[c].h # None
    <3>1. Late(c, conn[c], pipe[c], client[c]) /\ Late(d, conn[d], pipe[d], client[d])
      BY <1>4, <2>2 DEF TalkInv, Talk
    <3>2. conn[c].bs # None
      BY <1>4, RelayPair, Proxy65Assumption
    <3>3. QED
      BY <2>1, <3>1, <3>2 DEF Late
  <2>4. Chain(c, d)
    BY <1>4, <2>1 DEF RelayInv
  <2> HIDE DEF all
  <2>5. Came(c) = all \o conn[c].wbuf
    BY DEF Came, all
  <2>6. Len(Came(c)) = Len(all) + Len(conn[c].wbuf) /\ \A i \in 1..Len(all) : Came(c)[i] = all[i]
    <3> DEFINE t == conn[c].wbuf
    <3> HIDE DEF t
    <3>1. t \in Seq(Token)
      BY <1>1 DEF t
    <3>2. Len(all \o t) = Len(all) + Len(t) /\ \A i \in 1..Len(all) : (all \o t)[i] = all[i]
      <4>1. all \in Seq(Token)
        BY <1>2
      <4>2. QED
        BY <3>1, <4>1, ConcatProperties, LenProperties
    <3>3. QED
      BY <2>5, <3>2 DEF t
  <2>7. Len(all) \in Nat /\ Len(conn[c].wbuf) \in Nat
    BY <1>1, <1>2, LenProperties
  <2>8. \A i \in 3..Len(all) : all[i] = <<"data", d, i - 2>>
    BY <2>4, <2>6, <2>7 DEF Chain
  <2>9. QED
    BY <1>4, <2>3, <2>8 DEF Told, all
<1>5. CASE conn[c].state \in {"none", "greeting", "request", "connected"}
  <2>1. Len(got[c]) + Len(sock[c]) \in {0, 1, 2}
    <3>1. Talk(c, conn[c], sock[c], pipe[c], client[c], got[c])
      BY DEF TalkInv
    <3>2. QED
      BY <1>5, <3>1 DEF Talk
  <2>2. ~(Len(all) > 2)
    <3> DEFINE n == Len(all)
    <3>1. n \in {0, 1, 2}
      BY <1>2, <2>1
    <3> HIDE DEF n
    <3>2. ~(n > 2)
      BY <3>1
    <3>3. QED
      BY <3>2 DEF n
  <2>3. QED
    BY <2>2 DEF Told
<1>6. QED
  BY <1>1, <1>3, <1>4, <1>5 DEF Phases

LEMMA FaithfulFrom == ProxyInv => Faithful
BY ToldAll DEF Faithful, Told

Typed == conn \in [Conns -> ConnRec] /\ stream \in [Hashes -> StreamRec] /\ sock \in [Conns -> Seq(Token)]

LEMMA ProxyTyped == Sound(Work) => Typed
BY ProxyTypes DEF Typed

RelaysPaired ==
    \A c, d \in Conns : conn[c].state = "relay" /\ conn[d].bs = conn[c].bs => conn[d].state = "relay"

LEMMA RelayedTogether == Sound(Work) => RelaysPaired
BY RelayPair DEF RelaysPaired

(* A connection that is closed stays so, and nothing more is sent on it.   *)
Stays == \A d \in Conns : conn[d].state = "closed" => conn'[d].state = "closed" /\ sock'[d] = sock[d]

(* Connections are closed, or go on with the handshake; those of the relay *)
(* that stay are left alone.                                               *)
LEMMA Settled ==
    ASSUME ProxyInv, Sound(Work)', TypeInv', client' = client, got' = got,
           \A d \in Conns :
              \/ conn'[d] = conn[d] /\ sock'[d] = sock[d] /\ pipe'[d] = pipe[d]
              \/ /\ conn'[d].state = "closed" /\ ~conn'[d].rd
                 /\ sock'[d] = sock[d] \/ Len(got[d]) + Len(sock'[d]) <= 2
              \/ /\ conn'[d].state \in {"none", "greeting", "request", "connected"} /\ Watch(conn'[d])
                 /\ Talk(d, conn'[d], sock'[d], pipe'[d], client[d], got[d])
    PROVE  ProxyInv'
<1>1. TalkInv /\ RelayInv /\ AllTold
  BY DEF ProxyInv
<1>2. TalkInv'
  <2> SUFFICES ASSUME NEW d \in Conns
               PROVE  Watch(conn'[d]) /\ Talk(d, conn'[d], sock'[d], pipe'[d], client[d], got[d])
    BY DEF TalkInv
  <2>1. CASE conn'[d] = conn[d] /\ sock'[d] = sock[d] /\ pipe'[d] = pipe[d]
    BY <1>1, <2>1 DEF TalkInv
  <2>2. CASE conn'[d].state = "closed" /\ ~conn'[d].rd
    BY <2>2 DEF Watch, Talk
  <2>3. QED
    BY <2>1, <2>2
<1>3. RelayInv'
  <2>1. RelaysPaired'
    BY RelayedTogether, PTL
  <2> SUFFICES ASSUME NEW c \in Conns, NEW d \in Conns, c # d, conn'[c].state = "relay", conn'[c].bs = conn'[d].bs
               PROVE  Chain(c, d)'
    BY DEF RelayInv
  <2>2. conn'[d].state = "relay"
    BY <2>1 DEF RelaysPaired
  <2>3. conn'[c] = conn[c] /\ sock'[c] = sock[c] /\ conn'[d] = conn[d] /\ pipe'[d] = pipe[d]
    BY <2>2
  <2>4. Chain(c, d)
    BY <1>1, <2>3 DEF RelayInv
  <2>5. QED
    BY <2>3, <2>4 DEF Chain, Came
<1>4. AllTold'
  <2> SUFFICES ASSUME NEW c \in Conns, conn'[c].state = "closed" PROVE Told(c)'
    BY DEF AllTold
  <2>1. CASE sock'[c] = sock[c]
    <3>1. Told(c)
      BY ToldAll
    <3>2. QED
      BY <2>1, <3>1 DEF Told
  <2>2. CASE Len(got[c]) + Len(sock'[c]) <= 2
    <3> DEFINE g == got[c]
               t == sock'[c]
    <3>0. g \in Seq(Token)
      BY DEF ProxyInv, TypeInv, Token
    <3>1. Typed'
      BY ProxyTyped, PTL
    <3>2. t \in Seq(Token)
      BY <3>1 DEF Typed
    <3> HIDE DEF g, t
    <3>3. Len(g \o t) = Len(g) + Len(t) /\ Len(g) \in Nat /\ Len(t) \in Nat
      BY <3>0, <3>2, ConcatProperties, LenProperties
    <3>4. Len(g) + Len(t) <= 2
      BY <2>2 DEF g, t
    <3> DEFINE n == Len(g \o t)
    <3>5. n \in Int /\ n <= 2
      BY <3>3, <3>4
    <3> HIDE DEF n
    <3>6. ~(n > 2)
      BY <3>5
    <3>7. QED
      BY <3>6 DEF Told, n, g, t
  <2>3. QED
    BY <2>1, <2>2
<1>5. QED
  BY <1>2, <1>3, <1>4 DEF ProxyInv

LEMMA TypeParts ==
    ASSUME TypeInv, NEW c \in Conns
    PROVE  pipe[c] \in Seq(Handshake \cup Piece) /\ client[c] \in ClientRec /\ got[c] \in Seq(Answer \cup Piece)
BY DEF TypeInv

(* A step that only closes connections, whole bytestreams at a time.       *)
LEMMA Closes ==
    ASSUME ProxyInv, NEW w, Sound(w), Become(w), w.sock = sock, \A d \in Conns : w.conn[d] \in {conn[d], Gone},
           UNCHANGED <<pipe, client, got>>
    PROVE  ProxyInv'
<1>1. Sound(Work)'
  BY Landed
<1>2. TypeInv'
  BY DEF ProxyInv, TypeInv
<1>3. ASSUME NEW d \in Conns
      PROVE  \/ conn'[d] = conn[d] /\ sock'[d] = sock[d] /\ pipe'[d] = pipe[d]
             \/ conn'[d].state = "closed" /\ ~conn'[d].rd /\ sock'[d] = sock[d]
  BY GoneType DEF Become
<1>4. QED
  BY <1>1, <1>2, <1>3, Settled

LEMMA ResetStep ==
    ASSUME ProxyInv, NEW c \in Conns, Reset(c)
    PROVE  ProxyInv'
<1>1. /\ Sound(Close(Work, c)) /\ Close(Work, c).sock = sock
      /\ \A d \in Conns : Close(Work, c).conn[d] \in {conn[d], Gone}
  BY CloseParts, WorkFields DEF ProxyInv
<1>2. Become(Close(Work, c)) /\ UNCHANGED <<pipe, client, got>>
  BY DEF Reset
<1>3. QED
  BY <1>1, <1>2, Closes

LEMMA ExpireStep ==
    ASSUME ProxyInv, Expire
    PROVE  ProxyInv'
<1> DEFINE H == {h \in Hashes : Expired(h)}
           w == StreamFree(Work, H)
<1>1. H \in SUBSET Hashes
  OBVIOUS
<1>2. Become(w) /\ UNCHANGED <<pipe, client, got>>
  BY DEF Expire
<1> HIDE DEF H
<1>3. Sound(w) /\ w.sock = sock /\ \A d \in Conns : w.conn[d] \in {conn[d], Gone}
  BY <1>1, FreeParts, WorkFields DEF ProxyInv
<1> HIDE DEF w
<1>4. QED
  BY <1>2, <1>3, Closes

(* The end of the process.                                                 *)
LEMMA ShutdownStep ==
    ASSUME ProxyInv, Shutdown
    PROVE  ProxyInv'
<1> DEFINE H == {h \in Hashes : stream[h].on}
           w == StreamFree(Work, H)
           cn == [c \in Conns |-> IF w.conn[c].state = "none" THEN NoConn ELSE Gone]
           v == [w EXCEPT !.conn = cn]
<1>1. H \in SUBSET Hashes
  OBVIOUS
<1>2. Become(v) /\ UNCHANGED <<pipe, client, got>>
  BY DEF Shutdown
<1>3. Sound(w) /\ w.sock = sock /\ (\A d \in Conns : w.conn[d] \in {conn[d], Gone})
      /\ \A h \in Hashes : w.stream[h] = IF h \in H THEN NoStream ELSE stream[h]
  <2> HIDE DEF H
  <2>1. QED
    BY <1>1, FreeParts, WorkFields DEF ProxyInv
<1>4. /\ stream \in [Hashes -> StreamRec] /\ conn \in [Conns -> ConnRec]
  BY ProxyTypes DEF ProxyInv
<1>5. \A h \in Hashes : ~w.stream[h].on
  <2> HIDE DEF w
  <2>1. QED
    BY <1>3, GoneType
<1> HIDE DEF w, H
<1>6. w \in WorkRec
  BY <1>3 DEF Sound
<1>7. cn \in [Conns -> ConnRec]
  BY GoneType
<1> HIDE DEF cn
<1>8. v \in WorkRec /\ v.conn = cn /\ v.stream = w.stream /\ v.sock = w.sock
  BY <1>6, <1>7 DEF WorkRec
<1> HIDE DEF v
<1>9. \A c \in Conns : w.conn[c].bs = None
  <2>1. ASSUME NEW h \in Hashes, NEW c \in Conns PROVE w.conn[c].bs # h
    <3>1. PairedIn(w, h) /\ w.stream[h] \in StreamRec
      BY <1>3, <1>6, WorkParts DEF Sound
    <3>2. w.stream[h].peers = <<>>
      BY <1>5, <3>1 DEF PairedIn
    <3>3. DOMAIN w.stream[h].peers = {}
      BY <3>2
    <3>4. QED
      BY <3>1, <3>3 DEF PairedIn
  <2>2. QED
    BY <1>6, <2>1, WorkParts, ConnParts
<1>10. \A c \in Conns : v.conn[c] \in {NoConn, Gone} /\ (v.conn[c] = NoConn <=> w.conn[c].state = "none")
  BY <1>8, GoneType DEF cn
<1>11. Sound(v)
  <2>1. ASSUME NEW c \in Conns
        PROVE  /\ v.conn[c].bs = w.conn[c].bs
               /\ v.conn[c].state \notin {"connected", "relay"}
               /\ v.conn[c].wbuf = w.conn[c].wbuf /\ w.conn[c].state # "relay"
    <3>1. w.conn[c].state \notin {"connected", "relay"} /\ w.conn[c].wbuf = <<>>
      BY <1>3, <1>9 DEF Sound
    <3>2. QED
      BY <1>9, <1>10, <3>1, GoneType
  <2>2. QED
    BY <1>3, <1>8, <1>9, <2>1, KeepsPairs
<1>12. Sound(Work)'
  BY <1>2, <1>11, Landed
<1>13. TypeInv'
  BY <1>2 DEF ProxyInv, TypeInv
<1>14. conn' = v.conn /\ sock' = sock
  BY <1>2, <1>3, <1>8 DEF Become
<1>15. ASSUME NEW d \in Conns
       PROVE  \/ conn'[d].state = "closed" /\ ~conn'[d].rd /\ sock'[d] = sock[d]
              \/ /\ conn'[d].state = "none" /\ Watch(conn'[d])
                 /\ Talk(d, conn'[d], sock'[d], pipe'[d], client[d], got[d])
  <2>1. CASE v.conn[d] = Gone
    BY <1>14, <2>1, GoneType
  <2>2. CASE v.conn[d] = NoConn
    <3>1. conn[d].state = "none"
      BY <1>3, <1>10, <2>2, GoneType
    <3>2. Talk(d, conn[d], sock[d], pipe[d], client[d], got[d])
      BY DEF ProxyInv, TalkInv
    <3>3. NoConn.state = "none" /\ ~NoConn.rd /\ DOMAIN NoConn.rbuf = {}
      BY DEF NoConn
    <3>4. Talk(d, NoConn, sock[d], pipe[d], client[d], got[d])
      BY <3>1, <3>2, <3>3 DEF Talk, Early
    <3>5. Watch(NoConn)
      BY <3>3 DEF Watch
    <3>6. QED
      BY <1>2, <1>14, <2>2, <3>3, <3>4, <3>5
  <2>3. QED
    BY <1>10, <2>1, <2>2
<1>16. QED
  BY <1>2, <1>12, <1>13, <1>15, Settled

AllToks(s, t, u) == s \in Seq(Token) /\ t \in Seq(Token) /\ u \in Seq(Token)

LEMMA TokenParts ==
    ASSUME NEW s, NEW t, NEW u, AllToks(s, t, u)
    PROVE  (s \o t) \o u = s \o (t \o u)
BY ThreeParts DEF AllToks

Moved(g, s, b, t, s2, b2) ==
    /\ g \in Seq(Token) /\ s \in Seq(Token) /\ b \in Seq(Token) /\ t \in Seq(Token)
    /\ s2 \in Seq(Token) /\ b2 \in Seq(Token)
    /\ s2 \o b2 = s \o (b \o t)

LEMMA FiveParts ==
    ASSUME NEW g, NEW s, NEW b, NEW t, NEW s2, NEW b2, Moved(g, s, b, t, s2, b2)
    PROVE  (g \o s2) \o b2 = ((g \o s) \o b) \o t
<1>0. /\ g \in Seq(Token) /\ s \in Seq(Token) /\ b \in Seq(Token) /\ t \in Seq(Token)
      /\ s2 \in Seq(Token) /\ b2 \in Seq(Token)
  BY DEF Moved
<1>1. b \o t \in Seq(Token) /\ g \o s \in Seq(Token)
  BY <1>0, ConcatProperties
<1>2. (g \o s2) \o b2 = g \o (s2 \o b2)
  <2>1. AllToks(g, s2, b2)
    BY <1>0 DEF AllToks
  <2>2. QED
    BY <2>1, TokenParts
<1>3. ((g \o s) \o b) \o t = (g \o s) \o (b \o t)
  <2>1. AllToks(g \o s, b, t)
    BY <1>0, <1>1 DEF AllToks
  <2>2. QED
    BY <2>1, TokenParts
<1>4. (g \o s) \o (b \o t) = g \o (s \o (b \o t))
  <2>1. AllToks(g, s, b \o t)
    BY <1>0, <1>1 DEF AllToks
  <2>2. QED
    BY <2>1, TokenParts
<1>5. s2 \o b2 = s \o (b \o t)
  BY DEF Moved
<1>6. QED
  BY <1>2, <1>3, <1>4, <1>5

(* Pieces of c numbered from k + 1 on behind its first k.                  *)
Behind(a, t, c, k) ==
    /\ a \in Seq(Token) /\ t \in Seq(Token) /\ k \in Nat /\ Len(a) = 2 + k
    /\ \A i \in 3..Len(a) : a[i] = <<"data", c, i - 2>>
    /\ \A i \in 1..Len(t) : t[i] = <<"data", c, k + i>>

LEMMA PiecesAfter ==
    ASSUME NEW a, NEW t, NEW c, NEW k, Behind(a, t, c, k)
    PROVE  /\ Len(a \o t) = 2 + k + Len(t)
           /\ \A i \in 3..Len(a \o t) : (a \o t)[i] = <<"data", c, i - 2>>
<1>0. /\ a \in Seq(Token) /\ t \in Seq(Token) /\ k \in Nat /\ Len(a) = 2 + k
      /\ \A i \in 3..Len(a) : a[i] = <<"data", c, i - 2>>
      /\ \A i \in 1..Len(t) : t[i] = <<"data", c, k + i>>
  BY DEF Behind
<1>1. /\ Len(a \o t) = Len(a) + Len(t) /\ Len(a) \in Nat /\ Len(t) \in Nat
      /\ \A i \in 1..(Len(a) + Len(t)) : (a \o t)[i] = IF i <= Len(a) THEN a[i] ELSE t[i - Len(a)]
  BY <1>0, ConcatProperties, LenProperties
<1> DEFINE m == Len(a)
           n == Len(t)
           x == a \o t
<1> HIDE DEF m, n, x
<1>2. m \in Nat /\ n \in Nat /\ m = 2 + k
  BY <1>0, <1>1 DEF m, n
<1>3. ASSUME NEW i \in 3..(m + n) PROVE x[i] = <<"data", c, i - 2>>
  <2>1. CASE i <= m
    <3>1. x[i] = a[i]
      BY <1>1, <1>2, <2>1 DEF m, n, x
    <3>2. i \in 3..m
      BY <1>2, <2>1
    <3>3. QED
      BY <1>0, <3>1, <3>2 DEF m
  <2>2. CASE ~(i <= m)
    <3>1. x[i] = t[i - m] /\ i \in Int
      BY <1>1, <1>2, <2>2 DEF m, n, x
    <3>2. i - m \in 1..n /\ k + (i - m) = i - 2
      BY <1>0, <1>2, <2>2
    <3>3. t[i - m] = <<"data", c, k + (i - m)>>
      BY <1>0, <3>2 DEF n
    <3>4. QED
      BY <3>1, <3>2, <3>3
  <2>3. QED
    BY <2>1, <2>2
<1>4. QED
  BY <1>1, <1>2, <1>3 DEF m, n, x

LEMMA IsPiece ==
    ASSUME NEW c \in Conns, NEW m \in Nat
    PROVE  <<"data", c, m>> \in Piece /\ <<"data", c, m>> \in Token
BY DEF Piece, Token

LEMMA TalkSame ==
    ASSUME NEW c, NEW r, NEW r2, NEW s, NEW p, NEW k, NEW g, Talk(c, r, s, p, k, g),
           r2.state = r.state, r2.bs = r.bs, r2.rbuf = r.rbuf
    PROVE  Talk(c, r2, s, p, k, g)
BY DEF Talk, Early, Late

(* The first n tokens that c has sent and that are not read go to d.       *)
LEMMA Relayed ==
    ASSUME ProxyInv, NEW w, NEW d \in Conns, NEW c \in Conns \ {d}, conn[d].state = "relay", conn[c].bs = conn[d].bs,
           NEW n \in 0..Len(pipe[c]), Flows(Work, w, d, conn[d].wbuf \o SubSeq(pipe[c], 1, n)), Become(w),
           pipe' = [pipe EXCEPT ![c] = SubSeq(@, n + 1, Len(@))],
           client' = client, got' = got
    PROVE  ProxyInv'
<1> DEFINE p == pipe[c]
           rest == SubSeq(p, n + 1, Len(p))
           k == client[c].sent - Len(p)
           toks == SubSeq(pipe[c], 1, n)
<1> HIDE DEF toks
<1>a. Sound(Work) /\ TypeInv /\ TalkInv /\ RelayInv /\ AllTold
  BY DEF ProxyInv
<1>b. Sound(w)
  BY DEF Flows
<1>1. Sound(Work)' /\ Typed' /\ Typed
  <2>1. Sound(Work)'
    BY <1>b, Landed
  <2>2. QED
    BY <1>a, <2>1, ProxyTyped, PTL
<1>2. conn[c].state = "relay" /\ \A e \in Conns \ {c} : conn[e].bs = conn[c].bs => e = d
  <2>1. conn[c].state = "relay"
    BY <1>a, RelayPair
  <2>2. QED
    BY <1>a, <2>1, RelayPair
<1>3. p \in Seq(Handshake \cup Piece) /\ Late(c, conn[c], p, client[c]) /\ client[c].sent \in Nat
  <2>1. p \in Seq(Handshake \cup Piece) /\ client[c] \in ClientRec
    BY <1>a, TypeParts
  <2>2. Talk(c, conn[c], sock[c], p, client[c], got[c])
    BY <1>a DEF TalkInv
  <2>3. QED
    BY <1>2, <2>1, <2>2 DEF Talk, ClientRec
<1> HIDE DEF p
<1>4. toks = SubSeq(p, 1, n) /\ n \in 0..Len(p)
  BY DEF p, toks
<1>5. /\ rest \in Seq(Handshake \cup Piece) /\ Len(rest) = Len(p) - n /\ Len(toks) = n
      /\ (\A i \in 1..n : toks[i] = p[i]) /\ (\A i \in 1..(Len(p) - n) : rest[i] = p[n + i])
      /\ toks \in Seq(Handshake \cup Piece)
  BY <1>3, <1>4, Cut
<1> HIDE DEF rest
<1>6. pipe'[c] = rest /\ \A e \in Conns \ {c} : pipe'[e] = pipe[e]
  BY <1>a DEF TypeInv, p, rest
<1>7. TypeInv'
  <2>1. pipe' \in [Conns -> Seq(Handshake \cup Piece)]
    BY <1>5, <1>6, <1>a DEF TypeInv, p, rest
  <2>2. QED
    BY <1>a, <2>1 DEF TypeInv
<1>8. /\ sock'[d] \o conn'[d].wbuf = sock[d] \o (conn[d].wbuf \o toks)
      /\ \A e \in Conns :
            /\ conn'[e].state = conn[e].state /\ conn'[e].bs = conn[e].bs /\ conn'[e].rbuf = conn[e].rbuf
            /\ conn'[e].rd = conn[e].rd \/ conn[e].state = "relay"
      /\ \A e \in Conns \ {d} : sock'[e] = sock[e] /\ conn'[e].wbuf = conn[e].wbuf
  BY WorkFields DEF Flows, Become, toks
<1>9. Len(p) \in Nat /\ Len(p) <= client[c].sent /\ k \in Nat /\ n \in Nat /\ DOMAIN p = 1..Len(p)
  BY <1>3, <1>4 DEF Late
<1>10. \A i \in 1..Len(p) : p[i] = <<"data", c, k + i>>
  BY <1>3, <1>9 DEF Late
<1>11. Late(c, conn'[c], rest, client[c])
  <2>1. Len(rest) = Len(p) - n /\ DOMAIN rest = 1..(Len(p) - n) /\ Len(rest) <= client[c].sent
    <3>1. rest \in Seq(Handshake \cup Piece) /\ Len(rest) = Len(p) - n
      BY <1>5
    <3>2. DOMAIN rest = 1..Len(rest)
      BY <3>1, LenProperties
    <3>3. Len(p) - n <= client[c].sent
      BY <1>3, <1>9
    <3>4. QED
      BY <3>1, <3>2, <3>3
  <2>2. ASSUME NEW i \in 1..(Len(p) - n) PROVE rest[i] = <<"data", c, client[c].sent - Len(rest) + i>>
    <3>1. n + i \in 1..Len(p) /\ k + (n + i) = client[c].sent - Len(rest) + i
      <4>1. \A a, l, m, j \in Int : (a - l) + (m + j) = a - (l - m) + j
        OBVIOUS
      <4>2. i \in Int /\ n + i \in 1..Len(p) /\ client[c].sent \in Int /\ Len(p) \in Int /\ n \in Int
        BY <1>3, <1>9
      <4>3. (client[c].sent - Len(p)) + (n + i) = client[c].sent - (Len(p) - n) + i
        BY <4>1, <4>2
      <4>4. QED
        BY <2>1, <4>2, <4>3
    <3>2. QED
      BY <1>5, <1>10, <3>1
  <2>3. QED
    BY <1>3, <1>8, <2>1, <2>2 DEF Late
<1>12. TalkInv'
  <2> SUFFICES ASSUME NEW e \in Conns
               PROVE  Watch(conn'[e]) /\ Talk(e, conn'[e], sock'[e], pipe'[e], client[e], got[e])
    BY DEF TalkInv
  <2>1. Watch(conn[e]) /\ Talk(e, conn[e], sock[e], pipe[e], client[e], got[e])
    BY <1>a DEF TalkInv
  <2>2. Watch(conn'[e])
    BY <1>8, <2>1 DEF Watch
  <2>3. CASE e = c
    BY <1>2, <1>6, <1>8, <1>11, <2>2, <2>3 DEF Talk
  <2>4. CASE e = d
    <3>1. Late(d, conn'[d], pipe'[d], client[d])
      BY <1>6, <1>8, <2>1, <2>4 DEF Talk, Late
    <3>2. QED
      BY <1>8, <2>2, <2>4, <3>1 DEF Talk
  <2>5. CASE e # c /\ e # d
    BY <1>6, <1>8, <2>1, <2>2, <2>5, TalkSame
  <2>6. QED
    BY <2>2, <2>3, <2>4, <2>5
<1>13. Chain(d, c)'
  <2> DEFINE g == got[d]
             s == sock[d]
             b == conn[d].wbuf
             s2 == sock'[d]
             b2 == conn'[d].wbuf
             a == (g \o s) \o b
  <2> HIDE DEF k
  <2>0. \A i \in 1..n : toks[i] = <<"data", c, k + i>>
    <3>1. \A i \in 1..n : i \in 1..Len(p)
      BY <1>4, <1>9
    <3>2. QED
      BY <1>5, <1>10, <3>1
  <2>1. toks \in Seq(Token)
    <3>1. ASSUME NEW i \in 1..n PROVE toks[i] \in Token
      <4>1. k + i \in Nat
        BY <1>9
      <4>2. QED
        BY <2>0, <4>1, IsPiece
    <3>2. DOMAIN toks = 1..n /\ Len(toks) = n /\ toks \in Seq(Handshake \cup Piece)
      BY <1>5, LenProperties
    <3>3. QED
      BY <3>1, <3>2
  <2>2. /\ g \in Seq(Token) /\ s \in Seq(Token) /\ b \in Seq(Token) /\ s2 \in Seq(Token) /\ b2 \in Seq(Token)
    BY <1>1, <1>a, PieceIsToken, ConnParts DEF Typed, TypeInv, Token
  <2>3. s2 \o b2 = s \o (b \o toks)
    BY <1>8
  <2>4. Chain(d, c)
    BY <1>a DEF RelayInv
  <2>5. Came(d) = a /\ Came(d)' = (g \o s2) \o b2
    BY DEF Came
  <2> HIDE DEF g, s, b, s2, b2, k
  <2>6. (g \o s2) \o b2 = ((g \o s) \o b) \o toks
    <3>1. Moved(g, s, b, toks, s2, b2)
      BY <2>1, <2>2, <2>3 DEF Moved
    <3>2. QED
      BY SMTT(30), <3>1, FiveParts
  <2>7. a \in Seq(Token)
    BY <2>2, ConcatProperties
  <2>13. (g \o s2) \o b2 = a \o toks
    BY <2>6, Zenon DEF a
  <2> HIDE DEF a
  <2>8. Len(a) = 2 + k /\ \A i \in 3..Len(a) : a[i] = <<"data", c, i - 2>>
    <3>1. Len(a) = 2 + client[c].sent - Len(p)
      BY <2>4, <2>5 DEF Chain, p
    <3>2. QED
      BY <1>3, <1>9, <2>4, <2>5, <3>1 DEF Chain, k
  <2>9. \A i \in 1..Len(toks) : toks[i] = <<"data", c, k + i>>
    BY <1>5, <2>0
  <2>10. /\ Len(a \o toks) = 2 + k + Len(toks)
         /\ \A i \in 3..Len(a \o toks) : (a \o toks)[i] = <<"data", c, i - 2>>
    <3>1. Behind(a, toks, c, k)
      BY <1>9, <2>1, <2>7, <2>8, <2>9 DEF Behind
    <3>2. QED
      BY ZenonT(40), <3>1, PiecesAfter
  <2>11. 2 + k + Len(toks) = 2 + client[c].sent - Len(rest)
    <3>1. k = client[c].sent - Len(p)
      BY DEF k
    <3>2. Len(rest) = Len(p) - n /\ Len(toks) = n
      BY <1>5
    <3>3. QED
      BY SMTT(30), <1>3, <1>9, <3>1, <3>2
  <2>12. QED
    BY <1>6, <2>5, <2>13, <2>10, <2>11 DEF Chain
<1>14. RelayInv'
  <2> SUFFICES ASSUME NEW e \in Conns, NEW f \in Conns, e # f, conn'[e].state = "relay", conn'[e].bs = conn'[f].bs
               PROVE  Chain(e, f)'
    BY DEF RelayInv
  <2>1. conn[e].state = "relay" /\ conn[e].bs = conn[f].bs
    BY <1>8
  <2>2. CASE e = d
    <3>1. f = c
      BY <1>a, <2>1, <2>2, RelayPair
    <3>2. QED
      BY <1>13, <2>2, <3>1
  <2>3. CASE e # d
    <3>1. f # c
      BY <1>2, <2>1, <2>3
    <3>2. Chain(e, f)
      BY <1>a, <2>1 DEF RelayInv
    <3>3. QED
      BY ZenonT(40), <1>6, <1>8, <2>3, <3>1, <3>2 DEF Chain, Came
  <2>4. QED
    BY <2>2, <2>3
<1>15. AllTold'
  <2> SUFFICES ASSUME NEW e \in Conns, conn'[e].state = "closed" PROVE Told(e)'
    BY DEF AllTold
  <2>1. conn[e].state = "closed" /\ sock'[e] = sock[e]
    BY <1>8
  <2>2. Told(e)
    BY <1>a, <2>1 DEF AllTold
  <2>3. QED
    BY <2>1, <2>2 DEF Told
<1>16. QED
  BY <1>1, <1>7, <1>12, <1>14, <1>15 DEF ProxyInv

(* "backpressure": a connection of the relay is not read for now.          *)
LEMMA Idles ==
    ASSUME ProxyInv, NEW c \in Conns, conn[c].state = "relay", Become([Work EXCEPT !.conn[c].rd = FALSE]),
           UNCHANGED <<pipe, client, got>>
    PROVE  ProxyInv'
<1> DEFINE w == [Work EXCEPT !.conn[c].rd = FALSE]
           r == [conn[c] EXCEPT !.rd = FALSE]
<1>1. /\ Sound(Work) /\ TypeInv /\ conn \in [Conns -> ConnRec] /\ conn[c] \in ConnRec
      /\ sock \in [Conns -> Seq(Token)] /\ conn[c].wbuf \in Seq(Piece)
  BY ProxyTypes DEF ProxyInv
<1>2. PICK d \in Conns \ {c} : conn[d].bs = conn[c].bs
  BY <1>1, RelayPair
<1>3. /\ r \in ConnRec /\ r.state = conn[c].state /\ r.bs = conn[c].bs /\ r.wbuf = conn[c].wbuf /\ r.rbuf = conn[c].rbuf
  BY <1>1 DEF ConnRec
<1>4. w = [Work EXCEPT !.conn[c] = r]
  BY DEF Work
<1> HIDE DEF w, r
<1>5. Sound(w) /\ Others(Work, w, c) /\ w.conn[c] = r /\ w.sock = Work.sock
  <2>1. Sound(Work) /\ r \in ConnRec /\ r.bs = Work.conn[c].bs /\ r.wbuf = Work.conn[c].wbuf /\ r.state = Work.conn[c].state
    BY <1>1, <1>3, WorkFields
  <2> DEFINE v == [Work EXCEPT !.conn[c] = r]
  <2>2. Sound(v) /\ Others(Work, v, c) /\ v.conn[c] = r /\ v.sock = Work.sock
    BY ONLY <2>1, c \in Conns, ConnOnly
  <2>3. QED
    BY <1>4, <2>2
<1>6. pipe[d] \in Seq(Handshake \cup Piece) /\ pipe \in [Conns -> Seq(Handshake \cup Piece)]
  BY <1>1 DEF TypeInv
<1> DEFINE p == pipe[d]
           n == 0
<1>7. SubSeq(p, 1, n) = <<>> /\ SubSeq(p, n + 1, Len(p)) = p /\ n \in 0..Len(p)
  <2>1. p \in Seq(Handshake \cup Piece)
    BY <1>6
  <2> HIDE DEF p
  <2>2. QED
    BY <2>1, SubSeqFull
<1> HIDE DEF n
<1>8. conn[c].wbuf \o SubSeq(pipe[d], 1, n) = conn[c].wbuf
  <2> DEFINE b == conn[c].wbuf
  <2>1. b \in Seq(Piece)
    BY <1>1
  <2> HIDE DEF b
  <2>2. b \o <<>> = b
    BY <2>1, ConcatEmptySeq
  <2>3. QED
    BY <1>7, <2>2 DEF b
<1>9. Flows(Work, w, c, conn[c].wbuf \o SubSeq(pipe[d], 1, n))
  <2>1. Flows(Work, w, c, conn[c].wbuf)
    BY <1>3, <1>5, WorkFields DEF Flows, Others
  <2>2. QED
    BY <1>8, <2>1
<1>10. pipe' = [pipe EXCEPT ![d] = SubSeq(@, n + 1, Len(@))]
  <2>1. pipe = [pipe EXCEPT ![d] = pipe[d]]
    BY <1>6
  <2>2. QED
    BY <1>7, <2>1
<1>11. Become(w)
  BY DEF w
<1>12. client' = client /\ got' = got /\ n \in 0..Len(pipe[d])
  BY <1>7
<1>13. QED
  BY <1>2, <1>9, <1>10, <1>11, <1>12, Relayed

LEMMA UnreadPieces ==
    ASSUME ProxyInv, NEW c \in Conns, conn[c].state = "relay"
    PROVE  pipe[c] \in Seq(Piece)
<1> DEFINE p == pipe[c]
           k == client[c].sent - Len(p)
<1>1. p \in Seq(Handshake \cup Piece) /\ client[c] \in ClientRec
  BY TypeParts DEF ProxyInv
<1>2. Talk(c, conn[c], sock[c], p, client[c], got[c])
  BY DEF ProxyInv, TalkInv
<1> HIDE DEF p
<1>3. /\ Len(p) <= client[c].sent /\ client[c].sent \in Nat /\ Len(p) \in Nat /\ DOMAIN p = 1..Len(p)
      /\ \A i \in DOMAIN p : p[i] = <<"data", c, client[c].sent - Len(p) + i>>
  BY <1>1, <1>2, LenProperties DEF Talk, Late, ClientRec
<1>4. ASSUME NEW i \in 1..Len(p) PROVE p[i] \in Piece
  <2>1. client[c].sent - Len(p) + i \in Nat
    BY <1>3
  <2>2. QED
    BY <1>3, <2>1, IsPiece
<1>5. p \in Seq(Piece)
  <2>1. p \in Seq(Handshake \cup Piece)
    BY <1>1
  <2>2. QED
    BY <1>4, <2>1
<1>6. QED
  BY <1>5 DEF p

(* action_READ in the relay *)
LEMMA ReadRelay ==
    ASSUME ProxyInv, NEW c \in Conns, ReadData(c), conn[c].state = "relay"
    PROVE  ProxyInv' /\ Stays
<1>1. PICK n \in 1..Len(pipe[c]) :
         /\ Become(RelayRead(Work, c, SubSeq(pipe[c], 1, n)))
         /\ pipe' = [pipe EXCEPT ![c] = IF Paused(Work, c) THEN @ ELSE SubSeq(@, n + 1, Len(@))]
  BY DEF ReadData
<1>2. UNCHANGED <<client, got>>
  BY DEF ReadData
<1>4. Sound(Work) /\ TypeInv
  BY DEF ProxyInv
<1>5. PICK d \in Conns \ {c} : conn[d].bs = conn[c].bs
  BY <1>4, RelayPair
<1>6. Peer(Work, c) = {d} /\ conn[d].state = "relay"
  <2>1. conn[c].bs # None /\ conn[d].state = "relay"
    BY <1>4, <1>5, RelayPair, Proxy65Assumption
  <2>2. d \in Peer(Work, c) /\ \A e, f \in Peer(Work, c) : e = f
    BY <1>4, <1>5, <2>1, PeerIs, WorkFields
  <2>3. QED
    BY <2>1, <2>2
<1>7. CASE Paused(Work, c)
  <2>1. Become([Work EXCEPT !.conn[c].rd = FALSE])
    BY <1>1, <1>7 DEF RelayRead
  <2>2. pipe' = pipe
    BY <1>1, <1>4, <1>7 DEF TypeInv
  <2>3. Stays
    <3>1. conn \in [Conns -> ConnRec]
      BY <1>4, ProxyTypes
    <3>2. conn' = [conn EXCEPT ![c].rd = FALSE] /\ sock' = sock
      BY <2>1 DEF Become, Work
    <3>3. \A x \in Conns : conn'[x].state = conn[x].state
      BY <3>1, <3>2 DEF ConnRec
    <3>4. QED
      BY <3>2, <3>3 DEF Stays
  <2>4. QED
    BY <1>2, <1>7, <2>1, <2>2, <2>3, Idles
<1>8. CASE ~Paused(Work, c)
  <2> DEFINE p == pipe[c]
             toks == SubSeq(p, 1, n)
             w == RelayWrite(Work, d, toks)
  <2>0. p \in Seq(Piece)
    BY UnreadPieces
  <2>1. toks \in Seq(Piece) /\ toks # <<>>
    <3>0. n \in 0..Len(p) /\ n \in 1..Len(p)
      BY <1>1
    <3> HIDE DEF p
    <3>1. toks \in Seq(Piece) /\ Len(toks) = n
      BY <2>0, <3>0, Cut
    <3>2. Len(toks) # 0
      BY <3>0, <3>1
    <3>3. QED
      BY <3>1, <3>2, EmptySeq
  <2>2. w = RelayRead(Work, c, toks)
    <3>1. (CHOOSE e \in Peer(Work, c) : TRUE) = d
      BY <1>6
    <3> HIDE DEF toks
    <3>2. QED
      BY <1>6, <1>8, <2>1, <3>1 DEF RelayRead
  <2>3. Flows(Work, w, d, conn[d].wbuf \o toks)
    <3> HIDE DEF toks
    <3>1. QED
      BY <1>4, <1>6, <2>1, RelayWriteParts, WorkFields
  <2>4. Become(w)
    BY <1>1, <2>2
  <2>5. pipe' = [pipe EXCEPT ![c] = SubSeq(@, n + 1, Len(@))]
    BY <1>1, <1>8
  <2>6. n \in 0..Len(pipe[c]) /\ c \in Conns \ {d} /\ client' = client /\ got' = got /\ conn[c].bs = conn[d].bs
    BY <1>1, <1>2, <1>5
  <2> HIDE DEF w
  <2>7. Stays
    BY <1>6, <2>3, <2>4, WorkFields DEF Flows, Become, Stays
  <2>8. QED
    BY <1>6, <2>3, <2>4, <2>5, <2>6, <2>7, Relayed
<1>9. QED
  BY <1>7, <1>8

(* The greeting and the request come in any number of pieces.              *)
Opening(p, n, b, x) ==
    /\ p \in Seq(Handshake) /\ n \in 0..Len(p) /\ b \in Seq(Handshake)
    /\ (\A i \in DOMAIN p : p[i][2] = x) /\ \A i \in DOMAIN b : b[i][2] = x

LEMMA EarlyRead ==
    ASSUME NEW p, NEW n, NEW b, NEW x, Opening(p, n, b, x)
    PROVE  LET toks == SubSeq(p, 1, n)
               rest == SubSeq(p, n + 1, Len(p))
           IN  /\ rest \in Seq(Handshake) /\ b \o toks \in Seq(Handshake) /\ toks \in Seq(Handshake)
               /\ Len(b \o toks) + Len(rest) = Len(b) + Len(p)
               /\ \A i \in DOMAIN rest : rest[i][2] = x
               /\ \A i \in DOMAIN (b \o toks) : (b \o toks)[i][2] = x
<1> DEFINE toks == SubSeq(p, 1, n)
           rest == SubSeq(p, n + 1, Len(p))
<1>0. /\ p \in Seq(Handshake) /\ n \in 0..Len(p) /\ b \in Seq(Handshake)
      /\ (\A i \in DOMAIN p : p[i][2] = x) /\ \A i \in DOMAIN b : b[i][2] = x
  BY DEF Opening
<1>1. /\ toks \in Seq(Handshake) /\ rest \in Seq(Handshake) /\ Len(toks) = n /\ Len(rest) = Len(p) - n
      /\ (\A i \in 1..n : toks[i] = p[i]) /\ \A i \in 1..(Len(p) - n) : rest[i] = p[n + i]
  BY <1>0, Cut
<1> HIDE DEF toks, rest
<1>2. /\ DOMAIN p = 1..Len(p) /\ DOMAIN rest = 1..Len(rest) /\ DOMAIN toks = 1..Len(toks) /\ DOMAIN b = 1..Len(b)
      /\ Len(p) \in Nat /\ Len(b) \in Nat /\ n \in Nat
  BY <1>0, <1>1, LenProperties
<1>3. ASSUME NEW i \in DOMAIN rest PROVE rest[i][2] = x
  <2>1. i \in 1..(Len(p) - n) /\ n + i \in DOMAIN p
    BY <1>1, <1>2
  <2>2. QED
    BY <1>0, <1>1, <2>1
<1>4. ASSUME NEW i \in DOMAIN toks PROVE toks[i][2] = x
  <2>1. i \in 1..n /\ i \in DOMAIN p
    BY <1>1, <1>2
  <2>2. QED
    BY <1>0, <1>1, <2>1
<1>5. /\ b \o toks \in Seq(Handshake) /\ Len(b \o toks) = Len(b) + n
      /\ \A i \in 1..(Len(b) + n) : (b \o toks)[i] = IF i <= Len(b) THEN b[i] ELSE toks[i - Len(b)]
  BY <1>0, <1>1, ConcatProperties
<1> DEFINE y == b \o toks
<1> HIDE DEF y
<1>6. y \in Seq(Handshake) /\ Len(y) = Len(b) + n /\ DOMAIN y = 1..(Len(b) + n)
  BY <1>5, LenProperties DEF y
<1>7. ASSUME NEW i \in DOMAIN y PROVE y[i][2] = x
  <2>1. CASE i <= Len(b)
    <3>1. i \in DOMAIN b /\ y[i] = b[i]
      BY <1>2, <1>5, <1>6, <2>1 DEF y
    <3>2. QED
      BY <1>0, <3>1
  <2>2. CASE ~(i <= Len(b))
    <3>1. i - Len(b) \in DOMAIN toks /\ y[i] = toks[i - Len(b)]
      BY <1>1, <1>2, <1>5, <1>6, <2>2 DEF y
    <3>2. QED
      BY <1>4, <3>1
  <2>3. QED
    BY <2>1, <2>2
<1>8. Len(y) + Len(rest) = Len(b) + Len(p)
  BY <1>1, <1>2, <1>6
<1>9. QED
  BY <1>1, <1>3, <1>6, <1>7, <1>8 DEF y, toks, rest

LEMMA ReadHandshake ==
    ASSUME ProxyInv, NEW c \in Conns, ReadData(c), conn[c].state # "relay"
    PROVE  ProxyInv' /\ Stays
<1>1. PICK n \in 1..Len(pipe[c]) :
         /\ Become(Processed(Process([Work EXCEPT !.conn[c].rbuf = @ \o SubSeq(pipe[c], 1, n)], c), c))
         /\ pipe' = [pipe EXCEPT ![c] = SubSeq(@, n + 1, Len(@))]
  BY DEF ReadData
<1>2. UNCHANGED <<client, got>> /\ conn[c].rd
  BY DEF ReadData, Readable
<1>4. Sound(Work) /\ TypeInv /\ Typed
  BY ProxyTyped DEF ProxyInv
<1> DEFINE p == pipe[c]
           toks == SubSeq(p, 1, n)
           rest == SubSeq(p, n + 1, Len(p))
           k == client[c]
           g == got[c]
           b == conn[c].rbuf
           b2 == b \o toks
           r == [conn[c] EXCEPT !.rbuf = b2]
           w == [Work EXCEPT !.conn[c].rbuf = @ \o toks]
           v == Processed(Process(w, c), c)
<1>5. Watch(conn[c]) /\ Talk(c, conn[c], sock[c], p, k, g)
  BY DEF ProxyInv, TalkInv
<1>6. conn[c].state \in {"greeting", "request"}
  BY <1>2, <1>5 DEF Watch
<1>7. k \in ClientRec /\ g \in Seq(Answer \cup Piece) /\ conn[c] \in ConnRec /\ b \in Seq(Handshake)
  BY <1>4, TypeParts, ConnParts DEF Typed
<1>8. Early(conn[c], sock[c], p, k, g)
  BY <1>5, <1>6 DEF Talk
<1>9. Become(v)
  BY <1>1
<1>10. n \in 0..Len(p) /\ p \in Seq(Handshake)
  BY <1>1, <1>8 DEF Early
<1> HIDE DEF p, k, g, b
<1>11. /\ rest \in Seq(Handshake) /\ b2 \in Seq(Handshake) /\ Len(b2) + Len(rest) = Len(b) + Len(p)
       /\ (\A i \in DOMAIN rest : rest[i][2] = k.h) /\ \A i \in DOMAIN b2 : b2[i][2] = k.h
  <2>1. (\A i \in DOMAIN p : p[i][2] = k.h) /\ \A i \in DOMAIN b : b[i][2] = k.h
    BY <1>8 DEF Early, b
  <2>2. QED
    <3>1. Opening(p, n, b, k.h)
      BY <1>7, <1>10, <2>1 DEF Opening
    <3>2. QED
      BY <3>1, EarlyRead
<1>12. w = [Work EXCEPT !.conn[c] = r]
  BY DEF Work, b
<1> HIDE DEF rest, b2, w
<1>13. /\ r \in ConnRec /\ r.bs = conn[c].bs /\ r.wbuf = conn[c].wbuf /\ r.state = conn[c].state
       /\ r.rbuf = b2 /\ r.rd = conn[c].rd
  BY <1>7, <1>11 DEF ConnRec
<1> HIDE DEF r
<1>14. Sound(w) /\ Others(Work, w, c) /\ w.ret = 0 /\ w.conn[c] = r /\ w.sock = sock
  BY <1>4, <1>12, <1>13, ConnOnly, WorkFields
<1>15. Talk(c, r, sock[c], rest, k, g)
  <2>1. Early(r, sock[c], rest, k, g)
    BY <1>8, <1>11, <1>13 DEF Early
  <2>2. /\ conn[c].state = "greeting" => k.step = Len(b) + Len(p) /\ Len(g) + Len(sock[c]) = 0
        /\ conn[c].state = "request" => k.step = 1 + Len(b) + Len(p) /\ Len(g) + Len(sock[c]) = 1
    BY <1>5 DEF Talk, b
  <2>3. Len(b) \in Nat /\ Len(p) \in Nat /\ Len(b2) \in Nat /\ Len(rest) \in Nat
    BY <1>7, <1>10, <1>11, LenProperties
  <2>4. 1 + Len(b) + Len(p) = 1 + Len(b2) + Len(rest)
    <3>1. Len(b2) + Len(rest) = Len(b) + Len(p)
      BY <1>11
    <3>2. QED
      BY <2>3, <3>1
  <2>5. QED
    BY <1>6, <1>11, <1>13, <2>1, <2>2, <2>4 DEF Talk
<1>16. /\ Sound(v) /\ (\A d \in Conns \ {c} : v.conn[d] \in {w.conn[d], Gone} /\ v.sock[d] = w.sock[d])
       /\ \/ v.conn[c].state = "closed" /\ ~v.conn[c].rd /\ Len(g) + Len(v.sock[c]) <= 2
          \/ /\ v.conn[c].state \in {"greeting", "request", "connected"} /\ Watch(v.conn[c])
             /\ Talk(c, v.conn[c], v.sock[c], rest, k, g)
  BY <1>6, <1>7, <1>13, <1>14, <1>15, HandshakeParts
<1> HIDE DEF v
<1>17. Sound(Work)'
  BY <1>9, <1>16, Landed
<1>18. pipe'[c] = rest /\ (\A d \in Conns \ {c} : pipe'[d] = pipe[d])
  BY <1>1, <1>4 DEF TypeInv, rest, p
<1>19. TypeInv'
  <2>1. rest \in Seq(Handshake \cup Piece)
    <3>1. Seq(Handshake) \subseteq Seq(Handshake \cup Piece)
      BY SeqMonotonic
    <3>2. QED
      BY <1>11, <3>1
  <2>2. pipe' \in [Conns -> Seq(Handshake \cup Piece)]
    BY <1>1, <1>4, <1>18, <2>1 DEF TypeInv, rest, p
  <2>3. QED
    BY <1>2, <1>4, <2>2 DEF TypeInv
<1>20. ASSUME NEW d \in Conns
       PROVE  \/ conn'[d] = conn[d] /\ sock'[d] = sock[d] /\ pipe'[d] = pipe[d]
              \/ /\ conn'[d].state = "closed" /\ ~conn'[d].rd
                 /\ sock'[d] = sock[d] \/ Len(got[d]) + Len(sock'[d]) <= 2
              \/ /\ conn'[d].state \in {"none", "greeting", "request", "connected"} /\ Watch(conn'[d])
                 /\ Talk(d, conn'[d], sock'[d], pipe'[d], client[d], got[d])
  <2>1. conn' = v.conn /\ sock' = v.sock
    BY <1>9 DEF Become
  <2>2. CASE d = c
    BY <1>16, <1>18, <2>1, <2>2 DEF k, g
  <2>3. CASE d # c
    <3>1. w.conn[d] = conn[d] /\ w.sock[d] = sock[d]
      BY <1>14, <2>3, WorkFields DEF Others
    <3>2. v.conn[d] \in {conn[d], Gone} /\ v.sock[d] = sock[d]
      BY <1>16, <2>3, <3>1
    <3>3. QED
      BY <1>18, <2>1, <2>3, <3>2, GoneType
  <2>4. QED
    BY <2>2, <2>3
<1>21. Stays
  <2> SUFFICES ASSUME NEW d \in Conns, conn[d].state = "closed"
               PROVE  conn'[d].state = "closed" /\ sock'[d] = sock[d]
    BY DEF Stays
  <2>1. d # c
    BY <1>6
  <2>2. w.conn[d] = conn[d] /\ w.sock[d] = sock[d]
    BY <1>14, <2>1, WorkFields DEF Others
  <2>3. v.conn[d] \in {conn[d], Gone} /\ v.sock[d] = sock[d]
    BY <1>16, <2>1, <2>2
  <2>4. QED
    BY <1>9, <2>3, GoneType DEF Become
<1>22. QED
  BY <1>2, <1>17, <1>19, <1>20, <1>21, Settled

(* recv returns 0 *)
LEMMA ReadEndStep ==
    ASSUME ProxyInv, NEW c \in Conns, ReadEnd(c)
    PROVE  ProxyInv'
<1> DEFINE w == IF conn[c].state = "relay" THEN RelayRead(Work, c, <<>>) ELSE Close(Work, c)
<1>1. /\ Become(w) /\ UNCHANGED <<pipe, client, got>> /\ conn[c].rd
  BY DEF ReadEnd, Readable
<1>2. Sound(Work) /\ conn[c].state \in {"greeting", "request", "relay"} /\ conn \in [Conns -> ConnRec]
  BY <1>1, ProxyTypes DEF ProxyInv, TalkInv, Watch
<1>3. /\ Sound(Close(Work, c)) /\ Close(Work, c).sock = sock
      /\ \A d \in Conns : Close(Work, c).conn[d] \in {conn[d], Gone}
  BY <1>2, CloseParts, WorkFields
<1>4. CASE conn[c].state # "relay" \/ ~(Peer(Work, c) = {} \/ Paused(Work, c))
  <2>1. w = Close(Work, c)
    BY <1>4 DEF RelayRead
  <2> HIDE DEF w
  <2>2. QED
    BY <1>1, <1>3, <2>1, Closes
<1>5. CASE conn[c].state = "relay" /\ (Peer(Work, c) = {} \/ Paused(Work, c))
  <2>1. w = [Work EXCEPT !.conn[c].rd = FALSE]
    BY <1>5 DEF RelayRead
  <2> HIDE DEF w
  <2>2. QED
    BY <1>1, <1>5, <2>1, Idles
<1>6. QED
  BY <1>4, <1>5

(* A client that is accepted has not said anything.                        *)
LEMMA AcceptStep ==
    ASSUME ProxyInv, NEW c \in Conns, Accept(c)
    PROVE  ProxyInv'
<1> DEFINE r == [NoConn EXCEPT !.state = "greeting", !.rd = TRUE]
           w == [Work EXCEPT !.conn[c] = r]
<1>1. /\ conn' = [conn EXCEPT ![c] = r] /\ UNCHANGED <<stream, sock, pipe, client, got>>
      /\ conn[c].state = "none"
  BY DEF Accept
<1>2. /\ r \in ConnRec /\ r.state = "greeting" /\ r.bs = None /\ r.wbuf = <<>> /\ r.rbuf = <<>>
  BY GoneType DEF NoConn, ConnRec, Phases
<1>3. Sound(Work) /\ conn \in [Conns -> ConnRec]
  BY ProxyTypes DEF ProxyInv
<1>4. conn[c].bs = None /\ conn[c].wbuf = <<>>
  <2>1. Work.conn[c].state \in {"none", "greeting", "request", "closed"}
    BY <1>1, WorkFields
  <2>2. QED
    BY <1>1, <1>3, <2>1, Unpaired, WorkFields DEF Sound
<1> HIDE DEF r
<1>5. Become(w)
  BY <1>1 DEF Become, Work
<1> HIDE DEF w
<1>6. Sound(w)
  BY <1>1, <1>2, <1>3, <1>4, ConnOnly, WorkFields DEF w
<1>7. Sound(Work)' /\ TypeInv'
  BY <1>1, <1>5, <1>6, Landed DEF ProxyInv, TypeInv
<1>8. Talk(c, r, sock[c], pipe[c], client[c], got[c])
  <2>1. Talk(c, conn[c], sock[c], pipe[c], client[c], got[c])
    BY DEF ProxyInv, TalkInv
  <2>2. /\ client[c].step = 0 /\ pipe[c] = <<>> /\ Len(got[c]) + Len(sock[c]) = 0
        /\ Early(conn[c], sock[c], pipe[c], client[c], got[c])
    BY <1>1, <2>1 DEF Talk
  <2>3. Early(r, sock[c], pipe[c], client[c], got[c])
    BY <1>2, <2>2 DEF Early
  <2>4. Len(r.rbuf) + Len(pipe[c]) = 0
    BY <1>2, <2>2
  <2>5. QED
    BY <1>2, <2>2, <2>3, <2>4 DEF Talk
<1>9. Watch(r)
  BY <1>2 DEF Watch
<1>10. conn'[c] = r /\ \A d \in Conns \ {c} : conn'[d] = conn[d]
  BY <1>1, <1>3
<1>11. QED
  BY <1>1, <1>2, <1>7, <1>8, <1>9, <1>10, Settled

(* Time goes by.                                                           *)
LEMMA AgeStep ==
    ASSUME ProxyInv, NEW h \in Hashes, Age(h)
    PROVE  ProxyInv'
<1>1. stream' = [stream EXCEPT ![h].old = TRUE] /\ UNCHANGED <<conn, sock, pipe, client, got>>
  BY DEF Age
<1>2. Sound(Work) /\ stream \in [Hashes -> StreamRec]
  BY ProxyTypes DEF ProxyInv
<1>3. /\ stream' \in [Hashes -> StreamRec]
      /\ \A g \in Hashes : /\ stream'[g].peers = stream[g].peers /\ stream'[g].on = stream[g].on
                           /\ stream'[g].activated = stream[g].activated
  BY <1>1, <1>2 DEF StreamRec
<1> DEFINE v == [conn |-> conn, stream |-> stream', sock |-> sock, ret |-> 0]
<1>4. v = Work'
  BY <1>1 DEF Work
<1>5. v \in WorkRec /\ v.conn = conn /\ v.stream = stream'
  BY <1>2, <1>3, WorkParts, WorkFields DEF Sound, WorkRec
<1> HIDE DEF v
<1>6. ASSUME NEW g \in Hashes PROVE PairedIn(v, g)
  <2>1. PairedIn(Work, g)
    BY <1>2 DEF Sound
  <2>2. QED
    BY <1>3, <1>5, <2>1, WorkFields DEF PairedIn
<1>7. Sound(v)
  BY <1>2, <1>5, <1>6, WorkFields DEF Sound
<1>8. Sound(Work)'
  BY <1>4, <1>7 DEF Sound, PairedIn
<1>9. TypeInv'
  BY <1>1 DEF ProxyInv, TypeInv
<1>10. QED
  BY <1>1, <1>8, <1>9, Settled

LEMMA WorkSame ==
    ASSUME Sound(Work), UNCHANGED <<conn, stream, sock>>
    PROVE  Sound(Work)'
<1>1. Work' = Work
  BY DEF Work
<1>2. QED
  BY <1>1 DEF Sound, PairedIn

(* proxy65_socks_activate: the two connections relay from now on.          *)
LEMMA ActivateParts ==
    ASSUME NEW w, Sound(w), NEW h \in Hashes, Len(w.stream[h].peers) >= 2
    PROVE  LET v == SocksActivate(w, h)
           IN  /\ Sound(v) /\ v.sock = w.sock
               /\ \A c \in Conns :
                     /\ v.conn[c].bs = w.conn[c].bs /\ v.conn[c].wbuf = w.conn[c].wbuf
                     /\ v.conn[c].rbuf = w.conn[c].rbuf
                     /\ IF w.conn[c].bs = h THEN v.conn[c].state = "relay" ELSE v.conn[c] = w.conn[c]
<1> DEFINE v == SocksActivate(w, h)
           t == [w.stream[h] EXCEPT !.activated = TRUE]
           st == [w.stream EXCEPT ![h] = t]
           cn == [c \in Conns |-> IF c \in ToSet(w.stream[h].peers)
                                  THEN [w.conn[c] EXCEPT !.state = "relay", !.rd = TRUE] ELSE w.conn[c]]
<1>1. /\ w.conn \in [Conns -> ConnRec] /\ w.stream \in [Hashes -> StreamRec] /\ w \in WorkRec
      /\ PairedIn(w, h) /\ w.stream[h] \in StreamRec /\ None \notin Hashes
  BY WorkParts, Proxy65Assumption DEF Sound
<1>2. \A c \in Conns : c \in ToSet(w.stream[h].peers) <=> w.conn[c].bs = h
  BY <1>1 DEF PairedIn, ToSet
<1>3. t \in StreamRec /\ t.peers = w.stream[h].peers /\ t.on = w.stream[h].on /\ t.activated = TRUE
  BY <1>1 DEF StreamRec
<1>4. v = [w EXCEPT !.stream = st, !.conn = cn]
  BY <1>1 DEF SocksActivate
<1>5. ASSUME NEW c \in Conns
      PROVE  /\ cn[c] \in ConnRec
             /\ cn[c].bs = w.conn[c].bs /\ cn[c].wbuf = w.conn[c].wbuf /\ cn[c].rbuf = w.conn[c].rbuf
             /\ IF w.conn[c].bs = h THEN cn[c].state = "relay" ELSE cn[c] = w.conn[c]
  <2>1. w.conn[c] \in ConnRec
    BY <1>1
  <2>2. CASE w.conn[c].bs = h
    <3>1. cn[c] = [w.conn[c] EXCEPT !.state = "relay", !.rd = TRUE]
      BY <1>2, <2>2
    <3>2. QED
      BY <2>1, <2>2, <3>1 DEF ConnRec, Phases
  <2>3. CASE w.conn[c].bs # h
    BY <1>2, <2>1, <2>3
  <2>4. QED
    BY <2>2, <2>3
<1> HIDE DEF t, cn, v
<1>6. cn \in [Conns -> ConnRec]
  BY <1>5 DEF cn
<1>7. st \in [Hashes -> StreamRec] /\ st[h] = t /\ \A g \in Hashes \ {h} : st[g] = w.stream[g]
  BY <1>1, <1>3
<1> HIDE DEF st
<1>8. v \in WorkRec /\ v.conn = cn /\ v.stream = st /\ v.sock = w.sock
  BY <1>1, <1>4, <1>6, <1>7 DEF WorkRec
<1>9. PairedIn(v, h)
  <2>1. \A i \in DOMAIN w.stream[h].peers : w.stream[h].peers[i] \in Conns
    BY <1>1 DEF StreamRec
  <2>2. Len(w.stream[h].peers) = 2
    <3> DEFINE n == Len(w.stream[h].peers)
    <3>1. n \in Nat /\ n <= 2 /\ n >= 2
      <4>1. w.stream[h].peers \in Seq(Conns)
        BY <1>1 DEF StreamRec
      <4>2. QED
        BY <1>1, <4>1, LenProperties DEF PairedIn
    <3> HIDE DEF n
    <3>2. n = 2
      BY <3>1
    <3>3. QED
      BY <3>2 DEF n
  <2>3. v.stream[h] = t
    BY <1>7, <1>8
  <2>4. v.stream[h].peers = w.stream[h].peers /\ (v.stream[h].on <=> w.stream[h].on) /\ v.stream[h].activated
    BY <1>3, <2>3
  <2>5. \A c \in Conns : v.conn[c].bs = w.conn[c].bs /\ (w.conn[c].bs = h => v.conn[c].state = "relay")
    BY <1>5, <1>8
  <2> DEFINE q == w.stream[h].peers
  <2> HIDE DEF q
  <2>6. /\ \A i \in DOMAIN q : w.conn[q[i]].bs = h
        /\ \A c \in Conns : w.conn[c].bs = h => \E i \in DOMAIN q : q[i] = c
        /\ \A i, j \in DOMAIN q : q[i] = q[j] => i = j
        /\ w.stream[h].on <=> q # <<>>
    BY <1>1 DEF PairedIn, q
  <2>7. v.stream[h].peers = q /\ (v.stream[h].on <=> q # <<>>) /\ Len(q) = 2
    BY <2>2, <2>4, <2>6 DEF q
  <2>8. \A i \in DOMAIN q : v.conn[q[i]].bs = h
    BY <2>1, <2>5, <2>6 DEF q
  <2>9. \A c \in Conns : v.conn[c].bs = h =>
           v.conn[c].state = "relay" /\ \E i \in DOMAIN q : q[i] = c
    BY <2>5, <2>6
  <2>10. QED
    BY <2>4, <2>6, <2>7, <2>8, <2>9 DEF PairedIn
<1>10. ASSUME NEW g \in Hashes \ {h} PROVE PairedIn(v, g)
  <2>1. PairedIn(w, g) /\ v.stream[g] = w.stream[g] /\ w.stream[g] \in StreamRec
    BY <1>1, <1>7, <1>8 DEF Sound
  <2>2. \A c \in Conns : v.conn[c].bs = w.conn[c].bs /\ (w.conn[c].bs = g => v.conn[c] = w.conn[c])
    BY <1>5, <1>8
  <2>3. \A i \in DOMAIN w.stream[g].peers : w.stream[g].peers[i] \in Conns
    BY <2>1 DEF StreamRec
  <2>4. QED
    BY <2>1, <2>2, <2>3 DEF PairedIn
<1>11. \A c \in Conns : /\ v.conn[c].bs = None => v.conn[c].state \notin {"connected", "relay"}
                        /\ v.conn[c].wbuf # <<>> => v.conn[c].state = "relay"
  BY <1>1, <1>5, <1>8 DEF Sound
<1>12. Sound(v)
  BY <1>8, <1>9, <1>10, <1>11 DEF Sound
<1>13. QED
  BY <1>5, <1>8, <1>12 DEF v

LEMMA ActivateStep ==
    ASSUME ProxyInv, NEW h \in Hashes, Activate(h)
    PROVE  ProxyInv'
<1> DEFINE w == SocksActivate(Work, h)
<1>1. /\ Become(w) /\ UNCHANGED <<pipe, client, got>> /\ Len(stream[h].peers) >= 2
  BY DEF Activate, Complete
<1>2. Sound(Work) /\ TalkInv /\ RelayInv /\ AllTold /\ TypeInv /\ None \notin Hashes
  BY Proxy65Assumption DEF ProxyInv
<1>3. /\ Sound(w) /\ sock' = sock
      /\ \A c \in Conns :
            /\ conn'[c].bs = conn[c].bs /\ conn'[c].wbuf = conn[c].wbuf /\ conn'[c].rbuf = conn[c].rbuf
            /\ IF conn[c].bs = h THEN conn'[c].state = "relay" ELSE conn'[c] = conn[c]
  BY <1>1, <1>2, ActivateParts, WorkFields DEF Become
<1> HIDE DEF w
<1>4. Sound(Work)' /\ TypeInv'
  BY <1>1, <1>2, <1>3, Landed DEF TypeInv, ProxyInv
<1>5. ASSUME NEW c \in Conns, conn[c].bs = h
      PROVE  /\ conn[c].state \in {"connected", "relay"} /\ Late(c, conn[c], pipe[c], client[c])
             /\ conn[c].state = "connected" =>
                   Len(pipe[c]) = client[c].sent /\ Len(got[c]) + Len(sock[c]) = 2 /\ conn[c].wbuf = <<>>
  <2>1. PairedIn(Work, h)
    BY <1>2 DEF Sound
  <2>2. conn[c].state \in {"connected", "relay"}
    BY <1>5, <2>1, WorkFields DEF PairedIn
  <2>3. Talk(c, conn[c], sock[c], pipe[c], client[c], got[c])
    BY <1>2 DEF TalkInv
  <2>4. conn[c].state = "connected" => conn[c].wbuf = <<>>
    BY <1>2, WorkFields DEF Sound
  <2>5. QED
    BY <2>2, <2>3, <2>4 DEF Talk
<1>6. TalkInv'
  <2> SUFFICES ASSUME NEW c \in Conns
               PROVE  Watch(conn'[c]) /\ Talk(c, conn'[c], sock[c], pipe[c], client[c], got[c])
    BY <1>1, <1>3 DEF TalkInv
  <2>1. CASE conn[c].bs = h
    <3>1. conn'[c].state = "relay" /\ Late(c, conn'[c], pipe[c], client[c])
      BY <1>3, <1>5, <2>1 DEF Late
    <3>2. QED
      BY <3>1 DEF Talk, Watch
  <2>2. CASE conn[c].bs # h
    BY <1>2, <1>3, <2>2 DEF TalkInv
  <2>3. QED
    BY <2>1, <2>2
<1>7. RelayInv'
  <2> SUFFICES ASSUME NEW c \in Conns, NEW d \in Conns, c # d, conn'[c].state = "relay", conn'[c].bs = conn'[d].bs
               PROVE  Chain(c, d)'
    BY DEF RelayInv
  <2>1. Came(c)' = Came(c) /\ client'[d] = client[d] /\ pipe'[d] = pipe[d]
    BY <1>1, <1>3 DEF Came
  <2>2. CASE conn[c].state = "relay"
    <3>1. Chain(c, d)
      BY <1>2, <1>3, <2>2 DEF RelayInv
    <3>2. QED
      BY <2>1, <3>1 DEF Chain
  <2>3. CASE conn[c].state # "relay"
    <3>1. conn[c].bs = h /\ conn[d].bs = h
      BY <1>3, <2>3
    <3>2. conn[c].state = "connected" /\ conn[d].state = "connected"
      <4>1. PairedIn(Work, h)
        BY <1>2 DEF Sound
      <4>2. QED
        BY <2>3, <3>1, <4>1, WorkFields DEF PairedIn
    <3>3. Len(pipe[d]) = client[d].sent /\ Len(got[c]) + Len(sock[c]) = 2 /\ conn[c].wbuf = <<>>
      BY <1>5, <3>1, <3>2
    <3> DEFINE g == got[c]
               s == sock[c]
               x == g \o s
    <3>4. g \in Seq(Token) /\ s \in Seq(Token) /\ client[d].sent \in Nat
      BY <1>2, ProxyTypes DEF TypeInv, Token, ClientRec
    <3> HIDE DEF g, s
    <3>5. x \in Seq(Token) /\ Len(x) = 2
      <4>1. Len(x) = Len(g) + Len(s) /\ x \in Seq(Token)
        BY <3>4, ConcatProperties
      <4>2. Len(g) + Len(s) = 2
        BY <3>3 DEF g, s
      <4>3. QED
        BY <4>1, <4>2
    <3> HIDE DEF x
    <3>6. x \o <<>> = x
      BY <3>5, ConcatEmptySeq
    <3>7. Came(c) = x
      BY <3>3, <3>6 DEF Came, x, g, s
    <3>8. 2 + client[d].sent - Len(pipe[d]) = 2
      BY <3>3, <3>4
    <3>9. 3..2 = {}
      OBVIOUS
    <3>10. QED
      BY <2>1, <3>5, <3>7, <3>8, <3>9 DEF Chain
  <2>4. QED
    BY <2>2, <2>3
<1>8. AllTold'
  <2> SUFFICES ASSUME NEW c \in Conns, conn'[c].state = "closed" PROVE Told(c)'
    BY DEF AllTold
  <2>1. conn[c].state = "closed"
    BY <1>3
  <2>2. Told(c)
    BY <1>2, <2>1 DEF AllTold
  <2>3. QED
    BY <1>1, <1>3, <2>2 DEF Told
<1>9. QED
  BY <1>4, <1>6, <1>7, <1>8 DEF ProxyInv

(* A client goes on with its handshake.                                    *)
LEMMA SpeakStep ==
    ASSUME ProxyInv, NEW c \in Conns, NEW h \in Hashes, Speak(c, h)
    PROVE  ProxyInv'
<1>1. Sound(Work) /\ TypeInv /\ TalkInv /\ RelayInv /\ AllTold /\ None \notin Hashes /\ Typed
  BY Proxy65Assumption, ProxyTyped DEF ProxyInv
<1>2. PICK tok \in {<<"half", h>>, <<"bad", h>>} : pipe' = [pipe EXCEPT ![c] = Append(@, tok)]
  BY DEF Speak
<1>3. /\ client' = [client EXCEPT ![c].step = @ + 1, ![c].h = h] /\ UNCHANGED <<conn, stream, sock, got>>
      /\ Live(c) /\ client[c].step < 3 /\ client[c].h \in {h, None}
  BY DEF Speak
<1>4. Sound(Work)'
  BY <1>1, <1>3, WorkSame DEF ProxyInv
<1> DEFINE k == client[c]
           p == pipe[c]
           k2 == client'[c]
           p2 == Append(p, tok)
<1>5. p \in Seq(Handshake \cup Piece) /\ k \in ClientRec /\ tok \in Handshake /\ tok[2] = h
  BY <1>1, TypeParts DEF Handshake
<1>6. /\ k2 \in ClientRec /\ k2.step = k.step + 1 /\ k2.h = h /\ k2.told = k.told /\ k2.sent = k.sent
      /\ \A d \in Conns \ {c} : client'[d] = client[d]
  <2>1. k.step + 1 \in 0..3
    <3>1. k.step \in 0..3 /\ k.step < 3
      BY <1>3, <1>5 DEF ClientRec
    <3> HIDE DEF k
    <3>2. QED
      BY <3>1
  <2>2. k2 = [k EXCEPT !.step = @ + 1, !.h = h]
    BY <1>1, <1>3 DEF TypeInv
  <2>3. \A d \in Conns \ {c} : client'[d] = client[d]
    BY <1>1, <1>3 DEF TypeInv
  <2> HIDE DEF k2, k
  <2>4. QED
    BY <1>5, <2>1, <2>2, <2>3 DEF ClientRec
<1>7. pipe'[c] = p2 /\ \A d \in Conns \ {c} : pipe'[d] = pipe[d]
  BY <1>1, <1>2 DEF TypeInv
<1>8. Talk(c, conn[c], sock[c], p, k, got[c]) /\ Watch(conn[c]) /\ conn[c].state \in Phases
  BY <1>1, ProxyTypes DEF TalkInv
<1>9. conn[c].state \in {"greeting", "request"} /\ Early(conn[c], sock[c], p, k, got[c])
  <2>1. conn[c].state \notin {"none", "closed"}
    BY <1>3 DEF Live
  <2>2. ASSUME conn[c].state \in {"connected", "relay"} PROVE FALSE
    <3>1. k.step = 3
      BY <1>8, <2>2 DEF Talk, Late
    <3>2. QED
      BY <1>3, <3>1
  <2>3. QED
    BY <1>8, <2>1, <2>2 DEF Talk, Phases
<1> DEFINE b == conn[c].rbuf
<1>10. b \in Seq(Handshake) /\ p \in Seq(Handshake)
  BY <1>1, <1>9, ProxyTypes DEF Early
<1> HIDE DEF b, k, k2, p
<1>11. (\A i \in DOMAIN p : p[i][2] = h) /\ \A i \in DOMAIN b : b[i][2] = h
  <2>1. (\A i \in DOMAIN p : p[i][2] = k.h) /\ \A i \in DOMAIN b : b[i][2] = k.h
    BY <1>9 DEF Early, b
  <2>2. (\A i \in DOMAIN p : p[i] \in Handshake) /\ \A i \in DOMAIN b : b[i] \in Handshake
    BY <1>10
  <2>3. (\A i \in DOMAIN p : p[i][2] \in Hashes) /\ \A i \in DOMAIN b : b[i][2] \in Hashes
    BY <2>2, TokenTypes
  <2>4. k.h = h \/ k.h = None
    BY <1>3 DEF k
  <2>5. QED
    BY <1>1, <2>1, <2>3, <2>4
<1>12. /\ p2 \in Seq(Handshake) /\ Len(p2) = Len(p) + 1 /\ \A i \in DOMAIN p2 : p2[i][2] = h
  <2>1. /\ p2 \in Seq(Handshake) /\ Len(p2) = Len(p) + 1 /\ DOMAIN p2 = 1..(Len(p) + 1) /\ DOMAIN p = 1..Len(p)
        /\ (\A i \in 1..Len(p) : p2[i] = p[i]) /\ p2[Len(p) + 1] = tok /\ Len(p) \in Nat
    BY <1>5, <1>10
  <2> HIDE DEF p2
  <2>2. QED
    BY <1>5, <1>11, <2>1
<1> HIDE DEF p2
<1>13. Early(conn[c], sock[c], p2, k2, got[c])
  BY <1>6, <1>9, <1>11, <1>12 DEF Early, b
<1>14. Talk(c, conn[c], sock[c], p2, k2, got[c])
  <2>1. /\ conn[c].state = "greeting" => k.step = Len(b) + Len(p) /\ Len(got[c]) + Len(sock[c]) = 0
        /\ conn[c].state = "request" => k.step = 1 + Len(b) + Len(p) /\ Len(got[c]) + Len(sock[c]) = 1
    BY <1>8 DEF Talk, b
  <2>2. Len(b) \in Nat /\ Len(p) \in Nat
    BY <1>10, LenProperties
  <2>3. /\ k.step = Len(b) + Len(p) => k2.step = Len(b) + Len(p2)
        /\ k.step = 1 + Len(b) + Len(p) => k2.step = 1 + Len(b) + Len(p2)
    <3>1. k2.step = k.step + 1 /\ Len(p2) = Len(p) + 1
      BY <1>6, <1>12
    <3>2. QED
      BY <2>2, <3>1
  <2>4. QED
    BY <1>9, <1>13, <2>1, <2>3 DEF Talk, b
<1>15. TypeInv'
  <2>1. p2 \in Seq(Handshake \cup Piece)
    <3>1. Seq(Handshake) \subseteq Seq(Handshake \cup Piece)
      BY SeqMonotonic
    <3>2. QED
      BY <1>12, <3>1
  <2>2. pipe' \in [Conns -> Seq(Handshake \cup Piece)]
    BY <1>1, <1>2, <1>7, <2>1 DEF TypeInv, p, p2
  <2>3. client' \in [Conns -> ClientRec]
    BY <1>1, <1>3, <1>6 DEF TypeInv, k2
  <2>4. QED
    BY <1>1, <1>3, <2>2, <2>3 DEF TypeInv
<1>16. TalkInv'
  <2> SUFFICES ASSUME NEW d \in Conns
               PROVE  Watch(conn[d]) /\ Talk(d, conn[d], sock[d], pipe'[d], client'[d], got[d])
    BY <1>3 DEF TalkInv
  <2>1. CASE d = c
    BY <1>7, <1>8, <1>14, <2>1 DEF k2
  <2>2. CASE d # c
    BY <1>1, <1>6, <1>7, <2>2 DEF TalkInv
  <2>3. QED
    BY <2>1, <2>2
<1>17. RelayInv'
  <2> SUFFICES ASSUME NEW e \in Conns, NEW d \in Conns, e # d, conn[e].state = "relay", conn[e].bs = conn[d].bs
               PROVE  Chain(e, d)'
    BY <1>3 DEF RelayInv
  <2>1. Chain(e, d)
    BY <1>1 DEF RelayInv
  <2>2. d # c
    BY <1>1, <1>9, RelayPair
  <2>3. client'[d] = client[d] /\ pipe'[d] = pipe[d] /\ Came(e)' = Came(e)
    BY <1>3, <1>6, <1>7, <2>2 DEF Came
  <2>4. QED
    BY <2>1, <2>3 DEF Chain
<1>18. AllTold'
  <2> SUFFICES ASSUME NEW e \in Conns, conn[e].state = "closed" PROVE Told(e)'
    BY <1>3 DEF AllTold
  <2>1. Told(e) /\ e # c
    BY <1>1, <1>9 DEF AllTold
  <2>2. client'[e] = client[e]
    BY <1>6, <2>1
  <2>3. \A d \in Conns : client[d].h # None => client'[d].h = client[d].h
    BY <1>3, <1>6 DEF k2
  <2>4. QED
    BY <1>3, <2>1, <2>2, <2>3 DEF Told
<1>19. QED
  BY <1>4, <1>15, <1>16, <1>17, <1>18 DEF ProxyInv

(* What the client has done and read changes, not what the proxy knows.    *)
LEMMA LeaveStep ==
    ASSUME ProxyInv, NEW c \in Conns, Leave(c)
    PROVE  ProxyInv'
<1>1. Sound(Work) /\ TypeInv /\ TalkInv /\ RelayInv /\ AllTold
  BY DEF ProxyInv
<1>2. client' = [client EXCEPT ![c].closed = TRUE] /\ UNCHANGED <<conn, stream, pipe, sock, got>>
  BY DEF Leave
<1>3. ASSUME NEW d \in Conns
      PROVE  /\ client'[d] \in ClientRec /\ client'[d].step = client[d].step /\ client'[d].h = client[d].h
             /\ client'[d].told = client[d].told /\ client'[d].sent = client[d].sent
  <2>1. client[d] \in ClientRec
    BY <1>1, TypeParts
  <2>2. client'[d] = client[d] \/ client'[d] = [client[d] EXCEPT !.closed = TRUE]
    BY <1>1, <1>2 DEF TypeInv
  <2>3. QED
    BY <2>1, <2>2 DEF ClientRec
<1>4. client' \in [Conns -> ClientRec]
  BY <1>1, <1>2, <1>3 DEF TypeInv
<1>5. Sound(Work)' /\ TypeInv'
  BY <1>1, <1>2, <1>4, WorkSame DEF TypeInv
<1>6. TalkInv'
  <2> SUFFICES ASSUME NEW d \in Conns
               PROVE  Watch(conn[d]) /\ Talk(d, conn[d], sock[d], pipe[d], client'[d], got[d])
    BY <1>2 DEF TalkInv
  <2>1. Watch(conn[d]) /\ Talk(d, conn[d], sock[d], pipe[d], client[d], got[d])
    BY <1>1 DEF TalkInv
  <2> DEFINE k == client[d]
             k2 == client'[d]
             r == conn[d]
             p == pipe[d]
  <2>2. k2.step = k.step /\ k2.h = k.h /\ k2.told = k.told /\ k2.sent = k.sent
    BY <1>3
  <2> HIDE DEF k, k2, r, p
  <2>3. (Early(r, sock[d], p, k, got[d]) => Early(r, sock[d], p, k2, got[d])) /\ (Late(d, r, p, k) => Late(d, r, p, k2))
    BY <2>2 DEF Early, Late
  <2>4. QED
    BY <2>1, <2>2, <2>3 DEF Talk, k, k2, r, p
<1>7. RelayInv'
  <2> SUFFICES ASSUME NEW e \in Conns, NEW d \in Conns, e # d, conn[e].state = "relay", conn[e].bs = conn[d].bs
               PROVE  Chain(e, d)'
    BY <1>2 DEF RelayInv
  <2>1. Chain(e, d)
    BY <1>1 DEF RelayInv
  <2>2. client'[d].sent = client[d].sent /\ pipe'[d] = pipe[d] /\ Came(e)' = Came(e)
    BY <1>2, <1>3 DEF Came
  <2>3. QED
    BY <2>1, <2>2 DEF Chain
<1>8. AllTold'
  <2> SUFFICES ASSUME NEW e \in Conns, conn[e].state = "closed" PROVE Told(e)'
    BY <1>2 DEF AllTold
  <2>1. Told(e)
    BY <1>1 DEF AllTold
  <2>2. QED
    BY <1>2, <1>3, <2>1 DEF Told
<1>9. QED
  BY <1>1, <1>5, <1>6, <1>7, <1>8 DEF ProxyInv

(* Nothing of the connections changes.                                     *)
LEMMA LinkOnly ==
    ASSUME ProxyInv, UNCHANGED <<conn, stream, pipe, sock, client, got>>
    PROVE  ProxyInv'
<1>1. Sound(Work) /\ TypeInv /\ TalkInv /\ RelayInv /\ AllTold
  BY DEF ProxyInv
<1>2. Sound(Work)' /\ TypeInv' /\ TalkInv'
  BY <1>1, WorkSame DEF TypeInv, TalkInv
<1>3. RelayInv' /\ AllTold'
  <2>1. ASSUME NEW c \in Conns PROVE Came(c)' = Came(c) /\ (Told(c) => Told(c)')
    BY DEF Came, Told
  <2>2. ASSUME NEW c \in Conns, NEW d \in Conns, Chain(c, d) PROVE Chain(c, d)'
    BY <2>1, <2>2 DEF Chain
  <2>3. QED
    BY <1>1, <2>1, <2>2 DEF RelayInv, AllTold
<1>4. QED
  BY <1>1, <1>2, <1>3 DEF ProxyInv

(* A client that has been let in sends a piece of data.                    *)
LEMMA PushStep ==
    ASSUME ProxyInv, NEW c \in Conns, Push(c)
    PROVE  ProxyInv'
<1>1. Sound(Work) /\ TypeInv /\ TalkInv /\ RelayInv /\ AllTold /\ Typed
  BY ProxyTyped DEF ProxyInv
<1> DEFINE k == client[c]
           p == pipe[c]
           k2 == client'[c]
           tok == <<"data", c, k.sent + 1>>
           p2 == Append(p, tok)
<1>2. /\ client' = [client EXCEPT ![c].sent = @ + 1] /\ pipe' = [pipe EXCEPT ![c] = p2]
      /\ UNCHANGED <<conn, stream, sock, got>> /\ k.told = "ok"
  BY <1>1 DEF Push, TypeInv
<1>3. Sound(Work)'
  BY <1>1, <1>2, WorkSame
<1>4. p \in Seq(Handshake \cup Piece) /\ k \in ClientRec
  BY <1>1, TypeParts
<1>5. pipe'[c] = p2 /\ \A d \in Conns \ {c} : pipe'[d] = pipe[d]
  BY <1>1, <1>2 DEF TypeInv
<1>6. k2 = [k EXCEPT !.sent = @ + 1] /\ \A d \in Conns \ {c} : client'[d] = client[d]
  BY <1>1, <1>2 DEF TypeInv
<1>7. Talk(c, conn[c], sock[c], p, k, got[c]) /\ Watch(conn[c]) /\ conn[c].state \in Phases
  BY <1>1, ProxyTypes DEF TalkInv
<1> HIDE DEF k, p, k2, p2
<1>8. k.sent \in Nat /\ k.sent + 1 \in Nat
  BY <1>4 DEF ClientRec
<1>9. k2 \in ClientRec /\ k2.step = k.step /\ k2.h = k.h /\ k2.told = k.told /\ k2.sent = k.sent + 1
  BY <1>4, <1>6, <1>8 DEF ClientRec
<1>10. conn[c].state \in {"connected", "relay", "closed"}
  BY <1>2, <1>7 DEF Talk, Early, Phases, k
<1>11. tok \in Handshake \cup Piece
  BY <1>8, IsPiece
<1> HIDE DEF tok
<1>12. /\ p2 \in Seq(Handshake \cup Piece) /\ Len(p2) = Len(p) + 1 /\ DOMAIN p2 = 1..(Len(p) + 1)
       /\ (\A i \in 1..Len(p) : p2[i] = p[i]) /\ p2[Len(p) + 1] = tok
       /\ DOMAIN p = 1..Len(p) /\ Len(p) \in Nat
  BY <1>4, <1>11 DEF p2
<1>13. TypeInv'
  <2>1. pipe' \in [Conns -> Seq(Handshake \cup Piece)]
    BY <1>1, <1>2, <1>12 DEF TypeInv
  <2>2. client' \in [Conns -> ClientRec]
    BY <1>1, <1>2, <1>9 DEF TypeInv, k2
  <2>3. QED
    BY <1>1, <1>2, <2>1, <2>2 DEF TypeInv
<1>14. ASSUME Late(c, conn[c], p, k) PROVE Late(c, conn[c], p2, k2)
  <2> DEFINE n == Len(p)
             m == k.sent
  <2>1. n \in Nat /\ m \in Nat /\ n <= m /\ Len(p2) = n + 1 /\ DOMAIN p2 = 1..(n + 1)
    BY <1>8, <1>12, <1>14 DEF Late
  <2>2. \A i \in 1..n : p[i] = <<"data", c, m - n + i>>
    BY <1>12, <1>14 DEF Late
  <2>3. k2.sent = m + 1 /\ tok = <<"data", c, m + 1>> /\ p2[n + 1] = tok /\ \A i \in 1..n : p2[i] = p[i]
    BY <1>9, <1>12 DEF tok
  <2> HIDE DEF n, m
  <2>4. ASSUME NEW i \in 1..(n + 1) PROVE p2[i] = <<"data", c, (m + 1) - (n + 1) + i>>
    <3>1. (m + 1) - (n + 1) + i = m - n + i /\ m - n + (n + 1) = m + 1
      BY <2>1
    <3>2. CASE i = n + 1
      BY <2>3, <3>1, <3>2
    <3>3. CASE i # n + 1
      <4>1. i \in 1..n
        BY <2>1, <3>3
      <4>2. QED
        BY <2>2, <2>3, <3>1, <4>1
    <3>4. QED
      BY <3>2, <3>3
  <2>5. n + 1 <= m + 1
    BY <2>1
  <2>6. k2.step = 3 /\ k2.h = conn[c].bs
    BY <1>9, <1>14 DEF Late
  <2>7. QED
    BY <2>1, <2>3, <2>4, <2>5, <2>6 DEF Late
<1>15. Talk(c, conn[c], sock[c], p2, k2, got[c])
  <2>1. conn[c].state \in {"connected", "relay"} => Late(c, conn[c], p2, k2)
    BY <1>7, <1>14 DEF Talk
  <2>2. conn[c].state = "connected" => Len(p2) = k2.sent /\ Len(got[c]) + Len(sock[c]) = 2
    BY <1>7, <1>9, <1>12 DEF Talk
  <2>3. QED
    BY <1>10, <2>1, <2>2 DEF Talk
<1>16. TalkInv'
  <2> SUFFICES ASSUME NEW d \in Conns
               PROVE  Watch(conn[d]) /\ Talk(d, conn[d], sock[d], pipe'[d], client'[d], got[d])
    BY <1>2 DEF TalkInv
  <2>1. CASE d = c
    BY <1>5, <1>7, <1>15, <2>1 DEF k2
  <2>2. CASE d # c
    BY <1>1, <1>5, <1>6, <2>2 DEF TalkInv
  <2>3. QED
    BY <2>1, <2>2
<1>17. RelayInv'
  <2> SUFFICES ASSUME NEW e \in Conns, NEW d \in Conns, e # d, conn[e].state = "relay", conn[e].bs = conn[d].bs
               PROVE  Chain(e, d)'
    BY <1>2 DEF RelayInv
  <2>1. Chain(e, d) /\ Came(e)' = Came(e)
    BY <1>1, <1>2 DEF RelayInv, Came
  <2>2. CASE d # c
    <3>1. client'[d] = client[d] /\ pipe'[d] = pipe[d]
      BY <1>5, <1>6, <2>2
    <3>2. QED
      BY <2>1, <3>1 DEF Chain
  <2>3. CASE d = c
    <3>1. 2 + k2.sent - Len(p2) = 2 + k.sent - Len(p)
      BY <1>8, <1>9, <1>12
    <3>2. Len(Came(e)) = 2 + k.sent - Len(p) /\ \A i \in 3..Len(Came(e)) : Came(e)[i] = <<"data", d, i - 2>>
      BY <2>1, <2>3 DEF Chain, k, p
    <3>3. client'[d] = k2 /\ pipe'[d] = p2
      BY <1>5, <2>3 DEF k2
    <3>4. QED
      BY <2>1, <3>1, <3>2, <3>3 DEF Chain
  <2>4. QED
    BY <2>2, <2>3
<1>18. AllTold'
  <2> SUFFICES ASSUME NEW e \in Conns, conn[e].state = "closed" PROVE Told(e)'
    BY <1>2 DEF AllTold
  <2>1. Told(e)
    BY <1>1 DEF AllTold
  <2>2. \A d \in Conns : client'[d].h = client[d].h
    BY <1>6, <1>9 DEF k, k2
  <2>3. QED
    BY <1>2, <2>1, <2>2 DEF Told
<1>19. QED
  BY <1>3, <1>13, <1>16, <1>17, <1>18 DEF ProxyInv

(* Reading moves a token from one of two sequences to the other.           *)
LEMMA HeadMoves ==
    ASSUME NEW g \in Seq(Token), NEW s \in Seq(Token), s # <<>>
    PROVE  /\ Append(g, Head(s)) \in Seq(Token) /\ Tail(s) \in Seq(Token) /\ Head(s) \in Token
           /\ Append(g, Head(s)) \o Tail(s) = g \o s
           /\ Len(Append(g, Head(s))) + Len(Tail(s)) = Len(g) + Len(s)
           /\ \A i \in DOMAIN Tail(s) : \E j \in DOMAIN s : Tail(s)[i] = s[j]
           /\ 1 \in DOMAIN s /\ Head(s) = s[1]
<1> DEFINE g2 == Append(g, Head(s))
           s2 == Tail(s)
<1>1. /\ g2 \in Seq(Token) /\ s2 \in Seq(Token) /\ Head(s) \in Token /\ Head(s) = s[1] /\ Len(s) \in Nat /\ Len(s) >= 1
      /\ Len(g2) = Len(g) + 1 /\ Len(s2) = Len(s) - 1 /\ Len(g) \in Nat /\ DOMAIN s = 1..Len(s) /\ DOMAIN s2 = 1..Len(s2)
      /\ (\A i \in 1..Len(g) : g2[i] = g[i]) /\ g2[Len(g) + 1] = Head(s)
      /\ \A i \in 1..Len(s2) : s2[i] = s[i + 1]
  OBVIOUS
<1> HIDE DEF g2, s2
<1>2. /\ g2 \o s2 \in Seq(Token) /\ Len(g2 \o s2) = Len(g2) + Len(s2)
      /\ \A i \in 1..(Len(g2) + Len(s2)) : (g2 \o s2)[i] = IF i <= Len(g2) THEN g2[i] ELSE s2[i - Len(g2)]
  BY <1>1, ConcatProperties
<1>3. /\ g \o s \in Seq(Token) /\ Len(g \o s) = Len(g) + Len(s)
      /\ \A i \in 1..(Len(g) + Len(s)) : (g \o s)[i] = IF i <= Len(g) THEN g[i] ELSE s[i - Len(g)]
  BY ConcatProperties
<1> DEFINE m == Len(g)
           n == Len(s)
           x == g2 \o s2
           y == g \o s
<1>4. /\ m \in Nat /\ n \in Nat /\ n >= 1 /\ Len(g2) = m + 1 /\ Len(s2) = n - 1
      /\ x \in Seq(Token) /\ y \in Seq(Token) /\ Len(y) = m + n /\ Len(x) = Len(g2) + Len(s2)
  BY <1>1, <1>2, <1>3
<1>a. /\ (\A i \in 1..m : g2[i] = g[i]) /\ g2[m + 1] = s[1] /\ \A i \in 1..Len(s2) : s2[i] = s[i + 1]
  BY <1>1
<1>b. /\ \A i \in 1..(Len(g2) + Len(s2)) : x[i] = IF i <= Len(g2) THEN g2[i] ELSE s2[i - Len(g2)]
      /\ \A i \in 1..(m + n) : y[i] = IF i <= m THEN g[i] ELSE s[i - m]
  BY <1>2, <1>3
<1> HIDE DEF m, n, x, y
<1>5. Len(x) = m + n /\ Len(g2) + Len(s2) = m + n
  BY <1>4
<1>6. ASSUME NEW i \in 1..(m + n) PROVE x[i] = y[i]
  <2>1. CASE i <= m
    <3>1. i \in 1..m /\ i <= Len(g2)
      BY <1>4, <2>1
    <3>2. QED
      BY <1>5, <1>a, <1>b, <2>1, <3>1
  <2>2. CASE i = m + 1
    <3>1. ~(i <= m) /\ i <= Len(g2) /\ i - m = 1
      BY <1>4, <2>2
    <3>2. x[i] = g2[m + 1] /\ y[i] = s[1]
      BY <1>5, <1>b, <2>2, <3>1
    <3>3. QED
      BY <1>a, <3>2
  <2>3. CASE i > m + 1
    <3>1. ~(i <= m) /\ ~(i <= Len(g2)) /\ i - Len(g2) \in 1..Len(s2) /\ (i - Len(g2)) + 1 = i - m
      BY <1>4, <2>3
    <3>2. x[i] = s2[i - Len(g2)] /\ y[i] = s[i - m]
      BY <1>5, <1>b, <3>1
    <3>3. s2[i - Len(g2)] = s[(i - Len(g2)) + 1]
      BY <1>a, <3>1
    <3>4. QED
      BY <3>1, <3>2, <3>3
  <2>4. QED
    BY <1>4, <2>1, <2>2, <2>3
<1>7. x = y
  BY <1>4, <1>5, <1>6, SeqEqual
<1>8. ASSUME NEW i \in DOMAIN s2 PROVE \E j \in DOMAIN s : s2[i] = s[j]
  <2>1. i \in 1..(n - 1) /\ DOMAIN s = 1..n
    BY <1>1, <1>4 DEF n
  <2>2. i + 1 \in 1..n
    BY <1>4, <2>1
  <2>3. s2[i] = s[i + 1]
    BY <1>1
  <2>4. QED
    BY <2>1, <2>2, <2>3
<1>9. 1 \in DOMAIN s
  BY <1>1
<1>10. QED
  BY <1>1, <1>5, <1>7, <1>8, <1>9 DEF g2, s2, m, n, x, y

(* A client reads: it has the same as before, and if it is not let in, it  *)
(* is not told so.                                                         *)
LEMMA DrainStep ==
    ASSUME ProxyInv, NEW c \in Conns, Drain(c)
    PROVE  ProxyInv'
<1>1. Sound(Work) /\ TypeInv /\ TalkInv /\ RelayInv /\ AllTold
  BY DEF ProxyInv
<1> DEFINE g == got[c]
           s == sock[c]
           g2 == Append(g, Head(s))
           s2 == Tail(s)
           k == client[c]
           k2 == client'[c]
<1>2. /\ s # <<>> /\ sock' = [sock EXCEPT ![c] = s2] /\ got' = [got EXCEPT ![c] = g2]
      /\ UNCHANGED <<conn, stream, pipe>>
      /\ client' = IF Data(Head(s)) THEN client ELSE [client EXCEPT ![c].told = Head(s)[1]]
  BY DEF Drain
<1>3. g \in Seq(Token) /\ s \in Seq(Token) /\ k \in ClientRec /\ sock \in [Conns -> Seq(Token)] /\ got \in [Conns -> Seq(Token)]
  BY <1>1, ProxyTypes, TypeParts DEF Token, TypeInv
<1>4. /\ g2 \in Seq(Token) /\ s2 \in Seq(Token) /\ Head(s) \in Token /\ g2 \o s2 = g \o s
      /\ Len(g2) + Len(s2) = Len(g) + Len(s) /\ Head(s) = s[1] /\ 1 \in DOMAIN s
      /\ \A i \in DOMAIN s2 : \E j \in DOMAIN s : s2[i] = s[j]
  <2> HIDE DEF g, s
  <2>1. QED
    BY <1>2, <1>3, HeadMoves
<1>5. /\ sock'[c] = s2 /\ got'[c] = g2 /\ sock' \in [Conns -> Seq(Token)] /\ got' \in [Conns -> Seq(Token)]
      /\ \A d \in Conns \ {c} : sock'[d] = sock[d] /\ got'[d] = got[d]
  <2> HIDE DEF g2, s2
  <2>1. QED
    BY <1>2, <1>3, <1>4
<1> DEFINE a == Head(s)
<1>6. ~Data(a) => a \in Answer /\ a[1] \in {"method", "ok", "refused"} /\ (a # <<"ok">> => a[1] # "ok")
  <2> HIDE DEF a
  <2>1. a \in Answer \/ a \in Piece
    BY <1>4 DEF Token, a
  <2>2. QED
    BY <2>1, TokenTypes DEF Data, Answer
<1>7. \A d \in Conns \ {c} : client'[d] = client[d]
  BY <1>1, <1>2 DEF TypeInv
<1>8. k2 = k \/ (~Data(a) /\ k2 = [k EXCEPT !.told = a[1]])
  BY <1>1, <1>2 DEF TypeInv
<1> HIDE DEF g, s, g2, s2, k, k2, a
<1>9. /\ k2 \in ClientRec /\ k2.step = k.step /\ k2.h = k.h /\ k2.sent = k.sent
      /\ k.told # "ok" /\ a # <<"ok">> => k2.told # "ok"
  BY <1>3, <1>6, <1>8 DEF ClientRec
<1>10. TypeInv'
  <2>1. client' \in [Conns -> ClientRec]
    <3>1. client' \in [Conns -> ClientRec] \/ client' = client
      BY <1>1, <1>2, <1>9 DEF TypeInv, k2
    <3>2. QED
      BY <1>1, <3>1 DEF TypeInv
  <2>2. QED
    BY <1>1, <1>2, <1>5, <2>1 DEF TypeInv, Token
<1>11. Sound(Work)'
  <2> DEFINE v == [conn |-> conn, stream |-> stream, sock |-> sock', ret |-> 0]
  <2>1. v = Work'
    BY <1>2 DEF Work
  <2>2. v \in WorkRec /\ v.conn = conn /\ v.stream = stream
    <3>1. conn \in [Conns -> ConnRec] /\ stream \in [Hashes -> StreamRec]
      BY <1>1, ProxyTypes
    <3>2. QED
      BY <1>5, <3>1 DEF WorkRec, Token
  <2> HIDE DEF v
  <2>3. Sound(v)
    BY <1>1, <2>2, KeepsPairs, WorkFields
  <2>4. QED
    BY <1>1, <1>2, <2>1, <2>3 DEF Sound, PairedIn
<1>12. TalkInv'
  <2> SUFFICES ASSUME NEW d \in Conns
               PROVE  Watch(conn[d]) /\ Talk(d, conn[d], sock'[d], pipe[d], client'[d], got'[d])
    BY <1>2 DEF TalkInv
  <2>1. Watch(conn[d]) /\ Talk(d, conn[d], sock[d], pipe[d], client[d], got[d])
    BY <1>1 DEF TalkInv
  <2>2. CASE d # c
    BY <1>5, <1>7, <2>1, <2>2
  <2>3. CASE d = c
    <3> DEFINE r == conn[c]
               p == pipe[c]
    <3>1. Talk(c, r, s, p, k, g) /\ Watch(r)
      BY <2>1, <2>3 DEF s, k, g
    <3> HIDE DEF r, p
    <3>2. ASSUME Early(r, s, p, k, g) PROVE Early(r, s2, p, k2, g2)
      <4>1. a # <<"ok">>
        BY <1>4, <3>2 DEF Early, a
      <4>2. \A i \in DOMAIN s2 : s2[i] # <<"ok">>
        BY <1>4, <3>2 DEF Early
      <4>3. k.told # "ok" /\ k.sent = 0
        BY <3>2 DEF Early
      <4>4. k2.told # "ok" /\ k2.sent = 0 /\ k2.h = k.h
        BY <1>9, <4>1, <4>3
      <4>5. QED
        BY <3>2, <4>2, <4>4 DEF Early
    <3>3. Late(c, r, p, k) => Late(c, r, p, k2)
      BY <1>9 DEF Late
    <3>4. Talk(c, r, s2, p, k2, g2)
      BY <1>4, <1>9, <3>1, <3>2, <3>3 DEF Talk
    <3>5. QED
      BY <1>5, <2>3, <3>1, <3>4 DEF r, p, k2
  <2>4. QED
    BY <2>2, <2>3
<1>13. ASSUME NEW d \in Conns
       PROVE  /\ got'[d] \o sock'[d] = got[d] \o sock[d]
              /\ client'[d].h = client[d].h /\ client'[d].sent = client[d].sent
  <2>1. CASE d = c
    BY <1>4, <1>5, <1>9, <2>1 DEF g, s, k, k2
  <2>2. CASE d # c
    BY <1>5, <1>7, <2>2
  <2>3. QED
    BY <2>1, <2>2
<1>14. RelayInv'
  <2> SUFFICES ASSUME NEW e \in Conns, NEW d \in Conns, e # d, conn[e].state = "relay", conn[e].bs = conn[d].bs
               PROVE  Chain(e, d)'
    BY <1>2 DEF RelayInv
  <2>1. Chain(e, d)
    BY <1>1 DEF RelayInv
  <2>2. client'[d].sent = client[d].sent /\ pipe'[d] = pipe[d] /\ Came(e)' = Came(e)
    BY <1>2, <1>13 DEF Came
  <2>3. QED
    BY <2>1, <2>2 DEF Chain
<1>15. AllTold'
  <2> SUFFICES ASSUME NEW e \in Conns, conn[e].state = "closed" PROVE Told(e)'
    BY <1>2 DEF AllTold
  <2>1. Told(e)
    BY <1>1 DEF AllTold
  <2>2. QED
    BY ZenonT(40), <1>2, <1>13, <2>1 DEF Told
<1>16. QED
  BY <1>10, <1>11, <1>12, <1>14, <1>15 DEF ProxyInv

-----------------------------------------------------------------------------
(* The specification                                                       *)

LEMMA ProxyInit == Init => ProxyInv
<1> SUFFICES ASSUME Init PROVE ProxyInv
  OBVIOUS
<1>1. /\ conn = [c \in Conns |-> NoConn] /\ stream = [h \in Hashes |-> NoStream] /\ pipe = [c \in Conns |-> <<>>]
      /\ sock = [c \in Conns |-> <<>>] /\ got = [c \in Conns |-> <<>>]
      /\ client = [c \in Conns |-> [step |-> 0, h |-> None, told |-> "none", sent |-> 0, closed |-> FALSE]]
  BY DEF Init
<1>2. NoConn \in ConnRec /\ NoConn.state = "none" /\ NoConn.bs = None /\ NoConn.wbuf = <<>> /\ NoConn.rbuf = <<>> /\ ~NoConn.rd
  BY DEF NoConn, ConnRec, Phases
<1>3. NoStream \in StreamRec /\ NoStream.peers = <<>> /\ ~NoStream.on /\ ~NoStream.activated
  BY DEF NoStream, StreamRec
<1> DEFINE k0 == [step |-> 0, h |-> None, told |-> "none", sent |-> 0, closed |-> FALSE]
<1>4. k0 \in ClientRec /\ k0.step = 0 /\ k0.told = "none" /\ k0.sent = 0
  BY DEF ClientRec
<1> HIDE DEF k0
<1>5. TypeInv
  <2>1. client = [c \in Conns |-> k0]
    BY <1>1 DEF k0
  <2>2. pipe \in [Conns -> Seq(Handshake \cup Piece)] /\ got \in [Conns -> Seq(Answer \cup Piece)]
    BY <1>1
  <2>3. client \in [Conns -> ClientRec]
    BY <1>4, <2>1
  <2>4. QED
    BY <2>2, <2>3 DEF TypeInv
<1>6. Sound(Work)
  <2>1. Work \in WorkRec
    <3>1. conn \in [Conns -> ConnRec] /\ stream \in [Hashes -> StreamRec] /\ sock \in [Conns -> Seq(Answer \cup Piece)]
      BY <1>1, <1>2, <1>3
    <3>2. QED
      BY <3>1 DEF Work, WorkRec
  <2>2. ASSUME NEW h \in Hashes PROVE PairedIn(Work, h)
    <3>1. stream[h] = NoStream /\ \A c \in Conns : conn[c].bs = None /\ h # None
      BY <1>1, <1>2, Proxy65Assumption
    <3>2. DOMAIN stream[h].peers = {} /\ Len(stream[h].peers) = 0
      BY <1>3, <3>1
    <3>3. QED
      BY <1>3, <3>1, <3>2, WorkFields DEF PairedIn
  <2>3. \A c \in Conns : conn[c].state = "none" /\ conn[c].wbuf = <<>>
    BY <1>1, <1>2
  <2>4. QED
    BY <2>1, <2>2, <2>3, WorkFields DEF Sound
<1>7. TalkInv
  <2> SUFFICES ASSUME NEW c \in Conns PROVE Watch(conn[c]) /\ Talk(c, conn[c], sock[c], pipe[c], client[c], got[c])
    BY DEF TalkInv
  <2>1. conn[c] = NoConn /\ sock[c] = <<>> /\ pipe[c] = <<>> /\ got[c] = <<>> /\ client[c] = k0
    BY <1>1 DEF k0
  <2>2. Early(NoConn, <<>>, <<>>, k0, <<>>)
    <3>1. <<>> \in Seq(Handshake) /\ \A i \in DOMAIN <<>> : FALSE
      OBVIOUS
    <3>2. QED
      BY <1>2, <1>4, <3>1 DEF Early
  <2>3. QED
    BY <1>2, <1>4, <2>1, <2>2 DEF Talk, Watch
<1>8. RelayInv /\ AllTold
  BY <1>1, <1>2 DEF RelayInv, AllTold
<1>9. QED
  BY <1>5, <1>6, <1>7, <1>8 DEF ProxyInv

LEMMA ProxyStep == ProxyInv /\ [Next]_vars => ProxyInv'
<1> SUFFICES ASSUME ProxyInv, [Next]_vars PROVE ProxyInv'
  OBVIOUS
<1>1. ASSUME NEW c \in Conns, Accept(c) \/ Reset(c) \/ ReadEnd(c) \/ Push(c) \/ Drain(c) \/ Leave(c)
      PROVE  ProxyInv'
  BY <1>1, AcceptStep, ResetStep, ReadEndStep, PushStep, DrainStep, LeaveStep
<1>2. ASSUME NEW c \in Conns, ReadData(c) PROVE ProxyInv'
  BY <1>2, ReadRelay, ReadHandshake
<1>3. ASSUME NEW c \in Conns, NEW h \in Hashes, Speak(c, h) PROVE ProxyInv'
  BY <1>3, SpeakStep
<1>4. ASSUME NEW h \in Hashes, Activate(h) \/ Age(h) PROVE ProxyInv'
  BY <1>4, ActivateStep, AgeStep
<1>5. CASE Expire \/ Shutdown
  BY <1>5, ExpireStep, ShutdownStep
<1>6. CASE LinkLost \/ LinkOpen \/ Bound \/ Retry \/ UNCHANGED vars
  <2>1. UNCHANGED <<conn, stream, pipe, sock, client, got>>
    BY <1>6 DEF LinkLost, LinkOpen, Bound, Retry, vars
  <2>2. QED
    BY <2>1, LinkOnly
<1>7. QED
  BY <1>1, <1>2, <1>3, <1>4, <1>5, <1>6 DEF Next

LEMMA ProxyAlways == Spec => []ProxyInv
BY ProxyInit, ProxyStep, PTL DEF Spec

LEMMA PairedFrom == ProxyInv => Paired
<1> SUFFICES ASSUME ProxyInv, NEW h \in Hashes
             PROVE  /\ ToSet(stream[h].peers) = {c \in Conns : conn[c].bs = h}
                    /\ IsInjective(stream[h].peers) /\ Len(stream[h].peers) <= 2
                    /\ stream[h].on = (stream[h].peers # <<>>)
                    /\ \A c \in Conns : conn[c].bs = h =>
                          conn[c].state = IF stream[h].activated THEN "relay" ELSE "connected"
  BY DEF Paired
<1>1. Sound(Work) /\ stream[h] \in StreamRec
  BY ProxyTypes DEF ProxyInv
<1>2. PairedIn(Work, h)
  BY <1>1 DEF Sound
<1> DEFINE p == stream[h].peers
<1>3. p \in Seq(Conns) /\ \A i \in DOMAIN p : p[i] \in Conns
  BY <1>1 DEF StreamRec
<1>4. ToSet(p) = {c \in Conns : conn[c].bs = h}
  BY <1>2, <1>3, WorkFields DEF PairedIn, ToSet
<1>5. IsInjective(p) /\ Len(p) <= 2
  BY <1>2, WorkFields DEF PairedIn, IsInjective
<1>6. stream[h].on = (p # <<>>)
  <2>1. stream[h].on \in BOOLEAN /\ (stream[h].on <=> p # <<>>)
    BY <1>1, <1>2, WorkFields DEF PairedIn, StreamRec
  <2>2. QED
    BY <2>1
<1>7. \A c \in Conns : conn[c].bs = h => conn[c].state = IF stream[h].activated THEN "relay" ELSE "connected"
  BY <1>2, WorkFields DEF PairedIn
<1>8. QED
  BY <1>4, <1>5, <1>6, <1>7

(* The table of bytestreams and the connections always describe the same   *)
(* pairs: _sock_conn_close, proxy65_stream_free and the join in            *)
(* _socks_process keep both sides in step, with any number of clients and  *)
(* in whatever order they join, are refused, leave, expire or are cut off. *)
THEOREM PairedAlways == Spec => []Paired
BY ProxyAlways, PairedFrom, PTL

(* Whatever the sockets take at a time, what a client reads is what the    *)
(* other one of its bytestream sent, from the first piece on, in order and *)
(* without gaps, and only once the bytestream is activated: the backlog    *)
(* kept by _socks_relay_write never overtakes, repeats or loses a piece.   *)
THEOREM RelaysFaithfully == Spec => []Faithful
BY ProxyAlways, FaithfulFrom, PTL

-----------------------------------------------------------------------------
(* The end of a bytestream                                                 *)

(* What goes on around a connection that is closed: what has been sent on  *)
(* it is read or stays, and the client does not change what it asked for.  *)
(* A client that sends no more does not start again.                       *)
Still ==
    /\ \A d \in Conns : conn[d].state = "closed" =>
          /\ conn'[d].state = "closed" /\ got'[d] \o sock'[d] = got[d] \o sock[d]
          /\ client'[d].h = client[d].h
    /\ \A c \in Conns : client[c].closed => client'[c].closed /\ client'[c].sent = client[c].sent

LEMMA StillStays ==
    ASSUME Stays, got' = got, client' = client
    PROVE  Still
BY DEF Stays, Still

LEMMA ClosesStay ==
    ASSUME NEW w, Become(w), w.sock = sock, \A d \in Conns : w.conn[d] \in {conn[d], Gone},
           got' = got, client' = client
    PROVE  Still
<1>1. Stays
  BY GoneType DEF Stays, Become
<1>2. QED
  BY <1>1, StillStays

LEMMA ReadEndStill ==
    ASSUME ProxyInv, NEW c \in Conns, ReadEnd(c)
    PROVE  Still
<1> DEFINE w == IF conn[c].state = "relay" THEN RelayRead(Work, c, <<>>) ELSE Close(Work, c)
<1>1. Become(w) /\ got' = got /\ client' = client
  BY DEF ReadEnd
<1>2. Sound(Work) /\ conn \in [Conns -> ConnRec]
  BY ProxyTypes DEF ProxyInv
<1>3. CASE w = Close(Work, c)
  <2>1. Close(Work, c).sock = sock /\ \A d \in Conns : Close(Work, c).conn[d] \in {conn[d], Gone}
    BY <1>2, CloseParts, WorkFields
  <2> HIDE DEF w
  <2>2. QED
    BY <1>1, <1>3, <2>1, ClosesStay
<1>4. CASE w # Close(Work, c)
  <2>1. w = [Work EXCEPT !.conn[c].rd = FALSE]
    BY <1>4 DEF RelayRead
  <2>2. conn' = [conn EXCEPT ![c].rd = FALSE] /\ sock' = sock
    BY <1>1, <2>1 DEF Become, Work
  <2>3. \A d \in Conns : conn'[d].state = conn[d].state
    BY <1>2, <2>2 DEF ConnRec
  <2>4. QED
    BY <1>1, <2>2, <2>3 DEF Still
<1>5. QED
  BY <1>3, <1>4

LEMMA ShutdownStill ==
    ASSUME ProxyInv, Shutdown
    PROVE  Still
<1> DEFINE H == {h \in Hashes : stream[h].on}
           w == StreamFree(Work, H)
           cn == [c \in Conns |-> IF w.conn[c].state = "none" THEN NoConn ELSE Gone]
           v == [w EXCEPT !.conn = cn]
<1>1. Become(v) /\ got' = got /\ client' = client
  BY DEF Shutdown
<1>2. H \in SUBSET Hashes
  OBVIOUS
<1> HIDE DEF H
<1>3. Sound(w) /\ w.sock = sock /\ \A d \in Conns : w.conn[d] \in {conn[d], Gone}
  BY <1>2, FreeParts, WorkFields DEF ProxyInv
<1> HIDE DEF w
<1>4. w \in WorkRec
  BY <1>3 DEF Sound
<1> HIDE DEF cn
<1>5. v.conn = cn /\ v.sock = sock
  BY <1>3, <1>4 DEF WorkRec
<1>6. \A d \in Conns : conn[d].state = "closed" => cn[d].state = "closed"
  BY <1>3, GoneType DEF cn
<1> HIDE DEF v
<1>7. QED
  BY <1>1, <1>5, <1>6 DEF Become, Still

LEMMA ActivateStill ==
    ASSUME ProxyInv, NEW h \in Hashes, Activate(h)
    PROVE  Still
<1> DEFINE w == SocksActivate(Work, h)
<1>1. Become(w) /\ got' = got /\ client' = client /\ Len(stream[h].peers) >= 2
  BY DEF Activate, Complete
<1>2. Sound(Work)
  BY DEF ProxyInv
<1>3. w.sock = sock /\ \A c \in Conns : conn[c].bs = h \/ w.conn[c] = conn[c]
  BY <1>1, <1>2, ActivateParts, WorkFields
<1> HIDE DEF w
<1>4. \A c \in Conns : conn[c].state = "closed" => conn[c].bs # h
  BY <1>2, WorkFields DEF Sound, PairedIn
<1>5. QED
  BY <1>1, <1>3, <1>4 DEF Become, Still

LEMMA DrainStill ==
    ASSUME ProxyInv, NEW c \in Conns, Drain(c)
    PROVE  Still
<1>1. /\ sock[c] # <<>> /\ sock' = [sock EXCEPT ![c] = Tail(sock[c])] /\ conn' = conn
      /\ got' = [got EXCEPT ![c] = Append(got[c], Head(sock[c]))]
      /\ client' = IF Data(Head(sock[c])) THEN client ELSE [client EXCEPT ![c].told = Head(sock[c])[1]]
  BY DEF Drain
<1>2. sock \in [Conns -> Seq(Token)] /\ got \in [Conns -> Seq(Token)] /\ client \in [Conns -> ClientRec]
  BY ProxyTypes DEF ProxyInv, TypeInv, Token
<1>3. Append(got[c], Head(sock[c])) \o Tail(sock[c]) = got[c] \o sock[c]
  BY <1>1, <1>2, HeadMoves
<1>4. \A d \in Conns : got'[d] \o sock'[d] = got[d] \o sock[d]
  <2> SUFFICES ASSUME NEW d \in Conns PROVE got'[d] \o sock'[d] = got[d] \o sock[d]
    OBVIOUS
  <2>1. CASE d = c
    BY <1>1, <1>2, <1>3, <2>1
  <2>2. CASE d # c
    BY <1>1, <1>2, <2>2
  <2>3. QED
    BY <2>1, <2>2
<1>5. \A d \in Conns : client'[d].h = client[d].h /\ client'[d].sent = client[d].sent /\ client'[d].closed = client[d].closed
  BY <1>1, <1>2 DEF ClientRec
<1>6. QED
  BY <1>1, <1>4, <1>5 DEF Still

LEMMA ClientStill ==
    ASSUME ProxyInv, NEW c \in Conns, Push(c) \/ Leave(c) \/ \E h \in Hashes : Speak(c, h)
    PROVE  Still
<1>1. client \in [Conns -> ClientRec]
  BY DEF ProxyInv, TypeInv
<1>2. conn' = conn /\ sock' = sock /\ got' = got
  BY DEF Push, Leave, Speak
<1>3. ASSUME NEW d \in Conns
      PROVE  /\ conn[d].state = "closed" => client'[d].h = client[d].h
             /\ client[d].closed => client'[d].closed /\ client'[d].sent = client[d].sent
  <2>1. CASE Push(c)
    BY <1>1, <2>1 DEF Push, ClientRec
  <2>2. CASE Leave(c)
    BY <1>1, <2>2 DEF Leave, ClientRec
  <2>3. ASSUME NEW h \in Hashes, Speak(c, h)
        PROVE  /\ conn[d].state = "closed" => client'[d].h = client[d].h
               /\ client[d].closed => client'[d].closed /\ client'[d].sent = client[d].sent
    BY <1>1, <2>3 DEF Speak, Live, ClientRec
  <2>4. QED
    BY <2>1, <2>2, <2>3
<1>4. QED
  BY <1>2, <1>3 DEF Still

LEMMA AlwaysStill == ProxyInv /\ [Next]_vars => Still
<1> SUFFICES ASSUME ProxyInv, [Next]_vars PROVE Still
  OBVIOUS
<1>1. ASSUME NEW c \in Conns, Accept(c) PROVE Still
  <2>1. conn \in [Conns -> ConnRec]
    BY ProxyTypes DEF ProxyInv
  <2>2. \A d \in Conns : conn[d].state = "closed" => conn'[d] = conn[d]
    BY <1>1, <2>1 DEF Accept
  <2>3. QED
    BY <1>1, <2>2 DEF Accept, Still
<1>2. ASSUME NEW c \in Conns, ReadData(c) PROVE Still
  BY <1>2, ReadRelay, ReadHandshake, StillStays DEF ReadData
<1>3. ASSUME NEW c \in Conns, Reset(c) PROVE Still
  <2>1. /\ Close(Work, c).sock = sock
        /\ \A d \in Conns : Close(Work, c).conn[d] \in {conn[d], Gone}
    BY CloseParts, WorkFields DEF ProxyInv
  <2>2. QED
    BY <1>3, <2>1, ClosesStay DEF Reset
<1>4. CASE Expire
  <2> DEFINE H == {h \in Hashes : Expired(h)}
             w == StreamFree(Work, H)
  <2>1. H \in SUBSET Hashes /\ Become(w) /\ got' = got /\ client' = client
    BY <1>4 DEF Expire
  <2> HIDE DEF H
  <2>2. w.sock = sock /\ \A d \in Conns : w.conn[d] \in {conn[d], Gone}
    BY <2>1, FreeParts, WorkFields DEF ProxyInv
  <2> HIDE DEF w
  <2>3. QED
    BY <2>1, <2>2, ClosesStay
<1>5. CASE (\E h \in Hashes : Age(h)) \/ LinkLost \/ LinkOpen \/ Bound \/ Retry \/ UNCHANGED vars
  <2>1. UNCHANGED <<conn, sock, client, got>>
    BY <1>5 DEF Age, LinkLost, LinkOpen, Bound, Retry, vars
  <2>2. QED
    BY <2>1 DEF Still
<1>6. QED
  BY <1>1, <1>2, <1>3, <1>4, <1>5, ReadEndStill, ShutdownStill, ActivateStill, DrainStill, ClientStill DEF Next

(* The whole of what client c sent has come to client d.                   *)
Whole(c, d) ==
    LET all == got[d] \o sock[d]
    IN  /\ client[d].h = client[c].h
        /\ Len(all) = 2 + client[c].sent
        /\ \A i \in 3..Len(all) : all[i] = <<"data", c, i - 2>>

(* A bytestream that has ended has done so for both, for good.             *)
EndedOk(c) ==
    /\ c \in Conns /\ conn[c].state = "closed" /\ client[c].closed
    /\ \E d \in Conns \ {c} : conn[d].state = "closed" /\ Whole(c, d)
EndInv == \A c \in ended : EndedOk(c)

LEMMA EndedStays ==
    ASSUME Still, NEW c, EndedOk(c)
    PROVE  EndedOk(c)'
<1>1. PICK d \in Conns \ {c} : conn[d].state = "closed" /\ Whole(c, d)
  BY DEF EndedOk
<1>2. conn'[d].state = "closed" /\ got'[d] \o sock'[d] = got[d] \o sock[d] /\ client'[d].h = client[d].h
  BY <1>1 DEF Still
<1>3. conn'[c].state = "closed" /\ client'[c].closed /\ client'[c].sent = client[c].sent /\ client'[c].h = client[c].h
  BY DEF Still, EndedOk
<1>4. Whole(c, d)'
  BY <1>1, <1>2, <1>3 DEF Whole
<1>5. QED
  BY <1>2, <1>3, <1>4 DEF EndedOk

(* "don't read until peer drain": when the end of a client's data is read  *)
(* in the relay, nothing of the data is unread and nothing is kept.        *)
LEMMA EndsWhole ==
    ASSUME ProxyInv, NEW c \in Conns, ReadEnd(c), conn[c].state = "relay", conn'[c].state = "closed"
    PROVE  EndedOk(c)'
<1> DEFINE w == RelayRead(Work, c, <<>>)
<1>1. Become(w) /\ UNCHANGED <<pipe, client, got>> /\ pipe[c] = <<>> /\ client[c].closed
  BY DEF ReadEnd, Readable
<1>2. Sound(Work) /\ TalkInv /\ RelayInv /\ conn \in [Conns -> ConnRec] /\ TypeInv
  BY ProxyTypes DEF ProxyInv
<1>3. w = Close(Work, c) /\ ~Paused(Work, c)
  <2>1. w # [Work EXCEPT !.conn[c].rd = FALSE]
    <3> SUFFICES ASSUME w = [Work EXCEPT !.conn[c].rd = FALSE] PROVE FALSE
      OBVIOUS
    <3>1. conn' = [conn EXCEPT ![c].rd = FALSE]
      BY <1>1 DEF Become, Work
    <3>2. conn'[c].state = "relay"
      BY <1>2, <3>1 DEF ConnRec
    <3>3. QED
      BY <3>2
  <2>2. QED
    BY <2>1 DEF RelayRead
<1>4. PICK d \in Conns \ {c} : conn[d].bs = conn[c].bs
  BY <1>2, RelayPair
<1>5. conn[d].state = "relay" /\ conn[c].bs # None
  BY <1>2, <1>4, RelayPair, Proxy65Assumption
<1>6. d \in Peer(Work, c) /\ conn[d].wbuf = <<>>
  <2>1. d \in Peer(Work, c)
    BY <1>2, <1>4, <1>5, PeerIs, WorkFields
  <2>2. QED
    BY <1>3, <2>1, WorkFields DEF Paused
<1>7. conn'[d].state = "closed" /\ sock' = sock
  <2> DEFINE both == {c} \cup ToSet(stream[conn[c].bs].peers)
  <2>1. d \in both
    BY <1>5, <1>6, WorkFields DEF Peer
  <2>2. Close(Work, c).conn = [e \in Conns |-> IF e \in both THEN Gone ELSE conn[e]]
    BY <1>5 DEF Close, Work
  <2>3. Close(Work, c).sock = sock
    BY <1>2, CloseParts, WorkFields
  <2> HIDE DEF both, w
  <2>4. QED
    BY <1>1, <1>3, <2>1, <2>2, <2>3, GoneType DEF Become
<1>8. Chain(d, c)
  BY <1>4, <1>5, <1>2 DEF RelayInv
<1>9. client[d].h = client[c].h
  <2>1. Late(c, conn[c], pipe[c], client[c]) /\ Late(d, conn[d], pipe[d], client[d])
    BY <1>2, <1>5 DEF TalkInv, Talk
  <2>2. QED
    BY <1>4, <2>1 DEF Late
<1>10. Came(d) = got[d] \o sock[d]
  <2> DEFINE all == got[d] \o sock[d]
  <2>1. all \in Seq(Token)
    <3>1. got[d] \in Seq(Token) /\ sock[d] \in Seq(Token)
      BY <1>2, ProxyTypes DEF TypeInv, Token
    <3>2. QED
      BY <3>1, ConcatProperties
  <2> HIDE DEF all
  <2>2. all \o <<>> = all
    BY <2>1, ConcatEmptySeq
  <2>3. QED
    BY <1>6, <2>2 DEF Came, all
<1>11. client[c].sent \in Nat /\ Len(pipe[c]) = 0
  BY <1>1, <1>2 DEF TypeInv, ClientRec
<1>12. Whole(c, d)
  <2> DEFINE all == got[d] \o sock[d]
  <2>1. Len(all) = 2 + client[c].sent - 0 /\ \A i \in 3..Len(all) : all[i] = <<"data", c, i - 2>>
    BY <1>8, <1>10, <1>11 DEF Chain
  <2>2. Len(all) = 2 + client[c].sent
    BY <1>11, <2>1
  <2>3. QED
    BY <1>9, <2>1, <2>2 DEF Whole
<1>13. Whole(c, d)'
  BY <1>1, <1>7, <1>12 DEF Whole
<1>14. QED
  BY <1>1, <1>7, <1>13 DEF EndedOk

LEMMA EndStep == ProxyInv /\ EndInv /\ [Next]_vars => EndInv'
<1> SUFFICES ASSUME ProxyInv, EndInv, [Next]_vars PROVE EndInv'
  OBVIOUS
<1>1. \A c \in ended : EndedOk(c)'
  BY AlwaysStill, EndedStays DEF EndInv
<1>2. ASSUME NEW c \in Conns, ReadEnd(c) PROVE EndInv'
  <2> DEFINE w == IF conn[c].state = "relay" THEN RelayRead(Work, c, <<>>) ELSE Close(Work, c)
  <2>1. /\ Become(w)
        /\ ended' = IF conn[c].state = "relay" /\ w.conn[c].state = "closed" THEN ended \cup {c} ELSE ended
    BY <1>2 DEF ReadEnd
  <2> HIDE DEF w
  <2>2. ended' = ended \/ (ended' = ended \cup {c} /\ conn[c].state = "relay" /\ conn'[c].state = "closed")
    BY <2>1 DEF Become
  <2>3. conn[c].state = "relay" /\ conn'[c].state = "closed" => EndedOk(c)'
    BY <1>2, EndsWhole
  <2>4. QED
    BY <1>1, <2>2, <2>3 DEF EndInv
<1>3. CASE ~\E c \in Conns : ReadEnd(c)
  <2>1. ended' = ended
    BY <1>3 DEF Next, vars, Accept, ReadData, Reset, Push, Drain, Leave, Speak, Activate, Age, Expire,
                LinkLost, LinkOpen, Bound, Retry, Shutdown
  <2>2. QED
    BY <1>1, <2>1 DEF EndInv
<1>4. QED
  BY <1>2, <1>3

LEMMA EndFrom == EndInv => CleanEnd
BY DEF EndInv, EndedOk, Whole, CleanEnd

(* When the proxy ends a bytestream because a client has sent all it had,  *)
(* the other client has all of it, read or at its socket: action_READ does *)
(* not read on ("don't read until peer drain") while something is kept, so *)
(* that it cannot meet the end before the rest has been sent; and nothing  *)
(* that happens later takes it back.                                       *)
THEOREM EndsCleanly == Spec => []CleanEnd
<1>1. Init => EndInv
  BY DEF Init, EndInv
<1>2. ProxyInv /\ EndInv /\ [Next]_vars => EndInv'
  BY EndStep
<1>3. EndInv => CleanEnd
  BY EndFrom
<1>4. QED
  BY <1>1, <1>2, <1>3, ProxyAlways, PTL DEF Spec
=============================================================================
