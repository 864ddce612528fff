----------------------------- MODULE RouterProofs -----------------------------
(***************************************************************************)
(* Theorems about Router, for every set of components and names.           *)
(***************************************************************************)
EXTENDS Router, FiniteSetTheorems, SequenceTheorems, TLAPS

-----------------------------------------------------------------------------
(* Facts about the route list operators                                    *)

(* The loop of _route_remove only looks at indices of the array, and the   *)
(* array it leaves is one of components again.                             *)
LEMMA BeforeNat ==
    ASSUME NEW S, NEW s \in Seq(S), NEW c, NEW i \in Nat
    PROVE  Before(s, i, c) \in Nat
<1>1. IsFiniteSet(1..(i - 1))
  BY FS_Interval
<1>2. IsFiniteSet({j \in 1..(i - 1) : s[j] = c})
  BY <1>1, FS_Subset
<1>3. QED
  BY <1>2, FS_CardinalityType DEF Before

LEMMA RouteRemoveType ==
    ASSUME NEW S, NEW s \in Seq(S), NEW c
    PROVE  RouteRemove(s, c) \in Seq(S)
<1>1. CASE ~(Len(s) > 1)
  BY <1>1 DEF RouteRemove
<1>2. CASE Len(s) > 1
  <2> Len(s) \in Nat
    OBVIOUS
  <2>a. IsFiniteSet(1..Len(s)) /\ Cardinality(1..Len(s)) = IF 1 > Len(s) THEN 0 ELSE Len(s) - 1 + 1
    BY FS_Interval, 1 \in Int, Len(s) \in Int
  <2>1. IsFiniteSet(1..Len(s)) /\ Cardinality(1..Len(s)) = Len(s)
    BY <2>a, <1>2
  <2>2. Hits(s, c) \subseteq 1..Len(s)
    BY DEF Hits
  <2>3. Cardinality(Hits(s, c)) \in Nat /\ Cardinality(Hits(s, c)) <= Len(s)
    BY <2>1, <2>2, FS_Subset, FS_CardinalityType
  <2>4. \A i \in Hits(s, c) : Len(s) - Before(s, i, c) \in 1..Len(s)
    BY BeforeNat DEF Hits
  <2> DEFINE k == Len(s) - Cardinality(Hits(s, c))
  <2>5. k \in Nat /\ k <= Len(s)
    BY <2>3
  <2>6. \A i \in 1..k : (IF i \in Hits(s, c) THEN s[Len(s) - Before(s, i, c)] ELSE s[i]) \in S
    BY <2>4, <2>5
  <2>7. SwapRemove(s, c) \in [1..k -> S]
    BY <2>6 DEF SwapRemove
  <2>8. QED
    BY <1>2, <2>5, <2>7, SeqDef DEF RouteRemove
<1>3. QED
  BY <1>1, <1>2

LEMMA RouteAddType ==
    ASSUME NEW S, NEW s \in Seq(S), NEW c \in S, NEW k \in Nat
    PROVE  RouteAdd(s, c, k) \in Seq(S)
<1>1. [i \in 1..k |-> c] \in [1..k -> S]
  OBVIOUS
<1>2. [i \in 1..k |-> c] \in Seq(S)
  BY <1>1, SeqDef
<1>3. QED
  BY <1>2 DEF RouteAdd

(* What the alias and name insertions leave in the bucket array is a set   *)
(* of names.                                                               *)
LEMMA ZenType ==
    ASSUME NEW z \in SUBSET Names, NEW h, NEW h2, NEW n \in Names, NEW S \in SUBSET Names,
           NEW y \in ZenPuts(ZenPut(z, h, n), h2, S)
    PROVE  y \in SUBSET Names
<1>1. ZenPut(z, h, n) \in SUBSET Names
  BY DEF ZenPut
<1>2. PICK P \in SUBSET (S \ h2) : y = ZenPut(z, h, n) \cup P
  BY DEF ZenPuts
<1>3. QED
  BY <1>1, <1>2

-----------------------------------------------------------------------------
(* Type correctness                                                        *)

LEMMA WritesType ==
    ASSUME TypeOK, NEW w \in [Comps -> Seq(Packet)], CompWrites(w)
    PROVE  tq' \in [Comps -> Seq(Packet)] /\ sent' \in [Comps -> Seq(Packet)]
<1>1. \A d \in Comps : tq[d] \o w[d] \in Seq(Packet) /\ sent[d] \o w[d] \in Seq(Packet)
  <2> TAKE d \in Comps
  <2>1. w[d] \in Seq(Packet) /\ tq[d] \in Seq(Packet) /\ sent[d] \in Seq(Packet)
    BY DEF TypeOK
  <2> HIDE DEF Packet
  <2>2. QED
    BY <2>1
<1> HIDE DEF Packet
<1>2. tq \in [Comps -> Seq(Packet)] /\ sent \in [Comps -> Seq(Packet)]
  BY DEF TypeOK
<1>3. QED
  BY <1>1, <1>2 DEF CompWrites

LEMMA PktType ==
    ASSUME TypeOK, NEW c \in Comps, Routes(c),
           NEW k \in {"route", "log", "bounce", "broadcast"}
    PROVE  Pkt(c, k) \in Packet
BY RouterAssumption DEF TypeOK, Routes, Pkt, Packet

LEMMA BounceType ==
    ASSUME TypeOK, NEW c \in Comps, Routes(c), BounceTo(c)
    PROVE  tq' \in [Comps -> Seq(Packet)] /\ sent' \in [Comps -> Seq(Packet)]
<1> DEFINE w == [d \in Comps |-> IF d = c THEN <<Pkt(c, "bounce")>> ELSE <<>>]
<1>1. Pkt(c, "bounce") \in Packet
  BY PktType
<1>2. w \in [Comps -> Seq(Packet)]
  BY <1>1
<1>3. CompWrites(w)
  BY DEF BounceTo
<1>4. QED
  BY <1>2, <1>3, WritesType

LEMMA UnicastType ==
    ASSUME TypeOK, NEW c \in Comps, NEW from \in Names, NEW to \in Names,
           Unicast(c, from, to)
    PROVE  tq' \in [Comps -> Seq(Packet)] /\ sent' \in [Comps -> Seq(Packet)]
<1>1. Routes(c)
  BY DEF Unicast
<1> DEFINE w(t) == [d \in Comps |->
        [j \in 1..Cardinality({n \in Names : log_sinks[n] = d}) |-> Pkt(c, "log")]
            \o IF t = d THEN <<Pkt(c, "route")>> ELSE <<>>]
<1>2. BounceTo(c) \/ \E t : CompWrites(w(t))
  BY DEF Unicast
<1>3. CASE BounceTo(c)
  BY <1>1, <1>3, BounceType
<1>4. ASSUME NEW t, CompWrites(w(t))
      PROVE  tq' \in [Comps -> Seq(Packet)] /\ sent' \in [Comps -> Seq(Packet)]
  <2>1. Pkt(c, "log") \in Packet /\ Pkt(c, "route") \in Packet
    BY <1>1, PktType
  <2>2. ASSUME NEW d \in Comps
        PROVE  w(t)[d] \in Seq(Packet)
    <3> DEFINE k == Cardinality({n \in Names : log_sinks[n] = d})
    <3>1. k \in Nat
      BY RouterAssumption, FS_Subset, FS_CardinalityType
    <3>2. [j \in 1..k |-> Pkt(c, "log")] \in [1..k -> Packet]
      BY <2>1
    <3>3. [j \in 1..k |-> Pkt(c, "log")] \in Seq(Packet)
      BY <3>1, <3>2, SeqDef
    <3>4. (IF t = d THEN <<Pkt(c, "route")>> ELSE <<>>) \in Seq(Packet)
      BY <2>1
    <3> HIDE DEF k
    <3>5. [j \in 1..k |-> Pkt(c, "log")] \o (IF t = d THEN <<Pkt(c, "route")>> ELSE <<>>)
            \in Seq(Packet)
      BY <3>3, <3>4, ConcatProperties
    <3>6. QED
      BY <3>5 DEF k
  <2>3. w(t) \in [Comps -> Seq(Packet)]
    BY <2>2
  <2> HIDE DEF w
  <2>4. QED
    BY <1>4, <2>3, WritesType
<1>5. QED
  BY <1>2, <1>3, <1>4

(* Only a stream that named a domain in its header can be a legacy stream  *)
(* awaiting its handshake: event_OPEN uses that name.                      *)
LegacyNamed == \A c \in Comps : legacy[c] /\ state[c] = "stream" => user[c] \in Names

TypeInv == TypeOK /\ LegacyNamed

(* Every step of the router keeps its tables well formed: each handler     *)
(* leaves arrays of components, sets of names and queues of packets.       *)
LEMMA TypeStep == TypeInv /\ [Next]_vars => TypeInv'
<1> SUFFICES ASSUME TypeInv, [Next]_vars PROVE TypeInv'
  OBVIOUS
<1> USE RouterAssumption DEF TypeInv, LegacyNamed
<1>1. ASSUME NEW c \in Comps, Accept(c) PROVE TypeInv'
  BY <1>1 DEF TypeOK, Accept, table, data, States
<1>2. ASSUME NEW c \in Comps, NEW old \in BOOLEAN, NEW to \in Names \cup {NoName}, Stream(c, old, to)
      PROVE TypeInv'
  <2>1. CASE old /\ (~LegacyAllowed \/ to = NoName)
    BY <1>2, <2>1 DEF TypeOK, Stream, table, data, States
  <2>2. CASE ~(old /\ (~LegacyAllowed \/ to = NoName))
    <3>1. /\ state' = [state EXCEPT ![c] = "stream"]
          /\ user' = [user EXCEPT ![c] = IF old THEN to ELSE NoName]
          /\ legacy' = [legacy EXCEPT ![c] = old]
      BY <1>2, <2>2 DEF Stream
    <3>2. LegacyNamed'
      BY <3>1, <2>2 DEF TypeOK
    <3>3. (IF old THEN to ELSE NoName) \in Names \cup {NoName}
      OBVIOUS
    <3>4. TypeOK'
      BY <1>2, <3>1, <3>3 DEF TypeOK, Stream, table, data, States
    <3>5. QED
      BY <3>2, <3>4
  <2>3. QED
    BY <2>1, <2>2
<1>3. ASSUME NEW c \in Comps, NEW u \in Users, Auth(c, u) PROVE TypeInv'
  BY <1>3 DEF TypeOK, Auth, table, data, States
<1>4. ASSUME NEW c \in Comps, HandshakeFail(c) \/ LegacyOpenAliased(c) \/ PeerClose(c) PROVE TypeInv'
  <2>1. /\ state' = [state EXCEPT ![c] = "closing"]
        /\ UNCHANGED <<pc, components, legacy, user, table, data, told, closefd>>
    BY <1>4 DEF HandshakeFail, LegacyOpenAliased, PeerClose
  <2>2. QED
    BY <2>1 DEF TypeOK, table, data, States
<1>5. ASSUME NEW c \in Comps, LegacyOpen(c) PROVE TypeInv'
  <2> DEFINE n == user[c]
             S == {n} \cup AliasesOf(n)
             r == [m \in Names |-> IF m \in S THEN RouteAdd(routes[m], c, 1) ELSE routes[m]]
  <2>1. \A m \in Names : RouteAdd(routes[m], c, 1) \in Seq(Comps)
    BY RouteAddType DEF TypeOK
  <2>2. r \in [Names -> Seq(Comps)]
    BY <2>1 DEF TypeOK
  <2>3. routes' = r
    BY <1>5 DEF LegacyOpen
  <2>4. n \in Names /\ S \subseteq Names
    BY <1>5 DEF LegacyOpen, AliasesOf
  <2>5. \E z \in SUBSET Names : czen' = [czen EXCEPT ![c] = z]
    <3>1. PICK z \in ZenPuts(ZenPut(czen[c], croutes[c], n), croutes[c] \cup {n}, AliasesOf(n)) :
              czen' = [czen EXCEPT ![c] = z]
      BY <1>5 DEF LegacyOpen
    <3>2. czen[c] \in SUBSET Names /\ AliasesOf(n) \in SUBSET Names
      BY DEF TypeOK, AliasesOf
    <3>3. z \in SUBSET Names
      BY <2>4, <3>1, <3>2, ZenType
    <3>4. QED
      BY <3>1, <3>3
  <2>6. told' = [d \in Comps |-> IF d \in Audience(r, c) THEN told[d] \cup S ELSE told[d]]
    BY <1>5 DEF LegacyOpen
  <2>7. told' \in [Comps -> SUBSET Names] /\ czen' \in [Comps -> SUBSET Names]
    BY <2>4, <2>5, <2>6 DEF TypeOK
  <2>8. croutes' \in [Comps -> SUBSET Names]
    BY <1>5, <2>4 DEF LegacyOpen, TypeOK
  <2>9. state' = [state EXCEPT ![c] = "open"] /\ UNCHANGED <<pc, components, legacy, user, default_route, log_sinks, data, closefd>>
    BY <1>5 DEF LegacyOpen
  <2>10. rtype' \in [Names -> {"SINGLE", "MULTI_TO", "MULTI_FROM"}]
    BY <1>5 DEF LegacyOpen, TypeOK
  <2> HIDE DEF r, S, n
  <2>11. QED
    BY <2>2, <2>3, <2>7, <2>8, <2>9, <2>10 DEF TypeOK, data, States
<1>6. ASSUME NEW c \in Comps, Closed(c) PROVE TypeInv'
  <2>1. PushCloseFd(c) \in Seq(Comps)
    BY DEF PushCloseFd, TypeOK
  <2>2. QED
    BY <1>6, <2>1 DEF TypeOK, Closed, table, data, States
<1>7. ASSUME NEW c \in Comps, NEW n \in Names, Unbind(c, n) PROVE TypeInv'
  <2>1. RouteRemove(routes[n], c) \in Seq(Comps)
    BY RouteRemoveType DEF TypeOK
  <2>2. routes' \in [Names -> Seq(Comps)]
    BY <1>7, <2>1 DEF Unbind, TypeOK
  <2>3. told' \in [Comps -> SUBSET Names]
    BY <1>7 DEF Unbind, TypeOK
  <2>4. QED
    BY <1>7, <2>2, <2>3 DEF TypeOK, Unbind, DropSinks, DropDefault, conn, data, States
<1>8. ASSUME NEW c \in Comps, NEW n \in Names, NEW multi \in BOOLEAN, NEW default \in BOOLEAN,
             NEW log \in BOOLEAN, BindLogRefused(c, n, multi, default, log)
      PROVE TypeInv'
  BY <1>8 DEF TypeOK, BindLogRefused, conn, data, States
<1>9. ASSUME NEW c \in Comps, NEW n \in Names, NEW multi \in BOOLEAN, NEW default \in BOOLEAN,
             NEW log \in BOOLEAN, Bind(c, n, multi, default, log)
      PROVE TypeInv'
  <2> DEFINE al == AliasesOf(n)
             r == [routes EXCEPT ![n] = RouteAdd(@, c, 1 + Cardinality(al))]
             others == {m \in Online(r) : ~InSeq(c, r[m])}
  <2>1. al \subseteq Names /\ IsFiniteSet(al)
    BY FS_Subset DEF AliasesOf
  <2>2. 1 + Cardinality(al) \in Nat
    BY <2>1, FS_CardinalityType
  <2>3. r \in [Names -> Seq(Comps)]
    BY <2>2, RouteAddType DEF TypeOK
  <2>4. routes' = r
    BY <1>9 DEF Bind
  <2>5. \E z \in SUBSET Names : czen' = [czen EXCEPT ![c] = z]
    <3>1. PICK z \in ZenPuts(ZenPut(czen[c], croutes[c], n), croutes[c] \cup {n}, al) :
              czen' = [czen EXCEPT ![c] = z]
      BY <1>9 DEF Bind
    <3>2. czen[c] \in SUBSET Names /\ al \in SUBSET Names
      BY <2>1 DEF TypeOK
    <3>3. z \in SUBSET Names
      BY <3>1, <3>2, ZenType
    <3>4. QED
      BY <3>1, <3>3
  <2>6. told' = [d \in Comps |->
                    IF d = c THEN told[c] \cup others
                    ELSE IF d \in Audience(r, c) THEN told[d] \cup {n} \cup al
                    ELSE told[d]]
    BY <1>9 DEF Bind
  <2>7. others \subseteq Names
    BY DEF Online
  <2> HIDE DEF others, r
  <2>8. told' \in [Comps -> SUBSET Names]
    BY <2>1, <2>6, <2>7 DEF TypeOK
  <2>9. czen' \in [Comps -> SUBSET Names] /\ croutes' \in [Comps -> SUBSET Names]
    BY <1>9, <2>1, <2>5 DEF TypeOK, Bind
  <2>10. /\ default_route' \in Names \cup {NoName}
         /\ log_sinks' \in [Names -> Comps \cup {NoComp}]
         /\ rtype' \in [Names -> {"SINGLE", "MULTI_TO", "MULTI_FROM"}]
    BY <1>9 DEF TypeOK, Bind, DefaultName
  <2>11. UNCHANGED <<pc, conn, data, closefd>>
    BY <1>9 DEF Bind
  <2>12. QED
    BY <2>3, <2>4, <2>8, <2>9, <2>10, <2>11 DEF TypeOK, conn, data
<1>10. ASSUME NEW c \in Comps, NEW from \in Names, NEW to \in Names, Unicast(c, from, to)
       PROVE TypeInv'
  <2>1. tq' \in [Comps -> Seq(Packet)] /\ sent' \in [Comps -> Seq(Packet)]
    BY <1>10, UnicastType
  <2>2. Routes(c)
    BY <1>10 DEF Unicast
  <2>3. QED
    BY <2>1, <2>2 DEF TypeOK, Routes, conn, table
<1>11. ASSUME NEW c \in Comps, NEW from \in Names, Broadcast(c, from) PROVE TypeInv'
  <2>1. Routes(c)
    BY <1>11 DEF Broadcast
  <2> DEFINE w == [d \in Comps |-> IF d \in components \ {c} THEN <<Pkt(c, "broadcast")>> ELSE <<>>]
  <2>2. Pkt(c, "broadcast") \in Packet
    BY <2>1, PktType
  <2>3. w \in [Comps -> Seq(Packet)]
    BY <2>2
  <2>4. BounceTo(c) \/ CompWrites(w)
    BY <1>11 DEF Broadcast
  <2> HIDE DEF w
  <2>5. tq' \in [Comps -> Seq(Packet)] /\ sent' \in [Comps -> Seq(Packet)]
    BY <2>1, <2>3, <2>4, BounceType, WritesType
  <2>6. QED
    BY <2>1, <2>5 DEF TypeOK, Routes, conn, table
<1>12. ASSUME NEW c \in Comps, Throttle(c) PROVE TypeInv'
  <2>1. tq[c] \in Seq(Packet) /\ sent[c] \in Seq(Packet)
    BY DEF TypeOK
  <2> HIDE DEF Packet
  <2>2. sent[c] \o tq[c] \in Seq(Packet)
    BY <2>1
  <2>3. sent' \in [Comps -> Seq(Packet)] /\ tq' \in [Comps -> Seq(Packet)]
    BY <1>12, <2>2 DEF Throttle, TypeOK
  <2>4. QED
    BY <1>12, <2>3 DEF TypeOK, Throttle, conn, table
<1>13. CASE MioDone \/ LoopAgain
  BY <1>13 DEF TypeOK, MioDone, LoopAgain, conn, table, data
<1>14. CASE CloseFd
  <2> DEFINE c == Head(closefd)
  <2>1. c \in Comps /\ Tail(closefd) \in Seq(Comps)
    BY <1>14 DEF CloseFd, TypeOK
  <2>2. PICK V \in WalkVisits(c) :
            LET newRoutes == [n \in Names |->
                                IF n \in V THEN RouteRemove(routes[n], c) ELSE routes[n]]
                gone == {n \in V : newRoutes[n] = <<>>}
            IN /\ routes' = newRoutes
               /\ log_sinks' = DropSinks(V)
               /\ default_route' = DropDefault(V)
               /\ told' = [d \in Comps |->
                                IF d = c THEN {}
                                ELSE IF d \in Audience(newRoutes, c) THEN told[d] \ gone
                                ELSE told[d]]
    BY <1>14 DEF CloseFd
  <2>3. \A n \in Names : RouteRemove(routes[n], c) \in Seq(Comps)
    BY RouteRemoveType DEF TypeOK
  <2>4. /\ routes' \in [Names -> Seq(Comps)]
        /\ log_sinks' \in [Names -> Comps \cup {NoComp}]
        /\ default_route' \in Names \cup {NoName}
    BY <2>2, <2>3 DEF TypeOK, DropSinks, DropDefault
  <2>5. told' \in [Comps -> SUBSET Names]
    BY <2>2 DEF TypeOK
  <2> HIDE DEF c
  <2>6. /\ components' = components \ {c}
        /\ state' = [state EXCEPT ![c] = "none"]
        /\ legacy' = [legacy EXCEPT ![c] = FALSE]
        /\ user' = [user EXCEPT ![c] = NoName]
        /\ croutes' = [croutes EXCEPT ![c] = {}]
        /\ czen' = [czen EXCEPT ![c] = {}]
        /\ throttled' = [throttled EXCEPT ![c] = FALSE]
        /\ tq' = [tq EXCEPT ![c] = <<>>]
        /\ sent' = [sent EXCEPT ![c] = <<>>]
        /\ closefd' = Tail(closefd)
        /\ UNCHANGED <<pc, rtype, npkt>>
    BY <1>14 DEF CloseFd, c
  <2>7. /\ components' \subseteq Comps /\ state' \in [Comps -> States] /\ legacy' \in [Comps -> BOOLEAN]
        /\ user' \in [Comps -> Users \cup Names \cup {NoName}]
    BY <2>1, <2>6 DEF TypeOK, States
  <2>8. croutes' \in [Comps -> SUBSET Names] /\ czen' \in [Comps -> SUBSET Names] /\ throttled' \in [Comps -> BOOLEAN]
    BY <2>1, <2>6 DEF TypeOK
  <2>9. tq' \in [Comps -> Seq(Packet)] /\ sent' \in [Comps -> Seq(Packet)]
    <3> HIDE DEF Packet
    <3>1. <<>> \in Seq(Packet)
      OBVIOUS
    <3>2. QED
      BY <2>1, <2>6, <3>1 DEF TypeOK
  <2>10. closefd' \in Seq(Comps) /\ pc' = pc /\ rtype' = rtype /\ npkt' = npkt
    BY <2>1, <2>6
  <2>11. TypeOK'
    BY <2>4, <2>5, <2>7, <2>8, <2>9, <2>10 DEF TypeOK
  <2>12. LegacyNamed'
    BY <2>1, <2>6 DEF TypeOK
  <2>13. QED
    BY <2>11, <2>12
<1>15. CASE UNCHANGED vars
  BY <1>15 DEF TypeOK, vars, conn, table, data
<1>16. QED
  BY <1>1, <1>2, <1>3, <1>4, <1>5, <1>6, <1>7, <1>8, <1>9, <1>10, <1>11, <1>12, <1>13, <1>14, <1>15
     DEF Next, MainLoop, Connection, Naming, Packets

(* Type correctness of the router: whatever components do, the tables hold *)
(* lists of components, the queues hold packets.                           *)
THEOREM TypeCorrect == Spec => []TypeOK
<1>1. Init => TypeInv
  BY RouterAssumption DEF Init, TypeInv, TypeOK, LegacyNamed, States
<1>2. TypeInv => TypeOK
  BY DEF TypeInv
<1>3. QED
  BY <1>1, <1>2, TypeStep, PTL DEF Spec

-----------------------------------------------------------------------------
(* The route table under well-behaved components.  Tame excludes the three *)
(* situations in which runs show RoutesValid or BoundRouted to fail: a     *)
(* name bound twice over one connection, a configured alias, and three     *)
(* names in one bucket of a component's own hash.                          *)
Tame ==
    /\ WellBehaved
    /\ Aliases = {}
    /\ \A a, b, c \in Names :
          Bucket[a] = Bucket[b] /\ Bucket[b] = Bucket[c] => a = b \/ b = c \/ a = c

(* A component is entered at most once under one name.                     *)
NoRepeats ==
    \A n \in Names : \A i, j \in DOMAIN routes[n] : routes[n][i] = routes[n][j] => i = j

(* The array cells of a component's hash: a chained name always has a cell *)
(* of its bucket before it.                                                *)
CellsFirst ==
    \A c \in Comps :
        /\ czen[c] \subseteq croutes[c]
        /\ \A n \in croutes[c] : \E m \in czen[c] : Bucket[m] = Bucket[n]

(* Names are held only by registered components past their handshake.      *)
HoldersOpen ==
    \A c \in Comps :
        /\ state[c] # "none" => c \in components
        /\ croutes[c] # {} => c \in components /\ state[c] \in {"open", "closing", "closed"}

TableInv ==
    /\ TypeInv
    /\ RoutesValid
    /\ BoundRouted
    /\ NoRepeats
    /\ CellsFirst
    /\ HoldersOpen
    /\ LogSinksLive

(* The only position of a list that is not longer than one.               *)
LEMMA OnlyOne ==
    ASSUME NEW l \in Nat, NEW k \in 1..l, ~(l > 1)
    PROVE  l = 1 /\ k = 1
OBVIOUS

(* _route_remove on a list without repetitions removes exactly the one     *)
(* entry asked for, and nobody else is lost although the last entry moves. *)
LEMMA RemoveOne ==
    ASSUME NEW S, NEW s \in Seq(S), NEW c, InSeq(c, s),
           \A i, j \in DOMAIN s : s[i] = s[j] => i = j
    PROVE  LET r == RouteRemove(s, c)
           IN /\ r \in Seq(S)
              /\ \A i \in DOMAIN r : r[i] # c /\ InSeq(r[i], s)
              /\ \A i, j \in DOMAIN r : r[i] = r[j] => i = j
              /\ \A d : InSeq(d, s) /\ d # c => InSeq(d, r)
<1> DEFINE r == RouteRemove(s, c)
<1>1. PICK k \in DOMAIN s : s[k] = c
  BY DEF InSeq
<1>2. r \in Seq(S)
  BY RouteRemoveType
<1>3. CASE ~(Len(s) > 1)
  <2>1. r = <<>>
    BY <1>3 DEF RouteRemove
  <2>a. k \in 1..Len(s) /\ Len(s) \in Nat
    OBVIOUS
  <2>2. Len(s) = 1 /\ k = 1
    BY <1>3, <2>a, OnlyOne
  <2>3. \A d : InSeq(d, s) => d = c
    BY <1>1, <2>2 DEF InSeq
  <2>4. DOMAIN r = {}
    BY <2>1
  <2>5. QED
    BY <1>2, <2>3, <2>4
<1>4. CASE Len(s) > 1
  <2>1. Before(s, k, c) = 0
    <3>1. {j \in 1..(k - 1) : s[j] = c} = {}
      BY <1>1
    <3>2. QED
      BY <3>1, FS_EmptySet DEF Before
  <2>2. Hits(s, c) = {k}
    <3>1. k + Before(s, k, c) <= Len(s)
      BY <1>1, <2>1
    <3>2. \A i \in DOMAIN s : s[i] = c => i = k
      BY <1>1
    <3>3. QED
      BY <1>1, <3>1, <3>2 DEF Hits
  <2>3. Cardinality(Hits(s, c)) = 1
    BY <2>2, FS_Singleton
  <2>4. r = [i \in 1..(Len(s) - 1) |-> IF i = k THEN s[Len(s)] ELSE s[i]]
    <3>1. \A i \in 1..(Len(s) - 1) :
             (IF i \in Hits(s, c) THEN s[Len(s) - Before(s, i, c)] ELSE s[i])
                 = (IF i = k THEN s[Len(s)] ELSE s[i])
      BY <2>1, <2>2
    <3>2. r = SwapRemove(s, c)
      BY <1>4 DEF RouteRemove
    <3>3. SwapRemove(s, c) = [i \in 1..(Len(s) - 1) |->
             IF i \in Hits(s, c) THEN s[Len(s) - Before(s, i, c)] ELSE s[i]]
      BY <2>3 DEF SwapRemove
    <3>4. QED
      BY <3>1, <3>2, <3>3
  <2> HIDE DEF r
  <2>5. DOMAIN r = 1..(Len(s) - 1) /\ \A i \in DOMAIN r : r[i] = IF i = k THEN s[Len(s)] ELSE s[i]
    BY <2>4
  <2>6. \A i \in DOMAIN r : r[i] # c /\ InSeq(r[i], s)
    BY <1>1, <1>4, <2>5 DEF InSeq
  <2>7. \A i, j \in DOMAIN r : r[i] = r[j] => i = j
    BY <1>1, <1>4, <2>5
  <2>8. ASSUME NEW d, InSeq(d, s), d # c PROVE InSeq(d, r)
    <3>1. PICK i \in DOMAIN s : s[i] = d
      BY <2>8 DEF InSeq
    <3>2. CASE i = Len(s)
      <4>1. k # Len(s)
        BY <1>1, <2>8, <3>1, <3>2
      <4>2. k \in DOMAIN r /\ r[k] = d
        BY <1>1, <2>5, <3>1, <3>2, <4>1
      <4>3. QED
        BY <4>2 DEF InSeq
    <3>3. CASE i # Len(s)
      <4>1. i \in DOMAIN r /\ r[i] = d
        BY <1>1, <2>5, <2>8, <3>1, <3>3
      <4>2. QED
        BY <4>1 DEF InSeq
    <3>4. QED
      BY <3>2, <3>3
  <2>9. QED
    BY <1>2, <2>6, <2>7, <2>8 DEF r
<1>5. QED
  BY <1>3, <1>4

(* _route_add appends one entry.                                           *)
LEMMA AddOne ==
    ASSUME NEW S, NEW s \in Seq(S), NEW c \in S
    PROVE  LET r == RouteAdd(s, c, 1)
           IN /\ \A i \in DOMAIN r : r[i] = c \/ InSeq(r[i], s)
              /\ InSeq(c, r)
              /\ \A d : InSeq(d, s) => InSeq(d, r)
              /\ (~InSeq(c, s) /\ \A i, j \in DOMAIN s : s[i] = s[j] => i = j)
                    => \A i, j \in DOMAIN r : r[i] = r[j] => i = j
<1> DEFINE r == RouteAdd(s, c, 1)
           one == [i \in 1..1 |-> c]
<1>1. one \in Seq(S) /\ Len(one) = 1 /\ one[1] = c
  <2>1. one \in [1..1 -> S]
    OBVIOUS
  <2>2. one \in Seq(S)
    BY <2>1, SeqDef
  <2>3. QED
    BY <2>1, <2>2
<1> HIDE DEF one
<1>2. r = s \o one
  BY DEF RouteAdd, one
<1>3. /\ DOMAIN r = 1..(Len(s) + 1)
      /\ \A i \in 1..Len(s) : r[i] = s[i]
      /\ r[Len(s) + 1] = c
  <2> HIDE DEF r
  <2>1. /\ Len(r) = Len(s) + Len(one)
        /\ \A i \in 1..(Len(s) + Len(one)) :
              r[i] = IF i <= Len(s) THEN s[i] ELSE one[i - Len(s)]
        /\ r \in Seq(S)
    BY <1>1, <1>2, ConcatProperties
  <2>2. DOMAIN r = 1..Len(r) /\ Len(s) \in Nat
    BY <2>1
  <2>3. QED
    BY <1>1, <2>1, <2>2
<1> HIDE DEF r
<1>4. DOMAIN s = 1..Len(s) /\ Len(s) \in Nat
  OBVIOUS
<1>5. \A i \in DOMAIN r : i \in DOMAIN s \/ i = Len(s) + 1
  BY <1>3, <1>4
<1>6. \A i \in DOMAIN r : r[i] = c \/ InSeq(r[i], s)
  BY <1>3, <1>4, <1>5 DEF InSeq
<1>7. InSeq(c, r)
  BY <1>3, <1>4 DEF InSeq
<1>8. \A d : InSeq(d, s) => InSeq(d, r)
  BY <1>3, <1>4 DEF InSeq
<1>9. ASSUME ~InSeq(c, s), \A i, j \in DOMAIN s : s[i] = s[j] => i = j,
             NEW i \in DOMAIN r, NEW j \in DOMAIN r, r[i] = r[j]
      PROVE  i = j
  BY <1>3, <1>4, <1>5, <1>9 DEF InSeq
<1>10. QED
  BY <1>6, <1>7, <1>8, <1>9 DEF r

(* With at most two names in a bucket the walk over comp->routes that      *)
(* unbinds each name as it meets it misses none.                           *)
LEMMA WalkComplete ==
    ASSUME Tame, TypeInv, CellsFirst, NEW c \in Comps, NEW V \in WalkVisits(c)
    PROVE  V = croutes[c]
<1>1. PICK Q \in SUBSET (croutes[c] \ czen[c]) :
        /\ V = czen[c] \cup Q
        /\ \A n \in croutes[c] \ czen[c] : \E m \in Q : Bucket[m] = Bucket[n]
  BY DEF WalkVisits
<1>2. croutes[c] \subseteq Names /\ czen[c] \subseteq croutes[c]
  BY DEF TypeInv, TypeOK, CellsFirst
<1>3. ASSUME NEW n \in croutes[c] \ czen[c] PROVE n \in Q
  <2>1. PICK m \in Q : Bucket[m] = Bucket[n]
    BY <1>1
  <2>2. PICK z \in czen[c] : Bucket[z] = Bucket[n]
    BY DEF CellsFirst
  <2>3. QED
    BY <1>1, <1>2, <2>1, <2>2 DEF Tame
<1>4. QED
  BY <1>1, <1>2, <1>3

(* Binding without aliases adds the one name, to its bucket's cell when    *)
(* that is free.                                                           *)
LEMMA BindCells ==
    ASSUME Tame, TypeInv, CellsFirst, NEW c \in Comps, NEW n \in Names,
           croutes' = [croutes EXCEPT ![c] = @ \cup {n}],
           NEW z \in ZenPuts(ZenPut(czen[c], croutes[c], n), croutes[c] \cup {n}, {}),
           czen' = [czen EXCEPT ![c] = z]
    PROVE  CellsFirst'
<1>1. z = ZenPut(czen[c], croutes[c], n)
  BY DEF ZenPuts
<1>2. czen[c] \subseteq croutes[c] /\ \A x \in croutes[c] : \E m \in czen[c] : Bucket[m] = Bucket[x]
  BY DEF CellsFirst
<1>3. z \subseteq croutes[c] \cup {n} /\ czen[c] \subseteq z
  BY <1>1, <1>2 DEF ZenPut
<1>4. \E m \in z : Bucket[m] = Bucket[n]
  BY <1>1, <1>2 DEF ZenPut, BucketFree
<1>5. croutes'[c] = croutes[c] \cup {n} /\ czen'[c] = z
  BY DEF TypeInv, TypeOK
<1>6. \A d \in Comps \ {c} : croutes'[d] = croutes[d] /\ czen'[d] = czen[d]
  BY DEF TypeInv, TypeOK
<1>7. \A x \in croutes'[c] : \E m \in czen'[c] : Bucket[m] = Bucket[x]
  BY <1>2, <1>3, <1>4, <1>5
<1>8. QED
  BY <1>3, <1>5, <1>6, <1>7 DEF CellsFirst

(* A name new to a component and added to both tables keeps them inverse.  *)
LEMMA BindTables ==
    ASSUME TableInv, NEW c \in Comps, NEW n \in Names, c \in components, n \notin croutes[c],
           components' = components,
           routes' = [routes EXCEPT ![n] = RouteAdd(@, c, 1)],
           croutes' = [croutes EXCEPT ![c] = @ \cup {n}]
    PROVE  RoutesValid' /\ BoundRouted' /\ NoRepeats'
<1> DEFINE s == routes[n]
           r == RouteAdd(s, c, 1)
<1>1. s \in Seq(Comps) /\ \A i, j \in DOMAIN s : s[i] = s[j] => i = j
  BY DEF TableInv, TypeInv, TypeOK, NoRepeats
<1>2. ~InSeq(c, s)
  BY DEF TableInv, RoutesValid, InSeq
<1>3. routes'[n] = r /\ \A m \in Names \ {n} : routes'[m] = routes[m]
  BY DEF TableInv, TypeInv, TypeOK
<1>4. croutes'[c] = croutes[c] \cup {n} /\ \A d \in Comps \ {c} : croutes'[d] = croutes[d]
  BY DEF TableInv, TypeInv, TypeOK
<1>5. /\ \A i \in DOMAIN r : r[i] = c \/ InSeq(r[i], s)
      /\ InSeq(c, r)
      /\ \A d : InSeq(d, s) => InSeq(d, r)
      /\ \A i, j \in DOMAIN r : r[i] = r[j] => i = j
  BY <1>1, <1>2, AddOne
<1> HIDE DEF r
<1>6. \A d : InSeq(d, s) => d \in components /\ d \in Comps /\ n \in croutes[d]
  BY <1>1 DEF TableInv, RoutesValid, InSeq
<1>7. RoutesValid'
  <2> SUFFICES ASSUME NEW m \in Names, NEW i \in DOMAIN routes'[m]
               PROVE  routes'[m][i] \in components' /\ m \in croutes'[routes'[m][i]]
    BY DEF RoutesValid
  <2>1. CASE m = n
    BY <1>3, <1>4, <1>5, <1>6, <2>1
  <2>2. CASE m # n
    <3>1. routes[m][i] \in components /\ m \in croutes[routes[m][i]] /\ routes[m][i] \in Comps
      BY <1>3, <2>2 DEF TableInv, RoutesValid, TypeInv, TypeOK
    <3>2. QED
      BY <1>3, <1>4, <2>2, <3>1
  <2>3. QED
    BY <2>1, <2>2
<1>8. BoundRouted'
  <2> SUFFICES ASSUME NEW d \in Comps, NEW m \in croutes'[d]
               PROVE  InSeq(d, routes'[m])
    BY DEF BoundRouted, InSeq
  <2>1. m \in Names
    BY <1>4 DEF TableInv, TypeInv, TypeOK
  <2>2. CASE d = c /\ m = n
    BY <1>3, <1>5, <2>2
  <2>3. CASE ~(d = c /\ m = n)
    <3>1. InSeq(d, routes[m])
      BY <1>4, <2>3 DEF TableInv, BoundRouted
    <3>2. QED
      BY <1>3, <1>5, <2>1, <3>1
  <2>4. QED
    BY <2>2, <2>3
<1>9. NoRepeats'
  BY <1>3, <1>5 DEF NoRepeats, TableInv
<1>10. QED
  BY <1>7, <1>8, <1>9

(* action_CLOSE takes the component out of every list it is in.            *)
LEMMA CloseTables ==
    ASSUME TableInv, NEW c \in Comps,
           components' = components \ {c},
           croutes' = [croutes EXCEPT ![c] = {}],
           routes' = [n \in Names |->
               IF n \in croutes[c] THEN RouteRemove(routes[n], c) ELSE routes[n]]
    PROVE  RoutesValid' /\ BoundRouted' /\ NoRepeats'
<1>1. ASSUME NEW n \in Names
      PROVE  /\ \A i \in DOMAIN routes'[n] : routes'[n][i] # c /\ InSeq(routes'[n][i], routes[n])
             /\ \A i, j \in DOMAIN routes'[n] : routes'[n][i] = routes'[n][j] => i = j
             /\ \A d : InSeq(d, routes[n]) /\ d # c => InSeq(d, routes'[n])
  <2> DEFINE s == routes[n]
  <2>1. s \in Seq(Comps) /\ \A i, j \in DOMAIN s : s[i] = s[j] => i = j
    BY DEF TableInv, TypeInv, TypeOK, NoRepeats
  <2>2. CASE n \in croutes[c]
    <3>1. InSeq(c, s)
      BY <2>2 DEF TableInv, BoundRouted
    <3>2. routes'[n] = RouteRemove(s, c)
      BY <2>2
    <3> HIDE DEF s
    <3>3. QED
      BY <2>1, <3>1, <3>2, RemoveOne DEF s
  <2>3. CASE n \notin croutes[c]
    <3>1. routes'[n] = s
      BY <2>3
    <3>2. \A i \in DOMAIN s : s[i] # c
      BY <2>3 DEF TableInv, RoutesValid
    <3>3. QED
      BY <2>1, <3>1, <3>2 DEF InSeq
  <2>4. QED
    BY <2>2, <2>3
<1>2. croutes'[c] = {} /\ \A d \in Comps \ {c} : croutes'[d] = croutes[d]
  BY DEF TableInv, TypeInv, TypeOK
<1>3. \A n \in Names : \A d : InSeq(d, routes[n]) => d \in Comps /\ d \in components /\ n \in croutes[d]
  BY DEF TableInv, RoutesValid, TypeInv, TypeOK, InSeq
<1>4. RoutesValid'
  BY <1>1, <1>2, <1>3 DEF RoutesValid
<1>5. BoundRouted'
  <2> SUFFICES ASSUME NEW d \in Comps, NEW m \in croutes'[d]
               PROVE  InSeq(d, routes'[m])
    BY DEF BoundRouted, InSeq
  <2>1. d # c /\ m \in croutes[d] /\ m \in Names
    BY <1>2 DEF TableInv, TypeInv, TypeOK
  <2>2. InSeq(d, routes[m])
    BY <2>1 DEF TableInv, BoundRouted
  <2>3. QED
    BY <1>1, <2>1, <2>2
<1>6. NoRepeats'
  BY <1>1 DEF NoRepeats
<1>7. QED
  BY <1>4, <1>5, <1>6

(* Steps that touch neither table: only who is registered, and in which    *)
(* stream state, has to stay in line with them.                            *)
LEMMA QuietStep ==
    ASSUME TableInv, TypeInv', HoldersOpen', components \subseteq components',
           UNCHANGED <<croutes, czen, routes, log_sinks>>
    PROVE  TableInv'
<1>1. RoutesValid' /\ BoundRouted' /\ NoRepeats' /\ CellsFirst' /\ LogSinksLive'
  BY DEF TableInv, RoutesValid, BoundRouted, NoRepeats, CellsFirst, LogSinksLive, InSeq
<1>2. QED
  BY <1>1 DEF TableInv

(* Every step of the router keeps the route table and the components' own  *)
(* tables inverse to each other.                                           *)
LEMMA TableStep == Tame /\ TableInv /\ [Next]_vars => TableInv'
<1> SUFFICES ASSUME Tame, TableInv, [Next]_vars PROVE TableInv'
  OBVIOUS
<1>0. TypeInv /\ TypeInv'
  BY TypeStep DEF TableInv
<1>1. state \in [Comps -> States] /\ croutes \in [Comps -> SUBSET Names]
  BY <1>0 DEF TypeInv, TypeOK
<1>2. HoldersOpen
  BY DEF TableInv
<1>3. ASSUME NEW c \in Comps, Accept(c) PROVE TableInv'
  <2>1. HoldersOpen'
    BY <1>1, <1>2, <1>3 DEF Accept, HoldersOpen, table
  <2>2. QED
    BY <1>0, <1>3, <2>1, QuietStep DEF Accept, table
<1>4. ASSUME NEW c \in Comps, NEW new \in {"stream", "open", "closing", "closed"},
             state' = [state EXCEPT ![c] = new], c \in components,
             croutes[c] # {} => new \in {"open", "closing", "closed"},
             UNCHANGED <<components, table>>
      PROVE  TableInv'
  <2>1. HoldersOpen'
    BY <1>1, <1>2, <1>4 DEF HoldersOpen, table
  <2>2. QED
    BY <1>0, <1>4, <2>1, QuietStep DEF table
<1>5. ASSUME NEW c \in Comps, NEW old \in BOOLEAN, NEW to \in Names \cup {NoName}, Stream(c, old, to)
      PROVE  TableInv'
  <2>1. c \in components /\ croutes[c] = {}
    BY <1>2, <1>5 DEF Stream, HoldersOpen
  <2>2. \/ state' = [state EXCEPT ![c] = "closing"]
        \/ state' = [state EXCEPT ![c] = "stream"]
    BY <1>5 DEF Stream
  <2>3. UNCHANGED <<components, table>>
    BY <1>5 DEF Stream
  <2>4. QED
    BY <1>4, <2>1, <2>2, <2>3
<1>6. ASSUME NEW c \in Comps, NEW u \in Users, Auth(c, u) PROVE TableInv'
  <2>1. c \in components /\ state' = [state EXCEPT ![c] = "open"] /\ UNCHANGED <<components, table>>
    BY <1>2, <1>6 DEF Auth, HoldersOpen
  <2>2. QED
    BY <1>4, <2>1
<1>7. ASSUME NEW c \in Comps, HandshakeFail(c) \/ LegacyOpenAliased(c) \/ PeerClose(c)
      PROVE  TableInv'
  <2>1. /\ c \in components
        /\ state' = [state EXCEPT ![c] = "closing"]
        /\ UNCHANGED <<components, table>>
    BY <1>2, <1>7 DEF HandshakeFail, LegacyOpenAliased, PeerClose, HoldersOpen
  <2>2. QED
    BY <1>4, <2>1
<1>8. ASSUME NEW c \in Comps, Closed(c) PROVE TableInv'
  <2>1. c \in components /\ state' = [state EXCEPT ![c] = "closed"] /\ UNCHANGED <<components, table>>
    BY <1>8 DEF Closed
  <2>2. QED
    BY <1>4, <2>1
<1>9. ASSUME NEW c \in Comps, NEW n \in Names, c \in components, n \notin croutes[c],
             components' = components,
             state' = [state EXCEPT ![c] = "open"],
             routes' = [routes EXCEPT ![n] = RouteAdd(@, c, 1)],
             croutes' = [croutes EXCEPT ![c] = @ \cup {n}],
             NEW z \in ZenPuts(ZenPut(czen[c], croutes[c], n), croutes[c] \cup {n}, {}),
             czen' = [czen EXCEPT ![c] = z],
             log_sinks' = log_sinks \/ log_sinks' = [log_sinks EXCEPT ![n] = c]
      PROVE  TableInv'
  <2>1. RoutesValid' /\ BoundRouted' /\ NoRepeats'
    BY <1>9, BindTables
  <2>2. CellsFirst'
    BY <1>0, <1>9, BindCells DEF TableInv
  <2>3. HoldersOpen'
    BY <1>1, <1>2, <1>9 DEF HoldersOpen
  <2>4. LogSinksLive'
    <3>1. /\ croutes'[c] = croutes[c] \cup {n}
          /\ \A d \in Comps \ {c} : croutes'[d] = croutes[d]
          /\ log_sinks \in [Names -> Comps \cup {NoComp}]
      BY <1>0, <1>1, <1>9 DEF TypeInv, TypeOK
    <3>2. \A m \in Names : log_sinks[m] # NoComp =>
              log_sinks[m] \in components /\ m \in croutes'[log_sinks[m]]
      BY <3>1 DEF TableInv, LogSinksLive
    <3>3. n \in croutes'[c]
      BY <3>1
    <3>4. QED
      BY <1>9, <3>1, <3>2, <3>3 DEF LogSinksLive
  <2>5. QED
    BY <1>0, <2>1, <2>2, <2>3, <2>4 DEF TableInv
<1>10. \A n \in Names : AliasesOf(n) = {} /\ Cardinality(AliasesOf(n)) = 0 /\ 1 + Cardinality(AliasesOf(n)) = 1
  BY FS_EmptySet DEF Tame, AliasesOf
<1>11. ASSUME NEW c \in Comps, LegacyOpen(c) PROVE TableInv'
  <2> DEFINE n == user[c]
  <2>1. n \in Names /\ AliasesOf(n) = {}
    BY <1>0, <1>10, <1>11 DEF LegacyOpen, TypeInv, LegacyNamed
  <2>2. c \in components /\ croutes[c] = {}
    BY <1>2, <1>11 DEF LegacyOpen, HoldersOpen
  <2>3. routes' = [m \in Names |-> IF m \in {n} \cup AliasesOf(n) THEN RouteAdd(routes[m], c, 1) ELSE routes[m]]
    BY <1>11 DEF LegacyOpen
  <2>4. routes' = [routes EXCEPT ![n] = RouteAdd(@, c, 1)]
    BY <1>0, <2>1, <2>3 DEF TypeInv, TypeOK
  <2>5. PICK z \in ZenPuts(ZenPut(czen[c], croutes[c], n), croutes[c] \cup {n}, AliasesOf(n)) :
            czen' = [czen EXCEPT ![c] = z]
    BY <1>11 DEF LegacyOpen
  <2>6. /\ components' = components /\ log_sinks' = log_sinks
        /\ state' = [state EXCEPT ![c] = "open"]
        /\ croutes' = [croutes EXCEPT ![c] = @ \cup {n} \cup AliasesOf(n)]
    BY <1>11 DEF LegacyOpen
  <2>7. croutes' = [croutes EXCEPT ![c] = @ \cup {n}]
    BY <2>1, <2>6
  <2> HIDE DEF n
  <2>8. QED
    BY <1>9, <2>1, <2>2, <2>4, <2>5, <2>6, <2>7
<1>12. ASSUME NEW c \in Comps, NEW n \in Names, NEW multi \in BOOLEAN, NEW default \in BOOLEAN,
              NEW log \in BOOLEAN, Bind(c, n, multi, default, log)
       PROVE  TableInv'
  <2>1. c \in components /\ n \notin croutes[c] /\ state[c] = "open"
    BY <1>2, <1>12 DEF Bind, Asks, HoldersOpen, Tame
  <2>2. routes' = [routes EXCEPT ![n] = RouteAdd(@, c, 1 + Cardinality(AliasesOf(n)))]
    BY <1>12 DEF Bind
  <2>3. routes' = [routes EXCEPT ![n] = RouteAdd(@, c, 1)]
    BY <1>10, <2>2
  <2>4. PICK z \in ZenPuts(ZenPut(czen[c], croutes[c], n), croutes[c] \cup {n}, AliasesOf(n)) :
            czen' = [czen EXCEPT ![c] = z]
    BY <1>12 DEF Bind
  <2>5. /\ UNCHANGED conn
        /\ log_sinks' = log_sinks \/ log_sinks' = [log_sinks EXCEPT ![n] = c]
        /\ croutes' = [croutes EXCEPT ![c] = @ \cup {n} \cup AliasesOf(n)]
    BY <1>12 DEF Bind
  <2>6. croutes' = [croutes EXCEPT ![c] = @ \cup {n}]
    BY <1>10, <2>5
  <2>7. state' = [state EXCEPT ![c] = "open"] /\ components' = components
    BY <1>1, <2>1, <2>5 DEF conn
  <2>8. QED
    BY <1>9, <1>10, <2>1, <2>3, <2>4, <2>5, <2>6, <2>7
<1>13. ASSUME NEW c \in Comps, NEW n \in Names, Unbind(c, n) PROVE TableInv'
  BY <1>13 DEF Unbind, Tame
<1>14. ASSUME UNCHANGED <<conn, croutes, czen, routes, log_sinks>> PROVE TableInv'
  <2>1. HoldersOpen'
    BY <1>2, <1>14 DEF HoldersOpen, conn
  <2>2. QED
    BY <1>0, <1>14, <2>1, QuietStep DEF conn
<1>15. ASSUME NEW c \in Comps, NEW n \in Names, NEW multi \in BOOLEAN, NEW default \in BOOLEAN,
              NEW log \in BOOLEAN, BindLogRefused(c, n, multi, default, log)
       PROVE  TableInv'
  BY <1>14, <1>15 DEF BindLogRefused
<1>16. ASSUME NEW c \in Comps, Packets(c) PROVE TableInv'
  <2>1. UNCHANGED <<conn, table>>
    BY <1>16 DEF Packets, Unicast, Broadcast, Throttle, Routes
  <2>2. QED
    BY <1>14, <2>1 DEF table
<1>17. CASE MioDone \/ LoopAgain \/ UNCHANGED vars
  BY <1>14, <1>17 DEF MioDone, LoopAgain, vars, table
<1>18. CASE CloseFd
  <2> DEFINE c == Head(closefd)
  <2>1. c \in Comps
    BY <1>0, <1>18 DEF CloseFd, TypeInv, TypeOK
  <2>2. PICK V \in WalkVisits(c) :
          /\ routes' = [n \in Names |-> IF n \in V THEN RouteRemove(routes[n], c) ELSE routes[n]]
          /\ log_sinks' = [n \in Names |-> IF n \in V THEN NoComp ELSE log_sinks[n]]
    BY <1>18 DEF CloseFd, DropSinks
  <2>3. V = croutes[c]
    BY <2>1, WalkComplete DEF TableInv
  <2>4. /\ components' = components \ {c}
        /\ state' = [state EXCEPT ![c] = "none"]
        /\ croutes' = [croutes EXCEPT ![c] = {}]
        /\ czen' = [czen EXCEPT ![c] = {}]
    BY <1>18 DEF CloseFd
  <2> HIDE DEF c
  <2>5. RoutesValid' /\ BoundRouted' /\ NoRepeats'
    BY <2>1, <2>2, <2>3, <2>4, CloseTables
  <2>6. CellsFirst'
    BY <1>0, <2>1, <2>4 DEF CellsFirst, TableInv, TypeInv, TypeOK
  <2>7. HoldersOpen'
    BY <1>1, <1>2, <2>1, <2>4 DEF HoldersOpen
  <2>8. LogSinksLive'
    <3>1. \A n \in Names : log_sinks'[n] # NoComp =>
            log_sinks'[n] \in components /\ log_sinks'[n] \in Comps /\ n \in croutes[log_sinks'[n]] /\ log_sinks'[n] # c
      BY <1>0, <2>2, <2>3 DEF TableInv, LogSinksLive, TypeInv, TypeOK
    <3>2. QED
      BY <1>1, <2>1, <2>4, <3>1 DEF LogSinksLive
  <2>9. QED
    BY <1>0, <2>5, <2>6, <2>7, <2>8 DEF TableInv
<1>19. QED
  BY <1>3, <1>5, <1>6, <1>7, <1>8, <1>11, <1>12, <1>13, <1>15, <1>16, <1>17, <1>18
     DEF Next, MainLoop, Connection, Naming

(* So the invariant holds throughout.                                      *)
LEMMA TableAlways == ASSUME Tame PROVE Spec => []TableInv
<1>1. Init => TableInv
  <2>1. Init => TypeInv
    BY RouterAssumption DEF Init, TypeInv, TypeOK, LegacyNamed, States
  <2>2. QED
    BY <2>1 DEF Init, TableInv, RoutesValid, BoundRouted, NoRepeats, CellsFirst, HoldersOpen,
                LogSinksLive
<1>2. TableInv /\ [Next]_vars => TableInv'
  BY TableStep
<1>3. QED
  BY <1>1, <1>2, PTL DEF Spec

(* The route table of router.h holds "valid routes": with well-behaved     *)
(* components no entry of it ever points to a component that is gone.      *)
THEOREM RoutesStayValid == ASSUME Tame PROVE Spec => []RoutesValid
<1>1. TableInv => RoutesValid
  BY DEF TableInv
<1>2. QED
  BY <1>1, TableAlways, PTL

(* And no name a component holds is ever routed past it: _route_remove     *)
(* moves other components' entries but loses none of them.                 *)
THEOREM BoundStaysRouted == ASSUME Tame PROVE Spec => []BoundRouted
<1>1. TableInv => BoundRouted
  BY DEF TableInv
<1>2. QED
  BY <1>1, TableAlways, PTL

(* A log sink is deregistered with its component.                          *)
THEOREM LogSinksStayLive == ASSUME Tame PROVE Spec => []LogSinksLive
<1>1. TableInv => LogSinksLive
  BY DEF TableInv
<1>2. QED
  BY <1>1, TableAlways, PTL

-----------------------------------------------------------------------------
(* The queue of descriptors to close, whatever components do               *)

CloseInv == TypeInv /\ CloseOnce

(* Only event_CLOSED of a registered component adds to the queue, and only *)
(* what is not in it; only its head is closed and deregistered.            *)
LEMMA CloseStep == CloseInv /\ [Next]_vars => CloseInv'
<1> SUFFICES ASSUME CloseInv, [Next]_vars PROVE CloseOnce'
  BY TypeStep DEF CloseInv
<1>1. closefd \in Seq(Comps) /\ CloseOnce
  BY DEF CloseInv, TypeInv, TypeOK
<1>2. CASE closefd' = closefd /\ components \subseteq components'
  BY <1>1, <1>2 DEF CloseOnce
<1>3. ASSUME NEW c \in Comps, Closed(c) PROVE CloseOnce'
  <2>1. c \in components /\ components' = components /\ closefd' = PushCloseFd(c)
    BY <1>3 DEF Closed
  <2>2. CASE InSeq(c, closefd)
    BY <1>2, <2>1, <2>2 DEF PushCloseFd
  <2>3. CASE ~InSeq(c, closefd)
    <3>1. closefd' = Append(closefd, c)
      BY <2>1, <2>3 DEF PushCloseFd
    <3>2. /\ DOMAIN closefd' = 1..(Len(closefd) + 1)
          /\ \A i \in 1..Len(closefd) : closefd'[i] = closefd[i]
          /\ closefd'[Len(closefd) + 1] = c
      BY <1>1, <3>1
    <3>3. DOMAIN closefd = 1..Len(closefd) /\ Len(closefd) \in Nat
      BY <1>1
    <3>4. \A i \in DOMAIN closefd' : i \in DOMAIN closefd \/ i = Len(closefd) + 1
      BY <3>2, <3>3
    <3>5. QED
      BY <1>1, <2>1, <2>3, <3>2, <3>3, <3>4 DEF CloseOnce, InSeq
  <2>4. QED
    BY <2>2, <2>3
<1>4. CASE CloseFd
  <2>1. closefd # <<>> /\ closefd' = Tail(closefd) /\ components' = components \ {Head(closefd)}
    BY <1>4 DEF CloseFd
  <2>2. /\ DOMAIN closefd' = 1..(Len(closefd) - 1)
        /\ \A i \in DOMAIN closefd' : closefd'[i] = closefd[i + 1]
        /\ DOMAIN closefd = 1..Len(closefd)
        /\ Len(closefd) \in Nat
        /\ Head(closefd) = closefd[1]
    BY <1>1, <2>1
  <2>3. \A i \in DOMAIN closefd' : i \in Nat /\ i + 1 \in DOMAIN closefd /\ i + 1 # 1 /\ 1 \in DOMAIN closefd
    BY <2>2
  <2>4. \A i \in DOMAIN closefd' : closefd'[i] \in components /\ closefd'[i] # Head(closefd)
    BY <1>1, <2>2, <2>3 DEF CloseOnce
  <2>5. \A i, j \in DOMAIN closefd' : closefd'[i] = closefd'[j] => i + 1 = j + 1
    BY <1>1, <2>2, <2>3 DEF CloseOnce
  <2>6. \A i, j \in DOMAIN closefd' : closefd'[i] = closefd'[j] => i = j
    BY <2>3, <2>5
  <2>7. QED
    BY <2>1, <2>4, <2>6 DEF CloseOnce
<1>5. CASE MioDone \/ LoopAgain \/ UNCHANGED vars
  BY <1>2, <1>5 DEF MioDone, LoopAgain, vars, conn
<1>6. ASSUME NEW c \in Comps, Connection(c), ~Closed(c) PROVE CloseOnce'
  <2>1. closefd' = closefd /\ components \subseteq components'
    BY <1>6 DEF Connection, Accept, Stream, Auth, HandshakeFail, LegacyOpenAliased, LegacyOpen, PeerClose
  <2>2. QED
    BY <1>2, <2>1
<1>7. ASSUME NEW c \in Comps, Naming(c) \/ Packets(c) PROVE CloseOnce'
  <2>1. closefd' = closefd /\ components' = components
    <3>1. CASE Naming(c)
      <4>1. closefd' = closefd /\ UNCHANGED conn
        BY <3>1 DEF Naming, Unbind, Bind, BindLogRefused
      <4>2. QED
        BY <4>1 DEF conn
    <3>2. CASE Packets(c)
      <4>1. closefd' = closefd /\ UNCHANGED conn
        BY <3>2 DEF Packets, Unicast, Broadcast, Throttle, Routes
      <4>2. QED
        BY <4>1 DEF conn
    <3>3. QED
      BY <1>7, <3>1, <3>2
  <2>2. QED
    BY <1>2, <2>1
<1>8. QED
  BY <1>3, <1>4, <1>5, <1>6, <1>7 DEF Next, MainLoop

(* No descriptor is closed twice and none is closed after its component    *)
(* was freed, however often a stream reports event_CLOSED.                 *)
THEOREM ClosedOnce == Spec => []CloseOnce
<1>1. Init => CloseInv
  BY RouterAssumption DEF Init, CloseInv, CloseOnce, TypeInv, TypeOK, LegacyNamed, States
<1>2. CloseInv => CloseOnce
  BY DEF CloseInv
<1>3. QED
  BY <1>1, <1>2, CloseStep, PTL DEF Spec

-----------------------------------------------------------------------------
(* Order of packets, whatever components do                                *)

(* The packets of d: those written to its stream, then those held back.    *)
Line(d) == sent[d] \o tq[d]

Ascending(s) == \A i, j \in DOMAIN s : i < j => s[i].num <= s[j].num
UpTo(s, k) == \A i \in DOMAIN s : s[i].num <= k

(* comp->tq is freed, so empty, unless the component is throttled; no      *)
(* packet that waits or was written is newer than the one routed last.     *)
OrderInv ==
    /\ TypeInv
    /\ \A d \in Comps :
          /\ Ascending(Line(d))
          /\ UpTo(Line(d), npkt)
          /\ ~throttled[d] => tq[d] = <<>>

LEMMA ThreeParts ==
    ASSUME NEW S PROVE \A s, t, u \in Seq(S) : (s \o t) \o u = s \o (t \o u)
BY ConcatAssociative

(* Packets with the next number behind packets with smaller ones.          *)
LEMMA AscendingConcat ==
    ASSUME NEW s \in Seq(Packet), NEW w \in Seq(Packet), NEW k \in Nat,
           Ascending(s), UpTo(s, k), \A i \in DOMAIN w : w[i].num = k + 1
    PROVE  Ascending(s \o w) /\ UpTo(s \o w, k + 1)
<1> DEFINE t == s \o w
<1>1. /\ t \in Seq(Packet)
      /\ Len(t) = Len(s) + Len(w)
      /\ \A i \in 1..(Len(s) + Len(w)) : t[i] = IF i <= Len(s) THEN s[i] ELSE w[i - Len(s)]
  BY ConcatProperties
<1>2. /\ DOMAIN t = 1..(Len(s) + Len(w)) /\ DOMAIN s = 1..Len(s) /\ DOMAIN w = 1..Len(w)
      /\ Len(s) \in Nat /\ Len(w) \in Nat
  BY <1>1
<1> HIDE DEF t
<1>3. \A i \in DOMAIN s : s[i].num \in Nat /\ s[i].num <= k
  <2>1. \A i \in DOMAIN s : s[i] \in Packet
    OBVIOUS
  <2>2. \A p \in Packet : p.num \in Nat
    BY RouterAssumption DEF Packet
  <2>3. QED
    BY <2>1, <2>2 DEF UpTo
<1>4. ASSUME NEW i \in DOMAIN t
      PROVE  \/ i \in DOMAIN s /\ t[i] = s[i]
             \/ i > Len(s) /\ t[i].num = k + 1
  <2>1. CASE i <= Len(s)
    BY <1>1, <1>2, <2>1
  <2>2. CASE ~(i <= Len(s))
    <3>1. i - Len(s) \in DOMAIN w /\ t[i] = w[i - Len(s)]
      BY <1>1, <1>2, <2>2
    <3>2. QED
      BY <1>2, <2>2, <3>1
  <2>3. QED
    BY <2>1, <2>2
<1>5. UpTo(t, k + 1)
  BY <1>3, <1>4 DEF UpTo
<1>6. Ascending(t)
  <2> SUFFICES ASSUME NEW i \in DOMAIN t, NEW j \in DOMAIN t, i < j
               PROVE  t[i].num <= t[j].num
    BY DEF Ascending
  <2>1. CASE j \in DOMAIN s /\ t[j] = s[j]
    <3>1. i \in DOMAIN s /\ t[i] = s[i]
      BY <1>2, <1>4, <2>1
    <3>2. QED
      BY <2>1, <3>1 DEF Ascending
  <2>2. CASE t[j].num = k + 1
    BY <1>3, <1>4, <2>2
  <2>3. QED
    BY <1>4, <2>1, <2>2
<1>7. QED
  BY <1>5, <1>6 DEF t

(* _router_comp_write of the packet being routed: whether it is written or *)
(* queued, it comes last.                                                  *)
LEMMA WriteLast ==
    ASSUME OrderInv, NEW c \in Comps, Routes(c), NEW w \in [Comps -> Seq(Packet)],
           \A d \in Comps : \A i \in DOMAIN w[d] : w[d][i].num = npkt + 1,
           CompWrites(w)
    PROVE  \A d \in Comps : /\ Ascending(Line(d)') /\ UpTo(Line(d)', npkt')
                            /\ ~throttled'[d] => tq'[d] = <<>>
<1> TAKE d \in Comps
<1>1. /\ sent[d] \in Seq(Packet) /\ tq[d] \in Seq(Packet) /\ w[d] \in Seq(Packet)
      /\ npkt \in Nat
  BY RouterAssumption DEF OrderInv, TypeInv, TypeOK
<1>2. /\ tq'[d] = IF d \in components /\ throttled[d] THEN tq[d] \o w[d] ELSE tq[d]
      /\ sent'[d] = IF Writable(d) /\ ~throttled[d] THEN sent[d] \o w[d] ELSE sent[d]
  BY DEF CompWrites
<1>3. throttled' = throttled /\ npkt' = npkt + 1
  BY DEF Routes
<1>4. Line(d) \in Seq(Packet) /\ Ascending(Line(d)) /\ UpTo(Line(d), npkt)
  <2> HIDE DEF Packet
  <2>1. sent[d] \o tq[d] \in Seq(Packet)
    BY <1>1
  <2>2. QED
    BY <2>1 DEF OrderInv, Line
<1>5. ~throttled[d] => tq[d] = <<>>
  BY DEF OrderInv
<1>6. Line(d)' = Line(d) \/ Line(d)' = Line(d) \o w[d]
  <2> HIDE DEF Packet
  <2>1. CASE throttled[d]
    <3>1. sent'[d] = sent[d] /\ (tq'[d] = tq[d] \o w[d] \/ tq'[d] = tq[d])
      BY <1>2, <2>1
    <3>2. (sent[d] \o tq[d]) \o w[d] = sent[d] \o (tq[d] \o w[d])
      <4> DEFINE P == Packet
                 x == sent[d]
                 y == tq[d]
                 z == w[d]
      <4>1. x \in Seq(P) /\ y \in Seq(P) /\ z \in Seq(P)
        BY <1>1
      <4> HIDE DEF P, x, y, z
      <4>2. (x \o y) \o z = x \o (y \o z)
        BY SMTT(30), <4>1, ThreeParts
      <4>3. QED
        BY <4>2 DEF x, y, z
    <3>3. QED
      BY <3>1, <3>2 DEF Line
  <2>2. CASE ~throttled[d]
    <3>1. tq'[d] = <<>> /\ tq[d] = <<>> /\ (sent'[d] = sent[d] \o w[d] \/ sent'[d] = sent[d])
      BY <1>2, <1>5, <2>2
    <3>2. sent[d] \o <<>> = sent[d] /\ (sent[d] \o w[d]) \o <<>> = sent[d] \o w[d]
      BY <1>1, ConcatEmptySeq, ConcatProperties
    <3>3. QED
      BY <3>1, <3>2 DEF Line
  <2>3. QED
    BY <2>1, <2>2
<1>7. \A i \in DOMAIN w[d] : w[d][i].num = npkt + 1
  OBVIOUS
<1>8. Ascending(Line(d) \o w[d]) /\ UpTo(Line(d) \o w[d], npkt + 1)
  BY <1>1, <1>4, <1>7, AscendingConcat
<1>9. UpTo(Line(d), npkt + 1)
  <2>1. \A i \in DOMAIN Line(d) : Line(d)[i] \in Packet
    BY <1>4
  <2>2. \A p \in Packet : p.num \in Nat
    BY RouterAssumption DEF Packet
  <2>3. QED
    BY <1>1, <1>4, <2>1, <2>2 DEF UpTo
<1>10. Ascending(Line(d)') /\ UpTo(Line(d)', npkt')
  BY <1>3, <1>4, <1>6, <1>8, <1>9
<1>11. ~throttled'[d] => tq'[d] = <<>>
  BY <1>2, <1>3, <1>5
<1>12. QED
  BY <1>10, <1>11

(* A bounce, a unicast with its copies for log sinks and a broadcast are   *)
(* each one call of _router_comp_write per receiver, with this packet.     *)
LEMMA BounceIsNew ==
    ASSUME TypeOK, NEW c \in Comps, Routes(c), BounceTo(c)
    PROVE  \E w \in [Comps -> Seq(Packet)] :
              /\ \A d \in Comps : \A i \in DOMAIN w[d] : w[d][i].num = npkt + 1
              /\ CompWrites(w)
<1> DEFINE w == [d \in Comps |-> IF d = c THEN <<Pkt(c, "bounce")>> ELSE <<>>]
<1>1. Pkt(c, "bounce") \in Packet /\ Pkt(c, "bounce").num = npkt + 1
  BY PktType DEF Pkt
<1>2. w \in [Comps -> Seq(Packet)]
  BY <1>1
<1>3. \A d \in Comps : \A i \in DOMAIN w[d] : w[d][i].num = npkt + 1
  BY <1>1
<1>4. CompWrites(w)
  BY DEF BounceTo
<1>5. QED
  BY <1>2, <1>3, <1>4

LEMMA BroadcastIsNew ==
    ASSUME TypeOK, NEW c \in Comps, NEW from \in Names, Broadcast(c, from)
    PROVE  \E w \in [Comps -> Seq(Packet)] :
              /\ \A d \in Comps : \A i \in DOMAIN w[d] : w[d][i].num = npkt + 1
              /\ CompWrites(w)
<1>1. Routes(c)
  BY DEF Broadcast
<1> DEFINE w == [d \in Comps |-> IF d \in components \ {c} THEN <<Pkt(c, "broadcast")>> ELSE <<>>]
<1>2. BounceTo(c) \/ CompWrites(w)
  BY DEF Broadcast
<1>3. Pkt(c, "broadcast") \in Packet /\ Pkt(c, "broadcast").num = npkt + 1
  BY <1>1, PktType DEF Pkt
<1>4. w \in [Comps -> Seq(Packet)]
  BY <1>3
<1>5. \A d \in Comps : \A i \in DOMAIN w[d] : w[d][i].num = npkt + 1
  BY <1>3
<1> HIDE DEF w
<1>6. QED
  BY <1>1, <1>2, <1>4, <1>5, BounceIsNew

LEMMA UnicastIsNew ==
    ASSUME TypeOK, NEW c \in Comps, NEW from \in Names, NEW to \in Names, Unicast(c, from, to)
    PROVE  \E w \in [Comps -> Seq(Packet)] :
              /\ \A d \in Comps : \A i \in DOMAIN w[d] : w[d][i].num = npkt + 1
              /\ CompWrites(w)
<1>1. Routes(c)
  BY DEF Unicast
<1> DEFINE w(t) == [d \in Comps |->
        [j \in 1..Cardinality({n \in Names : log_sinks[n] = d}) |-> Pkt(c, "log")]
            \o IF t = d THEN <<Pkt(c, "route")>> ELSE <<>>]
<1>2. BounceTo(c) \/ \E t : CompWrites(w(t))
  BY DEF Unicast
<1>3. CASE BounceTo(c)
  BY <1>1, <1>3, BounceIsNew
<1>4. ASSUME NEW t, CompWrites(w(t))
      PROVE  \E v \in [Comps -> Seq(Packet)] :
                /\ \A d \in Comps : \A i \in DOMAIN v[d] : v[d][i].num = npkt + 1
                /\ CompWrites(v)
  <2>1. /\ Pkt(c, "log") \in Packet /\ Pkt(c, "log").num = npkt + 1
        /\ Pkt(c, "route") \in Packet /\ Pkt(c, "route").num = npkt + 1
    BY <1>1, PktType DEF Pkt
  <2>2. ASSUME NEW d \in Comps
        PROVE  w(t)[d] \in Seq(Packet) /\ \A i \in DOMAIN w(t)[d] : w(t)[d][i].num = npkt + 1
    <3> DEFINE k == Cardinality({n \in Names : log_sinks[n] = d})
               logs == [j \in 1..k |-> Pkt(c, "log")]
               last == IF t = d THEN <<Pkt(c, "route")>> ELSE <<>>
    <3>1. k \in Nat
      BY RouterAssumption, FS_Subset, FS_CardinalityType
    <3>2. logs \in [1..k -> Packet]
      BY <2>1
    <3>3. logs \in Seq(Packet)
      BY <3>1, <3>2, SeqDef
    <3>4. last \in Seq(Packet)
      BY <2>1
    <3>5. \A i \in DOMAIN logs : logs[i].num = npkt + 1
      BY <2>1
    <3>6. \A i \in DOMAIN last : last[i].num = npkt + 1
      BY <2>1
    <3>7. w(t)[d] = logs \o last
      OBVIOUS
    <3> HIDE DEF logs, last
    <3> DEFINE both == logs \o last
    <3>8. /\ both \in Seq(Packet)
          /\ Len(both) = Len(logs) + Len(last)
          /\ \A i \in 1..(Len(logs) + Len(last)) :
                both[i] = IF i <= Len(logs) THEN logs[i] ELSE last[i - Len(logs)]
      BY <3>3, <3>4, ConcatProperties
    <3> HIDE DEF w, k, both
    <3>a. /\ DOMAIN both = 1..(Len(logs) + Len(last))
          /\ DOMAIN logs = 1..Len(logs) /\ DOMAIN last = 1..Len(last)
          /\ Len(logs) \in Nat /\ Len(last) \in Nat
      BY <3>3, <3>4, <3>8
    <3>9. ASSUME NEW i \in DOMAIN both PROVE both[i].num = npkt + 1
      <4>1. CASE i <= Len(logs)
        BY <3>5, <3>8, <3>a, <4>1
      <4>2. CASE ~(i <= Len(logs))
        <5>1. i - Len(logs) \in DOMAIN last /\ both[i] = last[i - Len(logs)]
          BY <3>8, <3>a, <4>2
        <5>2. QED
          BY <3>6, <5>1
      <4>3. QED
        BY <4>1, <4>2
    <3>10. w(t)[d] = both
      BY <3>7 DEF both
    <3>11. QED
      BY <3>8, <3>9, <3>10
  <2>3. w(t) \in [Comps -> Seq(Packet)]
    BY <2>2
  <2> HIDE DEF w
  <2>4. QED
    BY <1>4, <2>2, <2>3
<1>5. QED
  BY <1>2, <1>3, <1>4

(* Steps that leave what d was sent and what waits for it.                 *)
LEMMA OrderQuiet ==
    ASSUME OrderInv, UNCHANGED data
    PROVE  \A d \in Comps : /\ Ascending(Line(d)') /\ UpTo(Line(d)', npkt')
                            /\ ~throttled'[d] => tq'[d] = <<>>
BY DEF OrderInv, data, Line

LEMMA OrderStep == OrderInv /\ [Next]_vars => OrderInv'
<1> SUFFICES ASSUME OrderInv, [Next]_vars PROVE OrderInv'
  OBVIOUS
<1> DEFINE Goal == \A d \in Comps : /\ Ascending(Line(d)') /\ UpTo(Line(d)', npkt')
                                    /\ ~throttled'[d] => tq'[d] = <<>>
<1>0. TypeOK
  BY DEF OrderInv, TypeInv
<1>1. ASSUME NEW c \in Comps, Connection(c) PROVE Goal
  <2>1. UNCHANGED data
    BY <1>1 DEF Connection, Accept, Stream, Auth, HandshakeFail, LegacyOpenAliased, LegacyOpen,
                PeerClose, Closed
  <2>2. QED
    BY <2>1, OrderQuiet
<1>2. ASSUME NEW c \in Comps, Naming(c) PROVE Goal
  <2>1. UNCHANGED data
    BY <1>2 DEF Naming, Unbind, Bind, BindLogRefused
  <2>2. QED
    BY <2>1, OrderQuiet
<1>3. ASSUME NEW c \in Comps, NEW from \in Names, NEW to \in Names, Unicast(c, from, to) PROVE Goal
  <2>1. Routes(c)
    BY <1>3 DEF Unicast
  <2>2. PICK w \in [Comps -> Seq(Packet)] :
            /\ \A d \in Comps : \A i \in DOMAIN w[d] : w[d][i].num = npkt + 1
            /\ CompWrites(w)
    BY <1>0, <1>3, UnicastIsNew
  <2>3. QED
    BY <2>1, <2>2, WriteLast
<1>4. ASSUME NEW c \in Comps, NEW from \in Names, Broadcast(c, from) PROVE Goal
  <2>1. Routes(c)
    BY <1>4 DEF Broadcast
  <2>2. PICK w \in [Comps -> Seq(Packet)] :
            /\ \A d \in Comps : \A i \in DOMAIN w[d] : w[d][i].num = npkt + 1
            /\ CompWrites(w)
    BY <1>0, <1>4, BroadcastIsNew
  <2>3. QED
    BY <2>1, <2>2, WriteLast
<1>5. ASSUME NEW c \in Comps, Throttle(c) PROVE Goal
  <2>1. /\ throttled' = [throttled EXCEPT ![c] = ~@]
        /\ sent' = [sent EXCEPT ![c] = IF throttled[c] THEN sent[c] \o tq[c] ELSE sent[c]]
        /\ tq' = [tq EXCEPT ![c] = <<>>]
        /\ npkt' = npkt
    BY <1>5 DEF Throttle
  <2>2. /\ sent \in [Comps -> Seq(Packet)] /\ tq \in [Comps -> Seq(Packet)]
        /\ throttled \in [Comps -> BOOLEAN]
    BY <1>0 DEF TypeOK
  <2>3. ~throttled[c] => tq[c] = <<>>
    BY DEF OrderInv
  <2>4. Line(c)' = Line(c)
    <3>1. sent[c] \in Seq(Packet) /\ tq[c] \in Seq(Packet)
      BY <2>2
    <3>2. sent'[c] = (IF throttled[c] THEN sent[c] \o tq[c] ELSE sent[c]) /\ tq'[c] = <<>>
      BY <2>1, <2>2
    <3>3. sent[c] \o <<>> = sent[c] /\ (sent[c] \o tq[c]) \o <<>> = sent[c] \o tq[c]
      BY <3>1, ConcatEmptySeq, ConcatProperties
    <3>4. QED
      BY <2>3, <3>2, <3>3 DEF Line
  <2>5. \A d \in Comps \ {c} : sent'[d] = sent[d] /\ tq'[d] = tq[d] /\ throttled'[d] = throttled[d]
    BY <2>1, <2>2
  <2>6. \A d \in Comps : Line(d)' = Line(d)
    BY <2>4, <2>5 DEF Line
  <2>7. tq'[c] = <<>>
    BY <2>1, <2>2
  <2>8. QED
    BY <2>1, <2>5, <2>6, <2>7 DEF OrderInv
<1>6. ASSUME MioDone \/ LoopAgain \/ UNCHANGED vars PROVE Goal
  <2>1. UNCHANGED data
    BY <1>6 DEF MioDone, LoopAgain, vars
  <2>2. QED
    BY <2>1, OrderQuiet
<1>7. ASSUME CloseFd PROVE Goal
  <2>1. PICK c \in Comps : c = Head(closefd)
    BY <1>0, <1>7 DEF CloseFd, TypeOK
  <2>2. /\ throttled' = [throttled EXCEPT ![c] = FALSE]
        /\ tq' = [tq EXCEPT ![c] = <<>>]
        /\ sent' = [sent EXCEPT ![c] = <<>>]
        /\ npkt' = npkt
    BY <1>7, <2>1 DEF CloseFd
  <2>3. /\ sent \in [Comps -> Seq(Packet)] /\ tq \in [Comps -> Seq(Packet)]
        /\ throttled \in [Comps -> BOOLEAN]
    BY <1>0 DEF TypeOK
  <2>4. \A d \in Comps \ {c} : sent'[d] = sent[d] /\ tq'[d] = tq[d] /\ throttled'[d] = throttled[d]
    BY <2>1, <2>2, <2>3
  <2>5. sent'[c] = <<>> /\ tq'[c] = <<>>
    BY <2>1, <2>2, <2>3
  <2>6. Line(c)' = <<>>
    BY <2>5 DEF Line
  <2>7. Ascending(Line(c)') /\ UpTo(Line(c)', npkt')
    BY <2>6 DEF Ascending, UpTo
  <2>8. ASSUME NEW d \in Comps \ {c} PROVE Line(d)' = Line(d)
    BY <2>4 DEF Line
  <2>9. QED
    BY <2>1, <2>2, <2>4, <2>5, <2>7, <2>8 DEF OrderInv
<1>8. Goal
  BY <1>1, <1>2, <1>3, <1>4, <1>5, <1>6, <1>7 DEF Next, MainLoop, Packets
<1>9. TypeInv'
  BY TypeStep DEF OrderInv
<1>10. QED
  BY <1>8, <1>9 DEF OrderInv, Ascending, UpTo, Line

(* Packets reach every component in the order the router was handed them,  *)
(* for any number of components, of packets and of toggles of <throttle/>: *)
(* _router_comp_write never lets one overtake what waits in comp->tq.      *)
THEOREM DeliveredInOrder == Spec => []InOrder
<1>1. Init => OrderInv
  <2> SUFFICES ASSUME Init PROVE OrderInv
    OBVIOUS
  <2>1. TypeInv
    BY RouterAssumption DEF Init, TypeInv, TypeOK, LegacyNamed, States
  <2>2. \A d \in Comps : Line(d) = <<>> /\ tq[d] = <<>>
    BY DEF Init, Line
  <2>3. QED
    BY <2>1, <2>2 DEF OrderInv, Ascending, UpTo
<1>2. OrderInv => InOrder
  BY DEF OrderInv, InOrder, Ascending, Line
<1>3. QED
  BY <1>1, <1>2, OrderStep, PTL DEF Spec

-----------------------------------------------------------------------------
(* The default route                                                       *)

(* _router_process_bind makes the name the default route before it refuses *)
(* a component that may not be a log sink, and leaves it so.  The access   *)
(* lists rule that out when whoever may be the default route may also log. *)
DefaultsMayLog ==
    \A u \in Users \cup Names \cup {NoName} : AciCheck("default-route", u) => AciCheck("log", u)

DefaultInv == TypeInv /\ DefaultRouteBound

LEMMA AddNotEmpty ==
    ASSUME NEW S, NEW s \in Seq(S), NEW c \in S, NEW k \in Nat, s # <<>> \/ k > 0
    PROVE  RouteAdd(s, c, k) # <<>>
<1> DEFINE t == [i \in 1..k |-> c]
<1>1. t \in [1..k -> S]
  OBVIOUS
<1>2. t \in Seq(S) /\ Len(t) = k
  BY <1>1, SeqDef
<1> HIDE DEF t
<1>a. s \o t \in Seq(S) /\ Len(s \o t) = Len(s) + k
  BY <1>2, ConcatProperties
<1>b. Len(s) \in Nat /\ (s # <<>> => Len(s) # 0)
  BY EmptySeq, LenProperties
<1>4. Len(s \o t) > 0
  BY <1>a, <1>b
<1>5. s \o t # <<>>
  BY <1>4
<1>6. QED
  BY <1>5 DEF RouteAdd, t

LEMMA DefaultStep == ASSUME DefaultsMayLog PROVE DefaultInv /\ [Next]_vars => DefaultInv'
<1> SUFFICES ASSUME DefaultInv, [Next]_vars PROVE DefaultRouteBound'
  BY TypeStep DEF DefaultInv
<1>0. TypeOK /\ TypeInv /\ DefaultRouteBound
  BY DEF DefaultInv, TypeInv
<1>1. /\ routes \in [Names -> Seq(Comps)] /\ default_route \in Names \cup {NoName}
      /\ user \in [Comps -> Users \cup Names \cup {NoName}]
  BY <1>0 DEF TypeOK
<1>2. ASSUME UNCHANGED <<routes, default_route>> PROVE DefaultRouteBound'
  BY <1>0, <1>2 DEF DefaultRouteBound
<1>3. ASSUME NEW c \in Comps, LegacyOpen(c) PROVE DefaultRouteBound'
  <2> DEFINE S == {user[c]} \cup AliasesOf(user[c])
  <2>1. routes' = [m \in Names |-> IF m \in S THEN RouteAdd(routes[m], c, 1) ELSE routes[m]]
    BY <1>3 DEF LegacyOpen
  <2>2. default_route' = default_route
    BY <1>3 DEF LegacyOpen
  <2>3. \A m \in Names : RouteAdd(routes[m], c, 1) # <<>>
    BY <1>1, AddNotEmpty
  <2> HIDE DEF S
  <2>4. QED
    BY <1>0, <1>1, <2>1, <2>2, <2>3 DEF DefaultRouteBound
<1>4. ASSUME NEW c \in Comps, NEW n \in Names, Unbind(c, n) PROVE DefaultRouteBound'
  <2>1. /\ routes' = [routes EXCEPT ![n] = RouteRemove(routes[n], c)]
        /\ default_route' = IF default_route \in {n} THEN NoName ELSE default_route
    BY <1>4 DEF Unbind, DropDefault
  <2>2. QED
    BY <1>0, <1>1, <2>1, RouterAssumption DEF DefaultRouteBound
<1>5. ASSUME NEW c \in Comps, NEW n \in Names, NEW multi \in BOOLEAN, NEW default \in BOOLEAN,
             NEW log \in BOOLEAN, BindLogRefused(c, n, multi, default, log)
      PROVE  DefaultRouteBound'
  <2>1. ~default
    BY <1>1, <1>5 DEF BindLogRefused, BindRefused, DefaultsMayLog
  <2>2. QED
    BY <1>2, <1>5, <2>1 DEF BindLogRefused
<1>6. ASSUME NEW c \in Comps, NEW n \in Names, NEW multi \in BOOLEAN, NEW default \in BOOLEAN,
             NEW log \in BOOLEAN, Bind(c, n, multi, default, log)
      PROVE  DefaultRouteBound'
  <2> DEFINE k == 1 + Cardinality(AliasesOf(n))
  <2>1. IsFiniteSet(AliasesOf(n))
    BY RouterAssumption, FS_Subset DEF AliasesOf
  <2>2. k \in Nat /\ k > 0
    BY <2>1, FS_CardinalityType
  <2>3. /\ routes' = [routes EXCEPT ![n] = RouteAdd(routes[n], c, k)]
        /\ default_route' = IF default THEN n ELSE default_route
    BY <1>6 DEF Bind, DefaultName
  <2> HIDE DEF k
  <2>4. RouteAdd(routes[n], c, k) # <<>>
    BY <1>1, <2>2, AddNotEmpty
  <2>5. QED
    BY <1>0, <1>1, <2>3, <2>4 DEF DefaultRouteBound
<1>7. CASE CloseFd
  <2>1. PICK c \in Comps : c = Head(closefd)
    BY <1>0, <1>7 DEF CloseFd, TypeOK
  <2>2. PICK V \in WalkVisits(c) :
          /\ routes' = [n \in Names |-> IF n \in V THEN RouteRemove(routes[n], c) ELSE routes[n]]
          /\ default_route' = IF default_route \in V THEN NoName ELSE default_route
    BY <1>7, <2>1 DEF CloseFd, DropDefault
  <2>3. QED
    BY <1>0, <1>1, <2>2 DEF DefaultRouteBound
<1>8. ASSUME NEW c \in Comps, Connection(c), ~LegacyOpen(c) PROVE DefaultRouteBound'
  <2>1. UNCHANGED table
    BY <1>8 DEF Connection, Accept, Stream, Auth, HandshakeFail, LegacyOpenAliased, PeerClose, Closed
  <2>2. QED
    BY <1>2, <2>1 DEF table
<1>9. ASSUME NEW c \in Comps, Packets(c) PROVE DefaultRouteBound'
  <2>1. UNCHANGED table
    BY <1>9 DEF Packets, Unicast, Broadcast, Throttle, Routes
  <2>2. QED
    BY <1>2, <2>1 DEF table
<1>10. CASE MioDone \/ LoopAgain \/ UNCHANGED vars
  BY <1>2, <1>10 DEF MioDone, LoopAgain, vars, table
<1>11. QED
  BY <1>3, <1>4, <1>5, <1>6, <1>7, <1>8, <1>9, <1>10 DEF Next, MainLoop, Naming

(* The default route is always a name that is bound, in whatever order     *)
(* components bind, unbind and disconnect, with or without aliases, as     *)
(* long as the refusal of a log sink cannot come after it was set.         *)
THEOREM DefaultStaysBound == ASSUME DefaultsMayLog PROVE Spec => []DefaultRouteBound
<1>1. Init => DefaultInv
  BY RouterAssumption DEF Init, DefaultInv, DefaultRouteBound, TypeInv, TypeOK, LegacyNamed, States
<1>2. DefaultInv => DefaultRouteBound
  BY DEF DefaultInv
<1>3. DefaultInv /\ [Next]_vars => DefaultInv'
  BY DefaultStep
<1>4. QED
  BY <1>1, <1>2, <1>3, PTL DEF Spec

-----------------------------------------------------------------------------
(* Advertisements, under well-behaved components                           *)

(* A component that has bound nothing has been told nothing: only a bind   *)
(* and what comes after it puts it into the audience.                      *)
UnboundUntold == \A c \in Comps : croutes[c] = {} => told[c] = {}

AdvertInv == TableInv /\ UnboundUntold /\ AdvertisedExactly

(* The names a component may be found under in the route table are those   *)
(* it holds.                                                               *)
LEMMA RoutedIffHeld ==
    ASSUME TypeInv, RoutesValid, BoundRouted, NEW d \in Comps, NEW n \in Names
    PROVE  InSeq(d, routes[n]) <=> n \in croutes[d]
BY DEF TypeInv, TypeOK, RoutesValid, BoundRouted, InSeq

(* The same in terms of the components' own tables.                        *)
Informed(d) ==
    /\ croutes[d] = {} => told[d] = {}
    /\ state[d] = "open" /\ ~legacy[d] /\ croutes[d] # {} =>
          /\ Online(routes) \ croutes[d] \subseteq told[d]
          /\ told[d] \subseteq Online(routes)

AllInformed == \A d \in Comps : Informed(d)

LEMMA InformedAll == TableInv => ((UnboundUntold /\ AdvertisedExactly) <=> AllInformed)
<1> SUFFICES ASSUME TableInv PROVE (UnboundUntold /\ AdvertisedExactly) <=> AllInformed
  OBVIOUS
<1>1. TypeInv /\ RoutesValid /\ BoundRouted
  BY DEF TableInv
<1>2. \A d \in Comps : \A n \in Names : InSeq(d, routes[n]) <=> n \in croutes[d]
  BY <1>1, RoutedIffHeld
<1>3. ASSUME NEW d \in Comps
      PROVE  /\ (\E n \in Names : InSeq(d, routes[n])) <=> croutes[d] # {}
             /\ {n \in Online(routes) : ~InSeq(d, routes[n])} = Online(routes) \ croutes[d]
  <2>1. croutes[d] \subseteq Names /\ Online(routes) \subseteq Names
    BY <1>1 DEF TypeInv, TypeOK, Online
  <2>2. QED
    BY <1>2, <2>1
<1>4. QED
  BY <1>3 DEF UnboundUntold, AdvertisedExactly, Informed, AllInformed

(* A name is added to the tables of c and of the router: who is in the     *)
(* route table hears of it, and c of everything else.                      *)
LEMMA BindInforms ==
    ASSUME TableInv, TableInv', \A d \in Comps : Informed(d),
           NEW c \in Comps, NEW n \in Names,
           routes' = [routes EXCEPT ![n] = RouteAdd(@, c, 1)],
           croutes' = [croutes EXCEPT ![c] = @ \cup {n}],
           components' = components, legacy' = legacy,
           \A d \in Comps \ {c} : state'[d] = state[d],
           legacy[c] \/ told'[c] = told[c] \cup {m \in Online(routes') : ~InSeq(c, routes'[m])},
           \A d \in Comps \ {c} :
              told'[d] = IF d \in Audience(routes', c) THEN told[d] \cup {n} ELSE told[d],
           state[c] = "open" \/ croutes[c] = {}
    PROVE  \A d \in Comps : Informed(d)'
<1>1. TypeInv /\ TypeInv' /\ RoutesValid' /\ BoundRouted' /\ HoldersOpen
  BY DEF TableInv
<1>2. routes \in [Names -> Seq(Comps)] /\ croutes \in [Comps -> SUBSET Names]
  BY <1>1 DEF TypeInv, TypeOK
<1>3. Online(routes') = Online(routes) \cup {n}
  <2>1. RouteAdd(routes[n], c, 1) # <<>>
    BY <1>2, AddNotEmpty
  <2>2. QED
    BY <1>2, <2>1 DEF Online
<1>4. croutes'[c] = croutes[c] \cup {n} /\ \A d \in Comps \ {c} : croutes'[d] = croutes[d]
  BY <1>2
<1>5. \A d \in Comps : \A m \in Names : InSeq(d, routes'[m]) <=> m \in croutes'[d]
  <2> TAKE d \in Comps
  <2> TAKE m \in Names
  <2>1. InSeq(d, routes'[m]) => m \in croutes'[d]
    BY <1>1 DEF RoutesValid, InSeq
  <2>2. m \in croutes'[d] => InSeq(d, routes'[m])
    BY <1>1 DEF BoundRouted, InSeq
  <2>3. QED
    BY <2>1, <2>2
<1>6. Informed(c)'
  <2>1. {m \in Online(routes') : ~InSeq(c, routes'[m])} = Online(routes') \ croutes'[c]
    BY <1>5 DEF Online
  <2>2. told[c] \subseteq Online(routes) \/ legacy[c]
    BY DEF Informed
  <2>3. CASE legacy[c]
    BY <1>4, <2>3 DEF Informed
  <2>4. CASE ~legacy[c]
    BY <1>3, <1>4, <2>1, <2>2, <2>4 DEF Informed
  <2>5. QED
    BY <2>3, <2>4
<1>7. ASSUME NEW d \in Comps \ {c} PROVE Informed(d)'
  <2>1. CASE croutes[d] = {}
    <3>1. \A m \in Names : ~InSeq(d, routes'[m])
      BY <1>4, <1>5, <2>1
    <3>2. d \notin Audience(routes', c)
      BY <3>1 DEF Audience
    <3>3. told'[d] = {}
      BY <2>1, <3>2 DEF Informed
    <3>4. QED
      BY <1>4, <2>1, <3>3 DEF Informed
  <2>2. CASE croutes[d] # {} /\ state[d] = "open" /\ ~legacy[d]
    <3>1. \E m \in Names : InSeq(d, routes'[m])
      BY <1>2, <1>4, <1>5, <2>2
    <3>2. Writable(d)
      BY <1>1, <2>2 DEF Writable, HoldersOpen
    <3>3. d \in Audience(routes', c)
      BY <2>2, <3>1, <3>2 DEF Audience
    <3>4. told'[d] = told[d] \cup {n}
      BY <3>3
    <3>5. QED
      BY <1>3, <1>4, <2>2, <3>4 DEF Informed
  <2>3. CASE croutes[d] # {} /\ ~(state[d] = "open" /\ ~legacy[d])
    BY <1>4, <2>3 DEF Informed
  <2>4. QED
    BY <2>1, <2>2, <2>3
<1>8. QED
  BY <1>6, <1>7

(* action_CLOSE of c: names nobody is left for are announced offline.      *)
LEMMA CloseInforms ==
    ASSUME TableInv, TableInv', \A d \in Comps : Informed(d), NEW c \in Comps,
           croutes' = [croutes EXCEPT ![c] = {}],
           routes' = [n \in Names |->
               IF n \in croutes[c] THEN RouteRemove(routes[n], c) ELSE routes[n]],
           state' = [state EXCEPT ![c] = "none"],
           legacy' = [legacy EXCEPT ![c] = FALSE],
           told'[c] = {},
           \A d \in Comps \ {c} :
              told'[d] = IF d \in Audience(routes', c)
                         THEN told[d] \ {n \in croutes[c] : routes'[n] = <<>>} ELSE told[d]
    PROVE  \A d \in Comps : Informed(d)'
<1>1. TypeInv /\ TypeInv' /\ RoutesValid' /\ BoundRouted' /\ HoldersOpen
  BY DEF TableInv
<1>2. /\ croutes \in [Comps -> SUBSET Names] /\ state \in [Comps -> States]
      /\ legacy \in [Comps -> BOOLEAN]
  BY <1>1 DEF TypeInv, TypeOK
<1>3. \A d \in Comps \ {c} : croutes'[d] = croutes[d] /\ state'[d] = state[d] /\ legacy'[d] = legacy[d]
  BY <1>2
<1>4. \A d \in Comps : \A m \in Names : InSeq(d, routes'[m]) <=> m \in croutes'[d]
  <2> TAKE d \in Comps
  <2> TAKE m \in Names
  <2>1. InSeq(d, routes'[m]) => m \in croutes'[d]
    BY <1>1 DEF RoutesValid, InSeq
  <2>2. m \in croutes'[d] => InSeq(d, routes'[m])
    BY <1>1 DEF BoundRouted, InSeq
  <2>3. QED
    BY <2>1, <2>2
<1> DEFINE gone == {n \in croutes[c] : routes'[n] = <<>>}
<1>5. Online(routes') = Online(routes) \ gone
  <2>1. \A n \in croutes[c] : n \in Names /\ routes[n] # <<>>
    BY <1>2 DEF TableInv, BoundRouted, InSeq
  <2>2. \A n \in Names \ croutes[c] : routes'[n] = routes[n]
    OBVIOUS
  <2> HIDE DEF TableInv
  <2>3. QED
    BY <2>1, <2>2 DEF Online
<1>6. Informed(c)'
  BY <1>2 DEF Informed
<1>7. ASSUME NEW d \in Comps \ {c} PROVE Informed(d)'
  <2>1. CASE croutes[d] = {}
    <3>1. told[d] = {}
      BY <2>1 DEF Informed
    <3>2. told'[d] = {}
      BY <3>1
    <3>3. QED
      BY <1>3, <2>1, <3>2 DEF Informed
  <2>2. CASE croutes[d] # {} /\ state[d] = "open" /\ ~legacy[d]
    <3>1. \E m \in Names : InSeq(d, routes'[m])
      BY <1>2, <1>3, <1>4, <2>2
    <3>2. Writable(d)
      BY <1>1, <2>2 DEF Writable, HoldersOpen
    <3>3. d \in Audience(routes', c)
      BY <2>2, <3>1, <3>2 DEF Audience
    <3>4. told'[d] = told[d] \ gone
      BY <3>3
    <3> HIDE DEF gone
    <3>5. QED
      BY <1>3, <1>5, <2>2, <3>4 DEF Informed
  <2>3. CASE croutes[d] # {} /\ ~(state[d] = "open" /\ ~legacy[d])
    BY <1>3, <2>3 DEF Informed
  <2>4. QED
    BY <2>1, <2>2, <2>3
<1>8. QED
  BY <1>6, <1>7

(* Steps that leave the tables and what was told: a stream may only leave  *)
(* the open state, or open with nothing bound.                             *)
LEMMA AdvertQuiet ==
    ASSUME TableInv, \A d \in Comps : Informed(d), UNCHANGED <<croutes, routes, told>>,
           \A d \in Comps : croutes[d] # {} =>
              legacy'[d] = legacy[d] /\ (state'[d] = "open" => state[d] = "open")
    PROVE  \A d \in Comps : Informed(d)'
BY DEF Informed

LEMMA AdvertStep == ASSUME Tame PROVE AdvertInv /\ [Next]_vars => AdvertInv'
<1> SUFFICES ASSUME AdvertInv, [Next]_vars PROVE AdvertInv'
  OBVIOUS
<1> DEFINE Goal == \A d \in Comps : Informed(d)'
<1>0. TableInv /\ TableInv' /\ HoldersOpen /\ TypeInv /\ TypeOK
  BY TableStep DEF AdvertInv, TableInv, TypeInv
<1>1. \A d \in Comps : Informed(d)
  BY <1>0, InformedAll DEF AdvertInv, AllInformed
<1>2. /\ state \in [Comps -> States] /\ legacy \in [Comps -> BOOLEAN]
      /\ routes \in [Names -> Seq(Comps)] /\ croutes \in [Comps -> SUBSET Names]
  BY <1>0 DEF TypeOK
<1>3. \A n \in Names : AliasesOf(n) = {} /\ Cardinality(AliasesOf(n)) = 0 /\ 1 + Cardinality(AliasesOf(n)) = 1
  BY FS_EmptySet DEF Tame, AliasesOf
<1>4. ASSUME NEW c \in Comps, Connection(c), ~LegacyOpen(c) PROVE Goal
  <2>1. UNCHANGED <<croutes, routes, told>>
    BY <1>4 DEF Connection, Accept, Stream, Auth, HandshakeFail, LegacyOpenAliased, PeerClose, Closed, table
  <2>2. /\ \A d \in Comps \ {c} : legacy'[d] = legacy[d] /\ state'[d] = state[d]
        /\ (state[c] \in {"new", "stream"} \/ c \notin components
            \/ (legacy'[c] = legacy[c] /\ state'[c] # "open"))
    <3>1. CASE Accept(c)
      BY <1>2, <3>1 DEF Accept
    <3>2. CASE \E old \in BOOLEAN, to \in Names \cup {NoName} : Stream(c, old, to)
      BY <1>2, <3>2 DEF Stream
    <3>3. CASE \E u \in Users : Auth(c, u)
      <4>1. state[c] = "stream" /\ legacy' = legacy /\ state' = [state EXCEPT ![c] = "open"]
        BY <3>3 DEF Auth
      <4>2. QED
        BY <1>2, <4>1
    <3>4. CASE HandshakeFail(c) \/ LegacyOpenAliased(c) \/ PeerClose(c)
      BY <1>2, <3>4 DEF HandshakeFail, LegacyOpenAliased, PeerClose
    <3>5. CASE Closed(c)
      BY <1>2, <3>5 DEF Closed
    <3>6. QED
      BY <1>4, <3>1, <3>2, <3>3, <3>4, <3>5 DEF Connection
  <2>3. state[c] \in {"new", "stream"} \/ c \notin components => croutes[c] = {}
    BY <1>0 DEF HoldersOpen
  <2>4. QED
    BY <1>0, <1>1, <2>1, <2>2, <2>3, AdvertQuiet
<1>5. ASSUME NEW c \in Comps, LegacyOpen(c) PROVE Goal
  <2>1. PICK n \in Names : n = user[c]
    BY <1>0, <1>5 DEF LegacyOpen, TypeInv, LegacyNamed
  <2> DEFINE r == [m \in Names |-> IF m \in {n} \cup AliasesOf(n) THEN RouteAdd(routes[m], c, 1) ELSE routes[m]]
  <2>2. /\ state[c] = "stream" /\ legacy[c]
        /\ routes' = r
        /\ croutes' = [croutes EXCEPT ![c] = @ \cup ({n} \cup AliasesOf(n))]
        /\ state' = [state EXCEPT ![c] = "open"]
        /\ told' = [d \in Comps |-> IF d \in Audience(r, c) THEN told[d] \cup ({n} \cup AliasesOf(n)) ELSE told[d]]
        /\ UNCHANGED <<components, legacy>>
    BY <1>5, <2>1 DEF LegacyOpen
  <2>3. routes' = [routes EXCEPT ![n] = RouteAdd(@, c, 1)]
    BY <1>2, <1>3, <2>2
  <2>4. croutes' = [croutes EXCEPT ![c] = @ \cup {n}]
    BY <1>3, <2>2
  <2>5. \A d \in Comps : told'[d] = IF d \in Audience(routes', c) THEN told[d] \cup {n} ELSE told[d]
    BY <1>3, <2>2
  <2>6. croutes[c] = {}
    BY <1>0, <2>2 DEF HoldersOpen
  <2>7. \A d \in Comps \ {c} : state'[d] = state[d]
    BY <1>2, <2>2
  <2> HIDE DEF r
  <2>8. QED
    BY <1>0, <1>1, <2>2, <2>3, <2>4, <2>5, <2>6, <2>7, BindInforms
<1>6. ASSUME NEW c \in Comps, NEW n \in Names, NEW multi \in BOOLEAN, NEW default \in BOOLEAN,
             NEW log \in BOOLEAN, Bind(c, n, multi, default, log)
      PROVE  Goal
  <2> DEFINE al == AliasesOf(n)
             r == [routes EXCEPT ![n] = RouteAdd(@, c, 1 + Cardinality(al))]
             others == {m \in Online(r) : ~InSeq(c, r[m])}
  <2>1. /\ state[c] = "open" /\ ~legacy[c]
        /\ routes' = r
        /\ croutes' = [croutes EXCEPT ![c] = @ \cup {n} \cup al]
        /\ told' = [d \in Comps |->
                        IF d = c THEN told[c] \cup others
                        ELSE IF d \in Audience(r, c) THEN told[d] \cup {n} \cup al
                        ELSE told[d]]
        /\ UNCHANGED conn
    BY <1>6 DEF Bind, Asks
  <2>2. routes' = [routes EXCEPT ![n] = RouteAdd(@, c, 1)]
    BY <1>3, <2>1
  <2>3. croutes' = [croutes EXCEPT ![c] = @ \cup {n}]
    BY <1>3, <2>1
  <2>4. al = {}
    BY <1>3
  <2> HIDE DEF r, al
  <2>5. /\ told'[c] = told[c] \cup {m \in Online(routes') : ~InSeq(c, routes'[m])}
        /\ \A d \in Comps \ {c} :
              told'[d] = IF d \in Audience(routes', c) THEN told[d] \cup {n} ELSE told[d]
    BY <2>1, <2>4
  <2>6. components' = components /\ legacy' = legacy /\ state' = state
    BY <2>1 DEF conn
  <2>7. QED
    BY <1>0, <1>1, <2>1, <2>2, <2>3, <2>5, <2>6, BindInforms
<1>7. ASSUME NEW c \in Comps, NEW n \in Names, Unbind(c, n) PROVE Goal
  BY <1>7 DEF Unbind, Tame
<1>8. ASSUME UNCHANGED <<conn, croutes, routes, told>> PROVE Goal
  BY <1>0, <1>1, <1>8, AdvertQuiet DEF conn
<1>9. ASSUME NEW c \in Comps, NEW n \in Names, NEW multi \in BOOLEAN, NEW default \in BOOLEAN,
             NEW log \in BOOLEAN, BindLogRefused(c, n, multi, default, log)
      PROVE  Goal
  BY <1>8, <1>9 DEF BindLogRefused
<1>10. ASSUME NEW c \in Comps, Packets(c) PROVE Goal
  <2>1. UNCHANGED <<conn, table, told>>
    BY <1>10 DEF Packets, Unicast, Broadcast, Throttle, Routes
  <2>2. QED
    BY <1>8, <2>1 DEF table
<1>11. ASSUME MioDone \/ LoopAgain \/ UNCHANGED vars PROVE Goal
  BY <1>8, <1>11 DEF MioDone, LoopAgain, vars, table
<1>12. ASSUME CloseFd PROVE Goal
  <2> DEFINE h == Head(closefd)
  <2>a. PICK V \in WalkVisits(h) :
            LET newRoutes == [n \in Names |->
                                IF n \in V THEN RouteRemove(routes[n], h) ELSE routes[n]]
                gone == {n \in V : newRoutes[n] = <<>>}
            IN /\ routes' = newRoutes
               /\ log_sinks' = DropSinks(V)
               /\ default_route' = DropDefault(V)
               /\ told' = [d \in Comps |->
                                IF d = h THEN {}
                                ELSE IF d \in Audience(newRoutes, h) THEN told[d] \ gone
                                ELSE told[d]]
    BY <1>12 DEF CloseFd
  <2>1. PICK c \in Comps : c = h
    BY <1>0, <1>12 DEF CloseFd, TypeOK
  <2> HIDE DEF h
  <2>b. /\ routes' = [n \in Names |-> IF n \in V THEN RouteRemove(routes[n], h) ELSE routes[n]]
        /\ told' = [d \in Comps |->
                    IF d = h THEN {}
                    ELSE IF d \in Audience(routes', h) THEN told[d] \ {n \in V : routes'[n] = <<>>}
                    ELSE told[d]]
    BY <2>a, Zenon
  <2>2. /\ V \in WalkVisits(c)
        /\ routes' = [n \in Names |-> IF n \in V THEN RouteRemove(routes[n], c) ELSE routes[n]]
        /\ told' = [d \in Comps |->
                    IF d = c THEN {}
                    ELSE IF d \in Audience(routes', c) THEN told[d] \ {n \in V : routes'[n] = <<>>}
                    ELSE told[d]]
    BY <2>a, <2>b, <2>1
  <2>3. V = croutes[c]
    BY <1>0, <2>2, WalkComplete DEF TableInv
  <2>4. /\ state' = [state EXCEPT ![c] = "none"]
        /\ legacy' = [legacy EXCEPT ![c] = FALSE]
        /\ croutes' = [croutes EXCEPT ![c] = {}]
    BY <1>12, <2>1 DEF CloseFd, h
  <2>5. routes' = [n \in Names |-> IF n \in croutes[c] THEN RouteRemove(routes[n], c) ELSE routes[n]]
    BY <2>2, <2>3
  <2>6. told' = [d \in Comps |->
                    IF d = c THEN {}
                    ELSE IF d \in Audience(routes', c) THEN told[d] \ {n \in croutes[c] : routes'[n] = <<>>}
                    ELSE told[d]]
    BY <2>2, <2>3
  <2>7. told'[c] = {} /\ \A d \in Comps \ {c} :
              told'[d] = IF d \in Audience(routes', c)
                         THEN told[d] \ {n \in croutes[c] : routes'[n] = <<>>} ELSE told[d]
    BY <2>6
  <2>8. QED
    BY <1>0, <1>1, <2>4, <2>5, <2>7, CloseInforms
<1>13. Goal
  BY <1>4, <1>5, <1>6, <1>7, <1>9, <1>10, <1>11, <1>12 DEF Next, MainLoop, Naming
<1>14. UnboundUntold' /\ AdvertisedExactly'
  <2>1. TableInv' => ((UnboundUntold' /\ AdvertisedExactly') <=> AllInformed')
    BY InformedAll, PTL
  <2>2. AllInformed'
    BY <1>13 DEF AllInformed
  <2>3. QED
    BY <1>0, <2>1, <2>2
<1>15. QED
  BY <1>0, <1>14 DEF AdvertInv

(* Whatever the order of binds and disconnects, a component that takes     *)
(* part has been told of exactly the names that are online: none is        *)
(* missing although others share it, and no stale one is left.             *)
THEOREM AdvertisedAlways == ASSUME Tame PROVE Spec => []AdvertisedExactly
<1>1. Init => UnboundUntold /\ AdvertisedExactly
  BY DEF Init, UnboundUntold, AdvertisedExactly, InSeq
<1>2. AdvertInv /\ [Next]_vars => AdvertInv'
  BY AdvertStep
<1>3. AdvertInv => AdvertisedExactly
  BY DEF AdvertInv
<1>4. Spec => []TableInv
  BY TableAlways
<1>5. Init /\ TableInv => AdvertInv
  BY <1>1 DEF AdvertInv
<1>6. QED
  BY <1>2, <1>3, <1>4, <1>5, PTL DEF Spec
=============================================================================
