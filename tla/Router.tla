------------------------------- MODULE Router -------------------------------
(***************************************************************************)
(* The router process (router/router.c, the main loop of router/main.c):   *)
(* components connect, authenticate, bind names, exchange routed packets,  *)
(* are throttled, and disconnect.  The process is single threaded: stream  *)
(* callbacks run inside mio_run (pc = "mio"), closed descriptors are       *)
(* drained by the main loop afterwards (pc = "close").                     *)
(*                                                                         *)
(* A component_t pointer is a member of Comps.  It is live while it is in  *)
(* `components'; a table that still holds it afterwards holds a pointer to *)
(* freed memory, and a write to it has no defined effect on a component.   *)
(***************************************************************************)
EXTENDS Naturals, Sequences, FiniteSets

CONSTANTS
    Comps,          \* connection slots
    Names,          \* domain names that may be bound
    Users,          \* authenticated user names of components
    Aliases,        \* configured <alias name target>: a set of <<name, target>>
    Aci,            \* acl type -> set of users (router.xml <aci>)
    Bucket,         \* bucket of each name in a component's own route hash
    LegacyAllowed,  \* local.secret is configured
    FilterTargets,  \* redirect targets and/or Deny the loaded filter can answer
    WellBehaved,    \* TRUE: components act like those of the repository, which
                    \* bind a name once per connection and never unbind it
    MaxPkt,         \* bound: packets handed to the router in a behaviour
    MaxRoute,       \* bound: entries of one name in the route table
    NoName, NoComp, Deny

AclTypes == {"all", "bind", "default-route", "log"}

ASSUME RouterAssumption ==
    /\ Aliases \subseteq Names \X Names
    /\ Aci \in [AclTypes -> SUBSET Users]
    /\ Bucket \in [Names -> Nat]
    /\ LegacyAllowed \in BOOLEAN
    /\ WellBehaved \in BOOLEAN
    /\ FilterTargets \subseteq Names \cup {Deny}
    /\ MaxPkt \in Nat
    /\ MaxRoute \in Nat
    /\ NoName \notin Names
    /\ NoComp \notin Comps
    /\ Deny \notin Names
    /\ IsFiniteSet(Names)

VARIABLES
    pc,             \* "mio" inside mio_run, "close" in the clean-up that follows
    components,     \* r->components
    state,          \* comp->s->state; "none" when there is no such connection
    legacy,         \* comp->legacy
    user,           \* the user part of comp->s->auth_id; for a legacy stream req_to
    croutes,        \* comp->routes: the names this component has bound
    czen,           \* those of croutes that sit in the hash's bucket array itself
    routes,         \* r->routes: name -> components bound to it (<<>>: no entry)
    rtype,          \* routes_st.rtype of an entry
    default_route,  \* r->default_route
    log_sinks,      \* r->log_sinks
    throttled,      \* comp->tq # NULL
    tq,             \* the packets in comp->tq
    sent,           \* routed packets written to the component's stream, in order
    told,           \* names the stream has announced online and not offline since
    closefd,        \* r->closefd
    npkt            \* packets handed to the router so far

conn == <<components, state, legacy, user>>
table == <<croutes, czen, routes, rtype, default_route, log_sinks>>
data == <<throttled, tq, sent, npkt>>
vars == <<pc, conn, table, data, told, closefd>>

Packet == [src : Comps, num : 1..MaxPkt, kind : {"route", "log", "bounce", "broadcast"}]

States == {"none", "new", "stream", "open", "closing", "closed"}

TypeOK ==
    /\ pc \in {"mio", "close"}
    /\ components \subseteq Comps
    /\ state \in [Comps -> States]
    /\ legacy \in [Comps -> BOOLEAN]
    /\ user \in [Comps -> Users \cup Names \cup {NoName}]
    /\ croutes \in [Comps -> SUBSET Names]
    /\ czen \in [Comps -> SUBSET Names]
    /\ routes \in [Names -> Seq(Comps)]
    /\ rtype \in [Names -> {"SINGLE", "MULTI_TO", "MULTI_FROM"}]
    /\ default_route \in Names \cup {NoName}
    /\ log_sinks \in [Names -> Comps \cup {NoComp}]
    /\ throttled \in [Comps -> BOOLEAN]
    /\ tq \in [Comps -> Seq(Packet)]
    /\ sent \in [Comps -> Seq(Packet)]
    /\ told \in [Comps -> SUBSET Names]
    /\ closefd \in Seq(Comps)
    /\ npkt \in 0..MaxPkt

Init ==
    /\ pc = "mio"
    /\ components = {}
    /\ state = [c \in Comps |-> "none"]
    /\ legacy = [c \in Comps |-> FALSE]
    /\ user = [c \in Comps |-> NoName]
    /\ croutes = [c \in Comps |-> {}]
    /\ czen = [c \in Comps |-> {}]
    /\ routes = [n \in Names |-> <<>>]
    /\ rtype = [n \in Names |-> "SINGLE"]
    /\ default_route = NoName
    /\ log_sinks = [n \in Names |-> NoComp]
    /\ throttled = [c \in Comps |-> FALSE]
    /\ tq = [c \in Comps |-> <<>>]
    /\ sent = [c \in Comps |-> <<>>]
    /\ told = [c \in Comps |-> {}]
    /\ closefd = <<>>
    /\ npkt = 0

-----------------------------------------------------------------------------
(* Helpers                                                                 *)

InSeq(x, s) == \E i \in DOMAIN s : s[i] = x

(* sx_nad_write drops silently once the stream is closing (sx/io.c), and    *)
(* nothing is known about a write through a freed component.               *)
Writable(c) == c \in components /\ state[c] \in {"new", "stream", "open"}

AciCheck(type, u) == u \in Aci["all"] \cup Aci[type]

AliasesOf(n) == {a \in Names : <<a, n>> \in Aliases}
IsAlias(n) == \E t \in Names : <<n, t>> \in Aliases

(* A name put into comp->routes takes the cell of its bucket in the array   *)
(* when that is free, and is chained behind it otherwise.                  *)
BucketFree(z, n) == \A m \in z : Bucket[m] # Bucket[n]
ZenPut(z, have, n) == IF n \notin have /\ BucketFree(z, n) THEN z \cup {n} ELSE z
ZenPuts(z, have, S) ==      \* a set of names put in some order
    {z \cup P : P \in {Q \in SUBSET (S \ have) :
        /\ \A n \in Q : BucketFree(z, n)
        /\ \A n, m \in Q : Bucket[n] = Bucket[m] => n = m
        /\ \A n \in S \ have : BucketFree(z, n) => \E m \in Q : Bucket[m] = Bucket[n]}}

(* Mutant: the walk sees the array cells only.                             *)
WalkVisits_cells(c) == {czen[c]}

(* xhash_walk(comp->routes) with a walker that zaps the entry it is given:  *)
(* zapping a chained node moves it to the free list and redirects its next *)
(* pointer there, so of every chain only one entry (whichever is first) is *)
(* reached, besides the array's own cells.                                 *)
WalkVisits(c) ==
    {czen[c] \cup P : P \in {Q \in SUBSET (croutes[c] \ czen[c]) :
        /\ \A n, m \in Q : Bucket[n] = Bucket[m] => n = m
        /\ \A n \in croutes[c] \ czen[c] : \E m \in Q : Bucket[m] = Bucket[n]}}

(* _route_remove's loop: scan left to right, overwrite a match with the    *)
(* last entry and shrink; the entry moved in is not looked at again.       *)
Before(s, i, c) == Cardinality({j \in 1..(i - 1) : s[j] = c})
Hits(s, c) == {i \in DOMAIN s : s[i] = c /\ i + Before(s, i, c) <= Len(s)}
SwapRemove(s, c) ==
    [i \in 1..(Len(s) - Cardinality(Hits(s, c))) |->
        IF i \in Hits(s, c) THEN s[Len(s) - Before(s, i, c)] ELSE s[i]]
(* Mutant: the whole entry is dropped although others are bound to it.     *)
RouteRemove_all(s, c) == <<>>
RouteRemove(s, c) == IF Len(s) > 1 THEN SwapRemove(s, c) ELSE <<>>

RouteAdd(s, c, times) == s \o [i \in 1..times |-> c]

(* Mutant: only the first component of each entry is told.                 *)
Audience_first(r, src) ==
    {d \in Comps \ {src} : Writable(d) /\ ~legacy[d] /\ \E n \in Names : r[n] # <<>> /\ Head(r[n]) = d}

(* _router_advertise reaches every component found in the route table,     *)
(* except the one concerned and legacy ones.                               *)
Audience(r, src) ==
    {d \in Comps \ {src} : Writable(d) /\ ~legacy[d] /\ \E n \in Names : InSeq(d, r[n])}

Online(r) == {n \in Names : r[n] # <<>>}

(* Names V go offline: their log sinks and the default route go with them. *)
(* Mutants: each is left in place.                                         *)
DropSinks_keep(V) == log_sinks
DropSinks(V) == [n \in Names |-> IF n \in V THEN NoComp ELSE log_sinks[n]]
DropDefault_keep(V) == default_route
DropDefault(V) == IF default_route \in V THEN NoName ELSE default_route

(* Mutant: a descriptor is queued once per event.                          *)
PushCloseFd_again(c) == Append(closefd, c)

(* event_CLOSED queues the descriptor unless it is already there.          *)
PushCloseFd(c) == IF InSeq(c, closefd) THEN closefd ELSE Append(closefd, c)

-----------------------------------------------------------------------------
(* Connection life cycle                                                   *)

Accept(c) ==
    /\ pc = "mio"
    /\ c \notin components
    /\ components' = components \cup {c}
    /\ state' = [state EXCEPT ![c] = "new"]
    /\ UNCHANGED <<pc, legacy, user, table, data, told, closefd>>

(* event_STREAM: a legacy header needs a shared secret and a "to".         *)
Stream(c, old, to) ==
    /\ pc = "mio"
    /\ state[c] = "new"
    /\ legacy' = [legacy EXCEPT ![c] = old]
    /\ IF old /\ (~LegacyAllowed \/ to = NoName)
       THEN state' = [state EXCEPT ![c] = "closing"] /\ UNCHANGED user
       ELSE /\ state' = [state EXCEPT ![c] = "stream"]
            /\ user' = [user EXCEPT ![c] = IF old THEN to ELSE NoName]
    /\ UNCHANGED <<pc, components, table, data, told, closefd>>

(* SASL succeeded on a normal stream: event_OPEN only logs.                *)
Auth(c, u) ==
    /\ pc = "mio"
    /\ state[c] = "stream"
    /\ ~legacy[c]
    /\ state' = [state EXCEPT ![c] = "open"]
    /\ user' = [user EXCEPT ![c] = u]
    /\ UNCHANGED <<pc, components, legacy, table, data, told, closefd>>

(* A legacy handshake with a wrong hash: stream error, close.              *)
HandshakeFail(c) ==
    /\ pc = "mio"
    /\ state[c] = "stream"
    /\ legacy[c]
    /\ state' = [state EXCEPT ![c] = "closing"]
    /\ UNCHANGED <<pc, components, legacy, user, table, data, told, closefd>>

(* event_OPEN of a legacy stream whose req_to is an alias: error, close.   *)
LegacyOpenAliased(c) ==
    /\ pc = "mio"
    /\ state[c] = "stream"
    /\ legacy[c]
    /\ IsAlias(user[c])
    /\ state' = [state EXCEPT ![c] = "closing"]
    /\ UNCHANGED <<pc, components, legacy, user, table, data, told, closefd>>

(* event_OPEN of a legacy stream: its req_to and the aliases of req_to are *)
(* added to the table without asking whether they are bound already.       *)
LegacyOpen(c) ==
    LET n == user[c]
        S == {n} \cup AliasesOf(n)
        newRoutes == [m \in Names |-> IF m \in S THEN RouteAdd(routes[m], c, 1) ELSE routes[m]]
    IN /\ pc = "mio"
       /\ state[c] = "stream"
       /\ legacy[c]
       /\ ~IsAlias(n)
       /\ \A m \in S : Len(routes[m]) < MaxRoute
       /\ state' = [state EXCEPT ![c] = "open"]
       /\ routes' = newRoutes
       /\ rtype' = [m \in Names |->
                        IF m \in S /\ routes[m] = <<>> THEN "MULTI_FROM" ELSE rtype[m]]
       /\ croutes' = [croutes EXCEPT ![c] = @ \cup S]
       /\ \E z \in ZenPuts(ZenPut(czen[c], croutes[c], n), croutes[c] \cup {n}, AliasesOf(n)) :
              czen' = [czen EXCEPT ![c] = z]
       /\ told' = [d \in Comps |-> IF d \in Audience(newRoutes, c) THEN told[d] \cup S ELSE told[d]]
       /\ UNCHANGED <<pc, components, legacy, user, default_route, log_sinks, data, closefd>>

(* The peer ends its stream: our end tag is queued, state_CLOSING.         *)
PeerClose(c) ==
    /\ pc = "mio"
    /\ state[c] \in {"stream", "open"}
    /\ state' = [state EXCEPT ![c] = "closing"]
    /\ UNCHANGED <<pc, components, legacy, user, table, data, told, closefd>>

(* sx_kill on a read or write error or end of file, possibly repeatedly,   *)
(* or the last byte of a closing stream written: event_CLOSED.  While the  *)
(* main loop closes, only the write of an advertisement can fail.          *)
Closed(c) ==
    /\ pc = "close" => c \in Audience(routes, NoComp)
    /\ c \in components
    /\ state' = [state EXCEPT ![c] = "closed"]
    /\ closefd' = PushCloseFd(c)
    /\ UNCHANGED <<pc, components, legacy, user, table, data, told>>

-----------------------------------------------------------------------------
(* Binding and unbinding names: packets of an open, non-legacy stream       *)

Asks(c) == pc = "mio" /\ state[c] = "open" /\ ~legacy[c]

MayBind(c, n) == user[c] = n \/ AciCheck("bind", user[c])

(* The checks of _router_process_bind in their order; the first that fails *)
(* answers with an error and nothing is bound.                             *)
BindRefused(c, n, multi, default, log) ==
    \/ ~MayBind(c, n)                                              \* 403
    \/ routes[n] # <<>> /\ ~multi                                  \* 409
    \/ IsAlias(n)                                                  \* 409
    \/ default /\ ~AciCheck("default-route", user[c])              \* 403
    \/ default /\ default_route # NoName                           \* 409

(* The log sink check comes last, after default_route has been set.        *)
BindLogRefused(c, n, multi, default, log) ==
    /\ Asks(c)
    /\ ~BindRefused(c, n, multi, default, log)
    /\ log /\ ~AciCheck("log", user[c])                            \* 403
    /\ default_route' = IF default THEN n ELSE default_route
    /\ UNCHANGED <<pc, conn, croutes, czen, routes, rtype, log_sinks, data, told, closefd>>

(* The name a <default/> bind makes the default route.                     *)
(* Mutant: the authenticated user takes the place of the name.             *)
DefaultName_user(c, n) == user[c]
DefaultName(c, n) == n

(* A bind that succeeds: the name is added, everybody else is told about   *)
(* it, the component is told about everybody else, and then, for each      *)
(* alias of the name, the code adds the name itself (not the alias) to the *)
(* route table again, records the alias as bound and advertises it.        *)
Bind(c, n, multi, default, log) ==
    LET al == AliasesOf(n)
        newRoutes == [routes EXCEPT ![n] = RouteAdd(@, c, 1 + Cardinality(al))]
        others == {m \in Online(newRoutes) : ~InSeq(c, newRoutes[m])}
    IN /\ Asks(c)
       /\ WellBehaved => n \notin croutes[c]
       /\ ~BindRefused(c, n, multi, default, log)
       /\ log => AciCheck("log", user[c])
       /\ Len(routes[n]) + Cardinality(al) < MaxRoute
       /\ default_route' = IF default THEN DefaultName(c, n) ELSE default_route
       /\ log_sinks' = IF log THEN [log_sinks EXCEPT ![n] = c] ELSE log_sinks
       /\ routes' = newRoutes
       /\ rtype' = IF routes[n] = <<>>
                    THEN [rtype EXCEPT ![n] = IF multi THEN "MULTI_TO" ELSE "SINGLE"]
                    ELSE rtype
       /\ croutes' = [croutes EXCEPT ![c] = @ \cup {n} \cup al]
       /\ \E z \in ZenPuts(ZenPut(czen[c], croutes[c], n), croutes[c] \cup {n}, al) :
              czen' = [czen EXCEPT ![c] = z]
       /\ told' = [d \in Comps |->
                        IF d = c THEN told[c] \cup others
                        ELSE IF d \in Audience(newRoutes, c) THEN told[d] \cup {n} \cup al
                        ELSE told[d]]
       /\ UNCHANGED <<pc, conn, data, closefd>>

(* _router_process_unbind of a name this component has bound.              *)
Unbind(c, n) ==
    LET newRoutes == [routes EXCEPT ![n] = RouteRemove(@, c)]
    IN /\ Asks(c)
       /\ ~WellBehaved
       /\ n \in croutes[c]
       /\ log_sinks' = DropSinks({n})
       /\ routes' = newRoutes
       /\ croutes' = [croutes EXCEPT ![c] = @ \ {n}]
       /\ czen' = [czen EXCEPT ![c] = @ \ {n}]
       /\ default_route' = DropDefault({n})
       /\ told' = [d \in Comps |->
                        IF newRoutes[n] = <<>> /\ d \in Audience(newRoutes, c)
                        THEN told[d] \ {n} ELSE told[d]]
       /\ UNCHANGED <<pc, conn, rtype, data, closefd>>

-----------------------------------------------------------------------------
(* Routed packets                                                          *)

(* Mutant: broadcasts are written although other packets are held back.    *)
CompWrites_direct(w) ==
    LET held(d) == SelectSeq(w[d], LAMBDA p : throttled[d] /\ p.kind # "broadcast")
        direct(d) == SelectSeq(w[d], LAMBDA p : ~throttled[d] \/ p.kind = "broadcast")
    IN /\ tq' = [d \in Comps |-> IF d \in components THEN tq[d] \o held(d) ELSE tq[d]]
       /\ sent' = [d \in Comps |-> IF Writable(d) THEN sent[d] \o direct(d) ELSE sent[d]]

(* _router_comp_write of the packets w[d] to every component d: queued     *)
(* while throttled, otherwise written to the stream.                       *)
CompWrites(w) ==
    /\ tq' = [d \in Comps |->
                  IF d \in components /\ throttled[d] THEN tq[d] \o w[d] ELSE tq[d]]
    /\ sent' = [d \in Comps |->
                  IF Writable(d) /\ ~throttled[d] THEN sent[d] \o w[d] ELSE sent[d]]

Pkt(c, k) == [src |-> c, num |-> npkt + 1, kind |-> k]

(* One packet of c is being routed: it gets the next number.               *)
Routes(c) ==
    /\ pc = "mio"
    /\ state[c] = "open"
    /\ npkt < MaxPkt
    /\ npkt' = npkt + 1
    /\ UNCHANGED <<pc, conn, table, told, closefd, throttled>>

BounceTo(c) == CompWrites([d \in Comps |-> IF d = c THEN <<Pkt(c, "bounce")>> ELSE <<>>])

(* The components a unicast packet may go to: those bound to its "to", or  *)
(* to the default route unless it comes from the default route itself.     *)
Targets(from, to) ==
    IF routes[to] # <<>> THEN routes[to]
    ELSE IF default_route \in {from, NoName} THEN <<>>
    ELSE routes[default_route]

(* A unicast packet.  The filter may redirect or deny it, a copy goes to   *)
(* every log sink, and when several components are bound one is chosen by  *)
(* a hash of the inner JID (or at random): here, any of them.              *)
Unicast(c, from, to) ==
    /\ Routes(c)
    /\ \E dest \in {to} \cup FilterTargets :
          IF from \notin croutes[c] \/ dest = Deny
          THEN BounceTo(c)
          ELSE IF Targets(from, dest) = <<>> THEN BounceTo(c)
          ELSE \E i \in DOMAIN Targets(from, dest) :
                 CompWrites([d \in Comps |->
                    [j \in 1..Cardinality({n \in Names : log_sinks[n] = d}) |-> Pkt(c, "log")]
                        \o IF Targets(from, dest)[i] = d THEN <<Pkt(c, "route")>> ELSE <<>>])

Broadcast(c, from) ==
    /\ Routes(c)
    /\ ~legacy[c]
    /\ IF from \notin croutes[c] THEN BounceTo(c)
       ELSE CompWrites([d \in Comps |->
                IF d \in components \ {c} THEN <<Pkt(c, "broadcast")>> ELSE <<>>])

(* <throttle/> toggles; the answer itself is not a routed packet.  (With   *)
(* MaxPkt = 0 there is nothing to hold back and the toggle is left out.)   *)
Throttle(c) ==
    /\ Asks(c)
    /\ MaxPkt > 0
    /\ throttled' = [throttled EXCEPT ![c] = ~@]
    /\ sent' = [sent EXCEPT ![c] = IF throttled[c] THEN @ \o tq[c] ELSE @]
    /\ tq' = [tq EXCEPT ![c] = <<>>]
    /\ UNCHANGED <<pc, conn, table, npkt, told, closefd>>

-----------------------------------------------------------------------------
(* The main loop after mio_run, and action_CLOSE                           *)

MioDone ==
    /\ pc = "mio"
    /\ closefd # <<>>
    /\ pc' = "close"
    /\ UNCHANGED <<conn, table, data, told, closefd>>

(* mio_close of the first queued descriptor: unbind what the walk over     *)
(* comp->routes reaches, deregister, drop the throttle queue, free.        *)
CloseFd ==
    LET c == Head(closefd)
    IN /\ pc = "close"
       /\ closefd # <<>>
       /\ closefd' = Tail(closefd)
       /\ \E V \in WalkVisits(c) :
            LET newRoutes == [n \in Names |->
                                IF n \in V THEN RouteRemove(routes[n], c) ELSE routes[n]]
                gone == {n \in V : newRoutes[n] = <<>>}
            IN /\ routes' = newRoutes
               /\ log_sinks' = DropSinks(V)
               /\ default_route' = DropDefault(V)
               /\ told' = [d \in Comps |->
                                IF d = c THEN {}
                                ELSE IF d \in Audience(newRoutes, c) THEN told[d] \ gone
                                ELSE told[d]]
       /\ components' = components \ {c}
       /\ state' = [state EXCEPT ![c] = "none"]
       /\ legacy' = [legacy EXCEPT ![c] = FALSE]
       /\ user' = [user EXCEPT ![c] = NoName]
       /\ croutes' = [croutes EXCEPT ![c] = {}]
       /\ czen' = [czen EXCEPT ![c] = {}]
       /\ throttled' = [throttled EXCEPT ![c] = FALSE]
       /\ tq' = [tq EXCEPT ![c] = <<>>]
       /\ sent' = [sent EXCEPT ![c] = <<>>]
       /\ UNCHANGED <<pc, rtype, npkt>>

(* Mutant: one descriptor is closed per turn and the others forgotten.     *)
LoopAgain_forget ==
    /\ pc = "close"
    /\ pc' = "mio"
    /\ closefd' = <<>>
    /\ UNCHANGED <<conn, table, data, told>>

LoopAgain ==
    /\ pc = "close"
    /\ closefd = <<>>
    /\ pc' = "mio"
    /\ UNCHANGED <<conn, table, data, told, closefd>>

MainLoop == MioDone \/ CloseFd \/ LoopAgain

Connection(c) ==
    \/ Accept(c)
    \/ \E old \in BOOLEAN, to \in Names \cup {NoName} : Stream(c, old, to)
    \/ \E u \in Users : Auth(c, u)
    \/ HandshakeFail(c)
    \/ LegacyOpenAliased(c)
    \/ LegacyOpen(c)
    \/ PeerClose(c)
    \/ Closed(c)

Naming(c) ==
    \E n \in Names :
        \/ Unbind(c, n)
        \/ \E multi, default, log \in BOOLEAN :
              Bind(c, n, multi, default, log) \/ BindLogRefused(c, n, multi, default, log)

Packets(c) ==
    \/ \E from, to \in Names : Unicast(c, from, to)
    \/ \E from \in Names : Broadcast(c, from)
    \/ Throttle(c)

Next == MainLoop \/ \E c \in Comps : Connection(c) \/ Naming(c) \/ Packets(c)

(* mio_run returns after at most its timeout and the clean-up loop does    *)
(* not wait for anybody, so the main loop always goes on; what components  *)
(* do is never forced.                                                     *)
Spec == Init /\ [][Next]_vars /\ WF_vars(MainLoop)

-----------------------------------------------------------------------------
(* Properties                                                              *)

(* r->routes holds "valid routes" (router.h): every component in it is     *)
(* still connected and has the name in its own table.  It is what makes    *)
(* the dereferences of routes->comp[i] in broadcasts and unicasts safe.    *)
RoutesValid ==
    \A n \in Names : \A i \in DOMAIN routes[n] :
        routes[n][i] \in components /\ n \in croutes[routes[n][i]]

(* The other direction: a name a component holds is routed to it.  Without *)
(* it a component believes itself bound and its packets go elsewhere.      *)
BoundRouted == \A c \in Comps : \A n \in croutes[c] : InSeq(c, routes[n])

(* A log sink is a live component that holds the name it registered under. *)
LogSinksLive ==
    \A n \in Names : log_sinks[n] # NoComp =>
        log_sinks[n] \in components /\ n \in croutes[log_sinks[n]]

(* The default route is a name some component has bound: <default/> "sets  *)
(* this component as the default route" (docs/dev/component-protocol).     *)
DefaultRouteBound == default_route # NoName => routes[default_route] # <<>>

(* What a component that takes part (open, not legacy, something bound)    *)
(* has been told by <presence/> advertisements is the truth about every    *)
(* name it does not hold itself, and nothing it was told is stale.         *)
AdvertisedExactly ==
    \A c \in Comps :
        (state[c] = "open" /\ ~legacy[c] /\ \E n \in Names : InSeq(c, routes[n])) =>
            /\ {n \in Online(routes) : ~InSeq(c, routes[n])} \subseteq told[c]
            /\ told[c] \subseteq Online(routes)

(* Packets reach a component in the order the router was handed them,      *)
(* however often it throttles: what waits in tq is never overtaken.        *)
InOrder ==
    \A d \in Comps :
        LET s == sent[d] \o tq[d]
        IN \A i, j \in DOMAIN s : i < j => s[i].num <= s[j].num

(* A descriptor waits in closefd at most once and only while its component *)
(* exists: action_CLOSE frees the component, so a second close of the same *)
(* descriptor would run it on freed memory.                                *)
CloseOnce ==
    /\ \A i \in DOMAIN closefd : closefd[i] \in components
    /\ \A i, j \in DOMAIN closefd : closefd[i] = closefd[j] => i = j

(* A component whose stream has been closed is eventually deregistered.    *)
Reaped == \A c \in Comps : state[c] = "closed" ~> state[c] = "none"
=============================================================================
