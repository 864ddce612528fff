------------------------------ MODULE Manager ------------------------------
(***************************************************************************)
(* The session manager behind its session protocol (SM): the dispatcher,   *)
(* the module chains in the order etc/sm.xml.dist.in gives them, and the   *)
(* modules in them: session, validate, roster, presence, offline, deliver, *)
(* amp, disco, help, echo and the iq modules.                              *)
(*                                                                         *)
(* One local user is followed, with the user's sessions, spool file and    *)
(* roster; a peer is any JID of another server, or such a server itself; a *)
(* service is a component that answers discovery.  A handler maps a work state (the manager, the  *)
(* packet at hand, the packets written so far, the module's return value)  *)
(* to the next one; an action is one packet the router delivers to the     *)
(* manager.  What the manager writes for its own domain comes back through *)
(* the router later, in order (queue).                                     *)
(***************************************************************************)
EXTENDS Integers, Sequences, SequencesExt, FiniteSets, TLC

CONSTANTS
    Resources,      \* resources of the user
    Peers,          \* JIDs of other servers
    Domains,        \* the peers that are a server, with neither a node nor a resource
    Roster,         \* the peers the users file lists
    Admins,         \* acl "all": peers that administer the server
    Services,       \* components that come and go and answer discovery
    Static,         \* services the configuration lists
    Offline,        \* options of mod_offline
    Scenes,         \* what goes on around the manager, by name: the stanzas that
                    \* clients and peers send, and what may happen besides
    OwnPresence,    \* whether the presence that the user's sessions exchange
                    \* through the router, which only clients see, is followed
    MaxSend,        \* bound: messages and requests that are followed
    MaxQueue,       \* bound: packets on the way back when a stanza is sent
    MaxBounce       \* bound: pairs of a resource and a peer that returned its presence

VARIABLES
    scene,      \* the scene that is played; "bounce" lets peers be unreachable,
                \* "spool" the spool file unwritable, "c2s" lets c2s and
                \* "services" services come and go
    mgr,        \* the manager's own state
    queue,      \* packets to its own domain the router is about to return
    online,     \* services that are bound at the router
    asked,      \* services that have a discovery request to answer
    log,        \* the messages and requests sent, by id
    fate,       \* what came of each
    view,       \* what the last presence of a resource told each peer
    bounced     \* the peers that returned a presence of a resource's session

vars == <<scene, mgr, queue, online, asked, log, fate, view, bounced>>

\* JIDs: a node or a domain, and a resource
NoJid == <<"", "">>
Jid(n) == <<n, "">>
Host == Jid("host")         \* the domain the manager serves
SmId == Jid("sm")           \* its component name
User == Jid("user")
Full(r) == <<"user", r>>
BareJid(j) == Jid(j[1])

\* whose JIDs there are: the user and the server itself, peers, and components
Ours == {"user", "host", "sm"}
Known == Ours \cup Peers
Bare == Services \cup Domains \cup {"host", "sm"}     \* those without a node
Jids == {j \in (Known \cup Services \cup {"", "c2s"}) \X (Resources \cup {"", "help", "echo"}) :
            /\ j[1] = "" => j[2] = ""
            /\ j[1] = "user" => j[2] \in Resources \cup {""}}

\* the namespaces and nodes the modules tell apart, and another
Namespaces == {"", "roster", "ping", "time", "version", "disco-info", "disco-items", "agents", "event", "notice", "x"}
Nodes == {"", "amp", "sessions", "im", "bad", "empty"}
Rule == [action : STRING, when : STRING]

\* what a client or a peer may send, before it is parsed
Stanza == {x \in [elem : {"message", "presence", "iq", "stanza"}, type : STRING \cup {""}, err : {FALSE}, to : Jids,
                  from : {NoJid}, ns : Namespaces, node : Nodes, pri : Int, rule : Seq(Rule), id : {0}, sess : {""},
                  rerr : {FALSE}] : x.elem = "stanza" => x.type = ""}

ASSUME ManagerAssumption ==
    /\ "" \notin Resources
    /\ IsFiniteSet(Peers) /\ Peers \cap (Ours \cup {"", "c2s"}) = {}
    /\ Services \cap (Known \cup {"", "c2s"}) = {}
    /\ Domains \subseteq Peers /\ Roster \subseteq Peers /\ Admins \subseteq Peers /\ Static \cap Peers = {}
    /\ Offline \subseteq {"dropmessages", "storeheadlines", "dropsubscriptions"}
    /\ \A n \in DOMAIN Scenes :
        /\ Scenes[n].client \subseteq {x \in Stanza : x.to[1] \in Known \cup {""}}
        /\ Scenes[n].peer \subseteq {x \in Stanza : x.to[1] \in Ours}
        /\ Scenes[n].may \subseteq {"bounce", "spool", "c2s", "services"}
    /\ OwnPresence \in BOOLEAN
    /\ MaxSend \in Nat /\ MaxQueue \in Nat /\ MaxBounce \in Nat

-----------------------------------------------------------------------------
(* Packets                                                                 *)

\* pkt_new: a stanza <<element, type>> becomes a packet of one type; an iq
\* without a proper type is none.  The type of an error is lost.
PktNew(x) ==
    CASE x.elem = "message" ->
            [x EXCEPT !.type = IF @ \in {"chat", "headline", "groupchat"} THEN @ ELSE "message"]
      [] x.elem = "presence" ->
            [x EXCEPT !.type = IF @ \in {"unavailable", "probe", "subscribe", "subscribed",
                                         "unsubscribe", "unsubscribed"} THEN @ ELSE "presence"]
      [] x.elem = "iq" -> [x EXCEPT !.type = IF @ \in {"get", "set", "result"} THEN @ ELSE "get"]
      [] OTHER -> x
Wellformed(x) == x.elem = "iq" => x.type \in {"get", "set", "result", "error"}

\* pkt_create
Packet(elem, type, to, from) ==
    [elem |-> elem, type |-> type, err |-> FALSE, to |-> to, from |-> from, ns |-> "", node |-> "",
     pri |-> 0, rule |-> <<>>, id |-> 0, sess |-> "", rerr |-> FALSE]

IsMessage(p) == p.elem = "message"
IsPresence(p) == p.type \in {"presence", "unavailable", "probe"}
IsS10n(p) == p.type \in {"subscribe", "subscribed", "unsubscribe", "unsubscribed"}
IsIq(p) == p.elem = "iq"
Is(p, t) == p.type = t /\ ~p.err
Get(p, ns) == Is(p, "get") /\ p.ns = ns

\* pkt_tofrom, pkt_dup
Swap(p) == [p EXCEPT !.to = p.from, !.from = p.to]
Dup(p, to, from) == [p EXCEPT !.to = to, !.from = from]
Result(p) == [p EXCEPT !.type = "result"]

Work(p) == [m |-> mgr, pkt |-> p, id |-> p.id, out |-> <<>>, ret |-> "PASS", io |-> TRUE]
Begin(w) == [w EXCEPT !.ret = "PASS"]
Passes(w) == w.ret = "PASS"
\* the next module of a chain, if those before it passed
Then(w, module(_)) == IF Passes(w) THEN module(w) ELSE w
Handled(w) == [w EXCEPT !.ret = "HANDLED"]
Fails(w) == [w EXCEPT !.ret = "error"]

\* a packet to the router, or to the client of session r, or, in a list with a
\* place for each, none
Item(via, r, p) == [via |-> via, r |-> r, p |-> p]

\* pkt_router; no module of the repository is in the out-router chain
Route(w, p) == IF p.to = NoJid THEN w ELSE [w EXCEPT !.out = Append(@, Item("router", "", p))]

\* pkt_sess, sess_route: to the client of session r
PktSess(w, p, r) == [w EXCEPT !.out = Append(@, Item("sess", r, p))]

\* a packet for each member of a list
PutAll(w, items) == [w EXCEPT !.out = @ \o items]

\* pkt_error: an error for an error is not sent
PktError(p) == [Swap(p) EXCEPT !.err = TRUE]
RouteError(w) == IF w.pkt.err THEN w ELSE Route(w, PktError(w.pkt))

-----------------------------------------------------------------------------
(* Users and sessions                                                      *)

NoSess == [on |-> FALSE, avail |-> FALSE, pri |-> 0, A |-> {}, E |-> {}]

\* a user who is not loaded
NoUser == [loaded |-> FALSE, order |-> <<>>, top |-> "", avail |-> FALSE, s |-> [r \in Resources |-> NoSess]]

\* user_load: the roster is read from a file and never fails
UserLoad(w) == [w EXCEPT !.m.u = IF @.loaded THEN @ ELSE [NoUser EXCEPT !.loaded = TRUE]]

\* user_free, once the last session has gone
UserFree(w) == IF w.m.u.order = <<>> THEN [w EXCEPT !.m.u = NoUser] ELSE w

Available(w) == \E i \in DOMAIN w.m.u.order : w.m.u.s[w.m.u.order[i]].avail

\* _pres_top: the last of the sessions (newest first) with the highest
\* priority, if that is not negative
PresTop(w) ==
    LET u == w.m.u
        pri(i) == u.s[u.order[i]].pri
        cand == {i \in DOMAIN u.order : u.s[u.order[i]].avail /\ pri(i) >= 0}
        best == {i \in cand : \A k \in cand : pri(k) <= pri(i)}
    IN  [w EXCEPT !.m.u.avail = Available(w),
                  !.m.u.top = IF cand = {} THEN "" ELSE u.order[Max(best)]]

\* the contacts the users file lists, in some order
Contacts == SetToSeq(Roster)

\* pres_trust
Trust(j) == j[1] \in Roster \cup {"user"}

\* forward a presence of session r to contacts, and to the other sessions
ToContacts(w, r, p, cs) ==
    LET list == SetToSeq(cs)
    IN  PutAll(w, [i \in DOMAIN list |-> Item("router", "", Dup(p, Jid(list[i]), Full(r)))])
ToRoster(w, r, p) == ToContacts(w, r, p, Roster \ w.m.u.s[r].E)
ToOurs(w, r, p) ==
    LET u == w.m.u
        to(x) == Item(IF x # r /\ u.s[x].avail THEN "router" ELSE "none", "", Dup(p, Full(x), Full(r)))
    IN  PutAll(w, [i \in DOMAIN u.order |-> to(u.order[i])])

Probe(to) == Packet("presence", "probe", to, User)
Probes(w, r) ==
    IF w.m.u.s[r].avail THEN w
    ELSE Route(PutAll(w, [i \in DOMAIN Contacts |-> Item("router", "", Probe(Jid(Contacts[i])))]), Probe(User))

\* pres_in: presence and probes from outside
PresIn(w) ==
    LET p == w.pkt
        u == w.m.u
        asks(r) == u.s[r].avail /\ Full(r) # p.from /\ p.to[2] \in {"", r}
        answer(r) == Item(IF asks(r) THEN "router" ELSE "none", "",
                          [Packet("presence", "presence", p.from, Full(r)) EXCEPT !.pri = u.s[r].pri])
        copy(r) == Item(IF u.s[r].avail /\ Full(r) # p.from THEN "sess" ELSE "none", r, Dup(p, Full(r), p.from))
        clean == [r \in Resources |-> [u.s[r] EXCEPT !.E = IF asks(r) THEN @ \ {p.from[1]} ELSE @]]
    IN  CASE Is(p, "probe") /\ ~Trust(p.from) -> Route(w, Packet("presence", "unsubscribed", p.from, p.to))
          [] Is(p, "probe") /\ Trust(p.from) ->
                IF ~u.avail THEN w
                ELSE [PutAll(w, [i \in DOMAIN u.order |-> answer(u.order[i])]) EXCEPT !.m.u.s = clean]
          [] OTHER -> PutAll(w, [i \in DOMAIN u.order |-> copy(u.order[i])])

\* pres_update: broadcast presence of session r
\* "walk A and forward to untrusted"
Withdraw(w, r, p) == ToContacts(w, r, p, {c \in w.m.u.s[r].A : ~Trust(Jid(c))})
\* Mutant: the user's top session is not chosen again.
PresUpdate_stay(w, r) ==
    LET p == w.pkt
        said == ToOurs(Withdraw(ToRoster(w, r, p), r, p), r, p)
        shown == ToOurs(ToRoster(Probes(w, r), r, p), r, p)
    IN  IF p.type = "unavailable"
        THEN [said EXCEPT !.m.u.s[r].A = {}, !.m.u.s[r].E = {}, !.m.u.s[r].avail = FALSE]
        ELSE PresTop([shown EXCEPT !.m.u.s[r].avail = TRUE, !.m.u.s[r].pri = p.pri])
PresUpdate(w, r) ==
    LET p == w.pkt
        shown == ToOurs(ToRoster(Probes(w, r), r, p), r, p)
        gone == ToOurs(Withdraw(ToRoster(w, r, p), r, p), r, p)
    IN  CASE Is(p, "presence") ->
                PresTop([shown EXCEPT !.m.u.s[r].avail = TRUE, !.m.u.s[r].pri = p.pri])
          [] Is(p, "unavailable") ->
                PresTop([gone EXCEPT !.m.u.s[r].A = {}, !.m.u.s[r].E = {}, !.m.u.s[r].avail = FALSE])
          [] Is(p, "probe") -> PresIn([w EXCEPT !.pkt = Dup(p, User, Full(r))])
          [] OTHER -> w

\* pres_error: a presence of session r was returned
PresError(w, r) ==
    LET c == w.pkt.from[1]
    IN  [w EXCEPT !.m.u.s[r].E = @ \cup {c}, !.m.u.s[r].A = @ \ {c}]

\* pres_deliver: directed presence
PresDeliver(w, r) ==
    LET p == w.pkt
        c == p.to[1]
        clean == [w EXCEPT !.m.u.s[r].E = @ \ {c}]
    IN  CASE c = "user" -> PresIn([w EXCEPT !.pkt = Dup(p, p.to, Full(r))])
          [] c # "user" /\ Is(p, "presence") ->
                Route(IF Trust(p.to) THEN clean ELSE [clean EXCEPT !.m.u.s[r].A = @ \cup {c}], p)
          [] c # "user" /\ Is(p, "unavailable") -> Route([clean EXCEPT !.m.u.s[r].A = @ \ {c}], p)
          [] OTHER -> w

-----------------------------------------------------------------------------
(* Modules: packets of a session (in-sess)                                 *)

ValidateInSess(w, r) == IF w.pkt.elem \in {"message", "presence", "iq"} THEN w ELSE Fails(w)

RosterInSess(w, r) ==
    CASE w.pkt.ns = "roster" /\ Is(w.pkt, "result") -> Handled(w)
      [] Get(w.pkt, "roster") -> Handled(PktSess(w, Swap(Result(w.pkt)), r))
      [] OTHER -> w

IqPingInSess(w, r) ==
    IF w.pkt.to = NoJid /\ Get(w.pkt, "ping") THEN Handled(PktSess(w, Result(w.pkt), r)) ELSE w

\* the cached answers of mod_disco: dynamic and static services in one list
Unified(m) == m.dyn \cup Static
Generated(w) == [w EXCEPT !.m.cache = <<Unified(w.m)>>]
Cached(w) == IF w.m.cache = <<>> THEN Generated(w) ELSE w

DiscoInSess(w, r) ==
    LET p == w.pkt
    IN  CASE Get(p, "disco-info") /\ p.to \in {NoJid, User} -> Handled(PktSess(w, Swap(Result(p)), r))
          [] Get(p, "agents") /\ p.to = NoJid -> Handled(PktSess(Cached(w), Result(p), r))
          [] OTHER -> w

\* _offline_deliver_from_file: what is kept of a message, its sender and body,
\* becomes a chat message
FromSpool(w, r) ==
    LET sent(q) == Item("sess", r, [Packet("message", "chat", Full(r), q.from) EXCEPT !.id = q.id])
    IN  PutAll(w, [i \in DOMAIN w.m.spool |-> sent(w.m.spool[i])])
\* Mutant: the spool is sent and not removed.
OfflineInSess_keep(w, r) ==
    LET p == w.pkt
        first == Is(p, "presence") /\ w.m.u.s[r].pri >= 0 /\ p.to = NoJid /\ w.m.u.top = ""
    IN  IF first THEN FromSpool(w, r) ELSE w
\* "if they're becoming available for the first time": the spool is sent and
\* removed
OfflineInSess(w, r) ==
    LET p == w.pkt
        first == Is(p, "presence") /\ w.m.u.s[r].pri >= 0 /\ p.to = NoJid /\ w.m.u.top = ""
    IN  IF first THEN [FromSpool(w, r) EXCEPT !.m.spool = <<>>] ELSE w

PresenceInSess(w, r) ==
    LET v == [w EXCEPT !.pkt.from = IF @[1] = "user" THEN @ ELSE Full(r)]
    IN  IF ~IsPresence(w.pkt) THEN w
        ELSE Handled(IF w.pkt.to = NoJid THEN PresUpdate(v, r) ELSE PresDeliver(v, r))

DeliverInSess(w, r) ==
    LET p == [w.pkt EXCEPT !.from = IF IsS10n(w.pkt) /\ @[1] = "user" THEN @ ELSE Full(r)]
    IN  CASE p.to = NoJid /\ Is(p, "result") -> Handled(w)
          [] p.to = NoJid /\ ~Is(p, "result") /\ IsIq(p) -> Fails([w EXCEPT !.pkt = p])
          [] p.to = NoJid /\ ~Is(p, "result") /\ ~IsIq(p) -> Handled(Route(w, [p EXCEPT !.to = Full(r)]))
          [] OTHER -> Handled(Route(w, p))

\* mm_in_sess
InSess(w, r) ==
    LET a == ValidateInSess(Begin(w), r)
        b == Then(a, LAMBDA x : RosterInSess(x, r))
        c == Then(b, LAMBDA x : IqPingInSess(x, r))
        d == Then(c, LAMBDA x : DiscoInSess(x, r))
        e == Then(d, LAMBDA x : OfflineInSess(x, r))
        f == Then(e, LAMBDA x : PresenceInSess(x, r))
    IN  Then(f, LAMBDA x : DeliverInSess(x, r))

-----------------------------------------------------------------------------
(* mod_session: sessions start and end                                     *)

Without(seq, x) == RemoveAt(seq, CHOOSE i \in DOMAIN seq : seq[i] = x)

\* _sess_end_guts: "fake an unavailable presence from this session"
\* Mutant: only available sessions say that they go.
EndGuts_shy(w, r) ==
    LET s == w.m.u.s[r]
        v == IF s.avail THEN InSess([w EXCEPT !.pkt = Packet("presence", "unavailable", NoJid, NoJid)], r) ELSE w
    IN  [v EXCEPT !.m.u.order = Without(@, r), !.m.u.s[r] = NoSess, !.pkt = w.pkt]
EndGuts(w, r) ==
    LET s == w.m.u.s[r]
        fake == Packet("presence", "unavailable", NoJid, NoJid)
        v == IF s.avail \/ s.A # {} THEN InSess([w EXCEPT !.pkt = fake], r) ELSE w
    IN  [v EXCEPT !.m.u.order = Without(@, r), !.m.u.s[r] = NoSess, !.pkt = w.pkt]

\* sess_end
SessEnd(w, r) == UserFree(EndGuts(w, r))

\* sess_start: a session of the same JID is replaced; the new one is first
SessStart(w, r) ==
    LET u == UserLoad(w)
        v == IF u.m.u.s[r].on THEN EndGuts(u, r) ELSE u
    IN  [v EXCEPT !.m.u.order = <<r>> \o @, !.m.u.s[r] = [NoSess EXCEPT !.on = TRUE]]

\* _session_in_router: control packets, and the stanzas of a session
Refused(w) == w.ret = "error" \/ (w.ret = "PASS" /\ ~Is(w.pkt, "result"))
SessError(w, r) == IF Refused(w) /\ ~w.pkt.err THEN PktSess(w, PktError(w.pkt), r) ELSE w
SessionInRouter(w) ==
    LET p == w.pkt
        r == p.sess
    IN  CASE r = "" -> w
          [] r # "" /\ p.elem = "start" -> Handled(SessStart(w, r))
          [] r # "" /\ p.elem = "end" -> Handled(SessEnd(w, r))
          [] OTHER -> Handled(SessError(InSess(w, r), r))

\* _session_pkt_router: c2s went offline
SessEnds(w, order) == FoldLeft(SessEnd, w, order)
SessionPktRouter(w) ==
    IF w.pkt.type = "unavailable" /\ w.pkt.from = Jid("c2s")
    THEN SessEnds(w, w.m.u.order) ELSE w

-----------------------------------------------------------------------------
(* Modules: packets for the user (pkt-user)                                *)

\* _presence_in_router: presence is dropped unless a session is available
PresenceInRouter(w) ==
    IF IsPresence(w.pkt) /\ w.pkt.to[1] = "user" /\ ~Is(w.pkt, "probe") /\ ~Available(w)
    THEN Handled(w) ELSE w

PresencePktUser(w) ==
    LET p == w.pkt
        r == p.to[2]
        match == r # "" /\ w.m.u.s[r].on
        v == IF p.err /\ match THEN PresError(w, r) ELSE w
    IN  CASE ~IsPresence(p) -> w
          [] IsPresence(p) /\ ~match /\ (p.err \/ r # "") -> Handled(w)
          [] IsPresence(p) /\ match /\ p.err /\ p.type = "probe" -> Handled(v)
          [] IsPresence(p) /\ match /\ ~(p.err /\ p.type = "probe") -> Handled(PktSess(v, p, r))
          [] OTHER -> Handled(PresIn(w))

DiscoPktUser(w) ==
    IF Get(w.pkt, "disco-info") /\ w.pkt.to[2] = "" THEN Handled(Route(w, Swap(Result(w.pkt)))) ELSE w

\* mod_amp: what a rule's condition says of the user and the message now
AmpResult(w, rule) ==
    LET match == w.pkt.to[2] # "" /\ w.m.u.s[w.pkt.to[2]].on
        top == w.m.u.top # ""
        disabled == "dropmessages" \in Offline
        holds == [direct |-> top, stored |-> ~top /\ ~disabled, none |-> ~top /\ disabled,
                  exact |-> match, any |-> ~top, other |-> ~match, expired |-> TRUE, fresh |-> FALSE]
    IN  IF rule.when \notin DOMAIN holds THEN "invalid"
        ELSE IF holds[rule.when] THEN "triggered"
        ELSE IF rule.action \notin {"drop", "alert", "error", "notify"} THEN "invalid" ELSE "no"

\* the first rule that triggers, unless an invalid one came before it
AmpAction(w) ==
    LET rs == w.pkt.rule
        hit == SelectInSeq(rs, LAMBDA x : AmpResult(w, x) # "no")
    IN  IF hit = 0 \/ AmpResult(w, rs[hit]) = "invalid" THEN "pass" ELSE rs[hit].action

AmpPktUser(w) ==
    LET p == w.pkt
        tell == Route(w, [Packet("message", "message", p.from, p.to) EXCEPT !.id = p.id, !.ns = "notice"])
    IN  IF ~IsMessage(p) THEN w
        ELSE CASE AmpAction(w) = "drop" -> Handled(w)
               [] AmpAction(w) \in {"alert", "error"} -> Handled(tell)
               [] AmpAction(w) = "notify" -> tell
               [] OTHER -> w

DeliverPktUser(w) ==
    LET r == w.pkt.to[2]
    IN  CASE r # "" /\ w.m.u.s[r].on -> Handled(PktSess(w, w.pkt, r))
          [] r # "" /\ ~w.m.u.s[r].on /\ IsPresence(w.pkt) -> Handled(w)
          [] r # "" /\ ~w.m.u.s[r].on /\ ~IsPresence(w.pkt) /\ IsIq(w.pkt) -> Fails(w)
          [] OTHER -> w

\* to the sessions of the highest priority, headlines to all that take messages
ToTop(w) ==
    LET u == w.m.u
        gets(r) == /\ u.s[r].avail /\ u.s[r].pri >= 0
                   /\ Is(w.pkt, "headline") \/ u.s[r].pri >= u.s[u.top].pri
        copy(r) == Item(IF gets(r) THEN "sess" ELSE "none", r, Dup(w.pkt, Full(r), w.pkt.from))
    IN  PutAll(w, [i \in DOMAIN u.order |-> copy(u.order[i])])

\* _offline_save_to_file: only messages with a body are kept
\* Mutant: a message that could not be written counts as saved.
Save_always(w) ==
    IF ~IsMessage(w.pkt) \/ w.pkt.node = "empty" \/ ~w.io THEN Handled(w)
    ELSE Handled([w EXCEPT !.m.spool = Append(@, w.pkt)])
Save(w) ==
    IF ~IsMessage(w.pkt) \/ w.pkt.node = "empty" THEN Handled(w)
    ELSE IF w.io THEN Handled([w EXCEPT !.m.spool = Append(@, w.pkt)]) ELSE Fails(w)

\* XEP-0022: the sender is told of it "if they asked for it"
OfflineEvent(w) ==
    LET p == w.pkt
    IN  IF w.ret = "HANDLED" /\ p.ns = "event"
        THEN Route(w, [Packet("message", "message", p.from, p.to) EXCEPT !.id = p.id, !.ns = "notice"]) ELSE w

OfflinePktUser(w) ==
    LET p == w.pkt
        keep == \/ IsMessage(p) /\ "dropmessages" \notin Offline
                \/ IsS10n(p) /\ "dropsubscriptions" \notin Offline
        unfit == p.type = "groupchat" \/ (p.type = "headline" /\ "storeheadlines" \notin Offline)
    IN  CASE w.m.u.top # "" /\ (IsMessage(p) \/ IsS10n(p)) -> Handled(ToTop(w))
          [] ~(w.m.u.top # "" /\ (IsMessage(p) \/ IsS10n(p))) /\ keep -> IF unfit THEN Handled(w) ELSE OfflineEvent(Save(w))
          [] OTHER -> w

PktUser(w) ==
    LET a == PresencePktUser(Begin(w))
        b == Then(a, DiscoPktUser)
        c == Then(b, AmpPktUser)
        d == Then(c, DeliverPktUser)
    IN  Then(d, OfflinePktUser)

-----------------------------------------------------------------------------
(* Modules: packets for the server itself (pkt-sm)                         *)

\* ping, time and version answer a get of their namespace
IqPktSm(w) ==
    IF \E ns \in {"ping", "time", "version"} : Get(w.pkt, ns)
    THEN Handled(Route(w, Swap(Result(w.pkt)))) ELSE w

AmpPktSm(w) ==
    IF Get(w.pkt, "disco-info") /\ w.pkt.node = "amp"
    THEN Handled(Route(w, Swap(Result(w.pkt)))) ELSE w

\* Mutant: any JID may describe itself.
Populate_any(w) ==
    IF w.pkt.node = "bad" THEN Fails(w)
    ELSE Handled(Generated([w EXCEPT !.m.dyn = @ \cup {w.pkt.from[1]}]))
\* _disco_pkt_sm_populate: whatever has neither a node nor a resource, never a
\* user, describes itself; it need not be a component of this router
Populate(w) ==
    LET bare == w.pkt.from[1] \in Bare /\ w.pkt.from[2] = ""
    IN  CASE ~bare \/ w.pkt.node = "bad" -> Fails(w)
          [] bare /\ w.pkt.node = "im" -> Handled(w)
          [] OTHER -> Handled(Generated([w EXCEPT !.m.dyn = @ \cup {w.pkt.from[1]}]))

\* the active sessions are for administrators
DiscoPktSm(w) ==
    LET p == w.pkt
        asks == \E ns \in {"disco-info", "disco-items", "agents"} : Get(p, ns)
        known == p.node = "" \/ p.ns = "agents" \/ (p.node = "sessions" /\ p.from[1] \in Admins)
    IN  CASE Is(p, "result") /\ p.ns = "disco-info" -> Populate(w)
          [] ~(Is(p, "result") /\ p.ns = "disco-info") /\ p.to[1] # "host" -> Fails(w)
          [] asks /\ p.to[1] = "host" ->
                IF known THEN Handled(Route(Cached(w), Swap(Result(p)))) ELSE Fails(Cached(w))
          [] OTHER -> w

\* /help and /echo show themselves to whom probes or subscribes
Present(w, res) ==
    IF Is(w.pkt, "probe") \/ Is(w.pkt, "subscribe")
    THEN Route(w, Packet("presence", "presence", BareJid(w.pkt.from), <<w.pkt.to[1], res>>)) ELSE w

\* messages to the server are sent on to its administrators
HelpPktSm(w) ==
    LET p == w.pkt
        list == SetToSeq({a \in Admins : Jid(a) # p.from})
        copy(a) == Item("router", "", Dup(p, Jid(a), BareJid(p.to)))
    IN  IF IsMessage(p) /\ p.to[2] \in {"", "help"}
        THEN Handled(PutAll(w, [i \in DOMAIN list |-> copy(list[i])]))
        ELSE Present(w, "help")

EchoPktSm(w) ==
    IF IsMessage(w.pkt) /\ w.pkt.to[2] = "echo" THEN Handled(Route(w, Swap(w.pkt))) ELSE Present(w, "echo")

PresencePktSm(w) ==
    LET answer(v, t) == Route(v, Packet("presence", t, BareJid(w.pkt.from), BareJid(w.pkt.to)))
    IN  CASE Is(w.pkt, "subscribe") -> Handled(answer(answer(w, "subscribed"), "subscribe"))
          [] Is(w.pkt, "unsubscribe") -> Handled(answer(w, "unsubscribed"))
          [] ~Is(w.pkt, "subscribe") /\ ~Is(w.pkt, "unsubscribe") /\ w.pkt.elem = "presence" -> Handled(w)
          [] OTHER -> w

PktSm(w) ==
    LET a == IqPktSm(Begin(w))
        b == Then(a, AmpPktSm)
        c == Then(b, DiscoPktSm)
        d == Then(c, HelpPktSm)
        e == Then(d, EchoPktSm)
    IN  Then(e, PresencePktSm)

\* Mutant: a service that is gone stays in the answers.
DiscoPktRouter_stale(w) ==
    LET c == w.pkt.from[1]
        ask == [Packet("iq", "get", Jid(c), SmId) EXCEPT !.ns = "disco-info"]
    IN  Handled(IF w.pkt.type = "presence" THEN Route(w, ask) ELSE [w EXCEPT !.m.dyn = @ \ {c}])
\* _disco_pkt_router: ask a component that came online, forget one that went
DiscoPktRouter(w) ==
    LET c == w.pkt.from[1]
        ask == [Packet("iq", "get", Jid(c), SmId) EXCEPT !.ns = "disco-info"]
    IN  CASE w.pkt.type = "presence" -> Handled(Route(w, ask))
          [] w.pkt.type = "unavailable" /\ c \in w.m.dyn -> Handled(Generated([w EXCEPT !.m.dyn = @ \ {c}]))
          [] OTHER -> Handled(w)

-----------------------------------------------------------------------------
(* dispatch                                                                *)

InRouter(w) ==
    LET a == SessionInRouter(w)
        b == Then(a, LAMBDA x : ValidateInSess(x, ""))
    IN  Then(b, PresenceInRouter)

\* what a chain leaves to the dispatcher: a result is ignored, anything else
\* that no module took is refused
Refuse(w) == IF Refused(w) THEN RouteError(w) ELSE w

\* past the in-router chain: for the server or for the user
Deliver(w) ==
    CASE w.ret # "PASS" -> IF w.ret = "error" THEN RouteError(w) ELSE w
      [] w.ret = "PASS" /\ (w.pkt.to = NoJid \/ w.pkt.from = NoJid) -> RouteError(w)
      [] w.ret = "PASS" /\ w.pkt.to[1] \in {"host", "sm"} -> Refuse(PktSm(w))
      [] OTHER -> UserFree(Refuse(PktUser(UserLoad(w))))

\* a packet the router returns as undeliverable becomes an error for its sender
Dispatch(w) ==
    CASE w.pkt.elem = "advert" -> DiscoPktRouter(SessionPktRouter(w))
      [] w.pkt.rerr /\ w.pkt.err -> w
      [] OTHER ->
            Deliver(InRouter(IF w.pkt.rerr THEN [w EXCEPT !.pkt = [PktError(@) EXCEPT !.rerr = FALSE]] ELSE w))

-----------------------------------------------------------------------------
(* The world around the manager                                            *)

\* a packet as the manager parses it when the router returns it
Wire(p) == PktNew([p EXCEPT !.sess = "", !.type = IF p.err THEN "error" ELSE @])

\* one packet the manager has written, among the peers that can be reached and
\* the services that are online
Outcome(p) == IF p.ns = "notice" THEN "notice" ELSE IF p.err THEN "error" ELSE p.elem
Emit(env, o, reach, on) ==
    LET p == o.p
        c == p.to[1]
        shows == p.from[1] = "user" /\ p.from[2] # "" /\ (Is(p, "presence") \/ Is(p, "unavailable"))
        counted(at, what) == IF p.id = 0 THEN env ELSE [env EXCEPT !.fate[p.id] = Append(@, [at |-> at, what |-> what])]
    IN  CASE o.via = "sess" -> counted(o.r, Outcome(p))
          [] o.via = "router" /\ c \in {"user", "host", "sm"} ->
                IF c = "user" /\ IsPresence(p) /\ p.from[1] = "user" /\ ~OwnPresence THEN env
                ELSE [env EXCEPT !.queue = Append(@, Wire(p))]
          [] o.via = "router" /\ c \in reach \cap Peers ->
                [counted(c, Outcome(p)) EXCEPT !.view = IF shows THEN [@ EXCEPT ![c][p.from[2]] = p.type] ELSE @]
          [] o.via = "router" /\ c \in Peers \ reach ->
                [(IF p.err THEN counted(c, "lost") ELSE env) EXCEPT
                    !.queue = Append(@, [Wire(p) EXCEPT !.rerr = TRUE]),
                    !.bounced = IF shows THEN [env.bounced EXCEPT ![p.from[2]] = @ \cup {c}] ELSE @]
          [] o.via = "router" /\ c \in on -> [env EXCEPT !.asked = IF Get(p, "disco-info") THEN @ \cup {c} ELSE @]
          [] OTHER -> env
Emitted(env, out, reach, on) == FoldLeft(LAMBDA e, o : Emit(e, o, reach, on), env, out)

\* the manager handles packet p; q is what the router still has for it
Take(w, q, on, reach) ==
    LET first == [queue |-> q, asked |-> asked \cap on, view |-> view, bounced |-> bounced,
                  fate |-> IF w.id > Len(fate) THEN Append(fate, <<>>) ELSE fate]
        env == Emitted(first, w.out, reach, on)
    IN  /\ mgr' = w.m
        /\ queue' = env.queue
        /\ asked' = env.asked
        /\ fate' = env.fate
        /\ view' = env.view
        /\ bounced' = env.bounced
        /\ Cardinality({x \in Resources \X Peers : x[2] \in bounced'[x[1]]}) <= MaxBounce
        /\ online' = on
        /\ UNCHANGED scene
Step(p, q, on) ==
    \E reach \in IF "bounce" \in Scenes[scene].may THEN {Peers} \cup {Peers \ {c} : c \in Peers} ELSE {Peers},
       io \in IF "spool" \in Scenes[scene].may THEN BOOLEAN ELSE {TRUE} :
        Take(Dispatch([Work(p) EXCEPT !.io = io]), q, on, reach)

Room == Len(queue) < MaxQueue

\* messages and requests are followed
Followed(x) == x.elem = "message" \/ (x.elem = "iq" /\ x.type \in {"get", "set"})
Send(x, by) ==
    /\ Room
    /\ Wellformed(x)
    /\ Followed(x) => Len(log) < MaxSend
    /\ log' = IF Followed(x) THEN Append(log, [x |-> x, by |-> by]) ELSE log
    /\ Step(PktNew([x EXCEPT !.id = IF Followed(x) THEN Len(log) + 1 ELSE 0]), queue, online)

FromSession(r) == \E x \in Scenes[scene].client : mgr.u.s[r].on /\ Send([x EXCEPT !.sess = r], r)
FromOutside(c) == \E x \in Scenes[scene].peer : Send([x EXCEPT !.from = Jid(c)], c)

Start(r) == Room /\ Step([Packet("start", "", NoJid, NoJid) EXCEPT !.sess = r], queue, online) /\ UNCHANGED log
End(r) ==
    /\ Room /\ mgr.u.s[r].on
    /\ Step([Packet("end", "", NoJid, NoJid) EXCEPT !.sess = r], queue, online)
    /\ UNCHANGED log
C2SGone ==
    /\ Room /\ "c2s" \in Scenes[scene].may /\ mgr.u.order # <<>>
    /\ Step(Packet("advert", "unavailable", NoJid, Jid("c2s")), queue, online)
    /\ UNCHANGED log

\* the router returns what the manager wrote for its own domain
Loop == queue # <<>> /\ Step(Head(queue), Tail(queue), online) /\ UNCHANGED log

ServiceUp(c) ==
    /\ Room /\ "services" \in Scenes[scene].may /\ c \notin online
    /\ Step(Packet("advert", "presence", NoJid, Jid(c)), queue, online \cup {c})
    /\ UNCHANGED log
ServiceDown(c) ==
    /\ Room /\ c \in online
    /\ Step(Packet("advert", "unavailable", NoJid, Jid(c)), queue, online \ {c})
    /\ UNCHANGED log
ServiceAnswers(c) ==
    /\ c \in asked
    /\ \E kind \in {"", "im", "bad"} :
        LET p == [Packet("iq", "result", SmId, Jid(c)) EXCEPT !.ns = "disco-info", !.node = kind]
            w == Dispatch(Work(p))
        IN  mgr' = w.m
    /\ asked' = asked \ {c}
    /\ UNCHANGED <<scene, queue, online, log, fate, view, bounced>>

Init ==
    /\ scene \in DOMAIN Scenes
    /\ mgr = [u |-> NoUser, spool |-> <<>>, dyn |-> {}, cache |-> <<>>]
    /\ queue = <<>>
    /\ online = {}
    /\ asked = {}
    /\ log = <<>>
    /\ fate = <<>>
    /\ view = [c \in Peers |-> [r \in Resources |-> "none"]]
    /\ bounced = [r \in Resources |-> {}]

Next ==
    \/ \E r \in Resources : FromSession(r) \/ Start(r) \/ End(r)
    \/ \E c \in Peers : FromOutside(c)
    \/ \E c \in Services : ServiceUp(c) \/ ServiceDown(c) \/ ServiceAnswers(c)
    \/ C2SGone
    \/ Loop

Spec == Init /\ [][Next]_vars

-----------------------------------------------------------------------------
(* Properties                                                              *)

U == mgr.u

\* packets as the modules see them, of which at most n are followed
Elems == {"message", "presence", "iq", "stanza", "advert", "start", "end"}
PresTypes == {"presence", "unavailable", "probe", "subscribe", "subscribed", "unsubscribe", "unsubscribed"}
Types == PresTypes \cup {"", "error", "chat", "headline", "groupchat", "message", "get", "set", "result"}
Pkt(n) == {p \in [elem : Elems, type : Types, err : BOOLEAN, to : Jids, from : Jids, ns : Namespaces, node : Nodes,
                  pri : Int, rule : Seq(Rule), id : 0..n, sess : Resources \cup {""}, rerr : BOOLEAN] :
            p.elem = "presence" => p.type \in PresTypes}
Sess == [on : BOOLEAN, avail : BOOLEAN, pri : Int, A : SUBSET Known, E : SUBSET Known]
UserRec == [loaded : BOOLEAN, order : Seq(Resources), top : Resources \cup {""}, avail : BOOLEAN, s : [Resources -> Sess]]
Mgr(n) == [u : UserRec, spool : Seq(Pkt(n)), dyn : SUBSET Bare, cache : Seq(SUBSET (Bare \cup Static))]
Shown == {"none", "presence", "unavailable"}
Fate == [at : Resources \cup Peers, what : Elems \cup {"notice", "error", "lost"}]

(* Every piece of state has its type: in particular whatever the modules   *)
(* make of a packet is a packet again, and what is known of services and   *)
(* of the JIDs presence went to is what there is; no user is a service.    *)
TypeOK ==
    /\ scene \in DOMAIN Scenes
    /\ mgr \in Mgr(Len(log)) /\ Len(mgr.cache) <= 1
    /\ queue \in Seq(Pkt(Len(log)))
    /\ asked \subseteq Services /\ online \subseteq Services
    /\ view \in [Peers -> [Resources -> Shown]]
    /\ bounced \in [Resources -> SUBSET Peers]
    /\ fate \in Seq(Seq(Fate)) /\ Len(fate) = Len(log)

(* user->top and user->available, which pres.c keeps up to date by hand,   *)
(* always describe the sessions there are: the top session exists, is      *)
(* available and no other takes messages before it; and the user is loaded *)
(* exactly while there are sessions.                                       *)
TopSession ==
    LET takes(r) == U.s[r].avail /\ U.s[r].pri >= 0
    IN  /\ U.avail = \E r \in Resources : U.s[r].avail
        /\ U.top = "" <=> ~\E r \in Resources : takes(r)
        /\ U.top # "" => takes(U.top) /\ \A r \in Resources : takes(r) => U.s[r].pri <= U.s[U.top].pri
        /\ U.loaded = (U.order # <<>>)
        /\ ToSet(U.order) = {r \in Resources : U.s[r].on} /\ IsInjective(U.order)

(* "so that modules and externals know we're gone": a peer who was told    *)
(* that a session is available, and returned none of its presence, does    *)
(* not go on believing it when the session has ended, been replaced or     *)
(* lost with its c2s.                                                      *)
KnowsWeAreGone ==
    \A c \in Peers, r \in Resources :
        view[c][r] = "presence" /\ c \notin bounced[r] => U.s[r].on /\ (c \in U.s[r].A \/ U.s[r].avail)

\* no client directs presence to a contact of its roster: pres_deliver does not
\* remember those, and a session that is not available does not withdraw it
Discreet ==
    \A n \in DOMAIN Scenes : \A x \in Scenes[n].client : PktNew(x).type = "presence" => x.to[1] \notin Roster

Pending(n) == (\E i \in DOMAIN queue : queue[i].id = n) \/ (\E i \in DOMAIN mgr.spool : mgr.spool[i].id = n)

(* What a peer sends the user is not lost between deliver, offline and the *)
(* dispatcher: a message or a request is on its way, in the spool, or has  *)
(* come to a session or back to the peer; a request has one outcome.       *)
NothingLost ==
    \A n \in DOMAIN log :
        LET x == log[n].x
        IN  log[n].by \in Peers /\ x.to[1] = "user" /\ ~Pending(n)
            => IF x.elem = "iq" THEN Len(fate[n]) = 1
               ELSE x.type \in {"chat", "message"} /\ x.rule = <<>> /\ x.node # "empty" => Len(fate[n]) >= 1

(* Nothing is delivered twice: not to a session and to the spool, not to   *)
(* the same place again, not to a session and back to its sender.          *)
NothingTwice ==
    \A n \in DOMAIN log :
        LET ends == {i \in DOMAIN fate[n] : fate[n][i].what # "notice"}
        IN  /\ \A i, j \in ends : fate[n][i].at = fate[n][j].at => i = j
            /\ ends # {} => ~\E i \in DOMAIN mgr.spool : mgr.spool[i].id = n
            /\ \A i, j \in ends : fate[n][i].what = "error" => i = j

(* The discovery answers the manager caches are the services it knows, and *)
(* it knows no component that has left the router.  (A domain of another   *)
(* server that once described itself is known for good: no router tells    *)
(* that it went.)                                                          *)
DiscoTrue ==
    /\ mgr.dyn \cap Services \subseteq online
    /\ mgr.cache # <<>> => mgr.cache[1] = mgr.dyn \cup Static

(* "if they're becoming available for the first time" / "if we're coming   *)
(* online for the first time, deliver queued messages" (mod_offline.c, etc/ *)
(* sm.xml.dist.in): once the user has a session that takes messages,       *)
(* nothing is left in the spool.                                           *)
SpoolDelivered == U.top # "" => mgr.spool = <<>>
=============================================================================
