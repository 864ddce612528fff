-------------------------------- MODULE C2S --------------------------------
(***************************************************************************)
(* The client connector: c2s/c2s.c (client and router callbacks), c2s/sm.c *)
(* and the iq:auth part of c2s/authreg.c.  A session is found by the       *)
(* number of its descriptor, which the kernel hands out again as soon as   *)
(* the connection is closed.                                               *)
(***************************************************************************)
EXTENDS SessProto, Integers

CONSTANTS
    AuthKinds,      \* how clients authenticate: a subset of {"sasl", "trad"}
    MaxRes,         \* bound: resources a client binds
    Reuse,          \* descriptors are handed out again
    Patient         \* clients wait for the answer to a bind, unbind or auth
                    \* before they send anything else

ASSUME C2SAssumption ==
    /\ AuthKinds \subseteq {"sasl", "trad"}
    /\ MaxRes \in Nat

NoResult == <<>>

VARIABLES
    sess,       \* c2s->sessions: by descriptor
    sm_avail,   \* the domain is in c2s->sm_avail
    link,       \* the stream to the router is "up" or "down"
    used,       \* descriptors that have been handed out
    told,       \* history: JIDs whose bind or auth result the client has got
    got         \* history: stanzas written to the client, as <<user, kind>>

c2sVars == <<sess, sm_avail, link, used, told, got>>

(* sess->result is a pending answer, <<kind, jid>>.  A bound resource holds *)
(* the sm's session id and the id of the request under way.                *)
Bres == [jid : Jids, smid : Ids \cup {NoId}, req : Ids \cup {NoId}]
Results == {NoResult} \cup ({"bind", "unbind"} \X Jids)
Blank == [state |-> "none", user |-> NoId, sasl |-> FALSE, res |-> <<>>,
          bound |-> 0, active |-> FALSE, result |-> NoResult]

C2SType ==
    /\ \A f \in Fds :
          /\ sess[f].state \in {"none", "new", "stream", "open", "closing"}
          /\ sess[f].user \in Users \cup {NoId}
          /\ sess[f].sasl \in BOOLEAN
          /\ sess[f].res \in Seq(Bres)
          /\ sess[f].bound \in {-1} \cup 0..MaxRes
          /\ sess[f].active \in BOOLEAN
          /\ sess[f].result \in Results
    /\ sm_avail \in BOOLEAN
    /\ link \in {"up", "down"}
    /\ used \subseteq Fds
    /\ told \in [Fds -> SUBSET Jids]
    /\ got \in [Fds -> SUBSET ((Users \cup {NoId}) \X {"pkt", "pkt failed"})]

C2SInit ==
    /\ sess = [f \in Fds |-> Blank]
    /\ sm_avail = TRUE
    /\ link = "up"
    /\ used = {}
    /\ told = [f \in Fds |-> {}]
    /\ got = [f \in Fds |-> {}]

-----------------------------------------------------------------------------
(* Helpers                                                                 *)

Streaming(f) == sess[f].state \in {"stream", "open"}

(* What c2s writes to the router: lost while the link is down, returned by *)
(* the router while no sm is bound, and otherwise on its way.  `in' is     *)
(* what is left to read from the router.                                   *)
Send(ms, in, smOpen) ==
    /\ toSM' = IF link = "up" /\ smOpen THEN toSM \o ms ELSE toSM
    /\ toC2S' = IF link = "up" /\ ~smOpen
                THEN in \o [i \in DOMAIN ms |-> [ms[i] EXCEPT !.kind = "bounce"]]
                ELSE in

(* sx_close: nothing is written to or read from the client any more.       *)
Closing(s) == [s EXCEPT !.state = "closing"]

RemoveAt(q, i) == SubSeq(q, 1, i - 1) \o SubSeq(q, i + 1, Len(q))

(* sess->result goes to the client, if there is one: sx_nad_write drops it *)
(* when the stream is closing.                                             *)
Answered(f) ==
    LET r == sess[f].result
    IN IF r # NoResult /\ r[1] = "bind" /\ sess[f].state # "closing"
       THEN [told EXCEPT ![f] = @ \cup {r[2]}] ELSE told

SetSess(f, s) == sess' = [sess EXCEPT ![f] = s]

-----------------------------------------------------------------------------
(* The client's side                                                       *)

Accept(f) ==
    /\ sess[f].state = "none"
    /\ f \notin used \/ Reuse
    /\ used' = used \cup {f}
    /\ SetSess(f, [Blank EXCEPT !.state = "new"])
    /\ UNCHANGED <<path, sm_avail, link, told, got>>

(* event_STREAM: without a session manager the client is sent away.        *)
Stream(f) ==
    /\ sess[f].state = "new"
    /\ SetSess(f, [sess[f] EXCEPT !.state = IF sm_avail THEN "stream" ELSE "closing"])
    /\ UNCHANGED <<path, sm_avail, link, used, told, got>>

(* event_OPEN after SASL.  (A client uses SASL or iq:auth, not both.)       *)
SaslAuth(f, u) ==
    /\ "sasl" \in AuthKinds
    /\ sess[f].state = "stream"
    /\ sess[f].res = <<>>
    /\ SetSess(f, [sess[f] EXCEPT !.state = "open", !.user = u, !.sasl = TRUE])
    /\ UNCHANGED <<path, sm_avail, link, used, told, got>>

(* _authreg_auth_set with a good password: the one resource is made, or    *)
(* made over, and a session is asked for.  It is not counted in `bound'.   *)
AuthSet(f, j, smOpen) ==
    LET s == sess[f]
        b == [jid |-> j, smid |-> IF s.res = <<>> THEN NoId ELSE Head(s.res).smid, req |-> <<j, now>>]
    IN /\ "trad" \in AuthKinds
       /\ s.state = "stream" /\ ~s.sasl /\ ~s.active
       /\ Patient => s.result = NoResult
       /\ Room
       /\ SetSess(f, [s EXCEPT !.user = j[1], !.res = <<b>>, !.result = <<"bind", j>>])
       /\ told' = [told EXCEPT ![f] = @ \ {j}]
       /\ Send(<<[Request("start", f, b.req) EXCEPT !.smid = b.smid]>>, toC2S, smOpen)
       /\ UNCHANGED <<now, sm_avail, link, used, got>>

(* A bind, after SASL, of a resource this stream has not bound (one it has *)
(* is replaced by a generated one, which is again such a resource).        *)
Bind(f, j, smOpen) ==
    LET s == sess[f]
        b == [jid |-> j, smid |-> NoId, req |-> <<j, now>>]
    IN /\ s.state = "open" /\ s.sasl
       /\ s.user = j[1]
       /\ \A i \in DOMAIN s.res : s.res[i].jid # j
       /\ Len(s.res) < MaxRes
       /\ Patient => s.result = NoResult
       /\ Room
       /\ SetSess(f, [s EXCEPT !.res = Append(@, b), !.bound = @ + 1, !.result = <<"bind", j>>])
       /\ told' = [told EXCEPT ![f] = @ \ {j}]
       /\ Send(<<Request("start", f, b.req)>>, toC2S, smOpen)
       /\ UNCHANGED <<now, sm_avail, link, used, got>>

(* An unbind only asks the sm to end the session; see Ended.               *)
Unbind(f, i, smOpen) ==
    LET s == sess[f]
    IN /\ s.state = "open"
       /\ i \in DOMAIN s.res
       /\ Patient => s.result = NoResult
       /\ Room
       /\ SetSess(f, [s EXCEPT !.result = <<"unbind", s.res[i].jid>>])
       /\ Send(<<Control("end", f, s.res[i].smid)>>, toC2S, smOpen)
       /\ UNCHANGED <<now, sm_avail, link, used, told, got>>

(* A stanza of the client.  Before the session is active it costs the      *)
(* stream; with several resources bound its "from" must name one of them,  *)
(* otherwise the first resource is taken.  (A stanza with another "from"   *)
(* is answered with an error and changes nothing.)                         *)
Stanza(f, k, smOpen) ==
    LET s == sess[f]
    IN /\ Streaming(f)
       /\ Patient => s.result = NoResult
       /\ \/ /\ ~s.active
             /\ SetSess(f, Closing(s))
             /\ UNCHANGED <<toSM, toC2S>>
          \/ /\ s.active
             /\ Room
             /\ \E i \in IF s.bound > 1 THEN DOMAIN s.res ELSE {1} :
                   Send(<<Control(k, f, s.res[i].smid)>>, toC2S, smOpen)
             /\ UNCHANGED sess
       /\ UNCHANGED <<now, sm_avail, link, used, told, got>>

(* The client ends its stream, or is timed out by _c2s_time_checks.        *)
EndStream(f) ==
    /\ Streaming(f)
    /\ SetSess(f, Closing(sess[f]))
    /\ UNCHANGED <<path, sm_avail, link, used, told, got>>

(* action_CLOSE: an active session asks the sm to end every resource,      *)
(* those without a session id included.                                    *)
Disconnect(f, smOpen) ==
    LET s == sess[f]
    IN /\ s.state # "none"
       /\ Send(IF s.active THEN [i \in DOMAIN s.res |-> Control("end", f, s.res[i].smid)] ELSE <<>>,
               toC2S, smOpen)
       /\ SetSess(f, Blank)
       /\ told' = [told EXCEPT ![f] = {}]
       /\ got' = [got EXCEPT ![f] = {}]
       /\ UNCHANGED <<now, sm_avail, link, used>>

-----------------------------------------------------------------------------
(* Packets from the router: c2s_router_sx_callback                         *)

(* Mutants: the session id is not looked at; only pending resources count. *)
Matches_any(s, m) == DOMAIN s.res
Matches_pending(s, m) == {i \in DOMAIN s.res : s.res[i].smid = NoId}

(* "find resource that we got packet for": the first one that has no       *)
(* session id yet or has the packet's.                                     *)
Matches(s, m) == {i \in DOMAIN s.res : s.res[i].smid \in {NoId, m.smid}}
Found(s, m) == CHOOSE i \in Matches(s, m) : \A k \in Matches(s, m) : i <= k

Ignore(in) == toC2S' = in /\ UNCHANGED <<toSM, sess, sm_avail, link, told, got>>
Tell(m, in, smOpen) ==
    /\ Send(<<Control("end", m.fd, m.smid)>>, in, smOpen)
    /\ UNCHANGED <<sess, sm_avail, link, told, got>>

(* No session has the descriptor: a "started" is answered with an end      *)
(* under a forged session, everything else is dropped.                     *)
(* Mutant: it is dropped as well.                                          *)
Unknown_drop(m, in, smOpen) == sess[m.fd].state = "none" /\ Ignore(in)
Unknown(m, in, smOpen) ==
    /\ sess[m.fd].state = "none"
    /\ IF m.kind = "started" THEN Tell(m, in, smOpen) ELSE Ignore(in)

(* "if they're pre-stream, then this is leftovers from a previous session". *)
Leftover(m, in) == sess[m.fd].state = "new" /\ Ignore(in)

(* The router could not deliver what c2s sent: the client is closed.       *)
RouteError(m, in) ==
    /\ m.kind = "bounce"
    /\ SetSess(m.fd, Closing(sess[m.fd]))
    /\ toC2S' = in
    /\ UNCHANGED <<toSM, sm_avail, link, told, got>>

(* A control packet has the attribute when there is an id; sm_packet gives *)
(* it to a stanza even if the id is still empty.                           *)
HasSmId(m) == m.smid # NoId \/ m.kind \in {"pkt", "pkt failed"}

(* "all other packets need to contain an sm ID": the reply to a start that *)
(* failed does not, so that the code that would answer the client with an  *)
(* error further down is never reached.                                    *)
NoSmId(m, in) == m.kind # "bounce" /\ ~HasSmId(m) /\ Ignore(in)

(* No resource matches: end the sm's session, unless the packet reports a  *)
(* failure (in the session namespace, which a stanza's `failed' is not).   *)
NoResource(m, in, smOpen) ==
    /\ m.kind # "bounce" /\ HasSmId(m)
    /\ Matches(sess[m.fd], m) = {}
    /\ IF m.kind = "end failed" THEN Ignore(in) ELSE Tell(m, in, smOpen)

(* "no more resources bound?"  Mutant: off by one.                         *)
LastGone_late(n) == n < 0
LastGone(n) == n < 1

(* "ended" or "replaced" on an active session.  The last resource stays in *)
(* the list, the stream is closed.                                         *)
Ended(m, i, in) ==
    LET s == sess[m.fd]
        left == [s EXCEPT !.bound = @ - 1, !.result = NoResult]
    IN /\ m.kind \in {"ended", "replaced"} /\ s.active
       /\ SetSess(m.fd, IF LastGone(left.bound)
                        THEN Closing([left EXCEPT !.active = FALSE])
                        ELSE [left EXCEPT !.res = RemoveAt(@, i)])
       /\ told' = Answered(m.fd)
       /\ toC2S' = in
       /\ UNCHANGED <<toSM, sm_avail, link, got>>

(* "make sure the id matches".                                             *)
Expected(b, m) == m.id # NoId /\ b.req = m.id

(* "copy the sm id".  Mutant: none is copied.                              *)
StartedId_none(m) == NoId
StartedId(m) == m.smid

(* "session started": after SASL the result is returned, otherwise sx_auth *)
(* moves the stream to open whatever its state was, and event_OPEN returns *)
(* the result.                                                             *)
Started(m, i, in) ==
    LET s == sess[m.fd]
        now_open == [s EXCEPT !.res[i].smid = StartedId(m), !.res[i].req = NoId,
                              !.active = s.sasl \/ s.result # NoResult \/ @, !.result = NoResult]
    IN /\ m.kind = "started"
       /\ Expected(s.res[i], m)
       /\ IF s.sasl
          THEN SetSess(m.fd, now_open) /\ told' = Answered(m.fd)
          ELSE /\ SetSess(m.fd, [now_open EXCEPT !.state = "open"])
               /\ told' = [told EXCEPT ![m.fd] = @ \cup {r[2] : r \in {s.result} \ {NoResult}}]
       /\ toC2S' = in
       /\ UNCHANGED <<toSM, sm_avail, link, got>>

Unexpected(m, i, in) ==
    /\ \/ m.kind \in {"ended", "replaced"} /\ ~sess[m.fd].active
       \/ m.kind = "end failed"
       \/ m.kind = "started" /\ ~Expected(sess[m.fd].res[i], m)
    /\ Ignore(in)

(* A stanza for the client.  "sm is bouncing something" looks for `failed' *)
(* in the session namespace and does not find the sm's there: a stanza the *)
(* sm sends back is handed to the client like any other.                   *)
ToClient(m, in) ==
    LET s == sess[m.fd]
        owner == IF m.smid = NoId THEN NoId ELSE m.smid[1][1]
    IN /\ m.kind \in {"pkt", "pkt failed"}
       /\ \/ ~s.active /\ Ignore(in)
          \/ /\ s.active
             /\ got' = IF s.state = "closing" THEN got
                       ELSE [got EXCEPT ![m.fd] = @ \cup {<<owner, m.kind>>}]
             /\ toC2S' = in
             /\ UNCHANGED <<toSM, sess, sm_avail, link, told>>

ForResource(m, in) ==
    /\ m.kind # "bounce" /\ HasSmId(m)
    /\ Matches(sess[m.fd], m) # {}
    /\ LET i == Found(sess[m.fd], m)
       IN Ended(m, i, in) \/ Started(m, i, in)
          \/ Unexpected(m, i, in) \/ ToClient(m, in)

(* Mutants: only active sessions are closed; only those that are not.      *)
Affected_active(s) == s.active
Affected_pending(s) == ~s.active
Affected(s) == s.res # <<>>

(* _c2s_component_presence.  Every session with a resource is closed; it   *)
(* is no longer active, so that its sm sessions are not ended.             *)
Presence(m, in) ==
    /\ \/ /\ m.kind = "sm up"
          /\ sm_avail' = TRUE
          /\ UNCHANGED sess
       \/ /\ m.kind = "sm down"
          /\ sm_avail' = FALSE
          /\ sess' = [f \in Fds |-> IF sm_avail /\ Affected(sess[f])
                                    THEN Closing([sess[f] EXCEPT !.active = FALSE])
                                    ELSE sess[f]]
    /\ toC2S' = in
    /\ UNCHANGED <<toSM, link, told, got>>

C2SStep(smOpen) ==
    LET m == Head(toC2S)
        in == Tail(toC2S)
    IN /\ link = "up"
       /\ toC2S # <<>>
       /\ IF m.kind \in {"sm up", "sm down"} THEN Presence(m, in)
          ELSE \/ Unknown(m, in, smOpen)
               \/ Leftover(m, in)
               \/ /\ sess[m.fd].state \in {"stream", "open", "closing"}
                  /\ \/ RouteError(m, in)
                     \/ NoSmId(m, in)
                     \/ NoResource(m, in, smOpen)
                     \/ ForResource(m, in)
       /\ UNCHANGED <<now, used>>
=============================================================================
