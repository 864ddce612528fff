----------------------------- MODULE SessProto -----------------------------
(***************************************************************************)
(* What c2s and the session manager (sm) share: the routed session control *)
(* packets (docs/dev/sm-c2s-protocol, c2s/sm.c, sm/sm.c) and the two       *)
(* directions of the path through the router, each a FIFO (Router shows    *)
(* that the router keeps the order of the packets of a component).         *)
(*                                                                         *)
(* Both sides derive their identifiers from the clock's second and a JID:  *)
(* a request id is sha1("start", second, jid), a session id (sm_id) is     *)
(* sha1(second, jid).  An id is therefore the pair <<jid, second>>.        *)
(***************************************************************************)
EXTENDS Naturals, Sequences, FiniteSets

CONSTANTS
    Fds,        \* descriptors: c2s uses a client's descriptor as its c2s id
    Users,
    Resources,
    NoId,       \* an absent or empty id
    MaxNow,     \* bound: seconds that pass
    MaxChan     \* bound: packets on their way when a client or the sm adds one

ASSUME SessAssumption ==
    /\ Fds # {}
    /\ MaxNow \in Nat \ {0}
    /\ MaxChan \in Nat
    /\ NoId \notin (Users \X Resources) \X (1..MaxNow)

VARIABLES
    now,        \* time(NULL), the same for both processes
    toSM,       \* packets from c2s (or about it) to the sm
    toC2S       \* packets from the sm (or about it) to c2s

path == <<now, toSM, toC2S>>

Jids == Users \X Resources
Ids == Jids \X (1..MaxNow)

(* The action of a session control packet, or what else the path carries:  *)
(* a stanza of or for a client ("pkt"), a session request stanza ("xsess"), *)
(* a request or a stanza the sm sends back as failed, an undeliverable     *)
(* packet the router returns ("bounce"), and the router's advertisements.  *)
Kinds == {"start", "end", "pkt", "xsess", "c2s down",
          "started", "ended", "replaced", "start failed", "end failed", "pkt failed",
          "bounce", "sm up", "sm down"}

Msg == [kind : Kinds, fd : Fds, smid : Ids \cup {NoId}, id : Ids \cup {NoId}]
Advert(k) == [kind |-> k, fd |-> CHOOSE f \in Fds : TRUE, smid |-> NoId, id |-> NoId]

(* _sm_build_route, sm_packet and sm_c2s_action.                           *)
Control(k, f, smid) == [kind |-> k, fd |-> f, smid |-> smid, id |-> NoId]
Request(k, f, id) == [kind |-> k, fd |-> f, smid |-> NoId, id |-> id]

PathType ==
    /\ now \in 1..MaxNow
    /\ toSM \in Seq(Msg)
    /\ toC2S \in Seq(Msg)

PathInit == now = 1 /\ toSM = <<>> /\ toC2S = <<>>

Room == Len(toSM) + Len(toC2S) < MaxChan
Quiet == toSM = <<>> /\ toC2S = <<>>

(* What is left of s when its sender breaks off: the router has some of it, *)
(* and all of what it has put there itself.                                *)
RouterKinds == {"bounce", "sm up", "sm down", "c2s down"}
CutOff(s) == {SubSeq(s, 1, n) : n \in {k \in 0..Len(s) :
                  \A i \in (k + 1)..Len(s) : s[i].kind \notin RouterKinds}}

Tick ==
    /\ now < MaxNow
    /\ now' = now + 1
    /\ UNCHANGED <<toSM, toC2S>>
=============================================================================
