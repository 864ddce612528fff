------------------------------ MODULE Sessions ------------------------------
(***************************************************************************)
(* c2s and the session manager composed: clients connect, authenticate,    *)
(* bind resources, send stanzas and go away; the sm starts, replaces and   *)
(* ends their sessions.  Either may lose its link to the router, and the   *)
(* sm may crash; the router tells the other side.                          *)
(***************************************************************************)
EXTENDS C2S, SM

CONSTANTS
    LinkMayFail,    \* the stream between c2s and the router may be lost
    SMMayFail       \* the sm may crash or lose its stream, and come back

vars == <<path, c2sVars, sm, smUp>>

TypeOK == PathType /\ C2SType /\ SMType

Init == PathInit /\ C2SInit /\ SMInit

Client(f) ==
    /\ \/ Accept(f)
       \/ Stream(f)
       \/ \E u \in Users : SaslAuth(f, u)
       \/ \E j \in Jids : AuthSet(f, j, smUp) \/ Bind(f, j, smUp)
       \/ \E i \in 1..MaxRes : Unbind(f, i, smUp)
       \/ \E k \in {"pkt", "xsess"} : Stanza(f, k, smUp)
       \/ EndStream(f)
       \/ Disconnect(f, smUp)
    /\ UNCHANGED <<sm, smUp>>

FromRouter == C2SStep(smUp) /\ UNCHANGED <<sm, smUp>>

Manager == SMStep(link = "up") /\ UNCHANGED c2sVars

Modules == \E j \in Jids : Deliver(j, link = "up") /\ UNCHANGED c2sVars

Clock == Tick /\ UNCHANGED <<c2sVars, sm, smUp>>

(* action_CLOSE of the router stream: some of what was written got through, *)
(* then the router unbinds c2s and advertises that.  Clients stay.         *)
LinkDown ==
    /\ LinkMayFail
    /\ link = "up"
    /\ Room
    /\ link' = "down"
    /\ toC2S' = <<>>
    /\ \E got_through \in CutOff(toSM) :
          toSM' = IF smUp THEN Append(got_through, Advert("c2s down")) ELSE <<>>
    /\ UNCHANGED <<now, sess, sm_avail, used, told, got, sm, smUp>>

(* The main loop has reconnected, c2s is bound again and hears of the sm.  *)
LinkUp ==
    /\ link = "down"
    /\ link' = "up"
    /\ toC2S' = IF smUp THEN <<Advert("sm up")>> ELSE <<>>
    /\ UNCHANGED <<now, toSM, sess, sm_avail, used, told, got, sm, smUp>>

(* The sm goes offline: it crashes, or only loses its stream to the router, *)
(* in which case it keeps its sessions and tells nobody about them.        *)
SMDown ==
    /\ SMMayFail
    /\ smUp
    /\ Room
    /\ smUp' = FALSE
    /\ sm' \in {sm, [j \in Jids |-> NoSession]}
    /\ toSM' = <<>>
    /\ \E got_through \in CutOff(toC2S) :
          toC2S' = IF link = "up" THEN Append(got_through, Advert("sm down")) ELSE <<>>
    /\ UNCHANGED <<now, c2sVars>>

(* It has reconnected and is bound again.                                  *)
SMBack ==
    /\ ~smUp
    /\ smUp' = TRUE
    /\ toC2S' = IF link = "up" THEN Append(toC2S, Advert("sm up")) ELSE toC2S
    /\ UNCHANGED <<now, toSM, c2sVars, sm>>

Next ==
    \/ \E f \in Fds : Client(f)
    \/ FromRouter
    \/ Manager
    \/ Modules
    \/ Clock
    \/ LinkDown
    \/ LinkUp
    \/ SMDown
    \/ SMBack

(* Both processes read what the router sends them; nobody else must act.   *)
Spec == Init /\ [][Next]_vars /\ WF_vars(FromRouter) /\ WF_vars(Manager)

-----------------------------------------------------------------------------
(* Properties                                                              *)

(* A client is only given stanzas of its own user's sessions, although its *)
(* descriptor, the only thing it is addressed by, may have been another    *)
(* client's a moment ago.                                                  *)
OwnPackets == \A f \in Fds : \A g \in got[f] : g[1] \in {sess[f].user, NoId}

(* When nothing is under way, every session of the sm belongs to an active *)
(* client that knows it by its id: nobody stays online after he has gone.  *)
NoOrphans ==
    Quiet => \A j \in Jids : Live(j) =>
        LET s == sess[sm[j].fd]
        IN s.active /\ \E i \in DOMAIN s.res : s.res[i].smid = SmId(j)

(* The converse: a resource an active client believes to have a session is *)
(* the one the sm has, under this client's descriptor.                     *)
NoGhosts ==
    Quiet => \A f \in Fds : sess[f].active /\ Streaming(f) =>
        \A i \in DOMAIN sess[f].res :
            LET b == sess[f].res[i]
            IN b.smid # NoId => Has(b.smid) /\ FromThem(b.smid, f)

(* `assert(sess->resources != NULL)' for a stanza of an active client, and *)
(* the counter `bound' that decides when the last resource has gone.       *)
ActiveHasResources ==
    \A f \in Fds : sess[f].active =>
        /\ sess[f].res # <<>>
        /\ sess[f].sasl => sess[f].bound \in 0..Len(sess[f].res)
        /\ sess[f].sasl /\ sess[f].state = "open" => sess[f].bound = Len(sess[f].res)

(* The answer to a bind is returned "after we have a session for them"     *)
(* (c2s.c): a client that has been told so has a session for that JID.     *)
ResultMeansSession ==
    \A f \in Fds : \A i \in DOMAIN sess[f].res :
        sess[f].res[i].jid \in told[f] => sess[f].res[i].smid # NoId

(* Once the sm has heard that c2s lost its link, none of the sessions c2s  *)
(* held is left: their users are offline, whatever their clients believe.  *)
LostLinkEndsAll == link = "down" /\ Quiet => \A j \in Jids : ~Live(j)

(* A client is never handed back, as if somebody had sent it, a stanza of  *)
(* its own that the sm refused because it has no such session ("sm is      *)
(* bouncing something", c2s.c): the news that the session has gone has to  *)
(* come first, and has to find the right resource.                         *)
NoEchoes == \A f \in Fds : \A g \in got[f] : g[2] = "pkt"

(* A client that waits for an answer gets it or is closed.                 *)
Answers ==
    \A f \in Fds : (sess[f].result # NoResult /\ Streaming(f))
                       ~> (sess[f].result = NoResult \/ ~Streaming(f))
=============================================================================
