--------------------------------- MODULE SM ---------------------------------
(***************************************************************************)
(* The session manager's side of the session protocol: sm/mod_session.c,   *)
(* sm/sess.c, sm_c2s_action of sm/sm.c.  The module chains behind it (mm.c) *)
(* are abstracted to "any session may send its client a stanza at any      *)
(* time" (Deliver).                                                        *)
(***************************************************************************)
EXTENDS SessProto

CONSTANTS StartMayFail      \* sess_start may refuse (unknown user, foreign domain)

VARIABLES
    sm,         \* sm->sessions: per JID the session's start second and c2s id
    smUp        \* the process runs and is bound at the router

NoSession == [at |-> 0, fd |-> NoId]
Sessions == {NoSession} \cup [at : 1..MaxNow, fd : Fds]

SMType ==
    /\ sm \in [Jids -> Sessions]
    /\ smUp \in BOOLEAN

SMInit ==
    /\ sm = [j \in Jids |-> NoSession]
    /\ smUp = TRUE

Live(j) == sm[j] # NoSession
SmId(j) == <<j, sm[j].at>>

(* xhash_getx(sm->sessions, id).                                           *)
Has(smid) == smid # NoId /\ Live(smid[1]) /\ SmId(smid[1]) = smid

(* "make sure its from them": the c2s id is the one the session was        *)
(* started with.                                                           *)
FromThem(smid, f) == sm[smid[1]].fd = f

(* What the sm writes while c2s is not bound is returned to it and dropped. *)
Reply(ms, open) == toC2S' = IF open THEN toC2S \o ms ELSE toC2S

-----------------------------------------------------------------------------

(* Mutant: c2s is told after the old session has been unlinked.            *)
Replaced_late(j) == IF Live(j) THEN <<Control("replaced", NoSession.fd, SmId(j))>> ELSE <<>>
(* sess_start ends an existing session of the same full JID first.         *)
Replaced(j) == IF Live(j) THEN <<Control("replaced", sm[j].fd, SmId(j))>> ELSE <<>>

SessStart(m, open) ==
    LET j == m.id[1]
    IN /\ m.kind = "start"
       /\ \/ /\ StartMayFail
             /\ Reply(<<[m EXCEPT !.kind = "start failed"]>>, open)
             /\ UNCHANGED sm
          \/ /\ sm' = [sm EXCEPT ![j] = [at |-> now, fd |-> m.fd]]
             /\ Reply(Replaced(j) \o <<[m EXCEPT !.kind = "started", !.smid = <<j, now>>]>>, open)

SessEnd(m, open) ==
    /\ m.kind = "end"
    /\ \/ /\ ~Has(m.smid)
          /\ Reply(<<[m EXCEPT !.kind = "end failed"]>>, open)
          /\ UNCHANGED sm
       \/ /\ Has(m.smid)
          /\ ~FromThem(m.smid, m.fd)
          /\ UNCHANGED <<sm, toC2S>>
       \/ /\ Has(m.smid)
          /\ FromThem(m.smid, m.fd)
          /\ sm' = [sm EXCEPT ![m.smid[1]] = NoSession]
          /\ Reply(<<Control("ended", m.fd, m.smid)>>, open)

(* A stanza of a client.  A session request is answered before the session *)
(* is looked up; a stanza of an unknown session goes back as failed; else  *)
(* the in_sess chain has it.  The search for a session request has by then *)
(* overwritten `ns', so that the stanza goes back with `failed' outside    *)
(* the session namespace, where c2s does not see it (C2S!ToClient).        *)
InSess(m, open) ==
    /\ \/ /\ m.kind = "xsess"
          /\ Reply(<<[m EXCEPT !.kind = "pkt"]>>, open)
       \/ /\ m.kind = "pkt"
          /\ ~Has(m.smid)
          /\ Reply(<<[m EXCEPT !.kind = "pkt failed"]>>, open)
       \/ /\ m.kind = "pkt"
          /\ Has(m.smid)
          /\ UNCHANGED toC2S
    /\ UNCHANGED sm

(* Mutant: the session under the iterator is missed.                       *)
C2SGone_skip(m) ==
    /\ m.kind = "c2s down"
    /\ \E k \in Jids : sm' = [j \in Jids |-> IF j = k THEN sm[j] ELSE NoSession]
    /\ UNCHANGED toC2S

(* _session_pkt_router: c2s went offline, all its sessions end silently.   *)
C2SGone(m) ==
    /\ m.kind = "c2s down"
    /\ sm' = [j \in Jids |-> NoSession]
    /\ UNCHANGED toC2S

(* One packet from the router; `open' says whether c2s is bound there.     *)
SMStep(open) ==
    LET m == Head(toSM)
    IN /\ smUp
       /\ toSM # <<>>
       /\ toSM' = Tail(toSM)
       /\ SessStart(m, open) \/ SessEnd(m, open) \/ InSess(m, open) \/ C2SGone(m)
       /\ UNCHANGED <<now, smUp>>

(* sess_route: some module has a stanza for the session of j.              *)
Deliver(j, open) ==
    /\ smUp
    /\ Live(j)
    /\ Room
    /\ Reply(<<Control("pkt", sm[j].fd, SmId(j))>>, open)
    /\ UNCHANGED <<now, toSM, sm, smUp>>
=============================================================================
