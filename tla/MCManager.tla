----------------------------- MODULE MCManager -----------------------------
(* Instances of Manager for TLC. *)
EXTENDS Manager

Pres(t, to) == Packet("presence", t, to, NoJid)
Pri(n) == [Pres("", NoJid) EXCEPT !.pri = n]
Msg(t, to) == Packet("message", t, to, NoJid)
Amp(to, a, w) == [Msg("chat", to) EXCEPT !.rule = <<[action |-> a, when |-> w]>>]
Iq(t, ns, to) == [Packet("iq", t, to, NoJid) EXCEPT !.ns = ns]
Scene(client, peer, may) == [client |-> client, peer |-> peer, may |-> may]

\* broadcast and directed presence, and its withdrawal
Comings == {Pri(0), Pri(1), Pres("unavailable", NoJid), Pres("", Jid("eve")), Pres("unavailable", Jid("eve"))}
Visible == Scene(Comings, {}, {"c2s"})
\* presence that may be returned, and asked for again
Returned == Scene({Pri(0), Pres("unavailable", NoJid), Pres("", Jid("eve"))}, {}, {"bounce"})
\* messages for sessions of different priorities, or none, that may not be kept
Reached == Scene({Pri(-1), Pri(0), Pri(1), Pres("unavailable", NoJid)},
                 {Msg("chat", User), Msg("chat", Full("r1")), Msg("headline", User)}, {"spool"})
\* the same with advanced message processing and message events
Rules == Scene({Pri(0), Pri(-1)},
               {Amp(User, "drop", "direct"), Amp(User, "alert", "stored"), Amp(User, "notify", "direct"),
                Amp(User, "unknown", "none"), Amp(Full("r1"), "notify", "exact"),
                [Msg("", User) EXCEPT !.ns = "event"]}, {})
\* requests and whatever else may be sent, between sessions and peers
Requests == Scene({Pri(0), Iq("get", "roster", NoJid), Iq("result", "roster", NoJid), Iq("get", "ping", NoJid),
                   Iq("get", "disco-info", User), Iq("get", "agents", NoJid), Iq("set", "x", NoJid),
                   Iq("get", "x", Full("r2")), Msg("chat", NoJid), Pres("probe", NoJid), Pres("", Full("r2")),
                   Pres("subscribe", Jid("bob")), Packet("stanza", "", NoJid, NoJid)},
                  {Iq("get", "disco-info", User), Iq("get", "x", Full("r1")), Iq("get", "x", User),
                   Pres("", User), Pres("subscribe", User)}, {})
\* the server itself
Served == Scene({Pri(0)},
                {Iq("get", "ping", Host), [Iq("get", "disco-info", Host) EXCEPT !.node = "amp"],
                 [Iq("get", "disco-items", Host) EXCEPT !.node = "sessions"], Iq("get", "agents", SmId),
                 Iq("result", "disco-info", Host), Iq("set", "x", Host), Msg("chat", Host), Msg("chat", <<"host", "echo">>),
                 Pres("probe", Host), Pres("subscribe", Host), Pres("unsubscribe", Host)}, {"services"})

All == [visible |-> Visible, returned |-> Returned, reached |-> Reached, rules |-> Rules,
        requests |-> Requests, served |-> Served]

\* negative and positive priorities, and one message
Shy == [shy |-> Scene({Pri(-1), Pri(1)}, {Msg("chat", User)}, {})]

\* the condition of ManagerProofs!GoneIsKnown
ASSUME DiscreetScenes == Discreet
=============================================================================
