----------------------------- MODULE Throttle -----------------------------
(***************************************************************************)
(* The limits of the router and of c2s on what one address may do: how     *)
(* often it connects and how many bytes its connection is read (util/rate, *)
(* the accept checks, event_READ of both programs, the time checks of      *)
(* c2s).  One address with at most one connection at a time is followed;   *)
(* the parameter `kind' says which program it is connected to.             *)
(*                                                                         *)
(* Clocks are ages: what the code stores as a time is kept as the seconds  *)
(* that have passed since, up to the largest number it is compared with;   *)
(* Unset is the time 0.  The socket takes everything that is written.      *)
(***************************************************************************)
EXTENDS Integers, FiniteSetsExt

CONSTANTS
    Settings,   \* configurations, by name: kind ("router" or "c2s"), total,
                \* seconds and wait of the limits, keepalive and idle of the
                \* time checks, 0 if off
    BufLen,     \* bytes of the buffer sx reads into
    Cap         \* bytes the peer's socket holds

ASSUME ThrottleAssumption ==
    /\ BufLen \in Nat \ {0} /\ Cap \in Nat \ {0}
    /\ \A n \in DOMAIN Settings :
        /\ Settings[n].kind \in {"router", "c2s"}
        /\ {Settings[n].total, Settings[n].seconds, Settings[n].wait} \subseteq Nat \ {0}
        /\ {Settings[n].keepalive, Settings[n].idle} \subseteq Nat

VARIABLES
    setting,    \* the configuration that is in force
    conns,      \* the rate of connections of this address
    refused,    \* its last attempt was refused
    peer,       \* the connection: sess_t or component_t, its sx_t and mio_fd_t
    pending,    \* bytes sent by the peer that have not been read
    recent      \* bytes read in the second that runs, in the last two, ...

vars == <<setting, conns, refused, peer, pending, recent>>

Conf == Settings[setting]
Unset == -1
MaxAge == 1 + Max({Conf.seconds, Conf.wait, Conf.keepalive, Conf.idle})

-----------------------------------------------------------------------------
(* util/rate                                                               *)

RateReset == [time |-> Unset, count |-> 0, bad |-> Unset]

\* rate_add.  Mutant: every event starts a window of its own.
RateAdd_untimed(rt, n) ==
    [rt EXCEPT !.count = n, !.time = 0, !.bad = IF n >= Conf.total THEN 0 ELSE Unset]
RateAdd(rt, n) ==
    LET r == IF rt.time = Unset \/ rt.time >= Conf.seconds THEN RateReset ELSE rt
    IN  [time |-> IF r.time = Unset THEN 0 ELSE r.time,
         count |-> r.count + n,
         bad |-> IF r.count + n >= Conf.total THEN 0 ELSE r.bad]

RateLeft(rt) == IF rt.bad # Unset THEN 0 ELSE Conf.total - rt.count

\* rate_check: its answer, and the limit after it
\* Mutant: at the limit is still under it.
RateCheck_edge(rt) == rt.time = Unset \/ rt.count <= Conf.total \/ rt.bad = Unset \/ rt.bad >= Conf.wait
RateCheck(rt) == rt.time = Unset \/ rt.count < Conf.total \/ rt.bad = Unset \/ rt.bad >= Conf.wait
\* Mutant: who is kept waiting starts to wait anew.
RateChecked_anew(rt) ==
    IF rt.time # Unset /\ rt.count >= Conf.total /\ rt.bad # Unset
    THEN IF rt.bad >= Conf.wait THEN RateReset ELSE [rt EXCEPT !.bad = 0] ELSE rt
RateChecked(rt) ==
    IF rt.time # Unset /\ rt.count >= Conf.total /\ rt.bad # Unset /\ rt.bad >= Conf.wait THEN RateReset ELSE rt

-----------------------------------------------------------------------------
(* Connections                                                             *)

NoPeer == [state |-> "none", rd |-> FALSE, want |-> FALSE, rate |-> RateReset, quiet |-> 0, closed |-> FALSE]
Quiet == [i \in 1..Conf.seconds |-> 0]

\* _router_accept_check, _c2s_client_accept_check: an attempt counts if it is let in
Attempted(rt) == IF RateCheck(rt) THEN RateAdd(RateChecked(rt), 1) ELSE RateChecked(rt)

\* action_ACCEPT of either program
Connect ==
    /\ peer.state # "up"
    /\ refused' = ~RateCheck(conns)
    /\ conns' = Attempted(conns)
    /\ IF RateCheck(conns)
       THEN /\ peer' = [NoPeer EXCEPT !.state = "up", !.rd = TRUE, !.want = TRUE]
            /\ pending' = 0
            /\ recent' = Quiet
       ELSE UNCHANGED <<peer, pending, recent>>
    /\ UNCHANGED setting

\* sx_kill: event_CLOSED, mio_close, action_CLOSE
Killed(p) == [p EXCEPT !.state = "gone", !.rd = FALSE]

\* event_READ of either program: throttled.  The router leaves the descriptor
\* to be tried again; c2s returns -1, for which sx_can_read wants no more
Throttled(p) ==
    IF Conf.kind = "router" THEN [p EXCEPT !.rate = RateChecked(@)]
    ELSE [p EXCEPT !.rate = RateChecked(@), !.want = FALSE, !.rd = FALSE]

\* event_READ, the read: n bytes of at most what is left and the buffer holds,
\* the end if there are none or none may be taken, or nothing yet, which c2s
\* counts as -1
CanTake(p) ==
    LET most == Min({RateLeft(RateChecked(p.rate)), BufLen, pending})
    IN  IF pending = 0 /\ ~p.closed THEN {-1} ELSE IF most <= 0 THEN {0} ELSE 1..most

Taken(p, n) ==
    LET rt == RateChecked(p.rate)
        counted == [p EXCEPT !.rate = IF Conf.kind = "c2s" \/ n > 0 THEN RateAdd(rt, n) ELSE rt]
    IN  IF n = 0 THEN Killed(counted) ELSE counted

\* sx_can_read of the peer p, whose answer tells mio whether to go on watching
CanRead(p) ==
    IF ~p.want THEN peer' = [p EXCEPT !.rd = FALSE] /\ UNCHANGED <<pending, recent>>
    ELSE IF ~RateCheck(p.rate) THEN peer' = Throttled(p) /\ UNCHANGED <<pending, recent>>
    ELSE \E n \in CanTake(p) :
            /\ peer' = Taken(p, n)
            /\ pending' = IF n > 0 THEN pending - n ELSE pending
            /\ recent' = IF n > 0 THEN [i \in DOMAIN recent |-> recent[i] + n] ELSE recent

\* mio: action_READ; "they did something"
Read ==
    /\ peer.state = "up" /\ peer.rd /\ (pending > 0 \/ peer.closed)
    /\ IF pending = 0 THEN peer' = Killed(peer) /\ UNCHANGED <<pending, recent>>
       ELSE CanRead([peer EXCEPT !.quiet = 0])
    /\ UNCHANGED <<setting, conns, refused>>

\* something is sent to the peer: sx wants to read as well, if it does
Written(p) == [p EXCEPT !.rd = @ \/ p.want]
Write ==
    /\ peer.state = "up"
    /\ peer' = Written(peer)
    /\ UNCHANGED <<setting, conns, refused, pending, recent>>

\* _c2s_time_checks: idle, keepalive, and "read the pending bytes when rate limit
\* is no longer in effect".  The answer of sx_can_read is not used.  The peer's
\* stream is established, without which there is no keepalive
TimedOut == Conf.idle > 0 /\ peer.quiet > Conf.idle
KeptAlive == IF Conf.keepalive > 0 /\ peer.quiet > Conf.keepalive THEN Written(peer) ELSE peer
TimeChecks ==
    /\ Conf.kind = "c2s" /\ peer.state = "up"
    /\ IF TimedOut THEN peer' = [peer EXCEPT !.state = "idle", !.rd = FALSE] /\ UNCHANGED <<pending, recent>>
       ELSE IF peer.rate.bad # Unset /\ RateCheck(peer.rate)
       THEN CanRead([KeptAlive EXCEPT !.rate = RateChecked(@), !.want = TRUE])
       ELSE peer' = KeptAlive /\ UNCHANGED <<pending, recent>>
    /\ UNCHANGED <<setting, conns, refused>>

-----------------------------------------------------------------------------
(* The peer and the clock                                                  *)

Send ==
    /\ peer.state = "up" /\ ~peer.closed /\ pending < Cap
    /\ pending' = pending + 1
    /\ UNCHANGED <<setting, conns, refused, peer, recent>>

Hangup ==
    /\ peer.state = "up" /\ ~peer.closed
    /\ peer' = [peer EXCEPT !.closed = TRUE]
    /\ UNCHANGED <<setting, conns, refused, pending, recent>>

Older(t) == IF t = Unset \/ t = MaxAge THEN t ELSE t + 1
OlderRate(rt) == [rt EXCEPT !.time = Older(@), !.bad = Older(@)]
Tick ==
    /\ conns' = OlderRate(conns)
    /\ peer' = [peer EXCEPT !.rate = OlderRate(@), !.quiet = Older(@)]
    /\ recent' = [i \in DOMAIN recent |-> IF i = 1 THEN 0 ELSE recent[i - 1]]
    /\ UNCHANGED <<setting, refused, pending>>

Init ==
    /\ setting \in DOMAIN Settings
    /\ conns = RateReset /\ refused = FALSE
    /\ peer = NoPeer
    /\ pending = 0
    /\ recent = Quiet

Next == Connect \/ Read \/ Write \/ TimeChecks \/ Send \/ Hangup \/ Tick

(* Time goes by, mio serves a descriptor that is watched and readable, the *)
(* main loop of c2s checks again and again, and who is refused tries again *)
(* (without which there is nothing to allow).                              *)
Fairness == WF_vars(Tick) /\ WF_vars(Read) /\ WF_vars(TimeChecks) /\ WF_vars(refused /\ Connect)

Spec == Init /\ [][Next]_vars /\ Fairness

-----------------------------------------------------------------------------
(* Properties                                                              *)

(* The limit holds: whatever the peer sends and however reads, refusals    *)
(* and time checks interleave, a connection that has to wait at least as   *)
(* long as a window is read less than twice its total in any `seconds'     *)
(* seconds (the end of one window and the start of the next), one byte     *)
(* more in c2s, which counts an empty read as -1.                          *)
Bounded ==
    Conf.wait >= Conf.seconds =>
        recent[Conf.seconds] <= 2 * Conf.total - IF Conf.kind = "router" THEN 1 ELSE 0

(* A limit costs time, never the connection: reading with no room left     *)
(* would return 0 bytes, which both programs take for the end of the       *)
(* stream.  A connection that is gone had been closed by the peer, all it  *)
(* had sent read, unless it was idle.                                      *)
Spared == peer.state = "gone" => peer.closed /\ pending = 0

(* No limit lasts: an address that keeps trying is let in again, and what  *)
(* a peer has sent is read or the connection ends, if c2s writes to a      *)
(* client now and then (keepalive) or ends idle ones (idle).               *)
Resumes ==
    /\ refused ~> ~refused
    /\ \A k \in 1..Cap : (peer.state = "up" /\ pending = k) ~> (peer.state # "up" \/ pending # k)
=============================================================================
