------------------------------ MODULE Proxy65 ------------------------------
(***************************************************************************)
(* The SOCKS5 bytestreams proxy (proxy65): the connections of its clients, *)
(* each driven by mio, the table of bytestreams in which two of them meet, *)
(* the requests that come through the router, and the main loop that keeps *)
(* the link to the router.                                                 *)
(*                                                                         *)
(* A handler maps a work state [conn, stream, sock] to the next one; an    *)
(* action is one callback of mio, one packet of the router, one turn of    *)
(* the main loop, or one thing a client does.  Data is counted in tokens:  *)
(* the greeting, the two halves of the request, or the n-th piece of data  *)
(* of a client.                                                            *)
(***************************************************************************)
EXTENDS Integers, Sequences, SequencesExt, FiniteSetsExt

CONSTANTS
    Scenes,         \* what goes on around the proxy, by name, within bounds: the
                    \* connections (conns), the pieces of data each client sends
                    \* (data), the times the link is lost (losses), and whether
                    \* there are bad requests and resets (rude)
    Hashes,         \* bytestreams: SHA-1 of the session id and both JIDs
    None,           \* no bytestream
    Cap,            \* tokens a client's socket holds until the client reads
    RetryInit,      \* retry_init and retry_lost: attempts to reach the router
    RetryLost       \* before giving up, for ever if negative

ASSUME Proxy65Assumption ==
    /\ None \notin Hashes
    /\ Cap \in Nat \ {0}
    /\ RetryInit \in Int /\ RetryLost \in Int
    /\ \A n \in DOMAIN Scenes :
        /\ Scenes[n].conns \in Nat /\ Scenes[n].data \in Nat /\ Scenes[n].losses \in Nat
        /\ Scenes[n].rude \in BOOLEAN

VARIABLES
    scene,      \* the scene that is played
    conn,       \* sock_conn_st of each connection, with mio's read interest
    stream,     \* p->streams
    pipe,       \* what a client has sent and the proxy has not read
    sock,       \* what the proxy has sent and the client has not read
    client,     \* what each client has done and been told
    got,        \* what each client has read
    link,       \* the link to the router and the main loop's view of it
    ended       \* the connections closed because the client had sent all it had

vars == <<scene, conn, stream, pipe, sock, client, got, link, ended>>

\* numbered as they come
Conns == 1..Max({Scenes[n].conns : n \in DOMAIN Scenes})

NoConn == [state |-> "none", rd |-> FALSE, rbuf |-> <<>>, wbuf |-> <<>>, bs |-> None]
NoStream == [on |-> FALSE, peers |-> <<>>, activated |-> FALSE, old |-> FALSE]
Gone == [NoConn EXCEPT !.state = "closed"]
Live(c) == conn[c].state \notin {"none", "closed"}

Data(x) == x[1] = "data"
Bad(x) == x[1] = "bad"

Work == [conn |-> conn, stream |-> stream, sock |-> sock, ret |-> 0]

-----------------------------------------------------------------------------
(* Connections and bytestreams                                             *)

\* _sock_conn_close: the connection, and with it its bytestream and the other
\* connection of that
\* Mutant: the other connection stays.
Close_alone(w, c) ==
    [w EXCEPT !.conn[c] = Gone, !.ret = 0,
              !.stream = [h \in Hashes |-> IF h = w.conn[c].bs THEN NoStream ELSE @[h]]]
Close(w, c) ==
    LET h == w.conn[c].bs
        both == {c} \cup IF h = None THEN {} ELSE ToSet(w.stream[h].peers)
    IN  IF w.conn[c].state = "closed" THEN w
        ELSE [w EXCEPT !.conn = [d \in Conns |-> IF d \in both THEN Gone ELSE @[d]],
                       !.stream = [g \in Hashes |-> IF g = h THEN NoStream ELSE @[g]],
                       !.ret = 0]

\* proxy65_stream_free of each bytestream in H: its connections are cut off from
\* it first, then closed
StreamFree(w, H) ==
    [w EXCEPT !.conn = [d \in Conns |-> IF \E h \in H : d \in ToSet(w.stream[h].peers) THEN Gone ELSE @[d]],
              !.stream = [g \in Hashes |-> IF g \in H THEN NoStream ELSE @[g]]]

\* _stream_get_or_create and the request that joins a bytestream
Join(w, c, h) ==
    [w EXCEPT !.stream[h].on = TRUE, !.stream[h].peers = Append(@, c),
              !.conn[c].bs = h, !.conn[c].state = "connected"]

\* _socks_peer: the other connection of the same bytestream, if it is there
Peer(w, c) == IF w.conn[c].bs = None THEN {} ELSE ToSet(w.stream[w.conn[c].bs].peers) \ {c}

-----------------------------------------------------------------------------
(* SOCKS5                                                                  *)

Strip(w, c, n) == [w EXCEPT !.conn[c].rbuf = SubSeq(@, n + 1, Len(@))]
Reply(w, c, what) == [w EXCEPT !.sock[c] = Append(@, <<what>>)]
Fail(w) == [w EXCEPT !.ret = -1]

\* _socks_process, first part: version and methods
Greeting(w, c) ==
    LET b == w.conn[c].rbuf
    IN  CASE b # <<>> /\ Bad(b[1]) -> Fail(Reply(w, c, "refused"))
          [] b # <<>> /\ ~Bad(b[1]) ->
                Reply(Strip([w EXCEPT !.conn[c].state = "request"], c, 1), c, "method")
          [] OTHER -> w

\* _socks_process, second part: CONNECT to a bytestream that has room
Request(w, c) ==
    LET b == w.conn[c].rbuf
        full(h) == Len(w.stream[h].peers) >= 2 \/ w.stream[h].activated
    IN  CASE b # <<>> /\ Bad(b[1]) -> Fail(Reply(w, c, "refused"))
          [] Len(b) >= 2 /\ ~Bad(b[1]) /\ full(b[2][2]) -> Fail(Reply(w, c, "refused"))
          [] Len(b) >= 2 /\ ~Bad(b[1]) /\ ~full(b[2][2]) ->
                Reply(Strip(Join(w, c, b[2][2]), c, 2), c, "ok")
          [] OTHER -> w

Process(w, c) ==
    LET r(v) == IF v.ret = 0 /\ v.conn[c].state = "request" THEN Request(v, c) ELSE v
    IN  r(IF w.conn[c].state = "greeting" THEN Greeting(w, c) ELSE w)

\* the end of action_READ before the relay: go on while incomplete
Processed(w, c) ==
    IF w.ret < 0 THEN Close(w, c)
    ELSE [w EXCEPT !.conn[c].rd = w.conn[c].state \in {"greeting", "request"}]

-----------------------------------------------------------------------------
(* The relay                                                               *)

\* send: as much as the socket takes, from the start.  Mutant: from the end.
Sent_last(w, c, toks) ==
    LET n == Cap - Len(w.sock[c])
        k == IF n < 0 THEN 0 ELSE IF n > Len(toks) THEN Len(toks) ELSE n
    IN  [w EXCEPT !.sock[c] = @ \o SubSeq(toks, Len(toks) - k + 1, Len(toks)),
                  !.conn[c].wbuf = SubSeq(toks, 1, Len(toks) - k)]
Sent(w, c, toks) ==
    LET n == Cap - Len(w.sock[c])
        k == IF n < 0 THEN 0 ELSE IF n > Len(toks) THEN Len(toks) ELSE n
    IN  [w EXCEPT !.sock[c] = @ \o SubSeq(toks, 1, k), !.conn[c].wbuf = SubSeq(toks, k + 1, Len(toks))]

\* _socks_relay_flush; action_WRITE: "peer may have been paused"
Resume(w, c) ==
    IF w.conn[c].wbuf = <<>>
    THEN [w EXCEPT !.conn = [d \in Conns |-> IF d \in Peer(w, c) THEN [@[d] EXCEPT !.rd = TRUE] ELSE @[d]]]
    ELSE w
ActionWrite(w, c) ==
    IF w.conn[c].state = "relay" THEN Resume(Sent(w, c, w.conn[c].wbuf), c) ELSE w

\* _socks_relay_write; mio_write calls action_WRITE at once, which returns 0, so
\* that the descriptor is not watched for writing
Unsent(w, c) == IF w.conn[c].wbuf # <<>> THEN ActionWrite(w, c) ELSE w
RelayWrite(w, c, toks) == Unsent(Sent(w, c, w.conn[c].wbuf \o toks), c)

\* Mutant: the other client's backlog is not asked for.
Paused_never(w, c) == FALSE
\* "backpressure: don't read until peer drain"
Paused(w, c) == \E d \in Peer(w, c) : w.conn[d].wbuf # <<>>

\* action_READ in the relay
RelayRead(w, c, toks) ==
    LET p == Peer(w, c)
    IN  IF p = {} \/ Paused(w, c) THEN [w EXCEPT !.conn[c].rd = FALSE]
        ELSE IF toks = <<>> THEN Close(w, c)
        ELSE RelayWrite(w, CHOOSE d \in p : TRUE, toks)

-----------------------------------------------------------------------------
(* Callbacks of mio                                                        *)

Become(w) == conn' = w.conn /\ stream' = w.stream /\ sock' = w.sock

\* proxy65_socks_mio_callback: a connection is accepted
Accept(c) ==
    /\ link.listening /\ ~link.shutdown
    /\ conn[c].state = "none" /\ c <= Scenes[scene].conns
    /\ \A d \in 1..(c - 1) : conn[d].state # "none"
    /\ conn' = [conn EXCEPT ![c] = [NoConn EXCEPT !.state = "greeting", !.rd = TRUE]]
    /\ UNCHANGED <<scene, stream, pipe, sock, client, got, link, ended>>

\* a descriptor is readable: some data has come, or the client has closed
Readable(c) == conn[c].rd /\ (pipe[c] # <<>> \/ client[c].closed)

\* _sock_conn_mio_callback, action_READ
ReadData(c) ==
    /\ ~link.shutdown /\ Readable(c) /\ pipe[c] # <<>>
    /\ \E n \in 1..Len(pipe[c]) :
        LET toks == SubSeq(pipe[c], 1, n)
        IN  IF conn[c].state = "relay"
            THEN /\ Become(RelayRead(Work, c, toks))
                 /\ pipe' = [pipe EXCEPT ![c] = IF Paused(Work, c) THEN @ ELSE SubSeq(@, n + 1, Len(@))]
            ELSE /\ Become(Processed(Process([Work EXCEPT !.conn[c].rbuf = @ \o toks], c), c))
                 /\ pipe' = [pipe EXCEPT ![c] = SubSeq(@, n + 1, Len(@))]
    /\ UNCHANGED <<scene, client, got, link, ended>>

\* the same at the end of the data: recv returns 0
ReadEnd(c) ==
    /\ ~link.shutdown /\ Readable(c) /\ pipe[c] = <<>>
    /\ LET w == IF conn[c].state = "relay" THEN RelayRead(Work, c, <<>>) ELSE Close(Work, c)
       IN  /\ Become(w)
           /\ ended' = IF conn[c].state = "relay" /\ w.conn[c].state = "closed" THEN ended \cup {c} ELSE ended
    /\ UNCHANGED <<scene, pipe, client, got, link>>

\* the connection is reset, which mio serves as readable whether it is watched or
\* not, and recv fails, unless the connection is not read from because of the
\* other's backlog; or a send to it from the other one fails
Reset(c) ==
    /\ Scenes[scene].rude /\ ~link.shutdown
    /\ Live(c) /\ client[c].closed
    /\ \/ conn[c].state = "relay" => Peer(Work, c) # {} /\ ~Paused(Work, c)
       \/ \E d \in Peer(Work, c) : conn[d].rd /\ pipe[d] # <<>> /\ ~Paused(Work, d)
    /\ Become(Close(Work, c))
    /\ UNCHANGED <<scene, pipe, client, got, link, ended>>

-----------------------------------------------------------------------------
(* Requests through the router                                             *)

\* proxy65_socks_activate: from now on, and again when asked again, both are read
SocksActivate(w, h) ==
    [w EXCEPT !.stream[h].activated = TRUE,
              !.conn = [c \in Conns |-> IF c \in ToSet(w.stream[h].peers)
                                        THEN [@[c] EXCEPT !.state = "relay", !.rd = TRUE] ELSE @[c]]]

\* _iq_bytestreams_activate: h is what the request says of the session id and the
\* two JIDs; a request that cannot be understood, or comes before both are there,
\* is answered with an error
Complete(h) == stream[h].on /\ Len(stream[h].peers) >= 2
Activate(h) ==
    /\ link.state = "online" /\ ~link.shutdown
    /\ Complete(h)
    /\ Become(SocksActivate(Work, h))
    /\ UNCHANGED <<scene, pipe, client, got, link, ended>>

-----------------------------------------------------------------------------
(* The main loop                                                           *)

\* proxy65_socks_expire, every 30 seconds
\* Mutant: a bytestream that is complete does not expire.
Expired_half(h) == stream[h].on /\ stream[h].old /\ Len(stream[h].peers) < 2
Expired(h) == stream[h].on /\ ~stream[h].activated /\ stream[h].old
Expire ==
    /\ ~link.shutdown
    /\ \E h \in Hashes : Expired(h)
    /\ Become(StreamFree(Work, {h \in Hashes : Expired(h)}))
    /\ UNCHANGED <<scene, pipe, client, got, link, ended>>

\* PROXY65_SOCK_IDLE seconds pass
Age(h) ==
    /\ stream[h].on /\ ~stream[h].old
    /\ stream' = [stream EXCEPT ![h].old = TRUE]
    /\ UNCHANGED <<scene, conn, pipe, sock, client, got, link, ended>>

\* _proxy65_router_connect: under way, refused at once, or out of the question
Connect(l) ==
    {[l EXCEPT !.state = "connecting", !.lost = FALSE], [l EXCEPT !.lost = TRUE, !.fails = @ + 1],
     [l EXCEPT !.lost = FALSE]}

\* the link is lost: sx_kill, then action_CLOSE
LinkLost ==
    /\ link.state # "down" /\ ~link.shutdown
    /\ link.losses < Scenes[scene].losses
    /\ link' = [link EXCEPT !.state = "down", !.lost = TRUE, !.losses = @ + 1, !.fails = @ + 1]
    /\ UNCHANGED <<scene, conn, stream, pipe, sock, client, got, ended>>

\* event_OPEN: the number of attempts starts again, the name is bound
\* Mutant: it does not start again.
OpenLink_spent(l) == [l EXCEPT !.state = "open", !.opened = TRUE, !.fails = 0]
OpenLink(l) == [l EXCEPT !.state = "open", !.opened = TRUE, !.left = RetryLost, !.fails = 0]
LinkOpen ==
    /\ link.state = "connecting"
    /\ link' = OpenLink(link)
    /\ UNCHANGED <<scene, conn, stream, pipe, sock, client, got, ended>>

\* the answer to bind: the proxy listens, from the first time on; a refusal ends
\* the process
Bound ==
    /\ link.state = "open"
    /\ link' = [link EXCEPT !.state = "online", !.listening = TRUE]
    /\ UNCHANGED <<scene, conn, stream, pipe, sock, client, got, ended>>

\* the main loop after mio_run: another attempt
Retry ==
    /\ link.lost /\ ~link.shutdown /\ link.left # 0
    /\ link' \in Connect([link EXCEPT !.left = IF @ > 0 THEN @ - 1 ELSE @])
    /\ UNCHANGED <<scene, conn, stream, pipe, sock, client, got, ended>>

\* no attempt is left: the end of main frees every bytestream, and the process
\* takes the connections without one with it
Shutdown ==
    /\ link.lost /\ ~link.shutdown /\ link.left = 0
    /\ link' = [link EXCEPT !.shutdown = TRUE]
    /\ LET w == StreamFree(Work, {h \in Hashes : stream[h].on})
       IN  Become([w EXCEPT !.conn = [c \in Conns |-> IF @[c].state = "none" THEN NoConn ELSE Gone]])
    /\ UNCHANGED <<scene, pipe, client, got, ended>>

-----------------------------------------------------------------------------
(* Clients                                                                 *)

\* the greeting, then, once a method has been chosen, one half of the request
\* for h after the other; or something that is neither
Speak(c, h) ==
    /\ Live(c) /\ ~client[c].closed
    /\ client[c].step < 3
    /\ client[c].step >= 1 => client[c].told # "none"
    /\ client[c].h \in {h, None}
    /\ client' = [client EXCEPT ![c].step = @ + 1, ![c].h = h]
    /\ \E tok \in {<<"half", h>>} \cup IF Scenes[scene].rude /\ client[c].step \in {0, 1} THEN {<<"bad", h>>} ELSE {} :
        pipe' = [pipe EXCEPT ![c] = Append(@, tok)]
    /\ UNCHANGED <<scene, conn, stream, sock, got, link, ended>>

\* data, once the request has been answered
Push(c) ==
    /\ client[c].told = "ok" /\ ~client[c].closed
    /\ client[c].sent < Scenes[scene].data
    /\ client' = [client EXCEPT ![c].sent = @ + 1]
    /\ pipe' = [pipe EXCEPT ![c] = Append(@, <<"data", c, client[c].sent + 1>>)]
    /\ UNCHANGED <<scene, conn, stream, sock, got, link, ended>>

\* a client reads
Drain(c) ==
    /\ sock[c] # <<>>
    /\ sock' = [sock EXCEPT ![c] = Tail(@)]
    /\ got' = [got EXCEPT ![c] = Append(@, Head(sock[c]))]
    /\ client' = IF Data(Head(sock[c])) THEN client ELSE [client EXCEPT ![c].told = Head(sock[c])[1]]
    /\ UNCHANGED <<scene, conn, stream, pipe, link, ended>>

\* a client sends no more
Leave(c) ==
    /\ Live(c) /\ ~client[c].closed
    /\ client' = [client EXCEPT ![c].closed = TRUE]
    /\ UNCHANGED <<scene, conn, stream, pipe, sock, got, link, ended>>

Init ==
    /\ scene \in DOMAIN Scenes
    /\ conn = [c \in Conns |-> NoConn]
    /\ stream = [h \in Hashes |-> NoStream]
    /\ pipe = [c \in Conns |-> <<>>]
    /\ sock = [c \in Conns |-> <<>>]
    /\ client = [c \in Conns |-> [step |-> 0, h |-> None, told |-> "none", sent |-> 0, closed |-> FALSE]]
    /\ got = [c \in Conns |-> <<>>]
    /\ link \in Connect([state |-> "down", lost |-> FALSE, left |-> RetryInit, fails |-> 0, losses |-> 0, opened |-> FALSE,
                         listening |-> FALSE, shutdown |-> FALSE])
    /\ ended = {}

Next ==
    \/ \E c \in Conns :
          \/ Accept(c) \/ ReadData(c) \/ ReadEnd(c) \/ Reset(c)
          \/ Push(c) \/ Drain(c) \/ Leave(c)
          \/ \E h \in Hashes : Speak(c, h)
    \/ \E h \in Hashes : Activate(h) \/ Age(h)
    \/ Expire
    \/ LinkLost \/ LinkOpen \/ Bound \/ Retry \/ Shutdown

(* mio serves every readable descriptor and the main loop turns; time goes *)
(* by; a client whose connection is open reads what it is sent.            *)
Fairness ==
    /\ \A c \in Conns : WF_vars(ReadData(c) \/ ReadEnd(c)) /\ WF_vars(Drain(c))
    /\ \A h \in Hashes : WF_vars(Age(h))
    /\ WF_vars(Expire) /\ WF_vars(Shutdown)

Spec == Init /\ [][Next]_vars /\ Fairness

-----------------------------------------------------------------------------
(* Properties                                                              *)

(* The table of bytestreams and the connections describe the same pairs,   *)
(* whoever closes first, expires or is refused: a bytestream lists exactly *)
(* the live connections that belong to it, at most two, none is left       *)
(* without, and both relay exactly when it has been activated.             *)
Paired ==
    \A h \in Hashes :
        /\ ToSet(stream[h].peers) = {c \in Conns : conn[c].bs = h}
        /\ IsInjective(stream[h].peers) /\ Len(stream[h].peers) <= 2
        /\ stream[h].on = (stream[h].peers # <<>>)
        /\ \A c \in Conns : conn[c].bs = h =>
              conn[c].state = IF stream[h].activated THEN "relay" ELSE "connected"

(* What a client reads after the two answers to its greeting and its       *)
(* request is what one other client of the same bytestream sent, from its  *)
(* first piece on and in order, and it reads nothing while the bytestream  *)
(* is not activated.                                                       *)
Faithful ==
    \A c \in Conns :
        LET all == got[c] \o sock[c]
        IN  Len(all) > 2 =>
            /\ \E d \in Conns \ {c} : client[d].h = client[c].h /\ \A i \in 3..Len(all) : all[i] = <<"data", d, i - 2>>
            /\ conn[c].state \in {"relay", "closed"}

(* A client that has sent everything and closes does not take data with it *)
(* that the proxy still holds for the other ("don't read until peer        *)
(* drain"): when the proxy has ended the bytestream for that, the whole of *)
(* what the client sent has been read by the other, or waits for it at its *)
(* socket.                                                                 *)
CleanEnd ==
    \A c \in ended : \E d \in Conns \ {c} :
        LET all == got[d] \o sock[d]
        IN  /\ client[d].h = client[c].h
            /\ Len(all) = 2 + client[c].sent
            /\ \A i \in 3..Len(all) : all[i] = <<"data", c, i - 2>>

(* The proxy gives up only when it has lost the router and every attempt   *)
(* that retry_init, or after the first success retry_lost, grants it since *)
(* it was last connected.                                                  *)
GivesUp == link.shutdown => link.fails = 1 + IF link.opened THEN RetryLost ELSE RetryInit

(* A bytestream that is not activated does not stay for ever, though its   *)
(* connections are not read from and may have been closed long ago.        *)
Expires == \A h \in Hashes : stream[h].on ~> (~stream[h].on \/ stream[h].activated)

(* "backpressure: don't read until peer drain", "peer may have been        *)
(* paused" (socks.c): what is kept for a client that reads is sent to it.  *)
Relays == \A c \in Conns : conn[c].wbuf # <<>> ~> conn[c].wbuf = <<>>
=============================================================================
