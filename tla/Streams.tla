------------------------------ MODULE Streams ------------------------------
(***************************************************************************)
(* The sx library: both ends of one XML stream, the accepting ("server")   *)
(* and the initiating ("client") one, each driven by mio and by its        *)
(* application, with the STARTTLS, compression and SASL plugins.           *)
(*                                                                         *)
(* An end is a record (_sx_st).  A handler maps a work state, that is an   *)
(* end with what it has put on the wire so far and the number of buffers   *)
(* the kernel will still take, to the next one; an action runs one handler *)
(* that mio, or the application, calls.  Calls nest as in the code: an     *)
(* event WANT_WRITE makes mio_write call sx_can_write at once.             *)
(*                                                                         *)
(* Data is counted in tokens: a stream header, a complete element, the end *)
(* of the stream, or a flight of the TLS handshake.  A token on the wire   *)
(* remembers the layers it was encoded with.                               *)
(***************************************************************************)
EXTENDS Integers, Sequences, SequencesExt, TLC

CONSTANTS
    Offers,         \* what the server offers besides SASL
    TlsRequired,    \* SX_SSL_STARTTLS_REQUIRE
    MaxPkt,         \* bound: packets each application sends
    MaxQueue,       \* bound: tokens on their way from an end whose parser has
                    \* failed, which answers whatever it reads
    Peer,           \* whose client it is: this library's or another program's
    Faults          \* refused credentials, stream errors, closes: what happens

ASSUME StreamsAssumption ==
    /\ Offers \subseteq {"tls", "zip"}
    /\ TlsRequired \in BOOLEAN
    /\ MaxPkt \in Nat /\ MaxQueue \in Nat
    /\ Peer \in {"library", "external"}
    /\ Faults \subseteq {"denied", "error", "close"}

VARIABLES
    end,        \* the two ends
    wire        \* tokens each end has written and the other has not read

vars == <<end, wire>>

Ends == {"client", "server"}
Other(e) == IF e = "client" THEN "server" ELSE "client"

\* _sx_state_t
NONE == 0
STREAM_RECEIVED == 1
STREAM_SENT == 2
STREAM == 3
OPEN == 4
CLOSING == 5
CLOSED == 6

Tok(t) == [t |-> t, n |-> 0, f |-> {}]
Pkt(n) == [t |-> "packet", n |-> n, f |-> {}]
Flight(n) == [t |-> "flight", n |-> n, f |-> {}]
Features(f) == [t |-> "features", n |-> 0, f |-> f]

\* sx_new; the second part is what _sx_reset leaves alone, with the mio side of
\* the descriptor and the history the properties speak of
Fresh ==
    [state |-> NONE, wbufq |-> <<>>, pend |-> <<>>, rnadq |-> <<>>, depth |-> 0,
     fail |-> FALSE, wantr |-> FALSE, wantw |-> FALSE,
     tls |-> FALSE, bad |-> FALSE, hs |-> 0, rbio |-> <<>>, wbio |-> <<>>, wq |-> <<>>,
     ssf |-> FALSE, zip |-> FALSE, sasl |-> "none", resets |-> 0,
     fd |-> TRUE, mior |-> FALSE, miow |-> FALSE,
     sent |-> 0, got |-> <<>>, quit |-> FALSE, closed |-> 0, garbled |-> "no", lost |-> FALSE]

\* a handler at work on end e: `room' buffers the kernel will take (-1: send
\* fails), and the outcomes of what is decided elsewhere
Work(e, room) ==
    [e |-> e, s |-> end[e], out |-> <<>>, room |-> room, ret |-> FALSE, ok |-> TRUE, resets |-> 0, stop |-> FALSE]

-----------------------------------------------------------------------------
(* Buffers, events, reset                                                  *)

\* jqueue_push at priority 0, behind everything that is queued, with the
\* function to call when the buffer has been written
Push(w, tok, notify) ==
    [w EXCEPT !.s.wbufq = Append(@, [tok |-> tok, notify |-> notify]), !.s.wantw = TRUE]

\* the io plugins an end's data passes through
Layers(s) == (IF s.tls /\ ~s.bad THEN {"tls"} ELSE {}) \cup (IF s.zip THEN {"zip"} ELSE {})

Encoded(s, tok) == [tok |-> tok, enc |-> Layers(s) \cap IF tok.t = "flight" THEN {"tls"} ELSE {"tls", "zip"}]

\* event_CLOSED: the application lets mio close the descriptor
EventClosed(w) ==
    [w EXCEPT !.s.state = CLOSED, !.s.quit = TRUE, !.s.closed = @ + 1,
              !.s.fd = FALSE, !.s.mior = FALSE, !.s.miow = FALSE]

\* "if we've written everything, and we're closed, then inform the app"
\* Mutant: what is left to write is not asked for.
Finished_early(w) == w.s.state = CLOSING
Finished(w) == ~w.s.wantw /\ w.s.state = CLOSING
Finish(w) ==
    LET s == w.s
    IN  EventClosed([w EXCEPT !.ret = FALSE,
            !.s.lost = s.garbled # "layers" /\ <<s.wbufq, s.pend, s.wq, s.wbio>> # <<<<>>, <<>>, <<>>, <<>>>>])

\* event_WANT_READ: mio_read
WantRead(w) == [w EXCEPT !.s.mior = @ \/ (w.s.fd /\ w.s.wantr)]

\* _sx_reset: state, parser and queues are new; flags, plugins and ssf stay
Reset(w) ==
    [w EXCEPT !.s.state = NONE, !.s.wbufq = <<>>, !.s.pend = <<>>, !.s.rnadq = <<>>,
              !.s.depth = 0, !.s.fail = FALSE, !.s.wantr = FALSE, !.s.wantw = FALSE,
              !.s.resets = @ + 1]

\* _sx_ssl_server, _sx_ssl_client; _sx_compress_new: a plugin comes online
SslOnline(w) == [w EXCEPT !.s.tls = TRUE]
CompressOnline(w) == [w EXCEPT !.s.zip = TRUE]

\* sx_server_init: read on
ServerInit(w) == WantRead([w EXCEPT !.s.wantr = TRUE])

-----------------------------------------------------------------------------
(* TLS: the handshake and the io functions of the plugin.  The client      *)
(* sends flights 1 and 3, the server 2 and 4.                              *)

Established(s) == s.hs = 4

\* one turn of the loop of _sx_ssl_handshake: SSL_connect or SSL_accept goes as
\* far as it can with what is in rbio and leaves its flight in wbio
HsTurn(w) ==
    LET s == w.s
        starts == w.e = "client" /\ s.hs = 0
        arrived == ~starts /\ s.rbio # <<>> /\ Head(s.rbio) = Flight(s.hs + 1)
        next == IF starts THEN 1 ELSE s.hs + 2
    IN  IF Established(s) \/ ~(starts \/ arrived) THEN w
        ELSE [w EXCEPT !.s.rbio = IF arrived THEN Tail(@) ELSE @,
                       !.s.hs = IF next > 4 THEN 4 ELSE next,
                       !.s.wbio = IF next > 4 THEN @ ELSE Append(@, Flight(next)),
                       !.s.ssf = next >= 4]

Handshake(w) == HsTurn(HsTurn(w))

\* _sx_ssl_wio: queue the buffer; when the channel is up encrypt one buffer
Encrypt(w) ==
    LET up == Established(w.s) /\ w.s.wq # <<>>
    IN  [w |-> [w EXCEPT !.s.wq = IF up THEN Tail(@) ELSE @, !.s.wbio = <<>>, !.s.wantr = TRUE],
         toks |-> w.s.wbio \o IF up THEN <<Head(w.s.wq).tok>> ELSE <<>>,
         notify |-> IF up THEN Head(w.s.wq).notify ELSE "none"]
TlsWio(w, bufs) == Encrypt(Handshake([w EXCEPT !.s.wq = @ \o bufs]))

\* _sx_ssl_rio: load the read buffer, go on with the handshake, decrypt
Decrypt(w) ==
    LET up == Established(w.s)
    IN  [w |-> [w EXCEPT !.s.rbio = IF up THEN <<>> ELSE @,
                         !.s.wantw = @ \/ w.s.wbio # <<>> \/ (up /\ w.s.wq # <<>>),
                         !.s.wantr = TRUE],
         toks |-> IF up THEN w.s.rbio ELSE <<>>]
TlsRio(w, toks) == Decrypt(Handshake([w EXCEPT !.s.rbio = @ \o toks]))

-----------------------------------------------------------------------------
(* Writing                                                                 *)

\* _sx_ssl_features, _sx_compress_features, _sx_sasl_features
SslFeatures(s) ==
    IF "tls" \in Offers /\ s.state <= STREAM /\ ~s.ssf /\ ~s.zip THEN {"tls"} ELSE {}
CompressFeatures(s) ==
    IF "zip" \in Offers /\ ~s.zip /\ (TlsRequired => s.ssf) THEN {"zip"} ELSE {}
SaslFeatures(s) == IF s.sasl = "none" /\ (TlsRequired => s.ssf) THEN {"sasl"} ELSE {}

\* sx_auth
SxAuth(s) == [s EXCEPT !.state = OPEN]

\* _sx_sasl_stream, _sx_sasl_open: "make the stream authenticated second time
\* round"; otherwise both ends have a stream
SaslStream(s) ==
    IF s.sasl = "named" THEN SxAuth(s) ELSE [s EXCEPT !.state = IF @ < STREAM THEN STREAM ELSE @]

\* _sx_client_notify_header.  Mutant: the server's header is not waited for.
ClientNotifyHeader_deaf(w) == [w EXCEPT !.s.state = STREAM_SENT]
ClientNotifyHeader(w) == [w EXCEPT !.s.state = STREAM_SENT, !.s.wantr = TRUE]

\* _sx_server_notify_header
ServerNotifyHeader(w) ==
    LET u == [w EXCEPT !.s = SaslStream(w.s)]
    IN  Push(u, Features(SslFeatures(u.s) \cup CompressFeatures(u.s) \cup SaslFeatures(u.s)), "none")

\* the server starts the stream again: _sx_ssl_starttls_notify_proceed,
\* _sx_compress_notify_compress, _sx_sasl_notify_success.
\* Mutant: TLS does not come online.
NotifyProceed_plain(w) == ServerInit(Reset(w))
NotifyProceed(w) == ServerInit(SslOnline(Reset(w)))
NotifyCompress(w) == ServerInit(CompressOnline(Reset(w)))
NotifySuccess(w) == ServerInit(Reset(w))

\* (out->notify)(s, out->notify_arg)
Notify(w, notify) ==
    CASE notify = "none" -> w
      [] notify = "client header" -> ClientNotifyHeader(w)
      [] notify = "server header" -> ServerNotifyHeader(w)
      [] notify = "proceed" -> NotifyProceed(w)
      [] notify = "compress" -> NotifyCompress(w)
      [] notify = "success" -> NotifySuccess(w)

\* _sx_chain_io_write: a buffer, if there is one, through the write plugins
ChainWrite(w, bufs) ==
    IF "tls" \in Layers(w.s) THEN TlsWio(w, bufs)
    ELSE [w |-> w, toks |-> [i \in DOMAIN bufs |-> bufs[i].tok],
          notify |-> IF bufs = <<>> THEN "none" ELSE bufs[1].notify]

\* _sx_get_pending_write: the next buffer is kept until it has been written
Keep(r) ==
    LET units == [i \in DOMAIN r.toks |-> Encoded(r.w.s, r.toks[i])]
    IN  IF units = <<>> THEN r.w
        ELSE [r.w EXCEPT !.s.pend = <<[units |-> units, notify |-> r.notify]>>]
GetPending(w) ==
    LET q == w.s.wbufq
    IN  CASE w.s.pend # <<>> -> w
          [] w.s.pend = <<>> /\ q = <<>> -> Keep(ChainWrite([w EXCEPT !.s.wantw = FALSE], <<>>))
          [] OTHER -> Keep(ChainWrite([w EXCEPT !.s.wbufq = Tail(@), !.s.wantw = Len(q) > 1], <<Head(q)>>))

\* the end of sx_can_write
Written(w) ==
    IF Finished(w) THEN Finish(w)
    ELSE IF w.s.state = CLOSED THEN [w EXCEPT !.ret = FALSE]
    ELSE [WantRead(w) EXCEPT !.ret = w.s.wantw]

\* event_WRITE and what follows: an error, a part of the buffer, or all of it
\* Mutant: what is left of a buffer goes behind what is queued.
Send_requeue(w) ==
    LET p == w.s.pend[1]
        u == [w EXCEPT !.s.pend = <<>>]
    IN  CASE w.room < 0 ->
                [EventClosed(u) EXCEPT !.s.wantr = FALSE, !.s.wantw = FALSE, !.ret = FALSE]
          [] w.room = 0 -> Written(Push(u, p.units[Len(p.units)].tok, p.notify))
          [] OTHER -> Written(Notify([u EXCEPT !.room = @ - 1, !.out = @ \o p.units], p.notify))
Send(w) ==
    LET p == w.s.pend[1]
        u == [w EXCEPT !.s.pend = <<>>]
    IN  CASE w.room < 0 ->
                [EventClosed(u) EXCEPT !.s.wantr = FALSE, !.s.wantw = FALSE, !.ret = FALSE]
          [] w.room = 0 -> Written([w EXCEPT !.s.wantw = TRUE])
          [] OTHER -> Written(Notify([u EXCEPT !.room = @ - 1, !.out = @ \o p.units], p.notify))

\* sx_can_write
TrySend(w) == IF w.s.pend = <<>> THEN [WantRead(w) EXCEPT !.ret = w.s.wantw] ELSE Send(w)
CanWrite(w) ==
    IF ~w.s.wantw /\ w.s.state < CLOSING THEN [w EXCEPT !.ret = FALSE] ELSE TrySend(GetPending(w))

\* event_WANT_WRITE: mio_write tries at once and watches if more is wanted
\* Mutant: it is not watched.
WantWrite_once(w) == IF w.s.fd THEN CanWrite(w) ELSE w
Watch(w) == [w EXCEPT !.s.miow = @ \/ (w.ret /\ w.s.fd)]
WantWrite(w) == IF w.s.fd THEN Watch(CanWrite(w)) ELSE w

\* sx_nad_write
NadWrite(w, tok) ==
    IF w.s.state >= CLOSING THEN w ELSE WantRead(WantWrite(Push(w, tok, "none")))

\* _sx_close and sx_close
Closing(w) ==
    [IF w.s.state >= STREAM_SENT THEN Push(w, Tok("close"), "none") ELSE w
     EXCEPT !.s.state = CLOSING, !.s.quit = TRUE]

SxClose(w) ==
    IF w.s.state >= CLOSING THEN w
    ELSE IF w.s.state >= STREAM_SENT THEN WantWrite(Closing(w))
    ELSE EventClosed(w)

\* _sx_error: with a stream of its own around it if there is none yet
Error(w) ==
    IF w.s.state < STREAM
    THEN Push(Push(Push(w, Tok("open"), "none"), Tok("error"), "none"), Tok("close"), "none")
    ELSE Push(w, Tok("error"), "none")

\* sx_client_init: the header, to be sent at once
ClientInit(w) == WantWrite(Push(w, Tok("open"), "client header"))

-----------------------------------------------------------------------------
(* Reading                                                                 *)

\* the application sends its next packet, while it has one
NextPacket(w) ==
    IF w.s.sent < MaxPkt /\ w.s.state < CLOSING
    THEN NadWrite([w EXCEPT !.s.sent = @ + 1], Pkt(w.s.sent + 1)) ELSE w

\* _sx_server_element_start: the client's header
ServerElementStart(w) ==
    Push([w EXCEPT !.s.state = STREAM_RECEIVED, !.s.depth = 1], Tok("open"), "server header")

\* _sx_client_element_start: the server's header; the application of an
\* authenticated stream binds in event_OPEN
ClientElementStart(w) ==
    LET u == [w EXCEPT !.s = SaslStream([w.s EXCEPT !.depth = 1])]
    IN  IF w.s.sasl = "named" THEN NextPacket(u) ELSE u

\* expat and its callbacks on one token; an element where a header is due is
\* a stream error, anything else out of place does not parse
Parse(w, tok) ==
    CASE w.s.garbled # "no" \/ w.s.fail -> w
      [] w.s.depth = 0 /\ tok.t = "open" ->
            IF w.e = "server" THEN ServerElementStart(w) ELSE ClientElementStart(w)
      [] w.s.depth = 0 /\ tok.t # "open" -> [Error(w) EXCEPT !.s.fail = TRUE]
      [] w.s.depth = 1 /\ tok.t = "close" -> [w EXCEPT !.s.depth = -1]
      [] w.s.depth = 1 /\ tok.t \notin {"open", "close"} -> [w EXCEPT !.s.rnadq = Append(@, tok)]
      [] OTHER -> [w EXCEPT !.s.garbled = "markup"]

\* sx_ssl_client_starttls, sx_compress_client_compress, sx_sasl_auth
ClientStarttls(w) == WantWrite(Push(w, Tok("starttls"), "none"))
ClientCompress(w) == WantWrite(Push(w, Tok("compress"), "none"))
ClientAuth(w) == NadWrite([w EXCEPT !.s.sasl = "named"], Tok("auth"))

\* what the client asks for of what it is offered
Choose(w, offered) ==
    CASE "tls" \in offered /\ ~w.s.ssf /\ ~w.s.zip -> ClientStarttls(w)
      [] "zip" \in offered /\ ~w.s.zip -> ClientCompress(w)
      [] OTHER -> ClientAuth(w)

\* _sx_ssl_process
SslProcess(w, tok) ==
    CASE tok.t = "starttls" /\ w.e = "server" /\ ~w.s.ssf /\ ~w.s.zip ->
            Push(w, Tok("proceed"), "proceed")
      [] tok.t = "proceed" /\ w.e = "client" -> ClientInit(SslOnline(Reset(w)))
      [] OTHER -> w

\* _sx_compress_process; this library's client looks for an answer of seven
\* letters and drops "compressed"
CompressProcess(w, tok) ==
    CASE tok.t = "compress" /\ w.e = "server" /\ ~w.s.zip ->
            Push(w, Tok("compressed"), "compress")
      [] tok.t = "compressed" /\ w.e = "client" /\ Peer = "external" ->
            ClientInit(CompressOnline(Reset(w)))
      [] OTHER -> w

\* _sx_sasl_client_process: a mechanism of one challenge; the notifier of the
\* success is set on the front of the queue
SaslClientProcess(w, tok) ==
    LET answer(t) == Push(w, Tok(t), "none")
    IN  CASE tok.t = "auth" -> [answer("challenge") EXCEPT !.s.sasl = "begun"]
          [] tok.t = "response" /\ w.s.sasl = "none" -> answer("failure")
          [] tok.t = "response" /\ w.s.sasl # "none" /\ ~w.ok -> [answer("failure") EXCEPT !.s.sasl = "named"]
          [] tok.t = "response" /\ w.s.sasl # "none" /\ w.ok ->
                [answer("success") EXCEPT !.s.sasl = "named", !.s.wbufq[1].notify = "success"]

\* _sx_sasl_server_process
SaslServerProcess(w) == Push(w, Tok("response"), "none")

\* _sx_sasl_process; a refused client closes
SaslProcess(w, tok) ==
    CASE w.s.state # STREAM -> w
      [] w.e = "server" /\ tok.t \in {"auth", "response"} /\ (TlsRequired => w.s.ssf) ->
            SaslClientProcess(w, tok)
      [] w.e = "client" /\ tok.t = "challenge" /\ w.s.sasl # "none" -> SaslServerProcess(w)
      [] w.e = "client" /\ tok.t = "success" /\ w.s.sasl # "none" -> ClientInit(Reset(w))
      [] w.e = "client" /\ tok.t = "failure" /\ w.s.sasl # "none" ->
            [SxClose(w) EXCEPT !.s.sasl = "none"]
      [] OTHER -> w

\* one completed nad: errors, plugins, application (event_PACKET)
Nad(w, tok) ==
    CASE w.s.resets # w.resets -> w
      [] w.s.resets = w.resets /\ w.stop -> [w EXCEPT !.s.rnadq = Append(@, tok)]
      [] tok.t = "error" ->
            [w EXCEPT !.s.state = IF @ < CLOSING THEN CLOSING ELSE @, !.s.quit = TRUE, !.stop = TRUE]
      [] tok.t \in {"starttls", "proceed"} -> SslProcess(w, tok)
      [] tok.t \in {"compress", "compressed"} -> CompressProcess(w, tok)
      [] tok.t \in {"auth", "challenge", "response", "success", "failure"} -> SaslProcess(w, tok)
      [] w.s.state >= CLOSING -> w
      [] tok.t = "features" -> IF w.s.state = STREAM THEN Choose(w, tok.f) ELSE w
      [] OTHER -> [w EXCEPT !.s.got = Append(@, tok.n)]

\* the nads a read has completed, those behind a reset being dropped with it and
\* those behind a stream error left for the next read
Nads(w) == FoldLeft(Nad, [w EXCEPT !.s.rnadq = <<>>, !.resets = w.s.resets, !.stop = FALSE], w.s.rnadq)

\* _sx_process_read
Ended(w) == IF w.s.fail \/ (w.s.depth < 0 /\ w.s.state < CLOSING) THEN Closing(w) ELSE w
Parsed(w) ==
    CASE w.s.garbled # "no" -> IF w.s.fail THEN w ELSE Closing(Error(w))
      [] w.s.garbled = "no" /\ w.s.state >= STREAM -> Ended(Nads(w))
      [] OTHER -> Ended(w)
ProcessRead(w, toks) == Parsed(FoldLeft(Parse, w, toks))

\* the read plugins meet data that was not encoded with this end's layers: the
\* stream is closed, with an error unless TLS had only just been agreed on
LayerFails(w) ==
    LET u == [w EXCEPT !.s.bad = w.s.tls, !.s.garbled = "layers"]
        v == IF w.s.tls /\ w.s.state < STREAM THEN u ELSE WantWrite(Error(u))
    IN  [SxClose(v) EXCEPT !.s.wantr = FALSE, !.s.wantw = FALSE, !.ret = FALSE]

\* sx_can_read, when there is something to read and it is wanted; what is under
\* layers this end does not have reaches the parser as it is
GoOn(w) == [w EXCEPT !.ret = w.s.wantr]
Reply(w) ==
    CASE Finished(w) -> Finish(w)
      [] ~Finished(w) /\ w.s.state = CLOSED -> [w EXCEPT !.ret = FALSE]
      [] OTHER -> GoOn(IF w.s.wantw THEN WantWrite(w) ELSE w)
Received(r, noise) ==
    IF r.toks = <<>> THEN GoOn(IF r.w.s.wantw THEN WantWrite(r.w) ELSE r.w)
    ELSE Reply(ProcessRead([r.w EXCEPT !.s.garbled = IF noise = {} THEN @ ELSE "layers"], r.toks))
CanRead(w, units) ==
    LET raw == [i \in DOMAIN units |-> units[i].tok]
        noise == {i \in DOMAIN units : units[i] # Encoded(w.s, units[i].tok)}
    IN  CASE w.s.bad -> [w EXCEPT !.s.wantr = FALSE, !.s.wantw = FALSE, !.ret = FALSE]
          [] ~w.s.bad /\ \E i \in noise : ~(Layers(w.s) \subseteq units[i].enc) -> LayerFails(w)
          [] OTHER -> Received(IF w.s.tls THEN TlsRio(w, raw) ELSE [w |-> w, toks |-> raw], noise)

-----------------------------------------------------------------------------
(* Actions                                                                 *)

\* the buffers the kernel takes whole before it takes one in part or not at all;
\* a send to an end that has closed its socket may fail
Rooms(e) == 0..2 \cup IF end[Other(e)].fd THEN {} ELSE {-1}
Outcomes(e) ==
    IF e = "server" /\ end[e].sasl = "begun" /\ "denied" \in Faults THEN BOOLEAN ELSE {TRUE}

Done(w) ==
    /\ end' = [end EXCEPT ![w.e] = w.s]
    /\ wire' = [wire EXCEPT ![w.e] = @ \o w.out]

\* the client connects and sends its header, the server accepts
Start(room) ==
    /\ end = [e \in Ends |-> Fresh]
    /\ \E c \in {ClientInit(Work("client", room))} :
          /\ end' = [client |-> c.s, server |-> ServerInit(Work("server", 0)).s]
          /\ wire' = [wire EXCEPT !["client"] = c.out]

\* mio finds the descriptor readable: some of what has arrived is read
Take(w, n) ==
    /\ end' = [end EXCEPT ![w.e] = [w.s EXCEPT !.mior = @ /\ w.ret]]
    /\ wire' = [wire EXCEPT ![w.e] = @ \o w.out, ![Other(w.e)] = SubSeq(@, n + 1, Len(@))]
Read(e, n, room, ok) ==
    /\ end[e].fd
    /\ end[e].mior
    /\ end[e].fail \/ end[e].garbled # "no" => Len(end[e].wbufq) + Len(wire[e]) < MaxQueue
    /\ IF end[e].wantr \/ end[e].state >= CLOSING
       THEN Take(CanRead([Work(e, room) EXCEPT !.ok = ok], SubSeq(wire[Other(e)], 1, n)), n)
       ELSE /\ end' = [end EXCEPT ![e].mior = FALSE]
            /\ UNCHANGED wire

\* nothing left to read and the other end has closed: sx_kill
ReadEof(e) ==
    /\ end[e].fd
    /\ end[e].mior
    /\ wire[Other(e)] = <<>>
    /\ ~end[Other(e)].fd
    /\ Done(EventClosed(Work(e, 0)))

\* mio finds it writable
Unwatch(w) == [w EXCEPT !.s.miow = @ /\ w.ret]
Write(e, room) ==
    /\ end[e].fd
    /\ end[e].miow
    /\ Done(Unwatch(CanWrite(Work(e, room))))

\* the applications: a packet on an open stream, a close, a stream error (c2s
\* raises one for a client that has been idle, whatever its stream's state)
AppPacket(e, room) ==
    /\ end[e].fd
    /\ end[e].state = OPEN
    /\ end[e].sent < MaxPkt
    /\ Done(NextPacket(Work(e, room)))

AppClose(e, room) ==
    /\ "close" \in Faults
    /\ end[e].fd
    /\ end[e].state \in (NONE + 1)..OPEN
    /\ Done(SxClose(Work(e, room)))

AppError(room) ==
    /\ "error" \in Faults
    /\ end["server"].fd
    /\ end["server"].mior
    /\ end["server"].state < CLOSING
    /\ Done(SxClose(WantWrite(Error(Work("server", room)))))

Init ==
    /\ end = [e \in Ends |-> Fresh]
    /\ wire = [e \in Ends |-> <<>>]

SomeRead(e) ==
    \E n \in 1..Len(wire[Other(e)]), room \in Rooms(e), ok \in Outcomes(e) : Read(e, n, room, ok)

SomeWrite(e) == \E room \in Rooms(e) : Write(e, room)

Next ==
    \/ \E room \in Rooms("client") : Start(room)
    \/ \E e \in Ends :
          \/ SomeRead(e)
          \/ ReadEof(e)
          \/ SomeWrite(e)
          \/ \E room \in Rooms(e) : AppPacket(e, room)
          \/ \E room \in Rooms(e) : AppClose(e, room)
    \/ \E room \in Rooms("server") : AppError(room)

(* Each process serves a readable or writable descriptor, and a socket the *)
(* other side reads from takes data again.  These are the weak fairness    *)
(* conditions of Read, ReadEof and of Write into a socket with room, with  *)
(* the guards and the effects written out: a handler is too deep for       *)
(* ENABLED to be evaluated.                                                *)
Readable(e) ==
    end[e].fd /\ end[e].mior /\ (wire[Other(e)] # <<>> \/ ~end[Other(e)].fd)

Consumed(e) ==
    Len(wire'[Other(e)]) < Len(wire[Other(e)]) \/ ~end'[e].mior

Writable(e) == end[e].fd /\ end[e].miow

Taken(e) == Len(wire'[e]) > Len(wire[e]) \/ ~end'[e].miow

Fairness ==
    \A e \in Ends :
        /\ []<>~Readable(e) \/ []<><<Consumed(e)>>_vars
        /\ []<>~Writable(e) \/ []<><<Taken(e)>>_vars

Spec == Init /\ [][Next]_vars /\ Fairness

-----------------------------------------------------------------------------
(* Properties                                                              *)

(* Both ends change layers at the same place of the stream: nothing is     *)
(* read that was encoded otherwise than it is decoded, whatever is still   *)
(* queued or half written when the layer is agreed on, except what an end  *)
(* that gave up in between had to say.                                     *)
SameLayers ==
    \A e \in Ends : end[e].garbled = "layers" => end[Other(e)].quit

(* What is queued is on its way: between callbacks, an open descriptor     *)
(* whose stream has something the socket could take is watched for writing. *)
Watched ==
    \A e \in Ends :
        LET s == end[e]
        IN  s.fd /\ (s.wbufq # <<>> \/ s.pend # <<>> \/ s.wbio # <<>> \/ (Established(s) /\ s.wq # <<>>))
                => s.miow

(* "if we've written everything, and we're closed, then inform the app it  *)
(* can kill us" (io.c): nothing is left behind in any queue when it is.    *)
Flushed == \A e \in Ends : ~end[e].lost

(* Whatever layers, partial writes and restarts of the stream lie between, *)
(* the two applications see the channel of module Channel.                 *)
Chan == INSTANCE Channel WITH
    sent <- [e \in Ends |-> end[e].sent],
    got <- [e \in Ends |-> end[e].got],
    closed <- [e \in Ends |-> end[e].closed]

IsChannel == Chan!Spec

(* No negotiation hangs: a stream that has been started, at the first or a *)
(* later header, opens, unless one of the ends gives up.                   *)
Negotiates ==
    \A e \in Ends : end[e].wantr ~> (end[e].state = OPEN \/ \E d \in Ends : end[d].quit)
=============================================================================
