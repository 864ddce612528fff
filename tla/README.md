# jabberd2 in TLA+

jabberd2 is an XMPP server made of single-threaded processes that talk XML
streams to one another through a central router:

    clients --- c2s --- router --- sm --- storage
                          |
                       proxy65, legacy components

This directory models, from the outside in: the **router**, which maps names to
connected components; the **session protocol** with which c2s (the client
connector) and the session manager (sm) agree on who is logged in; the session
manager's **module chains**, with presence, delivery and offline storage; the
bytestreams **proxy**; the **XML streams** (sx and its plugins) they all talk
through; the **limits** that slow a peer down; and the **nad**, the array every
packet is kept in. Each process runs callbacks to completion, so that the atomic
step of every model is one callback (one packet, one connection event, one turn
of a main loop); the interleaving is between processes, packets under way,
clients, and failures.

## Inventory

| component | state it keeps | operations | what is hard |
|---|---|---|---|
| router (`router/router.c`) | `components`, `routes` (name -> components), each component's own `routes`, `log_sinks`, `default_route`, throttle queues, `closefd` | accept, stream, auth/handshake, bind, unbind, route (unicast, broadcast), throttle, close | five tables point to a `component_t` that is freed on close; tables are changed while walked; advertisements to components that come and go; packets held back |
| router main loop (`router/main.c`) | `closefd`, `dead`, `deadroutes` queues | `mio_run`, then clean-up | close is deferred and must happen once |
| c2s (`c2s/c2s.c`, `c2s/sm.c`) | sessions by descriptor number; per session a list of bound resources with session ids, a counter, a pending result; `sm_avail` | accept, stream, SASL / iq:auth, bind, unbind, stanza, close; every packet from the router | replies arrive after the client has gone or the descriptor has a new owner; several requests of one stream under way |
| sm session control (`sm/mod_session.c`, `sm/sess.c`, `sm/sm.c`) | sessions by id and by user | start (with replacement), end, stanzas, c2s lost | a start races the end of the session it replaces; stanzas of sessions that have gone |
| sm module chains (`sm/mm.c`, `sm/dispatch.c`, `sm/pkt.c`, `sm/user.c`) | chains of modules, user records | dispatch of packets to chains, user load and unload | order, early handling, user freed by its last session |
| presence, roster (`sm/pres.c`, `sm/mod_presence.c`, `sm/mod_roster.c`) | availability, trust lists, subscriptions | presence in/out, probes, subscription changes | a table of cases in `docs/dev/sm-presence-logic` |
| delivery, offline (`sm/mod_deliver.c`, `sm/mod_offline.c`, `sm/mod_amp.c`) | stored messages | store, deliver on presence | loss and duplication between store and delivery |
| sx streams (`sx/*.c`) | stream state, read and write queues, plugin chain | read, write, auth, close, kill | partial writes, close while data is queued |
| mio (`mio/*.h`) | descriptor table | accept, callbacks, close | close inside callbacks |
| util containers (`xhash`, `jqueue`, `rate`) | containers, limits | put, zap, walk, iterate; push, pull | removal during traversal; a limit that must clear |
| util XML (`nad`) | elements in an array with depths and parents | append, find, insert, drop, wrap, print, parse | the same tree kept twice; memmove and index arithmetic |
| proxy65 | pairs of SOCKS connections | negotiate, pair, relay | two connections in either order |

What makes each correct is stated as properties below. `PROJECT.json` lists the hazards line by line.

## Modules

| module | models | composed with |
|---|---|---|
| `Router` | the router process: `router.c`, the loop of `main.c`, `aci_check`, and what zapping during a walk does to `xhash` | `MCRouter` (instances), `RouterProofs` (theorems) |
| `SessProto` | session control packets, ids, and the path between c2s and sm | |
| `C2S`, `SM` | c2s; the session manager's session control | |
| `Sessions` | C2S and SM composed, with link loss and crashes | `MCSessions`; `SessionsProofs`, `SessionsPathProofs`, `SessionsOrphanProofs` |
| `Manager` | the rest of the session manager: dispatch, chains, presence, delivery, offline, amp, disco, ... | `MCManager`, `ManagerProofs` |
| `Streams` | both ends of an XML stream: sx, its TLS, compression and SASL plugins, mio's interest in the descriptor | `Channel` (what a stream promises), `MCStreams` |
| `Proxy65` | proxy65: SOCKS connections, bytestreams, the main loop | `MCProxy65`, `Proxy65Proofs` |
| `Throttle` | `util/rate` and the reads, accepts and time checks it governs, in router and c2s | `MCThrottle`, `ThrottleProofs` |
| `Nad` | `util/nad.c` | `Document` (the XML document a nad stands for), `MCNad`, `NadProofs` |

The layers justify one another's abstractions: `Router` and `C2S` use streams as
`Channel` describes them (packets in order, at most once, closed once), which
`Streams` implements; `SessProto` uses FIFOs, which is `Router!InOrder`;
`Manager` starts where `SM` hands a stanza to the chains; all of them use packets
as documents, which is what `Nad` implements. These are statements of the
modules, checked one by one, and not one composed specification.

### Router

A `component_t` pointer is a member of `Comps`. It is live while it is in
`components`; a table that still holds it after `CloseFd` holds a pointer to
freed memory. `routes[n]` is the array `routes_st.comp` of the entry for `n`,
with `<<>>` for "no entry". `czen[c]` says which of a component's own names sit
in the bucket array of its hash table and which are chained, because that
decides what the walk of `action_CLOSE` reaches (`WalkVisits`). `told` is the
history of advertisements on each stream, `sent` of routed packets.

| action | code |
|---|---|
| `Accept`, `Stream`, `Auth`, `HandshakeFail`, `LegacyOpen`, `LegacyOpenAliased`, `PeerClose`, `Closed` | `router_mio_callback` ACCEPT; `event_STREAM`, `event_OPEN`, handshake, `event_CLOSED` of `_router_sx_callback` |
| `Bind`, `BindLogRefused` (other refusals change nothing), `Unbind` | `_router_process_bind`, `_router_process_unbind` |
| `Unicast`, `Broadcast`, `Throttle` | `_router_process_route`, `_router_process_throttle`, `_router_comp_write` |
| `MioDone`, `CloseFd`, `LoopAgain` | the loop of `main`, `action_CLOSE` |

`WellBehaved` restricts components to what those of this repository do (bind a
name once per connection, never unbind). Which of several bound components gets
a packet is a hash of a JID: any of them here. The packet filter is the set of
its possible answers.

### Sessions

Everything c2s and the sm know about each other travels in two FIFOs, `toSM`
and `toC2S`, that stand for the router between them; `Router!InOrder` is what
justifies FIFOs. What c2s sends while no sm is bound comes back as a "bounce";
what anybody sends while not connected is lost; when a process loses its
connection a suffix of what it wrote is lost (`CutOff`), except what the router
had put there itself. Request ids and session ids are hashes of a JID and the
current second, so an id is `<<jid, second>>`: two requests in one second have
the same id, as in the code.

A c2s session is `sess[f]`, addressed by descriptor. `told` and `got` are
histories: the JIDs whose bind has been answered, and whose stanzas have been
written.

| action | code |
|---|---|
| `Accept`, `Stream`, `SaslAuth`, `AuthSet`, `Bind`, `Unbind`, `Stanza`, `EndStream`, `Disconnect` | `_c2s_client_mio_callback`, `_c2s_client_sx_callback`, `_authreg_auth_set`, `_c2s_time_checks` |
| `C2SStep`: `Presence`, `Unknown`, `Leftover`, `RouteError`, `NoSmId`, `NoResource`, `Ended`, `Started`, `Unexpected`, `ToClient` | the stages of `c2s_router_sx_callback`, in order |
| `SMStep`: `SessStart`, `SessEnd`, `InSess`, `C2SGone`; `Deliver` | `_session_in_router`, `sess_start`, `sess_end`, `_session_pkt_router`; `sess_route` |
| `LinkDown`, `LinkUp`, `SMDown`, `SMBack`, `Clock` | the router `action_CLOSE` callbacks, the reconnect loops, `time(NULL)` |

One control branch of `c2s_router_sx_callback` cannot be reached from this sm
and is therefore not there: the close of the router stream on a stanza with
`failed` in the session namespace. (A failed start, which has a request id but
no session id, is dropped before the branch that would answer the client.)

### Streams

An end is a record: the fields of `_sx_st`, the TLS plugin's queues (`wq`, `rbio`,
`wbio`, handshake progress `hs`), and mio's interest in the descriptor (`mior`,
`miow`). Handlers are operators from a work state to a work state and nest as the
calls of the code do: `WantWrite` is `mio_write`, which calls `sx_can_write` before
it returns. Data is counted in tokens (a header, an element, the end, a handshake
flight); a token on the wire remembers the layers it was encoded with, and an end
that reads one under other layers than its own gets `garbled`. `room` is the number
of buffers the kernel takes, -1 if `send` fails; a read takes any prefix of what
has arrived.

| action | code |
|---|---|
| `Start` | `sx_client_init`, `sx_server_init` |
| `Read`, `ReadEof`, `Write` | `sx_can_read` / `sx_can_write` called by mio, down through `_sx_chain_io_*`, expat's callbacks, `_sx_nad_process` and the plugins' `process` functions |
| `AppPacket`, `AppClose`, `AppError` | `sx_nad_write`, `sx_close`, `sx_error` followed by `sx_close` |

`Channel` is the abstract specification: numbered packets arrive in order and at
most once, an end is told once that the stream has closed, and then nothing more
happens to it. `IsChannel` is the refinement (`sent`, `got`, `closed` of each end).

### Manager

One local user is followed, with its sessions (`mgr.u.order`, newest first, and
`mgr.u.s`: availability, priority, and the lists A and E of `pres.c`), its spool
file, and the services and cache of `mod_disco`. A chain takes a work state through
its modules in the order of `etc/sm.xml.dist.in`, each one only if those before it
passed (`Passes`). What the manager sends to its own domain comes back through
the router (`queue`); what it sends to a peer that cannot be reached comes back as
undeliverable. `log` and `fate` are the history of every message and request,
`view` of what each peer was last told about each resource.

| action | code |
|---|---|
| `FromSession`, `FromOutside`, `Loop` | `dispatch` of a stanza: `mm_in_router`, `mm_pkt_user`, `mm_pkt_sm`, `mm_in_sess` and the modules in each |
| `Start`, `End`, `C2SGone` | `sess_start`, `sess_end`, `_session_pkt_router` with what they do to presence and to the user record |
| `ServiceUp`, `ServiceDown`, `ServiceAnswers` | `_disco_pkt_router`, `_disco_pkt_sm_populate` |

### Proxy65

`conn` is `sock_conn_st` of each connection with mio's read interest, `stream` the
table of bytestreams, `link` the state of the connection to the router with the
counters of the main loop. What `mio_write` does (call the callback at once, watch
only if it returns non-zero) is in `RelayWrite`.

| action | code |
|---|---|
| `Accept`, `ReadData`, `ReadEnd`, `Reset` | the callbacks of `socks.c`: greeting, request, pairing, relay, close |
| `Activate` | `_iq_bytestreams_activate`, `proxy65_socks_activate` |
| `Expire`, `LinkLost`, `LinkOpen`, `Bound`, `Retry`, `Shutdown` | `proxy65_socks_expire`, `router.c`, the loop and the end of `main` |
| `Speak`, `Push`, `Drain`, `Leave`, `Age` | clients and time |

### Throttle

Times are ages: the seconds since what the code stores as a time, so that the state
space is finite without a bound on the clock. `Connect` is the accept check, `Read`
the callback of mio with `event_READ` of the program `Settings` names, `TimeChecks`
is `_c2s_time_checks`. `recent` is a history: `recent[i]` is the number
of bytes read in the second that runs and the `i - 1` before it.

### Nad

`nad.elems` is the array, `nad.depths` the last element at each depth. Building
(`Build`, `BuildAttr`, `BuildText`) is done by programs and the parser, `Finish`
stands for `nad_copy`, `nad_serialize` and its inverse, `Edit`, `EditAttr` and `Wrap`
for the operations in place. `doc` is an auxiliary variable with the document the
array means, an element per path; `IsDocument` says that it behaves as module
`Document`, whose operations know nothing of arrays.

## Runs

Every bound is a CONSTANT or part of a named scene: `MaxRoute` (entries per name),
`MaxPkt` (packets routed, or sent by each end), `MaxNow` (seconds), `MaxChan` (packets
under way when a client, a module or a failure adds one; replies always fit),
`MaxRes` (resources per stream), `MaxQueue` (packets on their way back), `MaxSend`
(messages and requests that are followed), `MaxBounce` (pairs of a resource and a
peer that returned its presence), `MaxElems`, `MaxDepth`, `MaxExtra` (size of a nad),
`Cap` (bytes or tokens a socket holds), `conns`, `data`, `losses` in the scenes of
`MCProxy65`.

| run | question | instance |
|---|---|---|
| `Router_tables` | do the tables stay consistent, are advertisements true, is a descriptor closed, and once? | 2 components, legacy allowed, 2 names in one bucket, 2 users with different rights, 3 entries per name; 363 k states |
| `Router_packets` | can a packet overtake another? | 2 components that also unbind, rebind, use an alias and lack a permission, 2 packets, redirecting and denying filter, throttling at any time; 607 k |
| `Sessions_replace` | do both sides agree after races between two connections of one user? | 2 descriptors, 2 resources, SASL and iq:auth, 2 seconds; 180 k |
| `Sessions_multi` | are several resources of one stream kept apart, whatever happens to the sm? | 1 descriptor, 3 resources, 2 seconds, crashes of the sm; 137 k |
| `Sessions_link` | what survives the loss of c2s's stream? | 2 descriptors, 2 users, failing starts; 3.2 M |
| `Streams_links` | is a stream a channel, does its negotiation end? | TLS required, compression and SASL offered, refusals, errors and closes at any time, 2 packets each way; 191 k |
| `Manager_all` | what becomes of messages and presence? | 2 resources, 2 peers (one of them a server itself), 1 service, 6 scenes; 195 k |
| `Proxy65_relay` | are bytestreams paired, faithful, and cleaned up? | 2 clients with data, or 3 that meet, or 2 losses of the link; 68 k |
| `Throttle_limits` | do limits hold and end? | router and c2s, limits of 2 or 3 bytes in 1 or 2 seconds, reads of 2; 14 k |
| `Nad_document` | is the array a document under every operation? | 4 elements, 3 levels, 1 text or attribute; 11 k |
| `Manager_spool`, `Proxy65_stall` | (expected violations, below) | 1 resource; 2 clients |

Why the instances are large enough. Router: every entry is about one component and
at most one other (who is told, who is left bound). Sessions: every packet names one
descriptor and every interference is between the present and one other owner of a
descriptor or a JID. Streams: a partial write matters between a buffer and the one
behind it, and two packets with the negotiation's own elements queue at every point
of it. Manager: presence rules speak of a session and the others, and of a contact
inside and one outside the roster; priorities below, at and above zero order two
sessions in every way. The scenes share the manager and differ in what clients and
peers send, because all stanzas at once would only multiply independent choices.
Proxy65: a bytestream has two connections and a third one can only be refused; two
pieces of data overflow a socket of one. Nad: four elements are a root with three
children, a chain, and every tree between them, which gives each operation a
neighbour before, behind, above and below.

Symmetry is used only in runs without liveness. `CHECK_DEADLOCK FALSE` is set where
everything may really come to rest: a stream whose ends have closed or wait for each
other while closing (below), a proxy that has shut down or whose clients have all
come and gone, and a nad whose root has been dropped.

### Properties

Router: `RoutesValid`, `BoundRouted`, `LogSinksLive`, `DefaultRouteBound` (the
tables agree with each other and with who is connected), `AdvertisedExactly`
(every component that takes part has been told exactly what is online),
`InOrder`, `CloseOnce`, and `Reaped` (liveness).

Sessions: `OwnPackets` (no stanza of another user), `NoOrphans` / `NoGhosts`
(when nothing is under way, the sm's sessions are clients' and vice versa),
`ActiveHasResources` (the assertion in `c2s.c` and the counter it depends on),
`ResultMeansSession`, `LostLinkEndsAll`, `NoEchoes`, and `Answers` (liveness).

Streams: `IsChannel` (refinement), `SameLayers` (both ends change layers at the same
place), `Watched` (whatever could be written is waited for), `Flushed` (closed means
written), `Negotiates` (liveness).

Manager: `TopSession` (user record against sessions), `KnowsWeAreGone` (no peer goes
on believing in a session that has ended), `NothingLost`, `NothingTwice` (messages and
requests), `DiscoTrue` (no component that has left is still offered as a service, and
the cached answers are those of the services known).

Proxy65: `Paired`, `Faithful`, `CleanEnd` (a client that has sent everything and closes
leaves all of it with the other, or at its socket), `GivesUp`, `Expires` (liveness). Throttle:
`Bounded`, `Spared` (a limit costs time, never the connection), `Resumes` (liveness).
Nad: `IsDocument` (refinement), `RoundTrip`, `FindsFirst`.

### Fairness

`Router!Spec` is weakly fair to the main loop only: `mio_run` returns after its
timeout and the clean-up does not wait for anybody. `Sessions!Spec` is weakly
fair to each process reading what the router has for it. `Streams!Spec` has each
process serve a descriptor that is watched and ready, and a socket whose other side
is read take data again; the conditions are written out (`Readable`, `Consumed`,
`Writable`, `Taken`) because the handlers are too deep for ENABLED. `Proxy65!Spec` is
fair to mio, to the main loop and to time, and lets a client read what it is sent.
`Throttle!Spec` is fair to time, mio and the time checks; an address that was refused
tries again, without which there is nothing to allow. Clients, components, failures
and otherwise time are never forced to do anything.

### What the runs found

Two runs expect a violation. Each states what comments of the repository say and
finds the code doing something else:

- `Manager_spool` - a session that raises its priority from negative to positive does
  not get the messages in the spool, and nobody does until the user has gone offline
  and come back: `mod_offline.c:197` looks at the priority and the top session from
  before the presence at hand.
- `Proxy65_stall` - once a client's socket has been full, what the proxy kept for it
  is never sent and the other side stays paused: `action_WRITE` returns 0 with data
  left, so that mio does not watch the descriptor (`socks.c:397` with
  `mio_impl.h:312`).

Seen with these modules under other constants, and avoided by the instances above:

Router and sessions:

- binding a name with an alias adds the name twice and never the alias
  (`router.c:317`, against the text in `router.xml`);
- a component with three names in one bucket of its table leaves a freed pointer in
  the route table (`router.c:1066` with `xhash.c:279`; `Tame` in `RouterProofs`);
- a bind refused as log sink leaves its default route behind (`router.c:275`); a
  component that binds a name twice leaves entries behind when it goes
  (`_route_remove` does not look at what it swaps in);
- a stanza for the previous owner of a descriptor is written to the present one while
  it has a second bind pending (`c2s.c:1029`);
- a refused start leaves the client without an answer (`c2s.c:1019` drops the reply);
- the sm's failure mark on a stanza is outside the session namespace
  (`mod_session.c:189` overwrites `ns`), and c2s hands the stanza back to a client that
  does not wait between unbind and bind;
- with reuse of descriptors a "started" that arrives at a new pre-stream connection
  leaves an orphan session (`c2s.c:976`); a resource replaced while another one's bind
  is under way gets that bind answered early (`c2s.c:1144`);
- after the loss of c2s's link its clients stay connected without sessions, and after
  the loss of the sm's link the sm keeps sessions, and services, that are gone.

Streams:

- a stream that is closing with nothing in `wbufpending` returns from `sx_can_write`
  (`io.c:369`) before the check at `io.c:403` that would report it closed; it stays
  until the other side closes, which is why `Flushed` is stated and not "a closing
  stream closes";
- this library's client compares `compressed` with a length of 7 and ignores the
  server's answer, so it can never compress (`Peer = "library"`);
- a closing client that reads `proceed` or `success` starts the stream again
  (`_sx_reset`); a failed parser answers everything it reads with another error
  (`MaxQueue`).

Manager: a session that only sent directed presence to a contact of the roster ends
without a word to it; a presence returned late puts a contact that has been reached
since on the list E of contacts not to be told (`bounced` in `KnowsWeAreGone`); what
`mod_amp` promises the sender is a prediction from the user's top session, not what
delivery then does. `mod_disco.c:240` refuses discovery results only from senders with
a node or a resource: a bare domain of another server that sends one is entered among
the services and, as no router advertises it, never removed. `Domains` are such peers,
the scene of the server itself has one do it, and `DiscoTrue` speaks of components.

Proxy65: data sent behind the request in the same packet stays in `rbuf` and is not
relayed; connections that never complete their request do not expire; a connect error
other than a refusal is not tried again.

Throttle: without keepalive and idle a throttled c2s client is read once more by the
time checks (`c2s/main.c:570`) and then not until something is written to it; a wait
shorter than the window lets more than the total through in a window.

Nad: `nad_insert_elem`, `nad_drop_elem` (`nad.c:502` compares with `>`),
`nad_wrap_elem` below the root and `nad_insert_nad` leave parents that are not true;
only `nad_find_namespace` reads them. `nad_find_elem_path` does not go on to the next
sibling when the rest of a path is not found in the first.

## Proofs

Every theorem has the form `Spec => []P`, for a `P` that a run checks on a small
instance, and holds for every value of the constants that satisfies the assumption
of its module and the condition in the table.

| theorem | property | condition |
|---|---|---|
| `RouterProofs!TypeCorrect`, `ClosedOnce` | `TypeOK`, `CloseOnce` | |
| `RouterProofs!RoutesStayValid`, `BoundStaysRouted`, `LogSinksStayLive`, `AdvertisedAlways` | `RoutesValid`, `BoundRouted`, `LogSinksLive`, `AdvertisedExactly` | `Tame` |
| `RouterProofs!DeliveredInOrder` | `InOrder` | |
| `RouterProofs!DefaultStaysBound` | `DefaultRouteBound` | `DefaultsMayLog` |
| `Proxy65Proofs!PairedAlways`, `RelaysFaithfully`, `EndsCleanly`, `GivesUpInTime` | `Paired`, `Faithful`, `CleanEnd`, `GivesUp` | |
| `ThrottleProofs!AlwaysBounded`, `AlwaysSpared` | `Bounded`, `Spared` | |
| `SessionsProofs!TypesKept`, `ActiveAlwaysHasResources` | `TypeOK`, `ActiveHasResources` | |
| `SessionsProofs!OwnPacketsOnly` | `OwnPackets` | `MaxRes <= 1` |
| `SessionsProofs!LostLinkAlwaysEndsAll` | `LostLinkEndsAll` | `~SMMayFail` |
| `SessionsPathProofs!NeverGhosts`, `NeverEchoes` | `NoGhosts`, `NoEchoes` | `MaxRes <= 1`, `~LinkMayFail` |
| `SessionsPathProofs!ResultsMeanSessions` | `ResultMeansSession` | `MaxRes <= 1` |
| `ManagerProofs!TypesStay`, `TopStaysTrue`, `DiscoStaysTrue` | `TypeOK`, `TopSession`, `DiscoTrue` | |
| `ManagerProofs!GoneIsKnown` | `KnowsWeAreGone` | `Discreet` |
| `NadProofs!FirstIsFound`, `PrintedIsRead` | `FindsFirst`, `RoundTrip` | |
| `SessionsOrphanProofs!NeverOrphans` | `NoOrphans` | `MaxRes <= 1`, `~Reuse`, `Patient`, `~SMMayFail` |

### The conditions

- `Tame`: components bind a name once and never unbind it, there are no aliases, and
  no three names share a bucket. These are the three ways, listed above, in which the
  tables of the code do go wrong.
- `DefaultsMayLog`: whoever may be the default route may be a log sink. Without it
  `router.c:275` leaves the route of a refused bind behind. Aliases, unbinds and names
  in one bucket do no harm here.
- `MaxRes <= 1`: one resource per stream, the case of every client that does not ask
  for several. With more, a pending resource takes any packet for the descriptor
  (`c2s.c:1029`) and the end of one answers for another (`c2s.c:1144`): TLC finds
  `OwnPackets` and `ResultMeansSession` violated. For `NoOrphans` it is a limit of the
  proof only: TLC finds no violation with two resources and two descriptors, and
  `Sessions_multi` checks `NoGhosts` and `NoEchoes` with three on one.
- `~LinkMayFail`: after the loss of c2s's own link its clients stay connected without
  sessions, so they are ghosts.
- `~SMMayFail`: after the loss of the sm's link the sm keeps sessions whose end it
  cannot learn of. `~Reuse`: a "started" that arrives at the next owner of the
  descriptor is dropped (`c2s.c:976`). `Patient`: a client waits for the answer to a
  bind, unbind or auth before its next request. TLC finds `NoOrphans` violated without
  any one of the three.

- `Discreet`: no client directs presence to a contact of its roster. `pres_deliver`
  does not remember such a presence, and a session that is not available when it ends
  withdraws nothing from the roster, so that the contact goes on believing in it: TLC
  finds `KnowsWeAreGone` violated with a scene that does. The scenes of `MCManager`
  are discreet, which TLC evaluates as an assumption.

What is not in a condition is allowed: `NeverGhosts` holds with crashes of the sm,
reuse of descriptors and impatient clients, `NeverOrphans` with losses of c2s's link
and refused starts.

### The arguments

None of the properties is inductive alone. Each invariant below was checked with TLC
on the instances of the runs before it was proved.

- Router, tables: `TableInv` adds that a name's entry has no component twice
  (otherwise `_route_remove` leaves one behind), that only open streams hold names,
  that a log sink holds its name, and that every bucket with names has one of them in
  its array cell (`CellsFirst`, which makes the walk over a tame table complete). The
  steps that matter are `Bind`, `LegacyOpen` and `CloseFd`; `SwapRemove` gets lemmas
  of its own. `AdvertInv` adds that a component that has bound nothing has been told
  nothing.
- Router, order: `OrderInv` speaks of what was written to a component followed by what
  is held back in `tq`, as one line whose numbers never decrease, and of `tq` being
  empty unless the component is throttled.
- Proxy65: `ProxyInv` relates, per connection, what the client has sent, what is in
  its pipe, in `rbuf`, kept in the peer's `wbuf`, in the peer's socket and read by the
  peer: the pieces behind the handshake are numbered without gaps along this chain
  (`RelayInv`). When a client's end is read nothing of its data is in front of the end
  or kept for the other, so that by `RelayInv` the whole is behind both (`EndsWhole`);
  from then on it stays (`EndInv`), because a connection that is closed stays closed
  and its client sends no more (`Still`). The handlers are operators from work state to work state, so that each
  has a lemma that it keeps `Sound`. `LinkInv` says that failed attempts and attempts
  left add up to those granted.
- Throttle: `ThrottleInv` says of every span of seconds that the bytes read in it are
  covered by the count of the window that runs and, if that window began within the
  span, by the one before it; a wait at least as long as the window leaves no room for
  a third.
- Sessions, types and counters: `SessInv` has the shape of every packet under way, the
  state of each client's resource list (settled ones, pending ones, what `result` goes
  with them) and `bound` as the number of resources while the stream is open.
  `LinkInv` says that the last packet before a lost link is the advertisement that
  ends all sessions.
- Manager: `IInv` says between two packets that the user record has exactly its
  sessions, each listed once (`Listed`), and as top session one of the highest priority
  among those available with a priority not below zero (`TopOk`), that a contact on a
  list E has returned a presence, that the components `mod_disco` knows are online and
  its cache, if it has one, is made of them, and that what waits in `queue` is of the kinds the handlers write
  (`Waits`); and of each peer and resource that the peer has been told the session is
  gone (or was left out for a presence it returned: `Forgets`), or that the session is
  there and will tell it when it goes (`Believed`: the peer is on its list A, or on the
  roster and the session available). While a packet is handled `Ok` says the same of
  the work state, with `Told` for a withdrawal that is still to be written: each
  handler takes a work state to a work state and has a lemma that it keeps `Ok`, a
  chain's lemma puts those of its modules together, and an action's those of its chains.
- Nad: `Good` says that a nad is a record of its type whose depths make it one tree:
  the first element alone has depth 0, and each is at most one deeper than the one
  before it. That is all that the editing operations have to keep, and each has a
  lemma that describes the array it leaves element by element (`InsertGood`,
  `DropGood`, `WrapGood`, `GraftGood`). On such an array the nearest element above,
  one level up, is the parent (`Climb`, `UpIs`), so that walking by depth meets the
  children of an element in order, and nothing else (`ChildIs`, `SiblingIs`,
  `SiblingsInOrder`).
- Nad, printed and read: `Partial` says what the parser has built when the first
  elements of the array have been read and those from some depth on have ended: the
  names, depths, attributes, texts and parents of these elements, the tails of those
  that have ended, and as last element of each depth the one above, so that the next
  start, text or end falls where it was printed. A start with its text keeps it
  (`StartStep`), and so does an end with its tail (`EndStep`); a printed nad is a row
  of blocks of these. `Faithful` adds to `Good` that while a nad is built the depths
  lead to the elements above (`Tracked`), and that until elements are put in or taken
  out the parents are the true ones (`Linked`).
- `GhostInv`: if c2s takes a session for live, or will once it has read a "started",
  then the sm has it, or an "ended", "replaced" or "sm down" follows it on the path,
  in front of any stanza the sm sent back. This is where the path has to be a FIFO.
- `OrphanInv`: a session of the sm is known to its client, or its "started" is under
  way to a client that waits for it or has left (c2s then ends it), or an "end" or "c2s down" for it is under way;
  and a descriptor has one session at most.

### What is only model-checked

- Liveness (`Reaped`, `Answers`, `Negotiates`, `Expires`, `Resumes`): needs fairness
  and ENABLED.
- `Streams` (`SameLayers`, `Watched`, `Flushed`, the refinement `IsChannel`): each
  needs an invariant that relates the handshakes, plugins and buffers of both ends and
  what is on the wire in each direction, through every state of the negotiation.
- `Manager` (`NothingLost`, `NothingTwice`): an account of each message through all
  handlers, copies to several sessions, the spool and bounces.
- `Nad` (the refinement `IsDocument`).
- `NoOrphans` for several resources, as said above.

What a fold or a recursive function computes is within reach where it is written as
one: the proofs unfold it to the function it chooses, show by induction over the
natural numbers (`NatSet`, an induction on sets and not on formulas) that there is
one, and go along it step by step (`EmitTrace` in `ManagerProofs`, `SiblingsAre` and
`RunFlat` in `NadProofs`). No module here has a RECURSIVE operator.

## Simplifications

Differences from the code that the properties do not tell apart, with the reason:

- `Manager!PresUpdate` writes probes, then presence, list after list; `pres.c:91-116`
  does both for each roster item in turn. What one recipient gets, and in which order,
  is the same; only the order between recipients differs.
- `Manager!SessionPktRouter` ends the sessions newest first; `mod_session.c:283-288`
  goes through its table in the table's order. Every session ends in the same step, and
  what each writes when it does is about itself.
- `Router!CloseFd` tells the others what has gone from the table after all removals;
  the code tells them name by name. A component that is told about one name and not the
  next would have to lose its own entry in between, and only entries of the closed one go.
- `Streams!ServerNotifyHeader` leaves out the look at packets received before the stream
  was established (`server.c:70`): the peers modelled send their header first.
- Stanza size limits (`io.c:65-81`, `io.c:242-247`, and those of `c2s`) are not in
  `Streams` or `Throttle`; a stream that breaks one closes as after any other error.
- `Throttle` follows a connection whose stream is established. Before that the keepalive
  of `c2s/main.c:564` is not sent, and only `idle` brings a throttled client to an end.
- `Proxy65` takes what the proxy has handed to a client's socket as on its way to that
  client. A kernel may drop it when the proxy closes a socket with unread input in it.

## Not modelled

- Authentication backends, registration, SASL mechanisms, certificates: libraries or
  loadable modules; what they decide is a nondeterministic answer where it matters.
- Websocket framing and acknowledgements (`sx/websocket.c`, `sx/ack.c`): codecs on one
  buffer.
- mio's four backends and the lifetime of its own records: the modules use what a
  callback can observe.
- Namespaces of nads, JIDs, strings, dates, digests and ciphers (several third-party):
  conversions, used by what they denote.
- Configuration, logging, signals, module loading, the router's message log.
- `mod_pep`, which the configuration leaves out; users that do not exist; the sm's own
  link to the router (its retries are those of `Proxy65`).
- A client stanza that mentions the session-request namespace without being such a
  request (which the sm sends back even for a live session) and packets that carry a
  routing error into the router (dropped).

## Plan

1. Proofs of `Watched` and `SameLayers` for `Streams`, from an invariant that relates
   both ends of a stream.
2. `NoOrphans` for several resources per stream.
3. An abstract session registry that `Sessions` implements.
4. `C2S` on top of `Streams`, for iq:auth clients that are opened while they close.
