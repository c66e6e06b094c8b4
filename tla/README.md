# A TLA+ model of the TrustTunnel client

TLA+ modules that model the TrustTunnel client, the TLC configurations that check
them on small instances, and proofs checked by TLAPS. The models follow the code in
`src/`; `PROJECT.json` maps every definition to the lines it stands for.

## 1. Inventory of the system

| Part | State it keeps | Operations | What makes it correct |
|---|---|---|---|
| Session manager and session state machine (`core/src/vpn_manager.cpp`, `vpn_fsm.cpp`) | `struct Vpn`: one of six `VPN_SS_*` states, pending error, recovery counters and timer, selected endpoint, pinger, `client_state`, retry budget, postponed and bypassed connections | the C API, each call of which submits a task to the loop; handlers of client and pinger events; rows of `TRANSITION_TABLE` | the reported state is what is going on; every wait ends; recoveries are bounded; no connection leaves the tunnel that should not |
| Endpoint client (`core/src/vpn_client.cpp`) | one of four states, connector, upstream, deferred tasks | connect, disconnect, connector result and finalizer, session closed or failed, health check | agrees with `client_state`; never half-way for ever |
| Event loop (`common/src/event_loop.cpp`), executor and API threads (`vpn_manager.cpp`) | two task lists, a mutex, `task_queue_scheduled`, the exit flag, `stop_guard` | submit, schedule, cancel, `dispatch_sync`, run, exit, stop | order; nothing lost; finalizers once; every call returns |
| Tunnel (`core/src/tunnel.cpp`) with the direct and fake upstreams | connections indexed by both ids, requests waiting for a decision or a name, buffered packets | connect request, completion, domain lookup, migration, data, reset, loss of the endpoint | tables agree; bytes in order; each request answered |
| Client listeners and TCP/IP glue (`tun_device_listener.cpp`, `tcpip/src`, `socks_listener.cpp`, `socks5_listener.cpp`) | descriptors, unread chunks, deferred closes; SOCKS5 negotiation, UDP associations | accept, data, acknowledge, pause, close, time out | no byte lost, reordered or forgotten; closes end |
| ICMP (`icmp_manager.cpp`, `icmp_request_manager.cpp`, `http_icmp_multiplexer.cpp`) | attempts per id, a reply buffer | request, reply, error, timeout | every attempt ends, replies are cut where they should be |
| Connectors (`single_` and `fallbackable_upstream_connector.cpp`) | state of each attempt, delay, deferred results | connect, disconnect, results | one outcome, at most one session |
| Upstreams (`upstream_multiplexer.cpp`, `http_udp_multiplexer.cpp`, `http2_upstream.cpp`, `http3_upstream.cpp`) | pool, pending connections, streams, kept data, health check | open, close, data, session end | the tunnel and the upstream have the same connections; kept data is delivered |
| Pinger (`net/src/ping.cpp`, `locations_pinger*.cpp`) | rounds, fall-backs, shortcut connections | start, results, timers | goes on to its end; hands over a live connection |
| Sockets (`tcp_socket.cpp`, `udp_socket.cpp`, `socket_manager.cpp`) | buffers, a shared timer, writes of destroyed sockets | connect, read, write, pause, time out, destroy | no call to a destroyed socket; input is offered |
| DNS (`vpn_dns_resolver.cpp`, `dns_handler.cpp`, `dns_client.cpp`, `dns_manager.cpp`) | queues, ids, deadlines, two faces of the handler | resolve, cancel, answer, expire, restart with new servers | every request ends; new servers are followed |
| Windows tunnel (`os_tunnel_win.cpp`, `network_manager.cpp`, `windows_network_guard.cpp`) | adapter, routes, firewall, activity tokens, the Wintun ring | bring up step by step, tear down, protect sockets, receive, clean up | the endpoint's own sockets never enter the tunnel; no packet is stranded; a failed cleanup restricts nothing |
| Command line client (`trusttunnel/src`) and Windows service (`platform/windows/src`) | the `Vpn`, an extra loop, a monitor; the control pipe | connect, disconnect, network change; send, receive, reconnect | no use of a closed `Vpn`; whole messages to the right client |
| Routing rules (`domain_filter.cpp`) | entries of four lists, names learnt for addresses, suspects | update, match a name, match an address | a connection goes where the entry of the highest rank says |
| Connection buffers (`memory_buffer.cpp`, `memfile_buffer.cpp`) | bytes in memory and in a file with a read offset | push, peek, drain, strip | the stream stays in order |
| Desktop application (`gui-pro`) | sidecar process, settings, servers over SSH | start, stop, watch, update | restart after a crash |

### How the parts interact

The application calls the C API on any thread. Each call takes `stop_guard` and
submits a closure to the event loop. Nearly everything else runs on the loop thread,
one callback at a time and to its end. Manager, client, tunnel, listeners and upstreams
call one another directly inside a callback; a part that must not be re-entered posts a
task instead. These posted tasks are where most of the difficulty lies: what was true
when a task was queued need not be true when it runs. Other threads meet the loop in
few places: the API, the executor thread after the loop has failed, the receive thread
of the Wintun ring, the threads that set DNS servers or the outbound interface, and on
Windows the pipe of the service and the threads around `TrustTunnelClient`.

### What is hard

The list with lines is under `hazards` in `PROJECT.json`: posted tasks that outlive what
they belong to; two copies of one fact (`client_state`, the two tables of the tunnel, the
connections of tunnel and upstream); windows between a result and its finalizer;
unsigned counters; data that no further event will announce; self-resetting events;
timers, retries and late answers; partial failures of multi-step set-ups; `vpn_stop` at
any moment.

## 2. Modules

| Module | Models |
|---|---|
| `VpnClient`, `VpnManager` | endpoint client; session manager and session state machine composed with it |
| `SessionLifecycle` | abstract specification: what the sequence of reported states promises |
| `EventLoop` | the event loop, the executor thread and the API threads under `stop_guard` |
| `Tunnel` | connections, tables, routing, domain lookup, migration, with the listeners and upstreams as their contracts |
| `TunStack`, `Icmp` | the TUN listener on the TCP/IP glue; echo requests from the stack to the endpoint |
| `Socks5`, `Sockets`, `Pinger` | SOCKS5 listener; sockets and their manager; the ping of one location |
| `DnsResolver`, `DnsProxy`, `DnsHandler` | the resolver; DNS client, its ids and the change of servers; the handler's two faces |
| `Connectors`, `UpstreamMux`, `UdpMux`, `Http2Upstream`, `Http3Upstream` | what is between the client and the endpoint |
| `DomainFilter`, `Buffers` | the routing rules and the routes taken from them; what an upstream keeps for its client |
| `EasyPipe`, `ClientApp`, `WinTunnel`, `RecvPump`, `NetworkGuard` | Windows: service pipe, client program, adapter and tokens, receive path, removal of old filters |
| `Upstreams`, `Net`, `Windows`, `TunDevice` | the parts towards the endpoint; listeners, sockets, ping and DNS; the Windows parts; `TunStack` and `Icmp`: each in one specification |
| `VpnManagerProofs`, `VpnRequestsProofs`, `EventLoopProofs`, `TunnelProofs`, `TunDeviceProofs`, `UpstreamProofs`, `NetProofs`, `WindowsProofs` | proofs |
| `MCVpnManager`, `MCEventLoop`, `MCTunnel`, `MCTunStack`, `MCNet`, `MCUpstreams`, `MCApp` | instances for TLC |

`VpnManager` composes manager, state machine and client in one state. `EventLoop` justifies the queue
that `VpnManager` uses; `Connectors` and `Pinger` justify the one result it expects of each attempt.
The other modules meet in events: what one raises is nondeterministic input of the next, restricted
to what the interface headers allow (`client_listener.h`, `server_upstream.h`) and the code on the
other side does. `TunDevice`, `Net`, `Upstreams` and `Windows` each hold several such modules in
one specification: the variable `part` says which of them a behaviour is of, the others do not move.

### The session (`VpnManager`, `VpnClient`)

`vpn` is one record with the fields of `struct Vpn` and of its `VpnClient`, under
their own names. What is reduced:

- `recovery.time` is whether a start time is set; whether a recovery has outlived
  `location_update_period_ms` (`slow`, `late`) is a nondeterministic choice.
- `pinger` says that a result is still to come, `pinger_location` which endpoints the
  ping was started with. Any of them, or none, may be reported.
- The connector is `nullptr`, `connecting`, or `finished` (result delivered,
  finalizer queued). The upstream is `nullptr`, `open` or `closed`.
- A connection is not there, waits for its answer, is redirected, bypassed, or closed.
- Error codes are the ones the code tells apart; certificate errors behave
  like `VPN_EC_AUTH_REQUIRED`.
- `tasks` is the FIFO of tasks submitted from callbacks; cancelled ones stay as tombstones.

An action is one callback from beginning to end, made of operators with the names of the C++
functions in the order in which the code calls them; `On_<EVENT>` is `perform_transition` for one
event. The closure of an API call may have waited in the queue for any time, so it may run at any
time; `vpn_connect` and `vpn_stop`, which have a fixed place, go through `tasks`. `Stopped` is the
rest of `vpn_stop` after the loop has exited, possibly before queued tasks ran.

Assumed: a ping takes at least one timer of the loop, so tasks queued before it started have run
before its result. `vpn_connect` is called once and `vpn_stop` is final. Assertions are compiled
out, as in release builds, and appear as properties where they matter.

### The loop (`EventLoop`)

A section under the loop's mutex is one step; giving a callback to libevent comes after the mutex is
released and is a step of its own. The executor thread goes through `run_event_loop`, including its
end when the loop itself fails (`LoopMayFail`), where it sets the error and runs the state machine
outside the loop. API threads take `stop_guard`, submit, schedule, cancel, wait in `dispatch_sync`,
or stop. `log` is a history of what became of each task.

### Connections (`Tunnel`, `TunStack`, `Icmp`, `Socks5`)

`Tunnel` keeps one record per `VpnConnection`, the two indices, what listener and upstreams hold, and
the packets that reached an upstream. Packets are numbered, so order and loss show. A domain is
either found in a packet or not; where it leads is a choice. The handlers that go over many connections (a
reset, the loss of the endpoint) close each with its client id and its server id and touch nothing of the
others, so their loops are one step (`CloseEach`). `TunStack` has a descriptor and a
listener connection per flow; the data the tunnel had no room for stays in the listener, a packet it refused with an
error is gone (`refused` counts them) and the connection goes on. lwIP raises packets,
acknowledgements and timers. `Icmp` follows an echo request through descriptor, attempt and stream;
a reply is `ReplySize` pieces that arrive in any portions. `Socks5` has the state of the negotiation, the
relay, the packets pending before the tunnel answers, and the one deferred task; only whole messages
are represented.

### Towards the endpoint (`Connectors`, the upstreams, `Pinger`, `Sockets`)

`Connectors` covers one attempt of both protocols. `UpstreamMux` is the pool with the connections that
wait for an upstream, `UdpMux` the stream of UDP packets, of which a prefix and a payload arrive in
pieces of any size. `Http2Upstream` and `Http3Upstream` hold a connection's stream, the data that the
client had no room for, the health check and the deferred closes; `m_in_handler` decides whether
a failing session ends at once. nghttp2, quiche, TLS and libevent are environment. `Pinger` has the
rounds of one location, with timers, fall-backs and shortcut connections; a failing `assert` sets
`aborted`. `Sockets` keeps the subscriptions of the shared timer by number, and the writes that
`SocketManager` finishes for destroyed sockets by descriptor.

`UdpMux` lets a prefix carry a length out of bounds: `read_prefix` drops such a packet without its payload, which is
then read as prefixes that may say anything (`wire.place`). `Buffers` has the bytes of one connection by their number
among those it took, in memory and in the file; a file call does all it is asked for or fails. A failed push leaves
the connection open and the rest of its data is lost, a failed peek closes it, except in HTTP/2's handler of new data,
which is lost then. The two upstreams have the same failing push.

### Routing rules (`DomainFilter`)

A name is the sequence of its labels, an entry a domain, a set of addresses and ports, or malformed; how an entry
is written is left out, except that "www." is cut off. `MatchTag` and `MatchDomain` have the order of
the tests in the code. `flow` is one connection from its request to its route, together with the name its
host has in truth, which the code may or may not find out. `Policy` is the reference: the entry of the
highest rank among those that apply, as `vpn.h` describes the lists.

### DNS

A query of `DnsResolver` stands for its random id. `DnsProxy` has `DnsClient` with its ids modulo
`IdMod` and its deadlines, under the handler's map, and the restart of the proxy while another thread
sets servers; the three clients of the handler share their code and nothing else, so one is modelled, while
`proxies` has both system proxies, which fail one by one. `DnsHandler` counts messages of its two faces; the tunnel may
refuse what its listener raises, or take a part.

### Windows

`WinTunnel` has one step per call of `VpnWinTunnel::init` that may fail; objects overlap. `RecvPump`
interleaves driver, receive thread and the listener's task at every access to the ring and the flag.
`NetworkGuard` lets any call fail, the watchdog end the process and others change objects between
any two calls; it assumes that no old version adds blocks again during the cleanup. `EasyPipe` has
every wait of the pipe's loop with `send()` on another thread. `ClientApp` has the four threads of a
client, for each of its three owners.

## 3. What is checked

| Run | Instance | Properties |
|---|---|---|
| `session` | 2 endpoints of one family (symmetric), 2 connect and 2 recovery attempts, `SizeMax` 2, both policies, no connections, queue 3 | `TypeOK`, `ClientAgreement`, `SessionDriven`, `CallbackAssumptions`, `LifecycleSpec` |
| `requests` | 1 endpoint, 2 connections of which one wants to be bypassed, one attempt each, both policies, kill switch on and off | `KillSwitchHolds`, `RecoveryServesRequests`, `RoutedOnce` |
| `liveness` | 1 endpoint, 2 and 2 attempts, both policies | `AttemptsSettle`, `ClientSettles` |
| `answered` | 1 endpoint, 1 connection, fall-into-recovery, kill switch on and off | `PostponedAnswered` |
| `event_loop` | 2 API threads with 2 calls each, 6 tasks, the loop may fail | `TasksServed`, `ManagerExclusive`, `CallsServed` |
| `tunnel` | 1 client connection, 3 server connections, 3 packets, general mode | `TablesAgree`, `OpenOnBothSides`, `BytesInOrder`, `RequestAnswered` |
| `tun_stack` | 1 TCP and 1 UDP flow with 2 connections each, 3 packets; 1 echo id, 2 sequence numbers, replies of 2 pieces | `StreamInOrder`, `UnreadServed`, `EchoServed`, `DeferredCloseEnds` |
| `net` | 1 SOCKS5 client with 2 UDP destinations; 1 TCP and 1 UDP socket, 4 subscriptions; 1 endpoint, automatic protocol, 1 relay, 2 rounds; 3 resolutions of 2 types, capacity 2; 4 DNS requests with 2 ids; 2 server sets; 2 DNS connections | `SocksServed`, `SocketsServed`, `PingSettles`, `ResolutionsDriven`, `DnsProxyServed`, `DnsConnectionsServed` |
| `upstreams` | both connectors; 3 connections, pool of 2, 3 upstreams; 3 UDP connections of which 2 share an address pair, prefix of 2 pieces; 2 HTTP/2 and 2 HTTP/3 connections; a buffer with 2 bytes in memory and 4 in the file, a stream of 9; 2 entries at a time out of 13, 3 names at an address, 2 programs | `ConnectorSettles`, `MuxInStep`, `UdpMuxInStep`, `H2Served`, `H3Served`, `BufferInOrder`, `RoutesFollowRules` |
| `app` | 2 pipe sessions, 2 messages; 2 tunnels with 4 token values; 5 packets in batches of 2; 5 old objects; 3 owners, 2 connects, 2 requests | `PipeServed`, `UnboundNeverCaptured`, `PumpDriven`, `CleanupNeverRestricts`, `TaskVpnAlive` |
| `doc_NetworkChangeResetsAttempts`, `doc_HeldIsServed` | as `session` and `upstreams` | violated: section 4 |

Several properties are conjunctions of named parts, each with its own comment in its module:

- `SessionDriven`: `WaitingRecoveryArmed`, `AttemptInProgress`, `ConnectingHasConnector`. A session
  that has not ended is always driven by a timer, a ping, a connector or a queued task.
- `CallbackAssumptions`: `ConnectedHasEndpoint`, `PingerHasNoEndpoint`, `WaitingIsQuiet`,
  `RecoveryStateClean`, `PingFailureNeverFatal`. What callbacks assert and dereference.
- `RecoveryServesRequests`, of every step: afterwards `PostponedHasTimer` and `BypassRemembered` hold, and
  when the step ends a recovery no answered request is held and nothing is direct that should not be.
- `TasksServed`: finalized once, and a list that is not empty has a callback on its way.
  `CallsServed`: submission order, and every call returns unless the loop fails.
- `OpenOnBothSides`: `OpenedKnown`, `OpenIsBacked`, `FakeNeverSends`. `EchoServed`: attempts are backed,
  replies aligned. `DnsProxyServed`: `RequestsSettle`, `ServersFollowed`.
- `SocksServed`, `SocketsServed`, `PingSettles`, `H2Served`, `H3Served`, `PipeServed`: the two parts
  their modules name, "both sides agree" and "what was kept has something on its way to it".

Properties of the second kind are stated as invariants: where work is left, the event, timer, task
or flag that will take it up exists. This is what a liveness property would need, holds without any
fairness, and is where a lost wake-up shows. `LifecycleSpec` says that the reported states follow
`SessionLifecycle`: a session begins once, recovers only after waiting, counts at most the
configured attempts between two connections, and ends for good.

### Bounds

In `VpnManager`, two attempts of each kind tell "first", "again" and "none left" apart, `SizeMax`
shows a wrap of the unsigned counter, and two endpoints tell "the selected one was abandoned" from
"another one" and "the last one". A queue of three holds tasks of different origin behind one
another. In the other modules the bounds are the smallest at which the hazard can happen: two
connections of one flow or address pair for a late event that hits the wrong one; three server
connections for two migrations of a client; three packets so that one is held, one buffered and
one being read; two ids for four requests, and four tokens for two tunnels, so that numbers come
round; five packets in batches of two so that a task runs three times; a pool of two with three
upstreams so that one is replaced. A file of four bytes is stripped, filled and cut off within a stream
of nine. Two entries are enough for every pair of ranks, and an update changes one entry or the mode:
larger ones are several updates. Liveness runs use no symmetry.

### Fairness

Nothing is assumed of the network, of the endpoint or of the order of outcomes.

- `VpnManager`: the loop runs queued tasks; a ping and a connector end by their own timeouts; the timer of
  the recovery fires; once the loop has exited its thread is joined. The 3-second timer of the postponement is fair only
  when recoveries cease (`TimerFairSpec`): `initiate_recovery` (`vpn_fsm.cpp:131`) creates it anew with each
  recovery, so a network that changes faster keeps it from firing, and a postponed request is then never answered.
  `PostponedAnswered` has the same premise, and without it TLC shows that behaviour.
- `EventLoop`: a thread in a call goes on, the executor goes on (weak); a thread that waits for
  `stop_guard` gets it when it keeps becoming free (strong, for the mutex only).
- `Tunnel`: the application completes the requests it was given; the resolver answers (it has timeouts), and so
  do the direct upstream, whose sockets have timeouts (`direct_upstream.cpp:238`, `425`), and the fake one; the listener
  closes what it was told to close; deferred tasks run. Of the endpoint's upstream nothing is assumed: once its
  session is open the socket has no timeout (`http2_upstream.cpp:362`) and a stream has none of its own.
  `RequestAnswered` therefore ends with an answer or with a connection that waits for the endpoint (`AtEndpoint`).
- `TunStack`: deferred tasks run; a client acknowledges what was sent to it, else lwIP's own timers
  end the connection.

### Testing the properties

Every property of a passing run has a mutant: a version of one definition with a plausible
bug, kept beside it, under which TLC finds the property violated. They are listed under `mutants`.

## 4. Disagreements between the code and what is said about it

With a run:

1. `NetworkChangeResetsAttempts`: `vpn.h` says that the counter of recovery attempts
   resets on a network change; only a lost network resets it.
2. `HeldIsServed` (`UpstreamMux`): `server_upstream.h` says that `open_connection` ends with an opened
   connection or an error. The session is open, a further connection makes the pool open a second upstream and
   waits for it, and that upstream fails with a non-fatal error: the connection gets neither.

Stated as properties and violated by the model, without a run of their own; to see the
counterexample, name the property in the configuration of the module:

| Property | Module | The code |
|---|---|---|
| `RetryOnlySeveralAttempts` | `VpnManager` | two rows reach `assert(0)` in `retry_connect` under the fall-into-recovery policy |
| `AttemptsWithinConfigured` | `VpnManager` | abandoning the selected endpoint with no attempt left wraps the unsigned counter |
| `DisconnectedStopsClient` | `VpnManager` | exhausting the location in CONNECTING ends the session and leaves the client connecting |
| `ConnectedAnswersPostponed` | `VpnManager` | CONNECTED by way of WAITING_FOR_NETWORK leaves requests postponed |
| `WaitsForNetwork` | `VpnManager` | a stale task takes WAITING_FOR_NETWORK into recovery |
| `ConnectedSessionOpen` | `VpnManager` | an error between the connector's report and its finalizer is dropped |
| `OpenUpstreamHasNoConnector` | `VpnManager` | a failed DNS listener leaves the upstream open beside the next connector |
| `DispatchAlwaysFinalized` | `EventLoop` | when the loop fails, a thread in `dispatch_sync` is never answered |
| `MigrationEnds` | `Tunnel` | the wrong upstream is asked to close when the new one refuses, and the connection stays half-way |
| `ClosedIsDeleted` | `Tunnel` | a connection whose server side goes while it migrates is in neither table |
| `TimedSocketWatched` | `Sockets` | a socket with a timeout may have no subscription |
| `LingerFull` | `Sockets` | the deadline of a finished write stays; with three TCP sockets a reused descriptor is closed by it early |
| `PrepareQuiet` | `Pinger` | `do_prepare` asserts that no shortcut connection is in progress; one may be left from the round before |
| `QueryTimeoutApplied` | `DnsResolver` | once a query has expired with empty queues, the check of the other deadlines is not scheduled again |
| `ListenerReadsOpen` | `DnsHandler` | data is raised on a connection that the tunnel has closed |
| `H3ClientAlive` | `Http3Upstream` | a callback of the QUIC client may destroy that client |
| `OrderSurvivesFailedRead` | `Buffers` | `drain` drops the error of `transfer_file2mem`; memory has room while older data is in the file, and the next push overtakes it |
| `RefusedIsClosed` | `TunStack` | the tunnel leaves it to the listener to close a connection whose read has failed ("connection will be closed inside listener", `tunnel.cpp:1821`, also `1797`), and `tcp_raw.cpp:130` takes the listener's error for a connection that is closed already: nobody closes it, and the next packet is delivered after the gap |
| `NothingInFlight` | `DnsProxy` | `dns_client.cpp:184` asserts that no request is in flight when the TCP socket fails to connect; requests sent over UDP, which share the tables, may be |
| `NothingLost` | `Buffers` | a failed push is ignored (`http3_upstream.cpp:751`) or returns an error that closes nothing (`http2_upstream.cpp:214`), and what exceeds the maximum of the file is cut off: the stream goes on with a gap |
| `NeverMisled` | `UdpMux` | the payload of a packet whose length is out of bounds is read as the next prefix (`http_udp_multiplexer.cpp:249`, `263`), so it may be given to any connection |
| `NoStaleProxy` | `DnsProxy` | when the IPv4 system proxy cannot start, `start_system_dns_proxy` returns and the IPv6 one runs on with the old servers, although the comment at `dns_handler.cpp:663` asks for a consistent state |
| `UserDomainOutranksGroup` | `DomainFilter` | a `!` entry of an address is followed before the name is known, although `vpn.h` says that `+` entries outrank all group entries |
| `NamedRoutesFollowRules` | `DomainFilter` | a connection to a name is decided before its address is known, and an excluded address is taken for a suspicion where an exception has a domain |
| `RememberedNameRight` | `DomainFilter` | hosts that share an address are taken for the one whose name was found last |

Seen while modelling, on the way to the models and not stated as properties:

- `poll_tcp_connections` goes on with a connection that `process_pending_data` may have erased; the
  synchronous `close_connection` of the HTTP/3 upstream goes on after closing; its health-check tasks
  read a stream id that may be absent.
- `Http2Upstream::do_health_check` does not use `need_result`; the multiplexer ignores the closing of a
  connection that still waits; `HttpUdpMultiplexer` never clears `m_pending_error`.
- `TrustTunnelClient::disconnect` drains the extra loop only when that loop has started, although the
  comment at `client.cpp:684` relies on that drain for the pointer its task holds; `vpn_easy_stop_ex` disconnects before it stops
  the network monitor; `stop_trusttunnel_client` notifies without the mutex of the waiting thread.
- The loop of `PipeClient` ends normally when the server closes, so `DISCONNECTED` is not delivered;
  `vpn_easy_service_stop` holds its mutex while it joins the thread of the pipe.
- `DnsClient` keeps a partial response across the end of its TCP connection, and a deadline that outlives
  its response may end a later request with the same id; the listener of `DnsHandler` keeps closed
  connections in its table; servers are read before the subscription to their changes.
- A session that was never connected, falls into recovery and loses the network comes back by
  `retry_connect`; `complete_connect` then neither closes the connections that were bypassed meanwhile
  nor answers the postponed ones, as the end of a recovery does. `RecoveryServesRequests` is therefore
  about the step from RECOVERING to CONNECTED, not about every CONNECTED session.
- With `exclusions_tcp_early_ack_enabled`, a lookup that ends without a domain leaves `CONNF_LOOKINGUP_DOMAIN` set,
  so `select_upstream` gives the connection to the fake upstream once more (`tunnel.cpp:917`, `1779`), now
  without `CONNF_FAKE_CONNECTION`, and `FakeUpstream::send` asserts that it is never called. `OpenOnBothSides` is
  therefore checked and proved with that option off.
- "www." is cut off once, of a rule and of the name that is looked up: a rule `www.www.x` becomes `www.x`, which is
  then found for `www.www.x` and not for `www.x`. `FilterAssumption` leaves such rules out.
- Between a session error and its deferred disconnect the session is CONNECTED and the client
  S_DISCONNECTING, although `get_connection_stats` asserts S_CONNECTED.

## 5. What is proved

The proofs hold for every value of the constants that satisfies the named assumption of the module.

`TypeCorrect` (`VpnManagerProofs`): `Spec => []TypeOK` under `ConstantsAssumption` (any endpoints and
requests, any positive numbers of attempts, either policy, any `size_t` width, any queue bound). One
typing lemma per handler, then one step per action. It contains the bound on `recovery_attempts`.

`AlwaysConsistent` (`VpnManagerProofs`): `Spec => []Consistent(vpn)`, the inductive strengthening from
which `ClientAgreement` and every part of `SessionDriven` and `CallbackAssumptions` follow (theorems
`<name>Holds`, `SessionDrivenHolds`, `CallbackAssumptionsHold`). Its parts, and why none can be left out:

| part | says | needed for |
|---|---|---|
| `ClientOK` | `client_state` agrees with the client's machine; while no upstream was ever opened the client is off or connecting and the one queued finalizer carries an error | a finalizer that would report "connected" with no upstream |
| `PingOK` | a ping runs with no endpoint, no abandon flag and the client off | a ping result that starts a client that is already on |
| `BeginOK` | `do_connect` is queued at most once, and only before the session begins | `do_connect` in the middle of a session |
| `QuietOK`, `ArmedOK`, `CleanOK` | what the waiting and settled states keep | `CE_DO_RECOVERY` finding the client on |
| `EndpointOK` | the client of a live session is on only for a selected endpoint | CONNECTED without endpoint after an abandon |
| `RetryOK` | with `retry_connect` queued a CONNECTING session has its client off | a retry that pings while the client is on |
| `ConnectedOK`, `DrivenOK` | a CONNECTED session has its client; an attempt is driven | lost for a moment inside `raise_disconnected`, restored by the event it raises |

All but the last row is `Steady`, which holds in the middle of a callback too. The proof
goes bottom up: effect lemmas, one lemma per state a transition leads to, one per event of the session
machine and per task of the loop, then one step per action.

`RequestsServed` (`VpnRequestsProofs`, `ConstantsAssumption`): `[]RequestsOK(vpn)` and, of every step,
`Serves(vpn, vpn')`; it rests on `AlwaysConsistent`. `RequestsOK` says that a held request has its timer and its
place in the list (`HeldOK`), that an answered one was routed, is closed or is held (`AnsweredOK`), and that what
went past the tunnel unasked is remembered and only happens without the kill switch (`BypassOK`). The handlers are
sorted into those that keep the requests (`Keeps`), those that postpone, and the end of a recovery (`Finalizes`).
`KillSwitchProved`, `RoutedOnceHolds` and `RecoveryServes` follow.

`ImplementsLifecycle` (`VpnRequestsProofs`): `Spec => LifecycleSpec`, the refinement of `SessionLifecycle`, step by
step: each handler of the session machine maps to a step of the life cycle or to a stutter.

`LoopServes`, `SessionExclusive`, `TasksInOrder` (`EventLoopProofs`, `EventLoopAssumption`): any finite set of threads,
any numbers of tasks, whether or not the loop fails. A task is in one place and the log knows which (`Logged`); a
thread is past the lock exactly while it owns `stop_guard` (`Locked`); the state of the loop follows its executor and
the thread that stops it (`Phases`); a list that is not empty has the flag and a callback, or a thread that is about
to give one. The numbers of the list ascend, from which the order of execution follows.

`TunnelProofs` (`TunnelAssumption`: the ids of listeners and of upstreams differ, and "none" is neither), for any clients,
server connections, packets, lookup attempts, either mode, every option. `TunnelInvariant` is `[]TunnelOK(State)`:

| part | says | needed for |
|---|---|---|
| `ObjOK` | of a connection: which ids, flags and upstream its state allows, who still has to answer for it (application, resolver, task), and in which table it is | an answer or an event for a connection that went another way meanwhile |
| `CliOK` | of a client id: the state of the connection filed under it fits the listener's, it has a server side once the client was let in; for TCP, what is on the wire and in its buffer is what was sent | a packet sent to nobody |
| `MovesOK` | of the migrations of a client id: the connection they leave still migrates; a TCP one is alone and holds the bytes | a second migration that takes the buffer, or a switch that overtakes it |
| `SrvOK` | of a server id: its entry is live and carries it, and what is to be opened has one | the event of an upstream for a connection nobody knows |
| `FakeOK` | without early acknowledgement: a live connection of the fake upstream is marked | `FakeUpstream::send` |
| `Alone` | an id belongs to one connection | two connections that write to one stream |

A handler touches one connection with its client id and its server id. `ClusterStep` proves once that such a
step keeps `TunnelOK` when it keeps the parts of what it touches; a reset or the loss of the endpoint is many such steps
that do not meet (`CloseEach`). `TablesStayInStep`, `ClientBytesInOrder`, `BothSidesOpen` (with
`exclusions_tcp_early_ack_enabled` off, see section 4) and, with that option too, `OpenIsKnownAndBacked` follow.

`TunDeviceProofs` (`StackAssumption`, `EchoAssumption`): `StreamsDelivered`, `KeptIsServed`, `EchoesServed`, of `DeviceSpec`. `StackOK`
says of each flow that what the tunnel took, followed by what the listener keeps, ascends and with the refused packets
makes up what was sent, up to a packet that is being handed over (`Streams`), that kept data which may be read has its task, and that a UDP flow keeps some of
its packets in their order (`Packets`). `EchoOK` says that what is on the wire are whole replies after the one that is being
read (`Whole`), of which the multiplexer has the beginning (`Begun`).

`UpstreamProofs` (`UpstreamsAssumption`), for the parts of `Upstreams`:

- `ConnectorsReport`: while the connector runs, either the fallback is still to be tried and its delay is on, or it
  was tried and one of the two has not failed; `Sound` ties each connector's session to its result.
- `BuffersInOrder`: the buffer holds the bytes from the one after `drained` to `pushed`, first the memory, then the unread
  part of the file (`Holding`), and the memory is full while the file has any (`NoOvertaking`): without this the next
  push would overtake the file. Failing writes, strips and peeks keep both; a failed read in `drain` suspends the second
  (`unread`) until a read succeeds, and only a push in between ends the claim (`overtaken`).
- `H2Serves`, `H3Serves`: what the fields of the session, the streams and the queued tasks say of one another (`H2Well`,
  `H3Well`), and that kept data of a stream that is read has its task, and nothing is kept for what is no stream
  (`H2Kept`, `H3Kept`); for HTTP/3, that a session that is over has neither tasks nor connections.
- `MuxStaysInStep`: a connection is with one upstream of the pool, which knows it and is open, or waits for one, or
  neither (`MuxGood`), and the session is opening or open exactly while the pool is not empty.
- `UdpMuxStaysInStep`: the queued openings and closings, in their order, lead from the connections the multiplexer has to
  the ones the tunnel has (`UdpAgree`): a closing that is still queued precedes the opening of the next connection of the
  same address pair. `UdpReceives` says where in a packet the receiver is, up to the first length out of bounds, and that
  a payload has its connection also after it. What is left when the tasks of
  connections are cancelled (`Without`) is found by taking the first index at which a claim would fail.
- `RulesAreFollowed` (`FilterAssumption`), of every step: the walk over the labels of a name finds the longest domain
  that applies (`LongestDomain`), the tests of `match_tag` then go down the ranks of `Policy` (`MatchKnown`), and an exclusion
  that is followed without a name is one that no domain could lift (`MatchUnknown`).
- `UpstreamsServe`: the seven together, of `UpstreamsSpec`.

`NetProofs`, for the parts of `Net`. `NetAssumption` asks that the value for "none" is no number, the name of the timer's own
subscriber is no socket, a relayed connection is not one of a client, and there is at least one DNS request id:

- `PingGoesToItsEnd`: once a report is submitted, nothing else of the ping is on its way (`PingReports`), and what is kept
  for an endpoint or was destroyed has been reported (`PingKeeps`). Without the first a late round could act after
  the end; without the second a connection could be destroyed after it was kept.
- `SocketsAreServed`: a socket that is not connected yet has read nothing and does not read (`Offers`), and a number in the
  timer is the one its live socket remembers (`Subscribed`).
- `SocksIsServed`: the property is inductive with its types; `Fits` states it of one connection's state in the table and
  the tunnel's view, so that each action is checked for the connections it moves.
- `ResolverDrivesResolutions`: without a connection its timeout is not running (`Resolves`): a task that closes the
  connection cannot leave a resolution behind a timer that belongs to nobody. Every handler keeps `Resolves`.
- `DnsProxyIsServed`: a request that waits for the TCP socket has exactly one deadline (`Settles`), or the expiry of one
  would leave another without a request; the servers the proxy is being restarted with are the last ones set, or a
  task is submitted (`DnsServersOK`), and each system proxy runs with those that were read last, but for the IPv6 one after
  a restart that ended at the IPv4 one.
- `DnsConnectionsAreServed`: a connection that is not open has asked for nothing and is unknown to the listener's side
  (`Unused`); a connection whose opening is to be reported is still opening. What is kept while reads are on has the
  task that sends it or the one that closes the connection, since a read that failed is followed by a close.
- `NetServes`: the six together, of `NetSpec`.

`WindowsProofs`, for the parts of `Windows`:

- `PumpDrivenHolds` (`BatchAssumption`): `PumpConsistent` adds to `PumpDriven` that a packet which arrives after the
  drain shows in the event, in the call that follows it, or in the flag that `FinishTask` reads under the mutex;
  without this the release of the task could strand it.
- `CleanupNeverRestrictsHolds` (`ObjectsAssumption`): `GuardConsistent` says what each loop of the cleanup still has
  before it: only blocks in the first; no block of ours and, unless a call failed, everything that is ours in the
  second. `NothingBecomesOurs` makes it stable.
- `UnboundNeverCapturedHolds` (`TokensAssumption`: fewer tunnels at a time than values of the counter): routes exist
  only while their tunnel holds a token, and tokens are held by one tunnel each. That a free token exists is the
  pigeonhole theorem; that the counter meets a first one is the well-foundedness of the naturals.
- `TasksHoldLiveVpn`: `Phase` says for every place of the owner's thread which `Vpn` is open, whether the extra loop
  runs and which `Vpn` its tasks hold.
- `PipeServesClients` (`PipeAssumption`): where the loop of the pipe is with and without a client (`PipeStaged`); the
  pieces in flight go on where the delivered ones ended, and waiting messages have later numbers (`PipeQueued`); the
  buffer of the reader is what was read since the last boundary of a message (`PipeRead`); each place of the loop
  keeps a read or a wake-up it will meet (`PipeAwake`, `PipeRuns`).
- `WindowsServe`: the five together, of `WindowsSpec`, whose steps are steps of one part.

Only model-checked: the liveness properties (`AttemptsSettle`, `ClientSettles`, `PostponedAnswered`, `CallsServed`,
`RequestAnswered`, `DeferredCloseEnds`), since fairness and `ENABLED` are out of the prover's reach. Of `CallsServed` the part
about the order of execution is proved (`TasksInOrder`). Every invariant and every other action property
of a passing run, and the refinement of `SessionLifecycle`, is a theorem.

## 6. Plan

Next models: the sidecar of the desktop application; file calls of the buffers that do a part of their work; the
lookup of a domain with early acknowledgement up to the end of the fake connection, once the code clears its flag.

## 7. Not modelled

- Encodings: TLS, HTTP, QUIC, DNS and SOCKS5 messages, domain extraction from packets, configuration
  files. They are parsers without an order of their own to check.
- nghttp2, quiche, BoringSSL, lwIP, libevent, the DNS proxy library, Wintun and the Windows filtering
  platform: they appear as the events and results the code handles.
- Tunnels of other systems than Windows, the computation of routes, the firewall's conditions.
- Statistics, logging, the reports that only inform the application.
- The order in which names of the rules are resolved in advance, several locations in one ping,
  `vpn_event_loop_hijack`.
- File calls of `MemfileBuffer` that write or read less than asked, which `transfer_file2file` and `write_in_file` do not
  expect, and a second failure while `strip_file` puts the old file back.
- The desktop application: its back end starts the client as a process and administers servers over
  SSH, its front end is a user interface.

What the modules simplify beyond that:

- Session: `prepare_for_recovery` gets a `VpnNetworkState` where it expects a `VpnError` (`vpn_fsm.cpp:68`); the value it
  reads there is 0, `VPN_EC_NOERROR`, as in the model. A default request of a suspected exclusion goes to the fake
  upstream also without the endpoint (`tunnel.cpp:1524`). The fall-back connector is in the source and in `Connectors`, but
  the manager disables the fall-back (`vpn_manager.cpp:114`) and so never builds it; a session that dies between
  `raise_connected` and the result task is seen by the client, not by `Connectors`.
- Loop: `NotActive` covers calls that test the loop for null; three calls submit without that test
  (`vpn_manager.cpp:349`, `361`, `808`): the model assumes that they are not called before `vpn_connect` or after
  `vpn_stop`. `Active` counts an exit that is on its way.
- Listeners: a failing `netif_input` of an echo reply, SOCKS5 replies whose write fails (the connection closes, as
  after any other error), the flag `is_tcp` of a refused request, the budget of 64 reads in one turn
  (`socks5_listener.cpp:1487`), `is_domain_scannable_port`.
- Upstreams: `close_connection` of an id the HTTP/2 upstream does not know; the HTTP/3 handler always cancels the health
  check and posts its task; the window of a stream whose data could not be kept.
- Sockets, ping, DNS: the shared timer goes over a snapshot of its subscribers, one per step here; destruction deferred
  by unsent handshake data; relays in parallel and one relay per server name, an empty list of endpoints and the
  assertions of `do_report`; deadlines truncated to milliseconds.
- Windows: an adapter that exists already is opened, not created; `UnboundNeverCaptured` is about the moment of the
  protect call, not about sockets left unbound before a tunnel came up; the two reads of `m_vpn` by the network monitor
  are one; in the pipe, input that breaks the protocol or overfills the buffer, a failing `ConnectNamedPipe`, and a write
  that completes for a client which closed since.
