-------------------------------- MODULE Tunnel --------------------------------
(***************************************************************************)
(* The tunnel (core/src/tunnel.cpp): one VpnConnection per client request, *)
(* indexed by the listener's id and by the upstream's id, routed to the    *)
(* endpoint, the bypass, the fake or the DNS upstream, and migrated to     *)
(* another upstream when the domain found in the first packets says so.    *)
(* Handlers run to completion on the event loop: each is one action.  The  *)
(* listener and the upstreams are their contracts (client_listener.h,      *)
(* server_upstream.h, fake_upstream.cpp, direct_upstream.cpp): what they   *)
(* were asked for is answered by a later event.                            *)
(***************************************************************************)
EXTENDS Naturals, Sequences, FiniteSets

CONSTANTS
    Cids,               \* ids the listeners generate
    MaxSid,             \* bound: ids the upstreams generate
    MaxPkt,             \* bound: packets a client sends
    MaxLookupAttempts,  \* MAX_LOOKUP_ATTEMPTS
    Mode,               \* "general" or "selective"
    EarlyAck,           \* exclusions_tcp_early_ack_enabled
    DnsProxy,           \* a dns_proxy_listener exists
    NON                 \* NON_ID and null pointers

VARIABLES
    conn,       \* the VpnConnection objects, named by the id they were made for
    byClient,   \* connections.by_client_id
    byServer,   \* connections.by_server_id
    waiters,    \* dns_resolve_waiters: client ids
    ep,         \* the endpoint session and endpoint_upstream_connected
    app,        \* requests the application has not completed yet
    lsn,        \* what the listener holds of each client connection
    ups,        \* what the upstreams hold of each server connection
    wire        \* the packets that reached a real upstream, per client

vars == <<conn, byClient, byServer, waiters, ep, app, lsn, ups, wire>>

Sids == 1..MaxSid
Objs == Cids \cup Sids
Upstreams == {"endpoint", "bypass", "fake", "dns"}

VpnConnectionState ==
    {"WAITING_ACTION", "WAITING_RESOLVE", "WAITING_RESPONSE", "WAITING_RESPONSE_MIGRATING",
     "WAITING_ACCEPT", "CONNECTED", "CONNECTED_MIGRATING", "REJECTED"}

\* The fields and flags of a VpnConnection that decide what happens to it.
VpnConnection ==
    [cid : Cids \cup {NON}, sid : Sids \cup {NON}, up : Upstreams \cup {NON},
     st : VpnConnectionState, proto : {"tcp", "udp"}, dst : {"addr", "name", "dns"},
     forced : {"default", "bypass", "redirect"}, mig : Cids \cup {NON},
     first : BOOLEAN, looking : BOOLEAN, suspect : BOOLEAN, fakec : BOOLEAN, closed : BOOLEAN,
     task : BOOLEAN, sending : BOOLEAN, buf : Seq(1..MaxPkt), tries : 0..(MaxLookupAttempts + 1)]

\* The ids of the listeners and of the upstreams are told apart, and from NON_ID.
ASSUME TunnelAssumption == /\ Mode \in {"general", "selective"}
                           /\ {EarlyAck, DnsProxy} \subseteq BOOLEAN
                           /\ {MaxSid, MaxPkt, MaxLookupAttempts} \subseteq Nat
                           /\ Cids \cap Sids = {}
                           /\ NON \notin Objs /\ NON \notin Upstreams /\ NON \notin VpnConnection

\* VpnConnection::make
Make(c, proto, dst) ==
    [cid |-> c, sid |-> NON, up |-> NON, st |-> "WAITING_ACTION", proto |-> proto, dst |-> dst,
     forced |-> "default", mig |-> NON, first |-> FALSE, looking |-> FALSE, suspect |-> FALSE,
     fakec |-> FALSE, closed |-> FALSE, task |-> FALSE, sending |-> FALSE, buf |-> <<>>, tries |-> 0]

Init ==
    /\ conn = [o \in Objs |-> NON]
    /\ byClient = [c \in Cids |-> NON]
    /\ byServer = [s \in Sids |-> NON]
    /\ waiters = {} /\ app = {}
    /\ ep = "off"
    /\ lsn = [c \in Cids |-> [st |-> "none", reads |-> FALSE, unsent |-> FALSE, pos |-> 1]]
    /\ ups = [s \in Sids |-> [u |-> NON, st |-> "unused"]]
    /\ wire = [c \in Cids |-> <<>>]

-----------------------------------------------------------------------------
(* The handlers call each other: each is a function of the whole state.    *)

State == [conn |-> conn, byClient |-> byClient, byServer |-> byServer, waiters |-> waiters,
          ep |-> ep, app |-> app, lsn |-> lsn, ups |-> ups, wire |-> wire]

Becomes(s) ==
    /\ conn' = s.conn /\ byClient' = s.byClient /\ byServer' = s.byServer
    /\ waiters' = s.waiters /\ ep' = s.ep /\ app' = s.app
    /\ lsn' = s.lsn /\ ups' = s.ups /\ wire' = s.wire

TurnRead(s, c, on) == [s EXCEPT !.lsn[c].reads = on]

VpnModeToAction == IF Mode = "general" THEN "redirect" ELSE "bypass"
InvertAction(a) == CASE a = "redirect" -> "bypass" [] a = "bypass" -> "redirect" [] OTHER -> a

UpstreamOf(action) == IF action = "redirect" THEN "endpoint" ELSE "bypass"

\* select_upstream: the connection r may be NON (no connection given).
SelectUpstream(action, r) ==
    IF action # "default" THEN UpstreamOf(action)
    ELSE IF r # NON /\ r.dst = "dns" THEN "dns"
    ELSE IF r # NON /\ r.looking /\ (r.suspect \/ EarlyAck) /\ r.dst = "addr" THEN "fake"
    ELSE UpstreamOf(VpnModeToAction)

\* A slip of it: the entry of the server's id is left behind.
DestroyConnection_client_only(s, o) ==
    LET r == s.conn[o] IN
    [s EXCEPT !.conn[o] = NON,
              !.byClient = IF r.cid = NON THEN @ ELSE [@ EXCEPT ![r.cid] = NON],
              !.waiters = IF r.st = "WAITING_RESOLVE" THEN @ \ {r.cid} ELSE @]

\* destroy_connection, once the object is found.
DestroyConnection(s, o) ==
    LET r == s.conn[o] IN
    [s EXCEPT !.conn[o] = NON,
              !.byClient = IF r.cid = NON THEN @ ELSE [@ EXCEPT ![r.cid] = NON],
              !.byServer = IF r.sid = NON THEN @ ELSE [@ EXCEPT ![r.sid] = NON],
              !.waiters = IF r.st = "WAITING_RESOLVE" THEN @ \ {r.cid} ELSE @]

\* ServerUpstream::close_connection(x) on upstream u, asynchronous: an id the upstream
\* does not hold is ignored (direct_upstream.cpp, upstream_multiplexer.cpp).
Held(s, u, x) == x # NON /\ s.ups[x].u = u /\ s.ups[x].st # "gone"
CloseAsync(s, u, x) ==
    IF ~Held(s, u, x) THEN s
    ELSE [s EXCEPT !.ups[x].st = IF @ = "opening" /\ u # "fake" THEN "aborting" ELSE "closing"]

ClosedLsn(l) == [l EXCEPT !.st = "closed", !.reads = FALSE, !.unsent = FALSE]

\* CLIENT_EVENT_CONNECTION_CLOSED
OnClientClosed(s, c) ==
    LET o == s.byClient[c]
        r == s.conn[o]
        t == [s EXCEPT !.lsn[c] = ClosedLsn(s.lsn[c])]
    IN  IF o = NON THEN t
        ELSE IF r.closed \/ r.sid = NON \/ r.up = NON THEN DestroyConnection(t, o)
        ELSE IF s.byServer[r.sid] = NON THEN DestroyConnection(t, o)
        ELSE CloseAsync([t EXCEPT !.byClient[c] = NON], r.up, r.sid)

\* ClientListener::complete_connect_request: only a request still waiting for its
\* result is answered (socks5_listener ignores the others, tcp_conn_manager asserts).
\* The end of a refused one is reported later.
Answer(s, c, pass) ==
    IF s.lsn[c].st # "asked" THEN s
    ELSE [s EXCEPT !.lsn[c].st = IF pass THEN "passed" ELSE "rejected"]

\* ClientListener::close_connection: a graceful close waits for the data on its way to
\* the client (TunListener, CF_CLOSING), an asynchronous one for a task; otherwise the
\* listener reports CLIENT_EVENT_CONNECTION_CLOSED before it returns.
CloseListener(s, c, graceful, async) ==
    IF s.lsn[c].st \in {"none", "closed"} THEN s
    ELSE IF graceful /\ s.lsn[c].unsent THEN [s EXCEPT !.lsn[c].st = "flushing"]
    ELSE IF async THEN [s EXCEPT !.lsn[c].st = "closing"]
    ELSE OnClientClosed(s, c)

\* A slip of it: a request that waits for its upstream is forgotten.
CloseClientSideConnection_unanswered(s, o, graceful, async) ==
    LET r == s.conn[o] IN
    CASE r.st \in {"WAITING_ACCEPT", "CONNECTED", "CONNECTED_MIGRATING", "REJECTED"} ->
            CloseListener(s, r.cid, graceful, async)
      [] r.st \in {"WAITING_RESOLVE", "WAITING_ACTION"} -> [s EXCEPT !.conn[o].task = TRUE]
      [] OTHER -> s

\* close_client_side_connection: every error code is answered with a result other
\* than CCR_PASS (0 becomes ECONNREFUSED).
CloseClientSideConnection(s, o, graceful, async) ==
    LET r == s.conn[o] IN
    CASE r.st \in {"WAITING_ACCEPT", "CONNECTED", "CONNECTED_MIGRATING", "REJECTED"} ->
            CloseListener(s, r.cid, graceful, async)
      [] r.st \in {"WAITING_RESOLVE", "WAITING_RESPONSE", "WAITING_ACTION"} ->
            IF async THEN [s EXCEPT !.conn[o].task = TRUE]
            ELSE [Answer(s, r.cid, FALSE) EXCEPT !.conn[o].st = "REJECTED"]
      [] OTHER -> s

\* The loops of close_client_side, reset_connections and on_before_endpoint_disconnect: each
\* closing touches its own connection, its client id and its server id only, so all of
\* them are taken at once.
CloseEach(s, cs) ==
    LET hit == {c \in cs : s.byClient[c] # NON}
        Closed(c) == CloseClientSideConnection(s, s.byClient[c], FALSE, FALSE)
        Of(o) == {c \in hit : s.byClient[c] = o}
        On(x) == {c \in hit : s.conn[s.byClient[c]].sid = x}
    IN  [s EXCEPT
           !.conn = [o \in Objs |-> IF Of(o) = {} THEN s.conn[o] ELSE Closed(CHOOSE c \in Of(o) : TRUE).conn[o]],
           !.byClient = [c \in Cids |-> IF c \in hit THEN Closed(c).byClient[c] ELSE s.byClient[c]],
           !.lsn = [c \in Cids |-> IF c \in hit THEN Closed(c).lsn[c] ELSE s.lsn[c]],
           !.byServer = [x \in Sids |-> IF On(x) = {} THEN s.byServer[x] ELSE Closed(CHOOSE c \in On(x) : TRUE).byServer[x]],
           !.ups = [x \in Sids |-> IF On(x) = {} THEN s.ups[x] ELSE Closed(CHOOSE c \in On(x) : TRUE).ups[x]]]

Unused(s) == {x \in Sids : s.ups[x].u = NON}

\* ServerUpstream::open_connection may fail; the multiplexer takes connections while
\* its session is opening or open, the other upstreams always.
MayOpen(s, u) == /\ u = "endpoint" => s.ep \in {"opening", "on"}
                 /\ Unused(s) # {}
Open(s, u, x) == [s EXCEPT !.ups[x] = [u |-> u, st |-> "opening"]]
\* The connection o, whose record becomes q, is filed under the id that the upstream gave it.
Opens(s, o, q) == [Open(s, q.up, q.sid) EXCEPT !.conn[o] = q, !.byServer[q.sid] = o]
NextSid(s) == CHOOSE x \in Unused(s) : \A y \in Unused(s) : x <= y

\* A slip of it: the client's reads are turned off but its side is left open.
OnConnectionClosed_half(s, x) ==
    LET o == s.byServer[x] IN
    IF o = NON THEN s
    ELSE LET c == s.conn[o].cid IN
         IF c # NON /\ s.byClient[c] # NON
         THEN TurnRead([s EXCEPT !.byServer[x] = NON], c, FALSE)
         ELSE DestroyConnection(s, o)

\* SERVER_EVENT_CONNECTION_CLOSED
OnConnectionClosed(s, x) ==
    LET o == s.byServer[x] IN
    IF o = NON THEN s
    ELSE LET c == s.conn[o].cid IN
         IF c # NON /\ s.byClient[c] # NON
         THEN CloseClientSideConnection(TurnRead([s EXCEPT !.byServer[x] = NON], c, FALSE), o, TRUE, FALSE)
         ELSE DestroyConnection(s, o)

\* ServerUpstream::close_connection, synchronous: the fake and the direct upstream
\* raise the event at once, the endpoint's when its stream has ended.
CloseNow(s, u, x) ==
    IF u = "endpoint" \/ ~Held(s, u, x) THEN CloseAsync(s, u, x)
    ELSE OnConnectionClosed([s EXCEPT !.ups[x].st = "gone"], x)

\* initiate_connection_migration: `opened` is the outcome of open_connection; the
\* result is negative when it fails, and the packet of a UDP connection is taken.
CanMigrate(s, u) == MayOpen(s, u)
InitiateConnectionMigration(s, o, u, pkt) ==
    LET r == s.conn[o]
        x == NextSid(s)
        sw == [Make(NON, r.proto, r.dst) EXCEPT
                 !.sid = x, !.up = u, !.st = "WAITING_RESPONSE_MIGRATING", !.looking = r.looking,
                 !.mig = r.cid, !.buf = IF r.proto = "tcp" THEN r.buf ELSE <<>>]
        old == [r EXCEPT !.st = "CONNECTED_MIGRATING", !.buf = IF r.proto = "udp" THEN Append(@, pkt) ELSE <<>>]
        t == [Opens(s, x, sw) EXCEPT !.conn[o] = old]
    IN  IF r.proto = "udp" THEN [t EXCEPT !.lsn[r.cid].pos = @ + 1] ELSE TurnRead(t, r.cid, FALSE)

MigrationFailed(s, o) ==
    CloseClientSideConnection(TurnRead(s, s.conn[o].cid, FALSE), o, FALSE, TRUE)

\* Sending on the connection's upstream: a prefix of the buffered packets goes out.
Sent(s, o, k) ==
    LET r == s.conn[o] IN
    [s EXCEPT !.conn[o].buf = SubSeq(@, k + 1, Len(@)),
              !.wire[r.cid] = @ \o SubSeq(r.buf, 1, k)]

-----------------------------------------------------------------------------
(* Client side events: Tunnel::listener_handler.                           *)

NeedResolveHostname(r, u) == r.dst = "name" /\ (u = "bypass" \/ DnsProxy)

\* Tunnel::complete_connect_request.  reach: is_destination_reachable; open: whether
\* open_connection (or the start of the name resolution) succeeds.
CompleteConnectRequest(s, c, action, reach, open) ==
    LET o == s.byClient[c]
        r == s.conn[o]
        f == [r EXCEPT !.forced = IF action = "default" THEN @ ELSE action,
                       !.looking = IF action = "default" THEN r.dst = "addr" ELSE @]
        u == SelectUpstream(action, f)
        g == [f EXCEPT !.up = u, !.fakec = (u = "fake")]
        resolve == NeedResolveHostname(r, u)
        Refuse(q) == CloseClientSideConnection([s EXCEPT !.conn[o] = q], o, FALSE, TRUE)
    IN  IF o = NON THEN s
        ELSE IF action = "reject" THEN Refuse(r)
        ELSE IF ~reach \/ (resolve /\ ~open) THEN Refuse(f)
        ELSE IF resolve
        THEN [s EXCEPT !.conn[o] = [f EXCEPT !.st = "WAITING_RESOLVE"], !.waiters = @ \cup {c}]
        ELSE IF u = "endpoint" /\ s.ep \notin {"on", "lost"} THEN Refuse([f EXCEPT !.up = NON])
        ELSE IF ~open \/ ~MayOpen(s, u) THEN Refuse(g)
        ELSE Opens(s, o, [g EXCEPT !.sid = NextSid(s), !.st = "WAITING_RESPONSE"])

\* CLIENT_EVENT_CONNECT_REQUEST: the tunnel's own listeners and loopback are routed at
\* once, the others wait for the application.
ConnectRequest(c) ==
    /\ lsn[c].st = "none"
    /\ \E proto \in {"tcp", "udp"}, dst \in {"addr", "name", "dns"} :
         LET s == [State EXCEPT !.conn[c] = [Make(c, proto, dst) EXCEPT !.first = TRUE],
                                !.byClient[c] = c, !.lsn[c].st = "asked"]
         IN  \/ Becomes([s EXCEPT !.app = @ \cup {c}])
             \/ \E action \in {"default", "redirect", "bypass"}, ok \in BOOLEAN :
                  Becomes(CompleteConnectRequest(s, c, action, TRUE, ok))

\* finalize_connect_action: the application's answer, the domain filter and the kill
\* switch give the action; only a default one may be a suspected exclusion.
FinalizeConnectAction ==
    {<<a, FALSE>> : a \in {"default", "redirect", "bypass", "reject"}} \cup {<<"default", TRUE>>}

\* is_destination_reachable: it depends on the address families of the network.
IsDestinationReachable == BOOLEAN

AppCompletes(c) ==
    /\ c \in app
    /\ \E a \in FinalizeConnectAction, reach \in IsDestinationReachable, ok \in BOOLEAN :
         LET s == [State EXCEPT !.app = @ \ {c}]
             o == byClient[c]
         IN  Becomes(IF o = NON THEN s
                     ELSE CompleteConnectRequest(
                            [s EXCEPT !.conn[o].suspect = a[2] /\ conn[o].dst = "addr"],
                            c, a[1], reach, ok))

\* select_resolved_destination_address: an address of a usable family, or none.
SelectResolvedDestinationAddress == BOOLEAN

\* on_destination_resolve_result
DestinationResolved(c) ==
    /\ c \in waiters
    /\ \E found \in SelectResolvedDestinationAddress, ok \in BOOLEAN,
          act \in {"default", "redirect", "bypass"} :
         LET o == byClient[c]
             r == conn[o]
             s == [State EXCEPT !.waiters = @ \ {c}]
             u == SelectUpstream(IF r.forced # "default" THEN r.forced ELSE act, NON)
             q == [r EXCEPT !.up = u, !.dst = "addr"]
         IN  Becomes(
               IF o = NON THEN s
               ELSE IF r.st # "WAITING_RESOLVE" \/ ~found
               THEN CloseClientSideConnection(s, o, FALSE, FALSE)
               ELSE IF ok /\ MayOpen(s, u)
               THEN Opens(s, o, [q EXCEPT !.sid = NextSid(s), !.st = "WAITING_RESPONSE"])
               ELSE CloseClientSideConnection([s EXCEPT !.conn[o] = q], o, FALSE, FALSE))

\* complete_connect_request_task
CompleteConnectRequestTask(o) ==
    /\ conn[o] # NON /\ conn[o].task
    /\ LET s == [State EXCEPT !.conn[o].task = FALSE] IN
       Becomes(IF conn[o].st \in {"WAITING_RESOLVE", "WAITING_RESPONSE", "WAITING_ACTION"}
               THEN [Answer(s, conn[o].cid, FALSE) EXCEPT !.conn[o].st = "REJECTED"]
               ELSE CloseListener(s, conn[o].cid, FALSE, FALSE))

\* CLIENT_EVENT_CONNECTION_ACCEPTED
ConnectionAccepted(c) ==
    /\ lsn[c].st = "passed"
    /\ LET o == byClient[c]
           s == [State EXCEPT !.lsn[c].st = "open"]
       IN  Becomes(IF o = NON THEN s
                   ELSE IF conn[o].st # "WAITING_ACCEPT" THEN CloseClientSideConnection(s, o, FALSE, TRUE)
                   ELSE TurnRead([s EXCEPT !.conn[o].st = "CONNECTED"], c, TRUE))

\* The client closes, a deferred or asynchronous close ends, or a refusal is delivered.
ClientClosed(c) ==
    /\ lsn[c].st \notin {"none", "closed"}
    /\ lsn[c].st = "flushing" => ~lsn[c].unsent
    /\ Becomes(OnClientClosed(State, c))

\* CLIENT_EVENT_DATA_SENT: what was queued for the client has reached it.
ClientDataSent(c) ==
    /\ lsn[c].unsent
    /\ Becomes([State EXCEPT !.lsn[c].unsent = FALSE])

\* pass_through_domain_lookup on an outgoing packet: what to do with it and, when the
\* routing has to change, the new action (TDLA_BLOCK is compiled out).
DomainLookup(r) ==
    {<<"pass", "default">>, <<"more", "default">>, <<"done", "default">>,
     <<"shutdown", VpnModeToAction>>, <<"shutdown", InvertAction(VpnModeToAction)>>}
    \cup (IF r.proto = "udp" THEN {<<"drop", "default">>} ELSE {})

\* A slip of it: the packet overtakes the ones that are buffered.
SendPacket_overtakes(s, o, c, k, take) ==
    LET t == Sent([s EXCEPT !.conn[o] = [@ EXCEPT !.first = FALSE, !.fakec = FALSE]], o, k)
    IN  IF ~take THEN TurnRead(t, c, FALSE)
        ELSE [t EXCEPT !.wire[c] = Append(@, s.lsn[c].pos), !.lsn[c].pos = @ + 1]

\* The packet is handed to the upstream (or waits behind the buffered ones).
SendPacket(s, o, c, k, take) ==
    LET n == Len(s.conn[o].buf)
        t == Sent([s EXCEPT !.conn[o] = [@ EXCEPT !.first = FALSE, !.fakec = FALSE]], o, k)
    IN  IF k < n THEN TurnRead(t, c, FALSE)
        ELSE IF ~take THEN TurnRead(t, c, FALSE)
        ELSE [t EXCEPT !.wire[c] = Append(@, s.lsn[c].pos), !.lsn[c].pos = @ + 1]

Consume(s, c) == [s EXCEPT !.lsn[c].pos = @ + 1]
Migrate(s, o, c, u) ==
    IF CanMigrate(s, u) THEN InitiateConnectionMigration(s, o, u, s.lsn[c].pos) ELSE MigrationFailed(s, o)

\* CLIENT_EVENT_READ, once the domain lookup lets the packet pass.
SendOn(s, o, c) ==
    LET r == s.conn[o]
        plain == [r EXCEPT !.fakec = FALSE, !.suspect = FALSE]
    IN  IF r.fakec
        THEN Becomes(Migrate([s EXCEPT !.conn[o] = plain], o, c, SelectUpstream("default", plain)))
        ELSE CASE r.st = "CONNECTED" ->
                    \/ Becomes(CloseListener(s, c, FALSE, TRUE))     \* a negative result of send
                    \/ /\ r.up # "fake"
                       /\ \E k \in 0..Len(r.buf), take \in BOOLEAN : Becomes(SendPacket(s, o, c, k, take))
               [] r.st = "CONNECTED_MIGRATING" /\ r.proto = "udp" ->
                    Becomes(Consume([s EXCEPT !.conn[o] = [r EXCEPT !.buf = Append(@, s.lsn[c].pos), !.first = FALSE]], c))
               [] OTHER -> Becomes(CloseListener(s, c, FALSE, TRUE))

\* CLIENT_EVENT_READ
ClientRead(c) ==
    LET o == byClient[c]
        r == conn[o]
        pkt == lsn[c].pos
        plain == [State EXCEPT !.conn[o].looking = FALSE]
    IN
    /\ lsn[c].st = "open" /\ lsn[c].reads /\ pkt <= MaxPkt
    /\ o # NON
    /\ IF ~r.looking THEN SendOn(State, o, c)
       ELSE \E l \in DomainLookup(r) :
            CASE l[1] = "done" -> SendOn(plain, o, c)
              [] l[1] = "pass" -> SendOn(State, o, c)
              [] l[1] = "drop" -> Becomes(Consume(State, c))
              [] l[1] = "more" ->
                    IF r.tries < MaxLookupAttempts
                    THEN Becomes(Consume([State EXCEPT !.conn[o] = [r EXCEPT !.tries = @ + 1, !.buf = Append(@, pkt)]], c))
                    ELSE SendOn(State, o, c)
              [] l[1] = "shutdown" /\ ~r.first ->
                    Becomes(CloseAsync(TurnRead(plain, c, FALSE), r.up, r.sid))
              [] OTHER -> Becomes(LET m == Migrate(plain, o, c, UpstreamOf(l[2]))
                                  IN  IF m.conn[o].st = "CONNECTED_MIGRATING"
                                      THEN [m EXCEPT !.conn[o].fakec = FALSE] ELSE m)

\* send_buffered_data, run as the task of schedule_send_buffered_data
SendBufferedData(o) ==
    /\ conn[o] # NON /\ conn[o].sending
    /\ \E k \in 0..Len(conn[o].buf) :
         LET s == [State EXCEPT !.conn[o].sending = FALSE]
         IN  Becomes(IF conn[o].cid = NON \/ conn[o].up \in {NON, "fake"} \/ byClient[conn[o].cid] # o
                     THEN s
                     ELSE TurnRead(Sent(s, o, k), conn[o].cid, k = Len(conn[o].buf)))

\* Tunnel::reset_connection and reset_connections
ResetConnections ==
    \E cs \in SUBSET Cids \ {{}} : /\ \A c \in cs : byClient[c] # NON
                                   /\ Becomes(CloseEach(State, cs))

-----------------------------------------------------------------------------
(* Server side events: Tunnel::upstream_handler.                           *)

\* SERVER_EVENT_CONNECTION_OPENED, state CONNS_WAITING_RESPONSE_MIGRATING: the connection
\* o takes the client id over from src; the buffers of UDP connections are swapped.
TakeOver(s, o, src) ==
    LET r == s.conn[o]
        q == s.conn[src]
        buf == IF r.proto = "udp" THEN q.buf ELSE r.buf
        old == [q EXCEPT !.cid = NON, !.buf = IF r.proto = "udp" THEN r.buf ELSE @]
        new == [r EXCEPT !.cid = r.mig, !.st = "CONNECTED", !.mig = NON, !.buf = buf, !.sending = buf # <<>>]
    IN  [s EXCEPT !.conn[src] = old, !.conn[o] = new, !.byClient[r.mig] = o]

SwitchUpstream(s, o, x) ==
    LET r == s.conn[o]
        src == s.byClient[r.mig]
        q == s.conn[src]
        t == TakeOver(s, o, src)
        v == IF q.up = NON THEN t ELSE CloseNow(t, q.up, q.sid)
    IN  IF src = NON THEN CloseAsync(s, r.up, x)
        ELSE IF v.conn[o].buf # <<>> THEN v
        ELSE TurnRead(v, r.mig, TRUE)

OnConnectionOpened(s, u, x) ==
    LET o == s.byServer[x] IN
    IF o = NON THEN CloseAsync(s, u, x)
    ELSE CASE s.conn[o].st = "WAITING_RESPONSE" ->
                 Answer([s EXCEPT !.conn[o].st = "WAITING_ACCEPT"], s.conn[o].cid, TRUE)
           [] s.conn[o].st = "WAITING_RESPONSE_MIGRATING" -> SwitchUpstream(s, o, x)
           [] OTHER -> CloseAsync(s, u, x)

\* SERVER_EVENT_ERROR of one connection
OnConnectionError(s, u, x) ==
    LET o == s.byServer[x]
        r == s.conn[o]
    IN  IF o = NON THEN s
        ELSE IF r.st = "WAITING_RESPONSE_MIGRATING"
        THEN LET src == s.byClient[r.mig]
                 t == IF src = NON THEN s ELSE CloseAsync(s, u, s.conn[src].sid)
             IN  CloseAsync(t, r.up, x)
        ELSE IF r.cid # NON /\ s.byClient[r.cid] # NON
        THEN CloseClientSideConnection([s EXCEPT !.byServer[x] = NON], o, FALSE, FALSE)
        ELSE DestroyConnection(s, o)

UpstreamOpened(x) ==
    /\ ups[x].st \in {"opening", "aborting"}
    /\ ups[x].u = "endpoint" => ep = "on"
    /\ Becomes(OnConnectionOpened(
                 [State EXCEPT !.ups[x].st = IF @ = "opening" THEN "open" ELSE "closing"], ups[x].u, x))

\* The fake upstream closes only what it was asked to close.
UpstreamClosed(x) ==
    /\ ups[x].st \in {"opening", "aborting", "open", "closing"}
    /\ ups[x].u = "fake" => ups[x].st = "closing"
    /\ Becomes(OnConnectionClosed([State EXCEPT !.ups[x].st = "gone"], x))

UpstreamError(x) ==
    /\ ups[x].st \in {"opening", "aborting", "open", "closing"}
    /\ ups[x].u # "fake"
    /\ Becomes(OnConnectionError([State EXCEPT !.ups[x].st = "gone"], ups[x].u, x))

\* SERVER_EVENT_READ: the domain may be found in the server's data too, and the
\* listener may refuse the data, which makes the upstream close the connection.
UpstreamRead(x) ==
    LET o == byServer[x] IN
    /\ ups[x].st = "open" /\ ups[x].u # "fake" /\ o # NON
    /\ conn[o].cid # NON /\ byClient[conn[o].cid] = o
    /\ \/ /\ conn[o].looking
          /\ \/ Becomes([State EXCEPT !.conn[o].looking = FALSE])
             \/ Becomes(CloseClientSideConnection(State, o, TRUE, FALSE))
       \/ Becomes([State EXCEPT !.lsn[conn[o].cid].unsent = @ \/ (conn[o].proto = "tcp" /\ lsn[conn[o].cid].st = "open")])
       \/ Becomes([State EXCEPT !.ups[x].st = "closing"])

\* SERVER_EVENT_DATA_SENT; on: the upstream takes more (available_to_send).
UpstreamDataSent(x) ==
    LET o == byServer[x] IN
    /\ ups[x].st = "open" /\ ups[x].u # "fake" /\ o # NON
    /\ conn[o].st = "CONNECTED" /\ conn[o].cid # NON
    /\ \E on \in BOOLEAN :
         Becomes([TurnRead(State, conn[o].cid, on) EXCEPT !.conn[o].sending = conn[o].buf # <<>>])

EndpointIdle == \A x \in Sids : ups[x].u = "endpoint" => ups[x].st = "gone"

\* The endpoint's session: SERVER_EVENT_SESSION_OPENED, SERVER_EVENT_SESSION_CLOSED
\* (the upstream has reported its connections before) and the disconnection of the
\* client, on_before_endpoint_disconnect to on_after_endpoint_disconnect.
SessionOpening == ep = "off" /\ Becomes([State EXCEPT !.ep = "opening"])
SessionOpened == ep = "opening" /\ Becomes([State EXCEPT !.ep = "on"])
SessionClosed ==
    /\ ep = "on" /\ EndpointIdle
    /\ LET cs == {c \in Cids : byClient[c] # NON /\ conn[byClient[c]].up = "endpoint"}
           s == [State EXCEPT !.ep = "lost",
                   !.conn = [o \in Objs |-> IF \E c \in cs : byClient[c] = o
                                            THEN [conn[o] EXCEPT !.closed = TRUE] ELSE conn[o]]]
       IN  Becomes(CloseEach(s, cs))
\* A session that never opened ends without an event to the tunnel.
SessionFailed == ep = "opening" /\ EndpointIdle /\ Becomes([State EXCEPT !.ep = "off"])
EndpointDisconnect ==
    /\ ep \in {"on", "lost"}
    /\ LET s == [CloseEach(State, Cids) EXCEPT !.ep = "closing"] IN Becomes(s)
AfterEndpointDisconnect ==
    /\ ep = "closing" /\ EndpointIdle
    /\ Becomes([State EXCEPT !.ep = "off",
                  !.ups = [x \in Sids |-> IF ups[x] = [u |-> "fake", st |-> "opening"]
                                          THEN [ups[x] EXCEPT !.st = "closing"] ELSE ups[x]],
                  !.lsn = [c \in Cids |-> IF byClient[c] # NON /\ conn[byClient[c]].up = "endpoint"
                                          THEN [lsn[c] EXCEPT !.reads = FALSE] ELSE lsn[c]],
                  !.conn = [o \in Objs |-> IF conn[o] # NON /\ conn[o].up = "endpoint"
                                           /\ \E c \in Cids : byClient[c] = o
                                           THEN [conn[o] EXCEPT !.closed = TRUE] ELSE conn[o]]])

Next ==
    \/ \E c \in Cids : \/ ConnectRequest(c) \/ AppCompletes(c) \/ DestinationResolved(c)
                       \/ ConnectionAccepted(c) \/ ClientClosed(c) \/ ClientDataSent(c) \/ ClientRead(c)
    \/ \E o \in Objs : CompleteConnectRequestTask(o) \/ SendBufferedData(o)
    \/ \E x \in Sids : \/ UpstreamOpened(x) \/ UpstreamClosed(x) \/ UpstreamError(x)
                       \/ UpstreamRead(x) \/ UpstreamDataSent(x)
    \/ ResetConnections
    \/ SessionOpening \/ SessionOpened \/ SessionClosed \/ SessionFailed
    \/ EndpointDisconnect \/ AfterEndpointDisconnect

\* The application completes each request, the resolver answers each query, the loop
\* runs each task, and the bypass, fake and DNS upstreams end each connection they were
\* asked to open or close: by a task, or by the timeout of a socket (direct_upstream.cpp).
\* Nothing of the kind is known of the endpoint: an open session has no timeout
\* (http2_upstream.cpp, net_handler), and none of its streams has.
UpstreamResult(x) == /\ ups[x].u # "endpoint" /\ ups[x].st \in {"opening", "aborting", "closing"}
                     /\ UpstreamOpened(x) \/ UpstreamClosed(x) \/ UpstreamError(x)
Fairness ==
    /\ \A c \in Cids : /\ WF_vars(AppCompletes(c)) /\ WF_vars(DestinationResolved(c))
                       /\ WF_vars(lsn[c].st \in {"rejected", "closing", "flushing"} /\ ClientClosed(c))
                       /\ WF_vars(ClientDataSent(c))
    /\ \A o \in Objs : WF_vars(CompleteConnectRequestTask(o)) /\ WF_vars(SendBufferedData(o))
    /\ \A x \in Sids : WF_vars(UpstreamResult(x))

Spec == Init /\ [][Next]_vars /\ Fairness

-----------------------------------------------------------------------------
(* Properties.                                                             *)

Reachable(o) == (\E c \in Cids : byClient[c] = o) \/ (\E x \in Sids : byServer[x] = o)

\* The two tables and the connections agree: an entry names a live connection that
\* carries the id it is filed under, and a live connection (the source of a migration
\* excepted) is in one of the tables, so that a later event can find and delete it.
TablesAgree ==
    /\ \A c \in Cids : byClient[c] # NON => conn[byClient[c]] # NON /\ conn[byClient[c]].cid = c
    /\ \A x \in Sids : byServer[x] # NON => conn[byServer[x]] # NON /\ conn[byServer[x]].sid = x
    /\ \A o \in Objs : conn[o] # NON /\ conn[o].st # "CONNECTED_MIGRATING" => Reachable(o)

\* "will be deleted in connection closed event" (close_client_side_connection): every
\* connection stays in one of the tables.  A connection whose server side has gone while
\* it migrates loses its client id to the new one and is in neither.
ClosedIsDeleted == \A o \in Objs : conn[o] # NON => Reachable(o)

\* SERVER_EVENT_CONNECTION_OPENED finds its connection (the handler asserts it): what
\* an upstream still has to open is filed, on that upstream.
OpenedKnown ==
    \A x \in Sids : ups[x].st \in {"opening", "aborting"} =>
        byServer[x] # NON /\ conn[byServer[x]].up = ups[x].u

\* A client connection that is established is backed by a server connection until the
\* listener has been told to close it: no client is left talking to nobody.
OpenIsBacked ==
    \A c \in Cids : lsn[c].st = "open" /\ byClient[c] # NON =>
        LET r == conn[byClient[c]] IN r.sid # NON /\ byServer[r.sid] = byClient[c]

\* What a TCP client has sent is, in order and without a gap, on the wire or in the
\* buffer that the next upstream will drain, also while the connection migrates.
BytesInOrder ==
    \A c \in Cids : lsn[c].st = "open" /\ byClient[c] # NON =>
        LET o == byClient[c]
            held == IF conn[o].st = "CONNECTED_MIGRATING"
                    THEN {conn[x].buf : x \in {y \in Sids : conn[y] # NON /\ conn[y].mig = c}}
                    ELSE {conn[o].buf}
        IN  conn[o].proto = "tcp" =>
              \A b \in held : wire[c] \o b = [i \in 1..(lsn[c].pos - 1) |-> i]

\* FakeUpstream::send asserts that it is never called: an established connection of
\* the fake upstream that may read still carries CONNF_FAKE_CONNECTION.
FakeNeverSends ==
    \A c \in Cids : byClient[c] # NON /\ lsn[c].st = "open" /\ lsn[c].reads =>
        LET r == conn[byClient[c]] IN r.up = "fake" /\ r.st = "CONNECTED" => r.fakec

\* What the upstreams report open the tunnel knows, and what is open to the client an upstream backs; the
\* fake one only until the client's first packet moves the connection away.
OpenOnBothSides == OpenedKnown /\ OpenIsBacked /\ FakeNeverSends

\* The connection was handed to the endpoint, which has not answered yet.
AtEndpoint(c) ==
    LET o == byClient[c] IN
    o # NON /\ conn[o].sid # NON /\ ups[conn[o].sid] = [u |-> "endpoint", st |-> "opening"]

\* Every connect request is answered or closed, whichever of the application, the
\* resolver, the upstream, a reset and a disconnection gets to it first, or it is at the
\* endpoint, which may keep it waiting: one that was taken from there is answered, too.
RequestAnswered == \A c \in Cids : lsn[c].st = "asked" ~> (lsn[c].st # "asked" \/ AtEndpoint(c))

\* A migration ends: the client's connection is switched or closed
\* (core/test/test_tunnel.cpp, MigrationTest.ConnectionFailed).
Migrating(c) == byClient[c] # NON /\ conn[byClient[c]].st = "CONNECTED_MIGRATING"
MigrationEnds == \A c \in Cids : Migrating(c) ~> ~Migrating(c)
=============================================================================
