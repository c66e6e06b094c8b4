------------------------------- MODULE DnsProxy -------------------------------
(***************************************************************************)
(* The way of a DNS request through a proxy: DnsHandler keeps which        *)
(* connection each request id belongs to (core/src/dns_handler.cpp),       *)
(* DnsClient sends the requests to the proxy over UDP or TCP               *)
(* (core/src/dns_client.cpp), and the proxy of the system servers is       *)
(* restarted whenever another thread sets new ones                         *)
(* (net/src/dns_manager.cpp). One client stands for any of the three, the  *)
(* user's and those of the system's IPv4 and IPv6 servers: they share      *)
(* their code and nothing else. Responses are whole messages.              *)
(***************************************************************************)
EXTENDS Naturals, FiniteSets

CONSTANTS
    IdMod,          \* the request ids are counted modulo IdMod, 2^16 in the code
    MaxDnsRequests, \* bound: requests, and so deadlines
    MaxServerSets   \* bound: the times new servers are set

VARIABLES
    dns,        \* the DnsClient: see NewClient; up is FALSE when there is none
    requestIds, \* m_upstream_conn_id_by_client_id: the ids the handler waits for
    clock,      \* the deadlines given out, in their order
    manager,    \* DnsManager: the version of the servers, whether the handler subscribed and its task
    loopAt,     \* where the event loop is in DnsHandler
    used,       \* the version of the servers read last; missed: one was set unheard
    proxies     \* v4, v6: the version each system proxy runs with, if it runs; end: where their last start ended

dnsVars == <<dns, requestIds, clock, manager, loopAt, used, proxies>>

\* sent: m_original_id_by_request_id, timed: m_request_id_by_deadline, which keeps ids that were answered;
\* deferred, deferredTimed: the requests that wait for the TCP socket
NewClient == [up |-> TRUE, next |-> 0, sent |-> {}, timed |-> {}, deferred |-> {}, deferredTimed |-> {},
              tcp |-> "none", timer |-> FALSE]

NoProxies == [v4 |-> {}, v6 |-> {}, end |-> "none"]

Init ==
    /\ dns = [NewClient EXCEPT !.up = FALSE] /\ requestIds = {} /\ clock = 0
    /\ manager = [version |-> 0, subscribed |-> FALSE, task |-> FALSE]
    /\ loopAt = "off" /\ used = [version |-> 0, missed |-> FALSE] /\ proxies = NoProxies

InLoop == loopAt = "idle"
Deadline(id) == [at |-> clock + 1, id |-> id]

-----------------------------------------------------------------------------
\* DnsClient; an id that is raised as a response, empty or not, leaves the handler's map (client_handler).

\* connect_socket
Connected(c) == {[c EXCEPT !.tcp = "connecting"], [c EXCEPT !.tcp = "none"]}

\* send_request over TCP fails unless the socket is connected and may be written.
Deferred(c, id) ==
    {[t EXCEPT !.deferred = @ \cup {id}, !.deferredTimed = @ \cup {Deadline(id)}] :
     t \in IF c.tcp = "none" THEN Connected(c) ELSE {c}}
Sent(c, id) == [c EXCEPT !.sent = @ \cup {id}, !.timed = @ \cup {Deadline(id)}]

\* send, called by DnsHandler::send_request; a request whose id is in flight is dropped.
SendRequest ==
    /\ InLoop /\ dns.up /\ clock < MaxDnsRequests
    /\ LET id == dns.next
           c == [dns EXCEPT !.next = (@ + 1) % IdMod]
       IN IF id \in c.sent \cup c.deferred
          THEN dns' = c /\ UNCHANGED <<requestIds, clock>>
          ELSE /\ \E t \in {Sent(c, id)} \cup Deferred(c, id) : dns' = [t EXCEPT !.timer = TRUE]
               /\ requestIds' = requestIds \cup {id}
               /\ clock' = clock + 1
    /\ UNCHANGED <<manager, loopAt, used, proxies>>

\* send_deferred_requests in the order of the deadlines, until a write is blocked
SendDeferred(c) ==
    {LET now == {d \in c.deferredTimed : d.at <= upTo}
     IN [c EXCEPT !.deferredTimed = @ \ now, !.deferred = @ \ {d.id : d \in now},
                  !.timed = @ \cup now, !.sent = @ \cup {d.id : d \in now}] : upTo \in 0 .. clock}

\* on_connected and on_write_flush
TcpReady ==
    /\ InLoop /\ dns.up /\ dns.tcp \in {"connecting", "up"}
    /\ dns' \in SendDeferred([dns EXCEPT !.tcp = "up"])
    /\ UNCHANGED <<requestIds, clock, manager, loopAt, used, proxies>>

\* on_connected with an error fails the requests that wait.
ConnectFails ==
    /\ InLoop /\ dns.up /\ dns.tcp = "connecting"
    /\ requestIds' = requestIds \ dns.deferred
    /\ dns' = [dns EXCEPT !.tcp = "none", !.deferred = {}, !.deferredTimed = {}]
    /\ UNCHANGED <<clock, manager, loopAt, used, proxies>>

\* on_tcp_read at the end of the stream fails everything in flight, UDP requests too, and connects for the others.
TcpEnds ==
    /\ InLoop /\ dns.up /\ dns.tcp = "up"
    /\ requestIds' = requestIds \ dns.sent
    /\ LET c == [dns EXCEPT !.tcp = "none", !.sent = {}, !.timed = {}]
       IN dns' \in IF c.deferredTimed # {} THEN Connected(c) ELSE {c}
    /\ UNCHANGED <<clock, manager, loopAt, used, proxies>>

\* A response takes its id off the client; its deadline stays until the timer. One that has no request is ignored.
Answered(id) ==
    /\ InLoop /\ dns.up /\ id \in dns.sent
    /\ dns' = [dns EXCEPT !.sent = @ \ {id}]
    /\ requestIds' = requestIds \ {id}
    /\ UNCHANGED <<clock, manager, loopAt, used, proxies>>

\* on_tcp_read of a message and on_udp_read: the sockets share the ids.
TcpResponse(id) == dns.tcp = "up" /\ Answered(id)

TcpSocketHandler == TcpReady \/ ConnectFails \/ TcpEnds \/ \E id \in 0 .. IdMod - 1 : TcpResponse(id)
UdpSocketHandler == \E id \in 0 .. IdMod - 1 : Answered(id)

Rearmed_inFlight(c) == [c EXCEPT !.timer = c.timed # {}]
\* The timer is added again for the next deadline of either kind.
Rearmed(c) == [c EXCEPT !.timer = c.timed \cup c.deferredTimed # {}]

\* timer_handler; the timer may be that of a request that has failed, so that nothing has expired.
TimerHandler ==
    /\ InLoop /\ dns.up /\ dns.timer
    /\ \E now \in 0 .. clock :
        LET expired(ds) == {d.id : d \in {e \in ds : e.at <= now}} IN
        /\ dns' = Rearmed([dns EXCEPT !.timed = {d \in @ : d.at > now}, !.sent = @ \ expired(dns.timed),
                                      !.deferredTimed = {d \in @ : d.at > now},
                                      !.deferred = @ \ expired(dns.deferredTimed)])
        /\ requestIds' = requestIds \ ((expired(dns.timed) \cap dns.sent)
                                       \cup (expired(dns.deferredTimed) \cap dns.deferred))
    /\ UNCHANGED <<clock, manager, loopAt, used, proxies>>

-----------------------------------------------------------------------------
\* DnsHandler and DnsManager

\* DnsProxyAccessor::start refuses to run unbound beside an active tunnel, and may fail otherwise.
AccessorStart(active, bound) == IF active /\ ~bound THEN {FALSE} ELSE BOOLEAN

\* start_dns_proxy, and each turn of start_system_dns_proxy: the client goes with its proxy, without a response to
\* what it had. There is no new one when there are no servers of its kind.
StartClient ==
    /\ requestIds' = {}
    /\ \E active, bound \in BOOLEAN : \E ok \in AccessorStart(active, bound) : dns' = [NewClient EXCEPT !.up = ok]

\* start_system_dns_proxy reads the servers,
ReadServers == used' = [version |-> manager.version, missed |-> FALSE]

\* and restarts the proxies and their clients, IPv4 first. A failure returns at once: that of the IPv4 proxy leaves
\* the IPv6 proxy running with the servers it had.
Started(v) ==
    {[v4 |-> run.four, v6 |-> run.six, end |-> "ok"] :
     run \in {r \in [four : {{}, {v}}, six : {{}, {v}}] : r.four # {} \/ r.six # {}}}
    \cup {[v4 |-> {}, v6 |-> proxies.v6, end |-> "v4"]}
    \cup {[v4 |-> four, v6 |-> {}, end |-> "v6"] : four \in {{}, {v}}}

\* on_dns_change and on_network_change ignore the result. The client of the model is one that was restarted, the
\* user's, or that of the IPv6 proxy after a failure of the IPv4 one.
StartSystemProxy ==
    /\ loopAt = "restarting"
    /\ proxies' \in Started(used.version)
    /\ StartClient \/ UNCHANGED <<dns, requestIds>>
    /\ loopAt' = "idle"
    /\ UNCHANGED <<clock, manager, used>>

\* initialize starts the proxies, and shuts down what has started when one of them fails;
Initialize ==
    /\ loopAt = "off"
    /\ ReadServers
    /\ \/ StartClient /\ proxies' \in {p \in Started(manager.version) : p.end = "ok"} /\ loopAt' = "subscribe"
       \/ UNCHANGED <<dns, requestIds, proxies, loopAt>>
    /\ UNCHANGED <<clock, manager>>

\* then it subscribes; servers that were set in between are missed.
Subscribe ==
    /\ loopAt = "subscribe"
    /\ manager' = [manager EXCEPT !.subscribed = TRUE]
    /\ loopAt' = "idle"
    /\ UNCHANGED <<dns, requestIds, clock, used, proxies>>

\* dns_manager_set_system_servers, by the thread of the network monitor: engage_notifications submits a task
\* unless one is waiting.
SetSystemServers ==
    /\ manager.version < MaxServerSets
    /\ manager' = [manager EXCEPT !.version = @ + 1, !.task = @ \/ manager.subscribed]
    /\ used' = [used EXCEPT !.missed = @ \/ loopAt = "subscribe"]
    /\ UNCHANGED <<dns, requestIds, clock, loopAt, proxies>>

\* The task is released under the lock before the notification is called,
BeginNotification ==
    /\ InLoop /\ manager.task
    /\ manager' = [manager EXCEPT !.task = FALSE]
    /\ loopAt' = "notified"
    /\ UNCHANGED <<dns, requestIds, clock, used, proxies>>

\* on_dns_change: and the lock is free while the proxy is restarted.
OnDnsChange ==
    /\ loopAt = "notified"
    /\ ReadServers
    /\ loopAt' = "restarting"
    /\ UNCHANGED <<dns, requestIds, clock, manager, proxies>>

\* on_network_change, and update_parameters, whose servers are parameters
OnNetworkChange ==
    /\ InLoop /\ ReadServers
    /\ loopAt' = "restarting"
    /\ UNCHANGED <<dns, requestIds, clock, manager, proxies>>

UpdateParameters ==
    /\ InLoop /\ StartClient
    /\ UNCHANGED <<clock, manager, loopAt, used, proxies>>

\* shutdown
Shutdown ==
    /\ InLoop
    /\ dns' = [NewClient EXCEPT !.up = FALSE]
    /\ requestIds' = {}
    /\ manager' = [manager EXCEPT !.subscribed = FALSE, !.task = FALSE]
    /\ loopAt' = "off"
    /\ proxies' = NoProxies
    /\ UNCHANGED <<clock, used>>

Next ==
    \/ SendRequest \/ TcpSocketHandler \/ UdpSocketHandler \/ TimerHandler
    \/ Initialize \/ Subscribe \/ SetSystemServers \/ BeginNotification \/ OnDnsChange
    \/ StartSystemProxy \/ OnNetworkChange \/ UpdateParameters \/ Shutdown

Spec == Init /\ [][Next]_dnsVars

-----------------------------------------------------------------------------
\* The handler and the client have the same requests (client_handler asserts that each response has its entry,
\* send_request that each id is new), and each of them ends: it has a deadline and the timer is running, however
\* responses, the loss of the TCP socket, deferred sends and reused ids interleave.
RequestsSettle ==
    /\ requestIds = dns.sent \cup dns.deferred
    /\ dns.sent \cap dns.deferred = {}
    /\ dns.sent \subseteq {d.id : d \in dns.timed}
    /\ dns.deferred = {d.id : d \in dns.deferredTimed}
    /\ requestIds # {} => dns.timer

\* The system proxies run with the servers that were set last, or a notification is on its way: a set by another
\* thread while they are being restarted is not lost. Except the servers set while the handler subscribes, and the
\* IPv6 proxy after a restart that ended at the IPv4 one. After a restart that succeeded one of them runs.
ServersFollowed ==
    manager.subscribed /\ loopAt = "idle" /\ ~manager.task /\ ~used.missed =>
        /\ proxies.v4 \subseteq {manager.version}
        /\ proxies.end # "v4" => proxies.v6 \subseteq {manager.version}
        /\ proxies.end = "ok" => proxies.v4 \cup proxies.v6 = {manager.version}

\* Neither system proxy runs with servers that were replaced (start_system_dns_proxy says it leaves a consistent
\* state when it fails). It does not hold: when the IPv4 proxy cannot start, the IPv6 one goes on with the old ones.
NoStaleProxy ==
    manager.subscribed /\ loopAt = "idle" /\ ~manager.task /\ ~used.missed =>
        proxies.v4 \cup proxies.v6 \subseteq {manager.version}

\* on_connected asserts that nothing is in flight when the TCP socket fails to connect. It does not hold: requests
\* that went over UDP are.
NothingInFlight == [][ConnectFails => dns.sent = {} /\ dns.timed = {}]_dnsVars
=============================================================================
