-------------------------------- MODULE Net ---------------------------------
(* The sockets and what lives on them: the SOCKS5 listener, the sockets with     *)
(* their shared timer, the pinger, the DNS resolver, the way through a DNS proxy *)
(* and the two faces of the DNS handler. They meet in the events their modules   *)
(* state: a behaviour is one of them.                                            *)
EXTENDS Naturals

CONSTANTS NON,
    TcpConns, UdpDsts, UseAuth, MaxInput, MaxPackets,
    TcpSocks, UdpSocks, MaxIds, MaxRead,
    Endpoints, Protocol, Relays, Rounds,
    MaxResolutions, RecordTypes, Capacity, IdMod, MaxDnsRequests, MaxServerSets,
    DnsConns, MaxUnanswered, MaxQueued

\* NON is no number of a subscription, the timer's own subscriber is no socket, and a relayed connection
\* is not one of a client.
ASSUME NetAssumption ==
    /\ NON \notin Nat /\ "linger" \notin TcpSocks \cup UdpSocks
    /\ TcpConns \cap (TcpConns \X UdpDsts) = {}
    /\ IdMod \in Nat \ {0}

VARIABLES part,
    st, isTcp, relays, input, reads, readable, unsent, pend, queue, task, tun, up,
    sk, tm, byFd, deadlines, lingerId, cut,
    conn, sc, tasks, timers, relaysLeft, round, direct, winner, phase, aborted, kept, freed, chosen,
    rsv, nextRes,
    dns, requestIds, clock, manager, loopAt, used, proxies,
    upstreamSide, opening, closing, listenerSide, toClose, toSend, stray

Socks == INSTANCE Socks5
Sock == INSTANCE Sockets
Ping == INSTANCE Pinger WITH relays <- relaysLeft
Resolver == INSTANCE DnsResolver
Proxy == INSTANCE DnsProxy
Handler == INSTANCE DnsHandler

socksVars == <<st, isTcp, relays, input, reads, readable, unsent, pend, queue, task, tun, up>>
sockVars == <<sk, tm, byFd, deadlines, lingerId, cut>>
pingVars == <<conn, sc, tasks, timers, relaysLeft, round, direct, winner, phase, aborted, kept, freed, chosen>>
resolverVars == <<rsv, nextRes>>
proxyVars == <<dns, requestIds, clock, manager, loopAt, used, proxies>>
handlerVars == <<upstreamSide, opening, closing, listenerSide, toClose, toSend, stray>>

netVars == <<socksVars, sockVars, pingVars>>
dnsVars == <<resolverVars, proxyVars, handlerVars>>

NetInit == /\ part \in {"socks5", "sockets", "ping", "resolver", "proxy", "handler"}
          /\ Socks!Init /\ Sock!Init /\ Ping!Init /\ Resolver!Init /\ Proxy!Init /\ Handler!Init

NetNext ==
    \/ part = "socks5" /\ Socks!Next /\ UNCHANGED <<part, sockVars, pingVars, dnsVars>>
    \/ part = "sockets" /\ Sock!Next /\ UNCHANGED <<part, socksVars, pingVars, dnsVars>>
    \/ part = "ping" /\ Ping!Next /\ UNCHANGED <<part, socksVars, sockVars, dnsVars>>
    \/ part = "resolver" /\ Resolver!Next /\ UNCHANGED <<part, netVars, proxyVars, handlerVars>>
    \/ part = "proxy" /\ Proxy!Next /\ UNCHANGED <<part, netVars, resolverVars, handlerVars>>
    \/ part = "handler" /\ Handler!Next /\ UNCHANGED <<part, netVars, resolverVars, proxyVars>>

NetSpec == NetInit /\ [][NetNext]_<<part, netVars, dnsVars>>

\* The SOCKS5 listener and the tunnel agree on every connection, and UDP packets that arrived before
\* the tunnel answered reach it; see Socks5.
SocksServed == Socks!SocksInStep /\ Socks!PendingUdpServed

\* The timer of SocketManager never calls a destroyed socket, and what a TcpSocket has read is offered
\* to its owner; see Sockets.
SocketsServed == Sock!SubscribersLive /\ Sock!InputServed

\* A ping always goes on until it has finished, and the connection it hands over is alive; see Pinger.
PingSettles == Ping!PingDriven /\ Ping!HandoffAlive

\* A resolution that is not answered can still be; see DnsResolver.
ResolutionsDriven == Resolver!ResolutionsDriven

\* The handler and the client have the same requests, each of them ends, and the proxy follows the servers
\* that other threads set; see DnsProxy.
DnsProxyServed == Proxy!RequestsSettle /\ Proxy!ServersFollowed

\* The two faces of the handler stay in step and kept requests are sent; see DnsHandler.
DnsConnectionsServed == Handler!DnsConnectionsServed

-----------------------------------------------------------------------------
\* What the repository says and its code does not do; see the README.

\* A socket with a timeout is watched by the timer of SocketManager; see Sockets.
TimedSocketWatched == Sock!TimedSocketWatched

\* The asserts of do_prepare (net/src/ping.cpp); see Pinger.
PrepareQuiet == Ping!PrepareQuiet

\* The timeout of queries covers every query; see DnsResolver.
QueryTimeoutApplied == Resolver!QueryTimeoutApplied

\* The asserts of DnsClient::on_connected (core/src/dns_client.cpp); see DnsProxy.
NothingInFlight == Proxy!NothingInFlight

\* No system proxy runs with servers that were replaced; see DnsProxy.
NoStaleProxy == Proxy!NoStaleProxy

\* No data is raised on a connection the tunnel has closed; see DnsHandler.
ListenerReadsOpen == Handler!ListenerReadsOpen
=============================================================================
