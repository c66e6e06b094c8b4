------------------------------- MODULE WinTunnel -------------------------------
(***************************************************************************)
(* The operating system tunnel on Windows: VpnWinTunnel brings an adapter, *)
(* its DNS, its routes and its firewall up step by step                    *)
(* (net/src/os_tunnel_win.cpp), any step of which may fail; a token in the *)
(* network manager (net/src/network_manager.cpp) tells the threads that    *)
(* open sockets that a tunnel captures the traffic. A new tunnel may come  *)
(* up while the one before is being taken down.                            *)
(***************************************************************************)
EXTENDS Naturals, FiniteSets

CONSTANTS
    Tunnels,    \* the objects that may exist at a time
    TokenMod,   \* VpnTunnelActivityToken counts modulo this
    Interfaces  \* the indices of the outbound interface, 0 being none

\* The counter has more values than there are tunnels at a time: in the code it has 2^64.
ASSUME TokensAssumption == IsFiniteSet(Tunnels) /\ TokenMod \in Nat /\ Cardinality(Tunnels) < TokenMod

VARIABLES
    tunnel,     \* the VpnWinTunnel objects
    tokens,     \* tunnel_activity_tokens
    nextToken,  \* next_tunnel_activity_token
    outbound,   \* outbound_interface
    wsock       \* the socket that was protected last

winVars == <<tunnel, tokens, nextToken, outbound, wsock>>

\* st: the object's next step; adapter, session: the handles; token: m_tunnel_activity_token; dns: the
\* name servers of the adapter; fw: the conditions of m_firewall; routed: destinations with a route
\* through the adapter.
NoTunnel == [st |-> "none", adapter |-> FALSE, session |-> FALSE, token |-> 0, dns |-> FALSE, fw |-> {}, routed |-> {}]

Init ==
    /\ tunnel = [t \in Tunnels |-> NoTunnel]
    /\ tokens = {} /\ nextToken = 1 /\ outbound = 0
    /\ wsock = [result |-> "none", captured |-> FALSE]

-----------------------------------------------------------------------------
\* network_manager.cpp

\* A slip: a token that somebody holds may be handed out again.
FreeTokens_any == (0 .. TokenMod - 1) \ {0}

\* The counter skips the invalid token and those in use.
FreeTokens == (0 .. TokenMod - 1) \ ({0} \cup tokens)

\* vpn_network_manager_acquire_tunnel_activity: the first free one that the counter meets
AcquiredToken ==
    LET Distance(k) == (k + TokenMod - nextToken) % TokenMod
    IN  CHOOSE k \in FreeTokens : \A j \in FreeTokens : Distance(k) <= Distance(j)

\* vpn_network_manager_release_tunnel_activity by clear_tunnel_active
ReleasedTokens(t) == tokens \ {tunnel[t].token}

\* vpn_network_manager_get_tunnel_active
TunnelActive == tokens # {}

\* vpn_network_manager_set_outbound_interface, by the network monitor
SetOutboundInterface ==
    /\ outbound' \in Interfaces \ {outbound}
    /\ UNCHANGED <<tunnel, tokens, nextToken, wsock>>

-----------------------------------------------------------------------------
\* init

At(t, st) == tunnel[t].st = st

\* The step ends and the object goes on to the next one, or init fails.
Then(t, rec) == tunnel' = [tunnel EXCEPT ![t] = rec]
Fails(t) == Then(t, [tunnel[t] EXCEPT !.st = "failed"])

Settled == UNCHANGED <<tokens, nextToken, outbound, wsock>>

\* make_vpn_tunnel, initialize_wintun and create_wintun_adapter
CreateAdapter(t) ==
    /\ At(t, "none") /\ Settled
    /\ \/ Then(t, [NoTunnel EXCEPT !.st = "session", !.adapter = TRUE])
       \/ Then(t, [NoTunnel EXCEPT !.st = "failed"])

\* The event, the addresses and WintunStartSession
CreateSession(t) ==
    /\ At(t, "session") /\ Settled
    /\ Then(t, [tunnel[t] EXCEPT !.st = "interface", !.session = TRUE]) \/ Fails(t)

SetupInterface(t) ==
    /\ At(t, "interface") /\ Settled
    /\ Then(t, [tunnel[t] EXCEPT !.st = "mark"]) \/ Fails(t)

MarkTunnelActive(t) ==
    /\ At(t, "mark")
    /\ tokens' = tokens \cup {AcquiredToken} /\ nextToken' = (AcquiredToken + 1) % TokenMod
    /\ Then(t, [tunnel[t] EXCEPT !.st = "dns", !.token = AcquiredToken])
    /\ UNCHANGED <<outbound, wsock>>

\* setup_dns: the name servers of the adapter and of its IPv6 side, either may fail,
SetDnsServers(t) ==
    /\ At(t, "dns") /\ Settled
    /\ Then(t, [tunnel[t] EXCEPT !.st = "restrict", !.dns = TRUE]) \/ Fails(t)

\* then DNS traffic is restricted to the tunnel's destinations,
RestrictDns(t) ==
    /\ At(t, "restrict") /\ Settled
    /\ Then(t, [tunnel[t] EXCEPT !.st = "dnsroutes", !.fw = @ \cup {"dns"}]) \/ Fails(t)

\* then the servers get routes.
AddDnsRoutes(t) ==
    /\ At(t, "dnsroutes") /\ Settled
    /\ \/ Then(t, [tunnel[t] EXCEPT !.st = "ipv6", !.routed = @ \cup {"dns"}])
       \/ \E part \in SUBSET {"dns"} : Then(t, [tunnel[t] EXCEPT !.st = "failed", !.routed = @ \cup part])

\* block_ipv6, when configured
BlockIpv6(t) ==
    /\ At(t, "ipv6") /\ Settled
    /\ \/ \E block \in SUBSET {"ipv6"} : Then(t, [tunnel[t] EXCEPT !.st = "routes", !.fw = @ \cup block])
       \/ Fails(t)

\* setup_routes: a route that cannot be added is tried in halves; those added before a failure remain.
SetupRoutes(t) ==
    /\ At(t, "routes") /\ Settled
    /\ \/ Then(t, [tunnel[t] EXCEPT !.st = "block", !.routed = @ \cup {"v4", "v6"}])
       \/ \E part \in {{}, {"v4"}, {"v4", "v6"}} :
             Then(t, [tunnel[t] EXCEPT !.st = "failed", !.routed = @ \cup part])

\* block_untunneled, with the kill switch
BlockUntunneled(t) ==
    /\ At(t, "block") /\ Settled
    /\ \/ \E block \in SUBSET {"untunneled"} : Then(t, [tunnel[t] EXCEPT !.st = "up", !.fw = @ \cup block])
       \/ Fails(t)

-----------------------------------------------------------------------------
\* The end

\* close_wintun, in deinit() or in the destructor: with the adapter its routes and servers go.
CloseWintun(t) ==
    /\ tunnel[t].st \in {"up", "failed"} /\ Settled
    /\ Then(t, [tunnel[t] EXCEPT !.st = "closed", !.adapter = FALSE, !.session = FALSE, !.dns = FALSE, !.routed = {}])

\* clear_tunnel_active, next in both
ClearTunnelActive(t) ==
    /\ At(t, "closed")
    /\ tokens' = ReleasedTokens(t)
    /\ Then(t, [tunnel[t] EXCEPT !.st = "deinit", !.token = 0])
    /\ UNCHANGED <<nextToken, outbound, wsock>>

\* The destructor: the members go last, the firewall with its conditions among them.
Destroy(t) ==
    /\ At(t, "deinit") /\ Settled
    /\ Then(t, NoTunnel)

-----------------------------------------------------------------------------
\* vpn_win_socket_protect on any thread: without an outbound interface the socket stays unbound, which
\* is refused while a tunnel is active; else it is bound by its address, or by the interface.

Captures == \E t \in Tunnels : tunnel[t].routed # {}

ProtectSocket ==
    /\ wsock' \in [result : IF outbound = 0 THEN (IF TunnelActive THEN {"refused"} ELSE {"unbound"})
                            ELSE {"bound", "refused"},
                   captured : {Captures}]
    /\ UNCHANGED <<tunnel, tokens, nextToken, outbound>>

Next ==
    \/ SetOutboundInterface
    \/ ProtectSocket
    \/ \E t \in Tunnels :
         \/ CreateAdapter(t)
         \/ CreateSession(t)
         \/ SetupInterface(t)
         \/ MarkTunnelActive(t)
         \/ SetDnsServers(t)
         \/ RestrictDns(t)
         \/ AddDnsRoutes(t)
         \/ BlockIpv6(t)
         \/ SetupRoutes(t)
         \/ BlockUntunneled(t)
         \/ CloseWintun(t)
         \/ ClearTunnelActive(t)
         \/ Destroy(t)

Spec == Init /\ [][Next]_winVars

-----------------------------------------------------------------------------
\* Properties

\* A socket of the endpoint's connection is never left unbound by the call that protects it while any
\* route leads into a tunnel (a socket that was left so before a tunnel came up is not the subject), in
\* whatever order tunnels come up, fail, overlap and go, and although the token counter wraps: it would
\* be carried by the tunnel it carries. And no token outlives its tunnel: every later socket without an
\* interface would be refused.
UnboundNeverCaptured ==
    /\ ~(wsock.result = "unbound" /\ wsock.captured)
    /\ tokens \subseteq {tunnel[t].token : t \in Tunnels}
=============================================================================
