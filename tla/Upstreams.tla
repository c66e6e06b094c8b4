------------------------------ MODULE Upstreams ------------------------------
(* The rules that choose an upstream, the connectors, the multiplexers, the two  *)
(* upstreams and the buffers they keep data in. They meet only in the events     *)
(* their modules state: a behaviour is one of the seven.                         *)
EXTENDS Naturals, Sequences

CONSTANTS NON, MuxConns, PoolSize, Threshold, MaxUpstreams,
    UdpConns, AddrOf, UNONE, Prefix, MaxPayload, H2Conns, MaxRoom, MaxUnread, H3Conns, H3Room, H3Window,
    MemThreshold, MaxFileSize, MaxPush, MaxBytes,
    Tags, NamesAt, Labels, ScannablePorts, Entries, MaxEntries, NoName

ASSUME UpstreamsAssumption ==
    /\ NON \notin {"ok", "err"}
    /\ DOMAIN AddrOf = UdpConns /\ UNONE \notin UdpConns
    /\ \A c \in UdpConns : AddrOf[c] # UNONE
    /\ Prefix \in Nat \ {0, 1} /\ MaxPayload \in Nat
    /\ {MaxRoom, MaxUnread, H3Room, H3Window, MemThreshold, MaxFileSize, MaxPush, MaxBytes} \subseteq Nat

VARIABLES part,
    one, tried, delay, outcome,
    mux, asked,
    established, udps, addrTo, utasks, rc, wire, uheld, misled,
    h2, room, owner,
    h3, space, holder,
    buf, pushed, drained, lost, unread, overtaken,
    entries, mode, resolved, suspects, flow

Conn == INSTANCE Connectors
Mux == INSTANCE UpstreamMux
Udp == INSTANCE UdpMux
H2 == INSTANCE Http2Upstream
H3 == INSTANCE Http3Upstream
Buffer == INSTANCE Buffers
Filter == INSTANCE DomainFilter

\* The entries of the lists as they may be written, and the names of the hosts. A domain that is matched
\* exactly does not begin with "www." twice.
DomainEntry ==
    [list : {"", "!", "+", "^"}, kind : {"domain"}, text : Seq(Labels) \ {<<>>}, wildcard : BOOLEAN]

ASSUME FilterAssumption ==
    /\ \A e \in Entries : \/ e.kind = "malformed"
                          \/ e.kind = "address" /\ e.list \in {"", "!", "+", "^"}
                          \/ e \in DomainEntry /\ (e.wildcard \/ ~Filter!IsWww(Filter!WithoutWww(e.text)))
    /\ \A t \in Tags : \A name \in NamesAt[t] : name \in Seq(Labels) /\ name # NoName

connectorVars == <<one, tried, delay, outcome>>
muxVars == <<mux, asked>>
udpVars == <<established, udps, addrTo, utasks, rc, wire, uheld, misled>>
h2Vars == <<h2, room, owner>>
h3Vars == <<h3, space, holder>>
bufferVars == <<buf, pushed, drained, lost, unread, overtaken>>
filterVars == <<entries, mode, resolved, suspects, flow>>
keptVars == <<bufferVars, filterVars>>

upstreamVars == <<connectorVars, muxVars, udpVars, h2Vars, h3Vars>>

UpstreamsInit ==
    /\ part \in {"connectors", "mux", "udp", "h2", "h3", "buffer", "filter"}
    /\ Conn!Init /\ Mux!Init /\ Udp!Init /\ H2!Init /\ H3!Init /\ Buffer!Init /\ Filter!Init
    /\ part # "buffer" => buf.usesFile

UpstreamsNext ==
    \/ part = "connectors" /\ Conn!Next /\ UNCHANGED <<part, muxVars, udpVars, h2Vars, h3Vars, keptVars>>
    \/ part = "mux" /\ Mux!Next /\ UNCHANGED <<part, connectorVars, udpVars, h2Vars, h3Vars, keptVars>>
    \/ part = "udp" /\ Udp!Next /\ UNCHANGED <<part, connectorVars, muxVars, h2Vars, h3Vars, keptVars>>
    \/ part = "h2" /\ H2!Next /\ UNCHANGED <<part, connectorVars, muxVars, udpVars, h3Vars, keptVars>>
    \/ part = "h3" /\ H3!Next /\ UNCHANGED <<part, connectorVars, muxVars, udpVars, h2Vars, keptVars>>
    \/ part = "buffer" /\ Buffer!Next /\ UNCHANGED <<part, upstreamVars, filterVars>>
    \/ part = "filter" /\ Filter!Next /\ UNCHANGED <<part, upstreamVars, bufferVars>>

UpstreamsSpec == UpstreamsInit /\ [][UpstreamsNext]_<<part, upstreamVars, keptVars>>

\* A connector that was started reports, and reports at most one session; see Connectors.
ConnectorSettles == Conn!ConnectorSettles

\* The multiplexer, its upstreams and the tunnel agree on the connections; see UpstreamMux.
MuxInStep == Mux!MuxInStep

\* The stream of UDP packets and the table of connections stay in step; see UdpMux.
UdpMuxInStep == Udp!UdpMuxInStep

\* The tunnel and the HTTP/2 upstream have the same connections, and the data it has kept reaches the
\* client; see Http2Upstream.
H2Served == H2!H2InStep /\ H2!H2DataServed

\* The tunnel and the HTTP/3 upstream have the same connections, and the data it has kept reaches the
\* client; see Http3Upstream.
H3Served == H3!H3InStep /\ H3!H3DataServed

\* A buffer holds what was pushed and not taken, in order; see Buffers.
BufferInOrder == Buffer!BufferInOrder

\* A connection is routed as the highest ranking rule for it says, once its name is known, and is not
\* excluded before when its name could still say otherwise; see DomainFilter.
RoutesFollowRules == Filter!RoutesFollowRules

-----------------------------------------------------------------------------
\* What the repository says and its code does not do; see the README.

\* Every connection the tunnel holds is served by an upstream or waits for one; see UpstreamMux.
HeldIsServed == Mux!HeldIsServed

\* The H3 client is never destroyed by one of its own callbacks; see Http3Upstream.
H3ClientAlive == H3!H3ClientAlive

\* A packet goes to the connection of its address or to none; see UdpMux.
NeverMisled == Udp!NeverMisled

\* A file that could not be read once breaks no stream; see Buffers.
OrderSurvivesFailedRead == Buffer!OrderSurvivesFailedRead

\* The stream of an open connection has no gap; see Buffers.
NothingLost == Buffer!NothingLost

\* A rule of the user for a domain outranks the rules of groups; see DomainFilter.
UserDomainOutranksGroup == Filter!UserDomainOutranksGroup

\* A connection to a name follows the rules; see DomainFilter.
NamedRoutesFollowRules == Filter!NamedRoutesFollowRules

\* A connection is not taken for another one to the same address; see DomainFilter.
RememberedNameRight == Filter!RememberedNameRight
=============================================================================
