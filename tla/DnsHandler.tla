------------------------------ MODULE DnsHandler ------------------------------
(***************************************************************************)
(* The two faces of DnsHandler (core/src/dns_handler.cpp): to the tunnel   *)
(* it is the upstream that takes the DNS connections, and it is a listener *)
(* that opens a connection of its own for requests that are to leave by    *)
(* the endpoint or directly. Both report to the tunnel at once or by a     *)
(* deferred task. Messages are counted, their bytes are left out.          *)
(***************************************************************************)
EXTENDS Naturals, FiniteSets

CONSTANTS
    DnsConns,       \* the upstream connections, each opened once
    MaxUnanswered,  \* bound: requests of a connection
    MaxQueued       \* MAX_UDP_QUEUE_SIZE, and CONN_MAX_BUFFERED of TCP in messages

VARIABLES
    upstreamSide,   \* of each connection: the tunnel's view, and the members of m_connections
    opening,        \* m_new_connections
    closing,        \* m_closed_connections, of the upstream
    listenerSide,   \* the listener's connection for each upstream connection
    toClose, toSend,\* m_closed_connections, m_connections_to_send of the listener
    stray           \* a read was raised on a connection the tunnel had closed

handlerVars == <<upstreamSide, opening, closing, listenerSide, toClose, toSend, stray>>

\* tunnel: "none", "opening", "open", "closing" (the tunnel waits for the report) or "gone"
NoUpstream == [tunnel |-> "none", known |-> FALSE, udp |-> FALSE, unanswered |-> 0, proxied |-> 0]
\* tunnel: "none", "asked", "open" or "gone"; it stays in the tables when the tunnel has closed it.
NoListener == [tunnel |-> "none", reads |-> FALSE, kept |-> 0]

Init ==
    /\ upstreamSide = [u \in DnsConns |-> NoUpstream] /\ opening = {} /\ closing = {}
    /\ listenerSide = [u \in DnsConns |-> NoListener] /\ toClose = {} /\ toSend = {}
    /\ stray = FALSE

-----------------------------------------------------------------------------
\* The listener

\* CLIENT_EVENT_CONNECTION_CLOSED; nothing is erased.
ListenerClosed(l) == [l EXCEPT !.tunnel = IF @ = "none" THEN "none" ELSE "gone"]

\* raise_read of TCP, each result with what is returned: the tunnel takes all of it, or a part and turns the reading
\* off, or refuses it; FALSE is returned when it is refused and when too much is left. One that is closed takes nothing.
RaiseRead(l) ==
    IF ~l.reads \/ l.kept = 0 \/ l.tunnel = "gone" THEN {<<l, TRUE>>}
    ELSE {<<[l EXCEPT !.kept = 0], TRUE>>}
         \cup {<<[l EXCEPT !.reads = FALSE, !.kept = k], k <= MaxQueued>> : k \in 0 .. l.kept}
         \cup {<<[l EXCEPT !.reads = on], FALSE>> : on \in BOOLEAN}

\* A slip: the result of raise_read is ignored.
SendAsListener_ignores(u) ==
    LET l == listenerSide[u]
    IN /\ \E r \in IF l.tunnel = "none" THEN {<<[NoListener EXCEPT !.tunnel = "asked", !.kept = 1], TRUE>>}
                   ELSE IF upstreamSide[u].udp
                   THEN {<<IF l.reads \/ l.kept >= MaxQueued THEN l ELSE [l EXCEPT !.kept = @ + 1], TRUE>>}
                   ELSE RaiseRead([l EXCEPT !.kept = @ + 1]) :
            listenerSide' = [listenerSide EXCEPT ![u] = r[1]]
       /\ stray' = (stray \/ (l.tunnel = "gone" /\ l.reads))
       /\ UNCHANGED <<opening, closing, toClose, toSend>>
\* send_as_listener: the first message asks for the connection, later ones go out at once or are kept. A TCP
\* connection whose read fails is closed by the task.
SendAsListener(u) ==
    LET l == listenerSide[u]
    IN /\ \E r \in IF l.tunnel = "none" THEN {<<[NoListener EXCEPT !.tunnel = "asked", !.kept = 1], TRUE>>}
                   ELSE IF upstreamSide[u].udp
                   THEN {<<IF l.reads \/ l.kept >= MaxQueued THEN l ELSE [l EXCEPT !.kept = @ + 1], TRUE>>}
                   ELSE RaiseRead([l EXCEPT !.kept = @ + 1]) :
            /\ listenerSide' = [listenerSide EXCEPT ![u] = r[1]]
            /\ toClose' = IF r[2] THEN toClose ELSE toClose \cup {u}
       /\ stray' = (stray \/ (l.tunnel = "gone" /\ l.reads))
       /\ UNCHANGED <<opening, closing, toSend>>

\* The connection after raise_read: close_connection at once when it has failed.
ReadOrClosed(r) == IF r[2] THEN r[1] ELSE ListenerClosed(r[1])

\* complete_connect_request; of the messages a UDP connection has kept, what the tunnel does not take is dropped.
CompleteConnectRequest(u, pass) ==
    /\ listenerSide[u].tunnel = "asked"
    /\ IF pass
       THEN LET l == [listenerSide[u] EXCEPT !.tunnel = "open", !.reads = TRUE]
            IN \E r \in IF upstreamSide[u].udp THEN {<<[l EXCEPT !.kept = 0], TRUE>>} ELSE RaiseRead(l) :
                listenerSide' = [listenerSide EXCEPT ![u] = ReadOrClosed(r)]
       ELSE listenerSide' = [listenerSide EXCEPT ![u] = ListenerClosed(@)]
    /\ UNCHANGED <<upstreamSide, opening, closing, toClose, toSend, stray>>

\* close_connection of the listener
CloseListener(u, async) ==
    /\ listenerSide[u].tunnel = "open"
    /\ IF async THEN toClose' = toClose \cup {u} /\ UNCHANGED listenerSide
       ELSE listenerSide' = [listenerSide EXCEPT ![u] = ListenerClosed(@)] /\ UNCHANGED toClose
    /\ UNCHANGED <<upstreamSide, opening, closing, toSend, stray>>

TurnRead_idle(u, on) ==
    /\ listenerSide[u].tunnel = "open"
    /\ listenerSide' = [listenerSide EXCEPT ![u].reads = on]
    /\ UNCHANGED <<upstreamSide, opening, closing, toClose, toSend, stray>>
\* turn_read: what a TCP connection has kept is sent by a task; a UDP connection keeps it.
TurnRead(u, on) ==
    /\ listenerSide[u].tunnel = "open"
    /\ listenerSide' = [listenerSide EXCEPT ![u].reads = on]
    /\ toSend' = IF ~upstreamSide[u].udp /\ ~listenerSide[u].reads /\ on /\ listenerSide[u].kept > 0
                 THEN toSend \cup {u} ELSE toSend
    /\ UNCHANGED <<upstreamSide, opening, closing, toClose, stray>>

\* on_async_task of the listener: the closes first, then the data; one that is closed is in the table still.
ListenerTask ==
    /\ toClose \cup toSend # {}
    /\ LET after(u) == IF u \in toClose THEN ListenerClosed(listenerSide[u]) ELSE listenerSide[u]
           results(u) == IF u \in toSend THEN RaiseRead(after(u)) ELSE {<<after(u), TRUE>>}
       IN \E r \in [DnsConns -> UNION {results(u) : u \in DnsConns}] :
            /\ \A u \in DnsConns : r[u] \in results(u)
            /\ listenerSide' = [u \in DnsConns |-> ReadOrClosed(r[u])]
    /\ stray' = (stray \/ \E u \in toSend : listenerSide[u].reads /\ (listenerSide[u].tunnel = "gone" \/ u \in toClose))
    /\ toClose' = {} /\ toSend' = {}
    /\ UNCHANGED <<upstreamSide, opening, closing>>

-----------------------------------------------------------------------------
\* The upstream

\* open_connection
OpenConnection(u) ==
    /\ upstreamSide[u].tunnel = "none"
    /\ \E udp \in BOOLEAN :
        upstreamSide' = [upstreamSide EXCEPT ![u] = [NoUpstream EXCEPT !.tunnel = "opening", !.known = TRUE, !.udp = udp]]
    /\ opening' = opening \cup {u}
    /\ UNCHANGED <<closing, listenerSide, toClose, toSend, stray>>

\* close_connection, reported at once or by the task
Closed(s, async) == [s EXCEPT !.known = FALSE, !.tunnel = IF async THEN "closing" ELSE "gone"]

CloseConnection_reported(u) ==
    /\ upstreamSide[u].tunnel \in {"opening", "open"}
    /\ IF u \in opening
       THEN /\ opening' = opening \ {u}
            /\ upstreamSide' = [upstreamSide EXCEPT ![u].tunnel = "closing"]
            /\ UNCHANGED <<closing, listenerSide>>
       ELSE /\ \E async \in BOOLEAN :
                /\ upstreamSide' = [upstreamSide EXCEPT ![u] = Closed(@, async)]
                /\ closing' = IF async THEN closing \cup {u} ELSE closing
                /\ listenerSide' = IF async THEN listenerSide ELSE [listenerSide EXCEPT ![u] = ListenerClosed(@)]
            /\ UNCHANGED opening
    /\ UNCHANGED <<toClose, toSend, stray>>
\* The tunnel closes a connection, the listener's connection ends with it (on_upstream_connection_closed). One that
\* is not open yet is only taken off the list: it stays in the table and its close is never reported.
CloseConnection(u) ==
    /\ upstreamSide[u].tunnel \in {"opening", "open"}
    /\ IF u \in opening
       THEN /\ opening' = opening \ {u}
            /\ upstreamSide' = [upstreamSide EXCEPT ![u].tunnel = "closing"]
            /\ UNCHANGED <<closing, listenerSide>>
       ELSE /\ \E async \in BOOLEAN :
                /\ upstreamSide' = [upstreamSide EXCEPT ![u] = Closed(@, async)]
                /\ closing' = IF async THEN closing \cup {u} ELSE closing
            /\ listenerSide' = [listenerSide EXCEPT ![u] = ListenerClosed(@)]
            /\ UNCHANGED opening
    /\ UNCHANGED <<toClose, toSend, stray>>

\* on_async_task: what was opened is reported, then what was closed.
UpstreamTask ==
    /\ opening \cup closing # {}
    /\ upstreamSide' = [u \in DnsConns |->
            IF u \in closing THEN [upstreamSide[u] EXCEPT !.tunnel = "gone"]
            ELSE IF u \in opening THEN [upstreamSide[u] EXCEPT !.tunnel = "open"] ELSE upstreamSide[u]]
    /\ opening' = {} /\ closing' = {}
    /\ UNCHANGED <<listenerSide, toClose, toSend, stray>>

\* on_dns_request: a request goes to a proxy (DnsProxy), leaves through the listener or is dropped. r: is it a
\* request, is the endpoint connected, the kill switch, a domain of the application, is it included by the
\* exclusions, is there a proxy for the user's servers, and alt_exclusions_route
OnDnsRequest(r) ==
    IF ~r.request THEN "listener"
    ELSE IF ~r.connected /\ r.killSwitch /\ ~r.appDomain THEN "drop"
    ELSE IF ~r.connected THEN IF r.alt THEN "listener" ELSE "proxy"
    ELSE IF r.included THEN IF r.client THEN "proxy" ELSE "listener"
    ELSE IF r.alt THEN "listener" ELSE "proxy"

Ways == {OnDnsRequest(r) : r \in [request : BOOLEAN, connected : BOOLEAN, killSwitch : BOOLEAN, appDomain : BOOLEAN,
                                  included : BOOLEAN, client : BOOLEAN, alt : BOOLEAN]}

\* send: a message that cannot be parsed is dropped too.
Send(u) ==
    /\ upstreamSide[u].tunnel = "open" /\ upstreamSide[u].known
    /\ upstreamSide[u].unanswered < MaxUnanswered /\ upstreamSide[u].proxied < MaxUnanswered
    /\ listenerSide[u].kept <= MaxQueued        \* bound: the code keeps any number while the reading is off
    /\ \E way \in Ways :
        /\ upstreamSide' = [upstreamSide EXCEPT ![u].unanswered = @ + IF upstreamSide[u].udp THEN 1 ELSE 0,
                                                ![u].proxied = @ + IF way = "proxy" THEN 1 ELSE 0]
        /\ IF way = "listener" THEN SendAsListener(u)
           ELSE UNCHANGED <<opening, closing, listenerSide, toClose, toSend, stray>>

\* send_response: the tunnel may not take it; a UDP connection is closed with its last request answered, a TCP
\* connection when it keeps too much. The response of a connection that is gone is dropped.
SendResponse(u, s) ==
    \/ upstreamSide' = [upstreamSide EXCEPT ![u] = s] /\ UNCHANGED listenerSide
    \/ /\ s.known /\ s.udp /\ s.unanswered > 1
       /\ upstreamSide' = [upstreamSide EXCEPT ![u] = [s EXCEPT !.unanswered = @ - 1]]
       /\ UNCHANGED listenerSide
    \/ /\ s.known /\ s.unanswered = IF s.udp THEN 1 ELSE 0
       /\ upstreamSide' = [upstreamSide EXCEPT ![u] = Closed(s, FALSE)]
       /\ listenerSide' = [listenerSide EXCEPT ![u] = ListenerClosed(@)]

\* client_handler: a proxy answers, or drops the request; send of the listener: the answer of a server
ProxyResponds(u) ==
    /\ upstreamSide[u].proxied > 0
    /\ SendResponse(u, [upstreamSide[u] EXCEPT !.proxied = @ - 1])
    /\ UNCHANGED <<opening, closing, toClose, toSend, stray>>

ServerResponds(u) ==
    /\ listenerSide[u].tunnel = "open"
    /\ SendResponse(u, upstreamSide[u])
    /\ UNCHANGED <<opening, closing, toClose, toSend, stray>>

Next ==
    \/ \E u \in DnsConns :
        \/ OpenConnection(u) \/ CloseConnection(u) \/ Send(u) \/ ProxyResponds(u) \/ ServerResponds(u)
        \/ \E b \in BOOLEAN : CompleteConnectRequest(u, b) \/ CloseListener(u, b) \/ TurnRead(u, b)
    \/ UpstreamTask \/ ListenerTask

Spec == Init /\ [][Next]_handlerVars

-----------------------------------------------------------------------------
\* The two faces stay in step: what the tunnel has open the upstream knows, the listener's connection ends with the
\* connection it serves, and a request kept while the tunnel took no data is sent once it does, unless the tunnel
\* refused it and the connection is about to be closed, however closes, responses and deferred tasks interleave
\* (close_connection, turn_read, raise_read and its callers, on_async_task).
DnsConnectionsServed ==
    \A u \in DnsConns :
        /\ upstreamSide[u].tunnel = "open" => upstreamSide[u].known
        /\ listenerSide[u].tunnel \in {"asked", "open"} => upstreamSide[u].known
        /\ listenerSide[u].tunnel = "open" /\ listenerSide[u].reads /\ listenerSide[u].kept > 0 /\ ~upstreamSide[u].udp
           => u \in toSend \cup toClose

\* No data is raised on a connection the tunnel has closed: listener_handler of the tunnel asserts it
\* (tunnel.cpp, CLIENT_EVENT_READ). The listener forgets no connection, so the next request is raised on it.
ListenerReadsOpen == ~stray
=============================================================================
