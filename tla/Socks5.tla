------------------------------- MODULE Socks5 -------------------------------
(***************************************************************************)
(* The SOCKS5 listener (net/src/socks5_listener.cpp) behind SocksListener  *)
(* (core/src/socks_listener.cpp): the negotiation on a client's TCP        *)
(* connection, UDP associations with their relayed connections, and what   *)
(* the tunnel is told of them. The socket underneath keeps what arrives    *)
(* and raises a readable event for it while reads are on; replies are      *)
(* buffered writes. A message that is not complete changes nothing and is  *)
(* not represented; the tunnel is the environment.                         *)
(***************************************************************************)
EXTENDS Naturals, Sequences

CONSTANTS
    TcpConns,       \* connections of clients to the listener
    UdpDsts,        \* destinations of the packets of an association
    UseAuth,        \* a username is configured
    MaxInput,       \* bound: messages of a client not yet taken
    MaxPackets      \* bound: packets kept for a relayed connection

VARIABLES
    st,         \* Connection::state; "none" for a connection not in the table
    isTcp,      \* the TCP connections whose proto is IPPROTO_TCP
    relays,     \* udp_relays: the TCP connections that have one
    input,      \* what a client has sent and the listener has not taken
    reads,      \* EV_READ is on
    readable,   \* an event READABLE is on its way
    unsent,     \* a write is not flushed
    pend,       \* pending_udp_packets, as a number
    queue,      \* conns_with_pending_udp
    task,       \* async_task is submitted
    tun,        \* the tunnel's view of a connection
    up

socksVars == <<st, isTcp, relays, input, reads, readable, unsent, pend, queue, task, tun, up>>

UdpConns == TcpConns \X UdpDsts
Conns == TcpConns \cup UdpConns
Messages == {"hello", "login", "badlogin", "connect", "associate", "malformed", "data", "eof"}

Init == /\ st = [c \in Conns |-> "none"]
        /\ isTcp = {} /\ relays = {} /\ reads = {} /\ readable = {} /\ unsent = {} /\ queue = {}
        /\ input = [t \in TcpConns |-> <<>>]
        /\ pend = [u \in UdpConns |-> 0]
        /\ tun = [c \in Conns |-> "unknown"]
        /\ task = FALSE /\ up = TRUE

-----------------------------------------------------------------------------

\* destroy_connection of the connections in cs, after SOCKS5L_EVENT_CONNECTION_CLOSED.
Destroy(cs) ==
    /\ st' = [c \in Conns |-> IF c \in cs THEN "none" ELSE st[c]]
    /\ tun' = [c \in Conns |-> IF c \in cs /\ tun[c] # "unknown" THEN "closed" ELSE tun[c]]
    /\ pend' = [u \in UdpConns |-> IF u \in cs THEN 0 ELSE pend[u]]
    /\ input' = [t \in TcpConns |-> IF t \in cs THEN <<>> ELSE input[t]]
    /\ isTcp' = isTcp \ cs /\ reads' = reads \ cs /\ readable' = readable \ cs /\ unsent' = unsent \ cs

Relayed(t) == {u \in UdpConns : u[1] = t /\ st[u] # "none"}

\* terminate_udp_association: the relayed connections are closed with it.
TerminateUdpAssociation(t) == Destroy({t} \cup Relayed(t)) /\ relays' = relays \ {t}

\* A slip: the relayed connections outlive their relay.
CloseTcp_alone(t) == Destroy({t}) /\ relays' = relays \ {t}

\* The error, EOF and "close" paths of sock_handler.
CloseTcp(t) == IF t \in relays THEN TerminateUdpAssociation(t) ELSE Destroy({t}) /\ UNCHANGED relays

\* on_accept
Accept(t) ==
    /\ up /\ st[t] = "none" /\ tun[t] = "unknown"
    /\ st' = [st EXCEPT ![t] = "IDLE"]
    /\ reads' = reads \cup {t}
    /\ UNCHANGED <<isTcp, relays, input, readable, unsent, pend, queue, task, tun, up>>

\* The client sends a message of the negotiation or data, in whatever order.
ClientSends(t) ==
    /\ st[t] # "none" /\ Len(input[t]) < MaxInput
    /\ \A i \in DOMAIN input[t] : input[t][i] # "eof"
    /\ \E m \in Messages : input' = [input EXCEPT ![t] = Append(@, m)]
    /\ readable' = IF t \in reads THEN readable \cup {t} ELSE readable
    /\ UNCHANGED <<st, isTcp, relays, reads, unsent, pend, queue, task, tun, up>>

\* A request that cannot be served: everything is drained, a reply says so.
Refuse(t) ==
    /\ st' = [st EXCEPT ![t] = "FAILED"]
    /\ input' = [input EXCEPT ![t] = <<>>]
    /\ unsent' = unsent \cup {t}
    /\ UNCHANGED <<isTcp, relays, reads, pend, tun>>

\* S5CONNS_IDLE and S5CONNS_WAITING_USERNAME_PASSWORD, served: the next state is s.
Greeted(t, s) ==
    /\ st' = [st EXCEPT ![t] = s]
    /\ input' = [input EXCEPT ![t] = Tail(@)]
    /\ unsent' = unsent \cup {t}
    /\ UNCHANGED <<isTcp, relays, reads, pend, tun>>

\* S5CONNS_WAITING_REQUEST, S5CMD_CONNECT: raise_connect_request; what follows the request
\* stays in the socket until the tunnel turns the reads on.
ConnectRequest(t) ==
    /\ st' = [st EXCEPT ![t] = "WAITING_CONNECT_RESULT"]
    /\ isTcp' = isTcp \cup {t}
    /\ tun' = [tun EXCEPT ![t] = "requested"]
    /\ input' = [input EXCEPT ![t] = Tail(@)]
    /\ reads' = reads \ {t}
    /\ UNCHANGED <<relays, unsent, pend>>

\* S5CMD_UDP_ASSOCIATE, complete_udp_association: the relay's socket may not open.
AssociateRequest(t) ==
    /\ \E ok \in BOOLEAN :
          /\ st' = [st EXCEPT ![t] = IF ok THEN "ESTABLISHED" ELSE "FAILED"]
          /\ relays' = IF ok THEN relays \cup {t} ELSE relays
    /\ input' = [input EXCEPT ![t] = Tail(@)]
    /\ unsent' = unsent \cup {t}
    /\ UNCHANGED <<isTcp, reads, pend, tun>>

\* S5CONNS_ESTABLISHED, handle_tcp_read: the tunnel takes chunks, and turns the reads off when
\* it leaves some; the end of the stream, or its refusal, closes the connection.
TunnelReads(t) ==
    LET chunks == SelectSeq(input[t], LAMBDA m : m # "eof") IN
    \/ \E n \in 0..Len(chunks) :
          /\ n = Len(input[t]) \/ n < Len(chunks)
          /\ input' = [input EXCEPT ![t] = SubSeq(@, n + 1, Len(@))]
          /\ reads' = IF n < Len(chunks) THEN reads \ {t} ELSE reads
          /\ readable' = readable \ {t}
          /\ UNCHANGED <<st, isTcp, relays, unsent, pend, tun>>
    \/ CloseTcp(t)

\* A message of the negotiation; one that does not fit its state is refused.
Negotiate(t, m) ==
    CASE st[t] = "IDLE" /\ m = "hello" ->
             Greeted(t, IF UseAuth THEN "WAITING_USERNAME_PASSWORD" ELSE "WAITING_REQUEST")
      [] st[t] = "WAITING_USERNAME_PASSWORD" /\ m = "login" -> Greeted(t, "WAITING_REQUEST")
      [] st[t] = "WAITING_REQUEST" /\ m = "connect" -> ConnectRequest(t)
      [] st[t] = "WAITING_REQUEST" /\ m = "associate" -> AssociateRequest(t)
      [] OTHER -> Refuse(t)

\* TCP_SOCKET_EVENT_READABLE of sock_handler, by state.
Readable(t) ==
    LET m == Head(input[t])
        ends == m = "eof" \/ t \in relays \/ st[t] \in {"WAITING_CONNECT_RESULT", "WAITING_ACCEPT"}
    IN
    /\ t \in readable /\ input[t] # <<>>
    /\ \/ ends /\ CloseTcp(t)
       \/ ~ends /\ st[t] = "ESTABLISHED" /\ TunnelReads(t)
       \/ /\ ~ends /\ st[t] \in {"IDLE", "WAITING_USERNAME_PASSWORD", "WAITING_REQUEST"}
          /\ Negotiate(t, m)
          /\ readable' = readable \ {t}
       \/ /\ st[t] = "FAILED" /\ ~ends
          /\ input' = [input EXCEPT ![t] = <<>>]
          /\ readable' = readable \ {t}
          /\ UNCHANGED <<st, isTcp, relays, reads, unsent, pend, tun>>
    /\ UNCHANGED <<queue, task, up>>

\* TCP_SOCKET_EVENT_WRITE_FLUSH: the reply has gone out, which ends a failed connection or makes
\* the tunnel own an accepted one.
WriteFlush(t) ==
    /\ t \in unsent
    /\ \/ t \in isTcp /\ st[t] = "FAILED" /\ CloseTcp(t)
       \/ /\ t \in isTcp /\ st[t] = "WAITING_ACCEPT"
          /\ st' = [st EXCEPT ![t] = "ESTABLISHED"]
          /\ tun' = [tun EXCEPT ![t] = "accepted"]
          /\ unsent' = unsent \ {t}
          /\ UNCHANGED <<isTcp, relays, input, reads, readable, pend>>
       \/ /\ ~(t \in isTcp /\ st[t] \in {"FAILED", "WAITING_ACCEPT"})
          /\ unsent' = unsent \ {t}
          /\ UNCHANGED <<st, isTcp, relays, input, reads, readable, pend, tun>>
    /\ UNCHANGED <<queue, task, up>>

\* TCP_SOCKET_EVENT_ERROR: an error of the socket or its timeout.
SocketError(t) == st[t] # "none" /\ CloseTcp(t) /\ UNCHANGED <<queue, task, up>>

\* complete_tcp_connection
CompleteTcp(t, ok) ==
    /\ st' = [st EXCEPT ![t] = IF ok THEN "WAITING_ACCEPT" ELSE "FAILED"]
    /\ tun' = [tun EXCEPT ![t] = IF ok THEN "passed" ELSE "rejected"]
    /\ unsent' = unsent \cup {t}
    /\ UNCHANGED <<isTcp, relays, input, reads, readable, pend, queue, task>>

\* complete_udp_connection
CompleteUdp(u, ok) ==
    \/ /\ ok
       /\ st' = [st EXCEPT ![u] = "ESTABLISHED"]
       /\ tun' = [tun EXCEPT ![u] = "accepted"]
       /\ queue' = queue \cup {u} /\ task' = TRUE
       /\ UNCHANGED <<isTcp, relays, input, reads, readable, unsent, pend>>
    \/ ~ok /\ Destroy({u}) /\ UNCHANGED <<relays, queue, task>>

\* socks5_listener_complete_connect_request: the tunnel answers a request once.
CompleteConnectRequest(c) ==
    /\ tun[c] = "requested"
    /\ \E ok \in BOOLEAN : IF c \in TcpConns THEN CompleteTcp(c, ok) ELSE CompleteUdp(c, ok)
    /\ UNCHANGED up

\* udp_event_handler with process_udp_header and handle_udp_read. An established connection
\* passes the packet on, or drops it while the tunnel does not read.
UdpPacket(u) ==
    /\ u[1] \in relays
    /\ \/ /\ st[u] = "none" /\ tun[u] = "unknown"
          /\ st' = [st EXCEPT ![u] = "WAITING_CONNECT_RESULT"]
          /\ tun' = [tun EXCEPT ![u] = "requested"]
          /\ pend' = [pend EXCEPT ![u] = 1]
       \/ /\ st[u] = "WAITING_CONNECT_RESULT" /\ pend[u] < MaxPackets
          /\ pend' = [pend EXCEPT ![u] = @ + 1]
          /\ UNCHANGED <<st, tun>>
    /\ UNCHANGED <<isTcp, relays, input, reads, readable, unsent, queue, task, up>>

\* send_pending_udp_data: the tunnel gets the packets; the connections whose packet it refuses,
\* those in cs, are closed.
SendPendingUdp ==
    /\ task /\ task' = FALSE
    /\ queue' = {}
    /\ \E cs \in SUBSET {u \in queue : pend[u] > 0} :
          /\ st' = [c \in Conns |-> IF c \in cs THEN "none" ELSE st[c]]
          /\ tun' = [c \in Conns |-> IF c \in cs THEN "closed" ELSE tun[c]]
    /\ pend' = [u \in UdpConns |-> IF u \in queue THEN 0 ELSE pend[u]]
    /\ UNCHANGED <<isTcp, relays, input, reads, readable, unsent, up>>

\* socks5_listener_close_connection, at once or from a task that looks the id up when it runs.
CloseConnection(c) ==
    /\ st[c] # "none" /\ tun[c] \in {"requested", "passed", "rejected", "accepted"}
    /\ Destroy({c}) /\ UNCHANGED <<relays, queue, task, up>>

\* socks5_listener_turn_read of a TCP connection; turning on serves what is buffered.
TurnRead(t) ==
    /\ tun[t] = "accepted" /\ t \in isTcp
    /\ \/ t \in reads /\ reads' = reads \ {t} /\ readable' = readable \ {t}
       \/ t \notin reads /\ reads' = reads \cup {t}
             /\ readable' = IF input[t] # <<>> THEN readable \cup {t} ELSE readable
    /\ UNCHANGED <<st, isTcp, relays, input, unsent, pend, queue, task, tun, up>>

\* socks5_listener_send_data; the reply of a relayed connection goes straight out.
SendData(c) ==
    /\ tun[c] = "accepted"
    /\ unsent' = IF c \in TcpConns THEN unsent \cup {c} ELSE unsent
    /\ UNCHANGED <<st, isTcp, relays, input, reads, readable, pend, queue, task, tun, up>>

\* socks5_listener_stop. clean_up_connections names a bucket of the table, not a connection:
\* which of the tunnel's TCP connections it takes for closed is arbitrary.
Stop ==
    /\ up /\ up' = FALSE /\ task' = FALSE
    /\ st' = [c \in Conns |-> "none"]
    /\ \E told \in SUBSET TcpConns :
          tun' = [c \in Conns |-> IF tun[c] # "unknown" /\ (c \in UdpConns \/ c \in told) THEN "closed" ELSE tun[c]]
    /\ relays' = {} /\ isTcp' = {} /\ reads' = {} /\ readable' = {} /\ unsent' = {}
    /\ pend' = [u \in UdpConns |-> 0]
    /\ input' = [t \in TcpConns |-> <<>>]
    /\ UNCHANGED queue

Next == \/ \E t \in TcpConns : \/ Accept(t) \/ ClientSends(t) \/ Readable(t) \/ WriteFlush(t)
                               \/ SocketError(t) \/ TurnRead(t)
        \/ \E u \in UdpConns : UdpPacket(u)
        \/ \E c \in Conns : CompleteConnectRequest(c) \/ CloseConnection(c) \/ SendData(c)
        \/ SendPendingUdp
        \/ Stop

Spec == Init /\ [][Next]_socksVars

-----------------------------------------------------------------------------

\* The listener and the tunnel agree on every connection while the listener runs: what the
\* tunnel believes open is in the table in the matching state (the asserts of
\* complete_connect_request and send_data), and a relayed connection has its relay.
SocksInStep ==
    up => \A c \in Conns :
        /\ tun[c] = "requested" => st[c] = "WAITING_CONNECT_RESULT"
        /\ tun[c] = "passed" => st[c] = "WAITING_ACCEPT"
        /\ tun[c] = "accepted" => st[c] = "ESTABLISHED"
        /\ st[c] \in {"WAITING_CONNECT_RESULT", "WAITING_ACCEPT"} => tun[c] \in {"requested", "passed"}
        /\ c \in UdpConns /\ st[c] # "none" => c[1] \in relays

\* The UDP packets that arrived before the tunnel answered reach it: an established
\* connection that still keeps some is queued for a submitted task (send_pending_udp_data).
PendingUdpServed ==
    \A u \in UdpConns : st[u] = "ESTABLISHED" /\ pend[u] > 0 => u \in queue /\ task
=============================================================================
