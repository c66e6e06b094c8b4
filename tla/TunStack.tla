------------------------------- MODULE TunStack -------------------------------
(***************************************************************************)
(* The listener of the TUN device: the connection managers that sit on     *)
(* lwIP (tcpip/src/tcp_conn_manager.cpp, tcp_raw.cpp, udp_conn_manager.cpp,*)
(* ip_hooks.cpp) and TunListener (core/src/tun_device_listener.cpp), which *)
(* keeps the data the tunnel would not take and defers graceful closes.    *)
(* A flow is a pair of addresses; it carries one connection at a time.     *)
(* lwIP and the tunnel are the environment: lwIP raises packets, ACKs and  *)
(* timers, the tunnel completes, closes, pauses and takes data.            *)
(***************************************************************************)
EXTENDS Naturals, Sequences

CONSTANTS
    TcpFlows, UdpFlows,     \* address pairs, by protocol
    MaxConns,               \* bound: connections of one flow
    MaxData,                \* bound: data packets of one connection
    MaxSched,               \* bound: data on its way to the client
    SndQueueLimit,          \* UDP_SND_QUEUE_LIMIT, in packets
    NON

VARIABLES
    desc,   \* the descriptor of each flow: TcpConnDescriptor, UdpConnDescriptor
    con,    \* TunListener::m_connections
    gen,    \* connections a flow has had
    sent,   \* data packets the client has sent on its connection
    got,    \* the packets the tunnel has taken
    refused,\* the number of packets the tunnel has refused with an error
    up      \* the stack is open

vars == <<desc, con, gen, sent, got, refused, up>>

ASSUME StackAssumption == /\ {MaxConns, MaxData, MaxSched} \subseteq Nat /\ SndQueueLimit \in Nat \ {0}
                          /\ TcpFlows \cap UdpFlows = {}

Flows == TcpFlows \cup UdpFlows

\* The states of a descriptor; "none" is a flow without one.
ConnStates == {"none", "requested", "have_result", "accepted", "confirmed", "rejected", "drop"}

\* pend: the packets a UDP descriptor keeps until its request is answered.
NoDesc == [st |-> "none", pend |-> <<>>]

\* TunListener::Connection
NewConnection == [reads |-> FALSE, closing |-> FALSE, unread |-> <<>>, sched |-> 0,
                  readTask |-> FALSE, closeTask |-> FALSE]

Init == /\ desc = [f \in Flows |-> NoDesc]
        /\ con = [f \in Flows |-> NON]
        /\ gen = [f \in Flows |-> 0]
        /\ sent = [f \in Flows |-> 0]
        /\ got = [f \in Flows |-> <<>>]
        /\ refused = [f \in Flows |-> 0]
        /\ up = TRUE

-----------------------------------------------------------------------------

\* tcp_cm_close_descriptor, udp_cm_close_descriptor and TCPIP_EVENT_CONNECTION_CLOSED:
\* the tunnel is told, the listener's entry goes and takes its tasks with it.
CloseDescriptor(f) ==
    /\ desc' = [desc EXCEPT ![f] = NoDesc]
    /\ con' = [con EXCEPT ![f] = NON]
    /\ UNCHANGED <<gen, sent, got, refused, up>>

\* tcp_cm_create_descriptor, udp_cm_create_descriptor, *_request_connection and
\* TCPIP_EVENT_CONNECT_REQUEST.
RequestConnection(f, pend) ==
    /\ gen[f] < MaxConns
    /\ desc' = [desc EXCEPT ![f] = [st |-> "requested", pend |-> pend]]
    /\ con' = [con EXCEPT ![f] = NewConnection]
    /\ gen' = [gen EXCEPT ![f] = @ + 1]
    /\ sent' = [sent EXCEPT ![f] = Len(pend)]
    /\ got' = [got EXCEPT ![f] = <<>>]
    /\ refused' = [refused EXCEPT ![f] = 0]
    /\ UNCHANGED up

\* process_tcp, a SYN: a known flow is dropped, or passed on once it has its result.
SynArrives(f) == up /\ f \in TcpFlows /\ desc[f].st = "none" /\ RequestConnection(f, <<>>)

\* process_tcp, a RST before the handshake of the client is over; tcp_raw_error after.
RstArrives(f) == up /\ f \in TcpFlows /\ desc[f].st \in {"have_result", "accepted"} /\ CloseDescriptor(f)

\* tcp_raw_accept, tcp_cm_accept: the tunnel turns the reads on, if it still can.
TcpAccept(f) ==
    /\ up /\ desc[f].st = "have_result"
    /\ desc' = [desc EXCEPT ![f].st = "accepted"]
    /\ \E on \in BOOLEAN : con' = [con EXCEPT ![f].reads = on]
    /\ UNCHANGED <<gen, sent, got, refused, up>>

\* What the tunnel makes of the queue q offered to it in CLIENT_EVENT_READ: it takes
\* the first k packets, then turns the reads off, fails, or has taken everything.
Offers(q) == {o \in (0..Len(q)) \X {"all", "off", "error"} :
                 IF o[1] = Len(q) THEN o[2] # "error" ELSE o[2] # "all"}

\* A slip: the chunk the tunnel would not take is given up.
TcpRead_forgets(f, o) ==
    LET q == Append(con[f].unread, sent[f] + 1)
        taken == SubSeq(q, 1, o[1])
    IN  /\ got' = [got EXCEPT ![f] = @ \o taken]
        /\ con' = [con EXCEPT ![f].unread = <<>>, ![f].reads = o[2] = "all"]
        /\ refused' = [refused EXCEPT ![f] = @ + (IF o[2] = "error" THEN 1 ELSE 0)]

\* TCPIP_EVENT_READ of TCP: the unread chunks go first, what is not taken is kept; after
\* an error the packet is lost and the connection goes on: neither the listener nor
\* process_data closes it.
TcpRead(f, o) ==
    LET q == Append(con[f].unread, sent[f] + 1)
        rest == SubSeq(q, o[1] + 1, Len(q))
    IN  /\ got' = [got EXCEPT ![f] = @ \o SubSeq(q, 1, o[1])]
        /\ con' = [con EXCEPT ![f].unread = IF o[2] = "error" THEN SubSeq(rest, 1, Len(rest) - 1) ELSE rest,
                              ![f].reads = @ /\ o[2] # "off"]
        /\ refused' = [refused EXCEPT ![f] = @ + (IF o[2] = "error" THEN 1 ELSE 0)]

\* process_data, tcp_cm_receive: while the reads are off the packet joins the unread ones.
TcpReceive(f) ==
    IF con[f].reads
    THEN \E o \in Offers(Append(con[f].unread, sent[f] + 1)) : TcpRead(f, o)
    ELSE /\ con' = [con EXCEPT ![f].unread = Append(@, sent[f] + 1)]
         /\ UNCHANGED <<got, refused>>

\* tcp_raw_recv, process_recv_event
TcpData(f) ==
    /\ up /\ f \in TcpFlows /\ desc[f].st = "accepted" /\ sent[f] < MaxData
    /\ sent' = [sent EXCEPT ![f] = @ + 1]
    /\ TcpReceive(f)
    /\ UNCHANGED <<desc, gen, up>>

\* tcp_raw_recv without data, process_closed_connection
FinArrives(f) == up /\ f \in TcpFlows /\ desc[f].st = "accepted" /\ CloseDescriptor(f)

\* A slip: a close that waits for this data is not resumed.
DataSent_forgets(f, n) == con' = [con EXCEPT ![f].sched = @ - n]

\* tcp_raw_sent, tcp_raw_poll and TCPIP_EVENT_DATA_SENT, n bytes acknowledged: a close
\* that was waiting for them is submitted to the loop.
DataSent(f, n) ==
    con' = [con EXCEPT ![f].sched = @ - n,
                       ![f].closeTask = @ \/ (con[f].closing /\ con[f].sched = n)]
ClientAcks(f) ==
    /\ up /\ f \in TcpFlows /\ desc[f].st = "accepted"
    /\ \E n \in 0..con[f].sched : DataSent(f, n)
    /\ UNCHANGED <<desc, gen, sent, got, refused, up>>

\* udp_cm_receive: the packet is taken, dropped, or refused with an error, which closes
\* the connection.
UdpReceive(f) ==
    \/ /\ con[f].reads
       /\ got' = [got EXCEPT ![f] = Append(@, sent[f] + 1)]
       /\ sent' = [sent EXCEPT ![f] = @ + 1]
       /\ \E on \in BOOLEAN : con' = [con EXCEPT ![f].reads = on]
       /\ UNCHANGED <<desc, gen, refused, up>>
    \/ sent' = [sent EXCEPT ![f] = @ + 1] /\ UNCHANGED <<desc, con, gen, got, refused, up>>
    \/ con[f].reads /\ CloseDescriptor(f)

\* udp_cm_enqueue_incoming_packet: a full queue drops the packet.
Enqueue(pend, p) == IF Len(pend) < SndQueueLimit THEN Append(pend, p) ELSE pend

\* process_udp: a new flow asks, its packets wait until the request is answered.
UdpArrives(f) ==
    /\ up /\ f \in UdpFlows
    /\ \/ desc[f].st = "none" /\ RequestConnection(f, <<1>>)
       \/ /\ desc[f].st = "requested" /\ sent[f] < MaxData
          /\ desc' = [desc EXCEPT ![f].pend = Enqueue(@, sent[f] + 1)]
          /\ sent' = [sent EXCEPT ![f] = @ + 1]
          /\ UNCHANGED <<con, gen, got, refused, up>>
       \/ desc[f].st = "confirmed" /\ sent[f] < MaxData /\ UdpReceive(f)

\* tcp_cm_timer_tick, udp_cm_timer_tick: the timeout of the state has passed.
TimerTick(f) == up /\ desc[f].st # "none" /\ CloseDescriptor(f)

-----------------------------------------------------------------------------
(* The tunnel's calls: TunListener as a ClientListener.                    *)

\* process_forwarded_connection, process_dropped_connection: a dropped one times out;
\* process_rejected_connection, process_unreachable_connection close it at once.
TcpOutcome(f) ==
    \/ \E st \in {"have_result", "drop"} :
         desc' = [desc EXCEPT ![f].st = st] /\ UNCHANGED <<con, gen, sent, got, refused, up>>
    \/ CloseDescriptor(f)

\* tcp_cm_complete_connect_request
TcpComplete(f) == up /\ f \in TcpFlows /\ desc[f].st = "requested" /\ TcpOutcome(f)

\* What is left of the sequence q when some of its elements are dropped.
Subsequences(q) ==
    UNION {{[i \in 1..n |-> q[at[i]]] : at \in {h \in [1..n -> 1..Len(q)] : \A i \in 1..(n - 1) : h[i] < h[i + 1]}} :
             n \in 0..Len(q)}

\* process_new_connection: the tunnel accepts, and the packets that were kept go through
\* the stack one by one; each may be dropped, and an error closes the connection.
UdpForward(f) ==
    \/ \E on \in BOOLEAN, taken \in Subsequences(desc[f].pend) :
         /\ ~on => taken = <<>>
         /\ desc' = [desc EXCEPT ![f] = [st |-> "confirmed", pend |-> <<>>]]
         /\ con' = [con EXCEPT ![f].reads = on]
         /\ got' = [got EXCEPT ![f] = taken]
         /\ UNCHANGED <<gen, sent, refused, up>>
    \/ CloseDescriptor(f)
UdpComplete(f) ==
    /\ up /\ f \in UdpFlows /\ desc[f].st = "requested"
    /\ \/ UdpForward(f)
       \/ /\ desc' = [desc EXCEPT ![f].st = "rejected"]
          /\ UNCHANGED <<con, gen, sent, got, refused, up>>
       \/ CloseDescriptor(f)

\* TunListener::close_connection; the tunnel closes what it has answered.
CloseConnection(f) ==
    /\ up /\ con[f] # NON /\ desc[f].st \in {"have_result", "accepted", "confirmed", "rejected", "drop"}
    /\ \E graceful, async \in BOOLEAN :
         CASE graceful /\ con[f].sched > 0 ->
                con' = [con EXCEPT ![f].closing = TRUE] /\ UNCHANGED <<desc, gen, sent, got, refused, up>>
           [] ~(graceful /\ con[f].sched > 0) /\ async ->
                con' = [con EXCEPT ![f].closeTask = TRUE] /\ UNCHANGED <<desc, gen, sent, got, refused, up>>
           [] OTHER -> CloseDescriptor(f)
CloseTask(f) == up /\ con[f] # NON /\ con[f].closeTask /\ CloseDescriptor(f)

\* tcp_cm_send_data, tcp_raw_send: the data waits in lwIP until the client acknowledges it.
TcpSend(f) ==
    /\ desc[f].st = "accepted" /\ con[f].sched < MaxSched
    /\ con' = [con EXCEPT ![f].sched = @ + 1]
    /\ UNCHANGED <<desc, gen, sent, got, refused, up>>

\* udp_cm_send_data, udp_raw_send: a packet is sent and reported at once, which changes
\* nothing here, or its connection is closed.
UdpSend(f) == desc[f].st = "confirmed" /\ CloseDescriptor(f)

\* TunListener::send: nothing is sent once a close waits.
SendToClient(f) ==
    /\ up /\ con[f] # NON /\ ~con[f].closing
    /\ TcpSend(f) \/ UdpSend(f)

\* A slip: the chunks that were not read wait for the next packet.
TurnRead_lazy(f, on) == con' = [con EXCEPT ![f].reads = on]

\* TunListener::turn_read
TurnRead(f, on) ==
    con' = [con EXCEPT ![f].reads = on,
                       ![f].readTask = @ \/ (on /\ ~con[f].reads /\ con[f].unread # <<>>)]
TunnelTurnsRead(f) ==
    /\ up /\ con[f] # NON /\ desc[f].st \in {"accepted", "confirmed"}
    /\ \E on \in BOOLEAN : TurnRead(f, on)
    /\ UNCHANGED <<desc, gen, sent, got, refused, up>>

\* complete_read: read_out_pending_data; an error closes the connection.
CompleteRead(f) ==
    /\ up /\ con[f] # NON /\ con[f].readTask
    /\ LET q == con[f].unread IN
       IF ~con[f].reads
       THEN con' = [con EXCEPT ![f].readTask = FALSE] /\ UNCHANGED <<desc, gen, sent, got, refused, up>>
       ELSE \E o \in Offers(q) :
            IF o[2] = "error" THEN CloseDescriptor(f)
            ELSE /\ con' = [con EXCEPT ![f].readTask = FALSE, ![f].reads = o[2] = "all",
                                       ![f].unread = SubSeq(q, o[1] + 1, Len(q))]
                 /\ got' = [got EXCEPT ![f] = @ \o SubSeq(q, 1, o[1])]
                 /\ UNCHANGED <<desc, gen, sent, refused, up>>

\* tcpip_close: tcp_cm_clean_up, udp_cm_clean_up; every connection is reported closed.
CleanUp == desc' = [f \in Flows |-> NoDesc] /\ con' = [f \in Flows |-> NON]

\* TunListener::deinit
Deinit == up /\ up' = FALSE /\ CleanUp /\ UNCHANGED <<gen, sent, got, refused>>

\* ip4_input_hook, ip6_input_hook: what a packet of the device can do to its flow, with
\* the callbacks lwIP makes for it.
IpInput(f) ==
    \/ SynArrives(f) \/ RstArrives(f) \/ TcpAccept(f) \/ TcpData(f) \/ FinArrives(f) \/ ClientAcks(f)
    \/ UdpArrives(f)

\* tcpip_complete_connect_request, tcpip_send_to_client, tcpip_close_connection: the
\* tunnel's calls, by protocol.
TunnelCalls(f) ==
    \/ TcpComplete(f) \/ UdpComplete(f) \/ CloseConnection(f) \/ SendToClient(f) \/ TunnelTurnsRead(f)

Next ==
    \/ \E f \in Flows : IpInput(f) \/ TunnelCalls(f) \/ TimerTick(f) \/ CloseTask(f) \/ CompleteRead(f)
    \/ Deinit

\* The loop runs the tasks submitted to it; the client acknowledges what it is sent.
Fairness == \A f \in Flows : /\ WF_vars(CloseTask(f)) /\ WF_vars(CompleteRead(f))
                             /\ WF_vars(con[f] # NON /\ con[f].sched > 0 /\ ClientAcks(f) /\ con' # con)

Spec == Init /\ [][Next]_vars /\ Fairness

-----------------------------------------------------------------------------
(* Properties.                                                             *)

\* The sequence s holds, in order, all of the first n packets but r.
InOrderBut(s, n, r) == /\ \A i \in 1..(Len(s) - 1) : s[i] < s[i + 1]
                       /\ \A i \in 1..Len(s) : s[i] \in 1..n
                       /\ Len(s) + r = n

\* What the tunnel has taken of a TCP connection, followed by the chunks kept for it, is
\* what the client has sent, in order, through every pause and resumption; only packets
\* the tunnel refused are missing. Of a UDP one it is a subsequence.
StreamInOrder ==
    \A f \in Flows : con[f] # NON =>
        IF f \in TcpFlows
        THEN InOrderBut(got[f] \o con[f].unread, sent[f], refused[f])
        ELSE /\ \A i \in 1..(Len(got[f]) - 1) : got[f][i] < got[f][i + 1]
             /\ Len(desc[f].pend) <= SndQueueLimit /\ con[f].unread = <<>>

\* Chunks that were kept for a connection whose reads are on are about to be read out:
\* no client waits for data that sits in the listener. A connection that was refused a
\* packet is exempt: its chunks wait for the client's next packet.
UnreadServed == \A f \in Flows : con[f] # NON =>
                    (con[f].reads /\ con[f].unread # <<>> => con[f].readTask \/ refused[f] > 0)

\* The comments of tcp_raw.cpp:130 and tunnel.cpp:1797, 1821: the listener closes a TCP
\* connection whose read has failed. It does not hold:
\* nobody does, and the next packet is delivered.
RefusedIsClosed == \A f \in TcpFlows : con[f] # NON /\ refused[f] > 0 => con[f].closeTask

\* A graceful close that waits for the client's data ends: CF_CLOSING leads to the close.
DeferredCloseEnds == \A f \in Flows : (con[f] # NON /\ con[f].closing) ~> (con[f] = NON)
=============================================================================
