-------------------------------- MODULE Icmp --------------------------------
(***************************************************************************)
(* Echo requests of the client: the descriptors of the TCP/IP stack        *)
(* (tcpip/src/ip_hooks.cpp, icmp_request_manager.cpp), the attempts that   *)
(* IcmpManager (core/src/icmp_manager.cpp) times, and the two ways out:    *)
(* the stream of HttpIcmpMultiplexer, whose replies arrive in arbitrary    *)
(* pieces, and the sockets with which DirectUpstream emulates a ping.      *)
(***************************************************************************)
EXTENDS Naturals, Sequences, FiniteSets, SequencesExt

CONSTANTS
    Ids, Seqnos,    \* the key of a request
    ReplySize,      \* ICMPPKT_REPLY_SIZE, in pieces
    MaxWire,        \* bound: replies of the endpoint on the wire
    NON

VARIABLES
    desc,       \* ctx->icmp.requests: the keys that have a descriptor
    tries,      \* IcmpManager::m_requests: the attempts of each id, oldest first
    socks,      \* DirectUpstream::m_icmp_requests
    mux,        \* HttpIcmpMultiplexer::m_state
    sent,       \* the keys the endpoint has been asked for on this stream
    wire,       \* the pieces of its replies, on their way
    rbuf,       \* m_reply_buffer
    connected   \* the client's state is S_CONNECTED

icmpVars == <<desc, tries, socks, mux, sent, wire, rbuf, connected>>

Keys == Ids \X Seqnos
Types == {"ECHO_REPLY", "UNREACHABLE", "DROP"}

Init == /\ desc = {} /\ socks = {} /\ sent = {} /\ wire = <<>> /\ rbuf = <<>>
        /\ tries = [i \in Ids |-> <<>>]
        /\ mux = "MS_IDLE" /\ connected = TRUE

-----------------------------------------------------------------------------

\* HttpIcmpMultiplexer::send_request: opens the stream when there is none; both the open
\* and the write may fail.
MuxSend(k, ok) ==
    /\ \/ mux' = "MS_ESTABLISHED"
       \/ ~ok /\ mux' = mux
    /\ sent' = IF ok THEN sent \cup {k} ELSE sent
    /\ UNCHANGED <<socks, wire, rbuf>>

\* DirectUpstream::on_icmp_request
DirectSend(k, ok) == socks' = (IF ok THEN socks \cup {k} ELSE socks) /\ UNCHANGED <<mux, sent, wire, rbuf>>

\* CLIENT_EVENT_ICMP_ECHO_REQUEST with IcmpManager::register_request: the attempt is
\* filed before it is sent and stays when sending fails. ok is event->result = 0; no
\* upstream for the request is a result of 0 as well.
TunnelRequest(k, ok) ==
    IF ~connected \/ k[2] \in Range(tries[k[1]])
    THEN ~ok /\ UNCHANGED <<tries, socks, mux, sent, wire, rbuf>>
    ELSE /\ tries' = [tries EXCEPT ![k[1]] = Append(@, k[2])]
         /\ \/ MuxSend(k, ok)
            \/ DirectSend(k, ok)
            \/ ok /\ UNCHANGED <<socks, mux, sent, wire, rbuf>>

\* process_icmp_req: a request that repeats one still waiting ends it (finalize_icmp_request
\* finds no reply); process_new_icmp_request drops the descriptor if the tunnel refuses.
EchoRequest(k) ==
    \/ /\ k \in desc /\ desc' = desc \ {k}
       /\ UNCHANGED <<tries, socks, mux, sent, wire, rbuf, connected>>
    \/ /\ k \notin desc
       /\ \E ok \in BOOLEAN :
            /\ TunnelRequest(k, ok)
            /\ desc' = IF ok THEN desc \cup {k} ELSE desc
       /\ UNCHANGED connected

\* icmp_rm_process_reply: a dropped request and an answered one both lose the descriptor,
\* the latter by re-entering process_icmp_req with the packet that was kept.
StackReply(ks) == desc' = desc \ ks

\* The attempts of an id that a message ends: an echo reply the one with its number, any other message the oldest.
Attempts(k, type) ==
    {j \in DOMAIN tries[k[1]] : IF type = "ECHO_REPLY" THEN tries[k[1]][j] = k[2] ELSE j = 1}

\* A slip: an error is filed under the number it names.
RegisterReply_own(k, type) ==
    \/ \E j \in Attempts(k, type) : /\ tries' = [tries EXCEPT ![k[1]] = RemoveAt(@, j)]
                                    /\ StackReply({k})
    \/ Attempts(k, type) = {} /\ UNCHANGED <<tries, desc>>

\* IcmpManager::register_reply and SERVER_EVENT_ECHO_REPLY, which passes on the number of the attempt.
RegisterReply(k, type) ==
    \/ \E j \in Attempts(k, type) : /\ tries' = [tries EXCEPT ![k[1]] = RemoveAt(@, j)]
                                    /\ StackReply({<<k[1], tries[k[1]][j]>>})
    \/ Attempts(k, type) = {} /\ UNCHANGED <<tries, desc>>

\* The endpoint answers on the stream, in any order, possibly more than once.
EndpointReplies ==
    /\ mux = "MS_ESTABLISHED" /\ Len(wire) < MaxWire * ReplySize
    /\ \E k \in sent, t \in {"ECHO_REPLY", "UNREACHABLE"} :
         wire' = wire \o [i \in 1..ReplySize |-> <<k, t, i>>]
    /\ UNCHANGED <<desc, tries, socks, mux, sent, rbuf, connected>>

\* process_read_event, process_reply_chunk: n pieces are read; a reply is raised as soon
\* as it is complete, the rest waits in m_reply_buffer.
MuxRead ==
    /\ mux = "MS_ESTABLISHED" /\ wire # <<>>
    /\ LET n == ReplySize - Len(rbuf) IN
       \/ /\ Len(wire) >= n
          /\ RegisterReply(Head(rbuf \o wire)[1], Head(rbuf \o wire)[2])
          /\ wire' = SubSeq(wire, n + 1, Len(wire)) /\ rbuf' = <<>>
       \/ \E m \in 1..(n - 1) :
            /\ m <= Len(wire)
            /\ rbuf' = rbuf \o SubSeq(wire, 1, m) /\ wire' = SubSeq(wire, m + 1, Len(wire))
            /\ UNCHANGED <<desc, tries>>
    /\ UNCHANGED <<socks, mux, sent, connected>>

\* HttpIcmpMultiplexer::close
MuxClose == mux' = "MS_IDLE" /\ sent' = {} /\ wire' = <<>> /\ rbuf' = <<>>
StreamClosed == mux = "MS_ESTABLISHED" /\ MuxClose /\ UNCHANGED <<desc, tries, socks, connected>>

\* DirectUpstream::icmp_socket_handler: the connection succeeds or fails; the error codes
\* that have no message are ICMP_MT_DROP.
DirectReply ==
    /\ \E k \in socks, type \in Types :
         RegisterReply(k, type) /\ socks' = socks \ {k}
    /\ UNCHANGED <<mux, sent, wire, rbuf, connected>>

\* IcmpManager::timer_callback: the attempts whose time is over, the oldest of each id.
TimerCallback ==
    /\ \E n \in [Ids -> 0..Cardinality(Seqnos)] :
         /\ \A i \in Ids : n[i] <= Len(tries[i])
         /\ \E i \in Ids : n[i] > 0
         /\ StackReply(UNION {{<<i, tries[i][j]>> : j \in 1..n[i]} : i \in Ids})
         /\ tries' = [i \in Ids |-> SubSeq(tries[i], n[i] + 1, Len(tries[i]))]
    /\ UNCHANGED <<socks, mux, sent, wire, rbuf, connected>>

\* The client leaves S_CONNECTED, or is connected again.
SessionChanges == connected' = ~connected /\ UNCHANGED <<desc, tries, socks, mux, sent, wire, rbuf>>

Next == \/ \E k \in Keys : EchoRequest(k)
        \/ EndpointReplies \/ MuxRead \/ StreamClosed \/ DirectReply \/ TimerCallback \/ SessionChanges

-----------------------------------------------------------------------------
(* Properties.                                                             *)

\* A packet that waits in the stack for its reply has an attempt that will time out:
\* register_request, register_reply and timer_callback never part the two tables, so no
\* packet is kept for ever.
EchoBacked == \A k \in desc : k[2] \in Range(tries[k[1]])

\* The multiplexer never loses the frame: what waits in m_reply_buffer is the beginning of
\* one reply, and the rest of that reply is next on the stream.
RepliesAligned ==
    \A i \in 1..Len(rbuf) : /\ rbuf[i][3] = i /\ rbuf[i][1] = rbuf[1][1] /\ rbuf[i][2] = rbuf[1][2]
                            /\ wire # <<>> /\ wire[1][3] = Len(rbuf) + 1
=============================================================================
