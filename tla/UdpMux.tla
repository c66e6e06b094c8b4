-------------------------------- MODULE UdpMux --------------------------------
(***************************************************************************)
(* The HttpUdpMultiplexer (core/src/http_udp_multiplexer.cpp): the UDP     *)
(* connections of the tunnel in one HTTP stream. Packets arrive as a prefix*)
(* with the addresses and the length, and the payload, in pieces of any    *)
(* size; connections come and go between the pieces.                       *)
(***************************************************************************)
EXTENDS Naturals, Sequences

CONSTANTS
    UdpConns,       \* the connections of the tunnel
    AddrOf,         \* the address pair of each: a closed one may be opened anew with the same pair
    UNONE,          \* no connection (NON_ID)
    Prefix,         \* UDPPKT_IN_PREFIX_SIZE, in pieces
    MaxPayload      \* bound: the pieces of a payload

VARIABLES
    established,    \* m_state = MS_ESTABLISHED: the stream is there
    udps,           \* m_connections: [on, read] of each connection
    addrTo,         \* m_addr_to_id
    utasks,         \* the tasks on the event loop: <<"open" or "close", connection>>
    rc,             \* m_recv_connection
    wire,           \* what the endpoint sends: the address and the payload of the current packet, its
                    \* pieces that have arrived; place: whether the multiplexer is where the endpoint is,
                    \* "ending" with the prefix of a packet whose length is out of the bounds
    uheld,          \* the ids the tunnel holds and has not asked to close
    misled          \* what is not a packet for its address was given to a connection of this stream

udpVars == <<established, udps, addrTo, utasks, rc, wire, uheld, misled>>

Addrs == {AddrOf[c] : c \in UdpConns}
Absent == [on |-> FALSE, read |-> FALSE]
IdleRecv == [st |-> "IDLE", id |-> UNONE, left |-> 0, have |-> 0]
NoPacket == [addr |-> UNONE, len |-> 0, got |-> 0, place |-> "kept"]

Init ==
    /\ established = FALSE /\ udps = [c \in UdpConns |-> Absent]
    /\ addrTo = [a \in Addrs |-> UNONE] /\ utasks = <<>>
    /\ rc = IdleRecv /\ wire = NoPacket /\ uheld = {} /\ misled = FALSE

-----------------------------------------------------------------------------

\* The tasks of q that are left when those of the connections S are cancelled.
Without(q, S) ==
    LET Left[i \in 0 .. Len(q)] ==
            IF i = 0 THEN <<>>
            ELSE IF q[i][2] \in S THEN Left[i - 1] ELSE Append(Left[i - 1], q[i])
    IN  Left[Len(q)]

\* A slip: the packet that is being received goes on to the connection that is gone.
CleanConnections_receiving(S) ==
    /\ udps' = [c \in UdpConns |-> IF c \in S THEN Absent ELSE udps[c]]
    /\ addrTo' = [a \in Addrs |-> IF \E c \in S : udps[c].on /\ AddrOf[c] = a THEN UNONE ELSE addrTo[a]]
    /\ utasks' = Without(utasks, S)
    /\ uheld' = uheld \ S
    /\ UNCHANGED rc

\* clean_connection_data of the connections S, and the event that tells the tunnel: their tasks go with
\* them and the rest of a packet that is being received is dropped.
CleanConnections(S) ==
    /\ udps' = [c \in UdpConns |-> IF c \in S THEN Absent ELSE udps[c]]
    /\ addrTo' = [a \in Addrs |-> IF \E c \in S : udps[c].on /\ AddrOf[c] = a THEN UNONE ELSE addrTo[a]]
    /\ utasks' = Without(utasks, S)
    /\ uheld' = uheld \ S
    /\ rc' = IF rc.id \in S THEN [rc EXCEPT !.st = "DROPPING"] ELSE rc

\* open_connection: the first one opens the stream; the tunnel is answered by a task.
OpenConnection(c) ==
    /\ ~udps[c].on /\ \A d \in uheld : AddrOf[d] # AddrOf[c]
    /\ established' = TRUE
    /\ udps' = [udps EXCEPT ![c].on = TRUE]
    /\ utasks' = Append(utasks, <<"open", c>>)
    /\ uheld' = uheld \union {c}
    /\ UNCHANGED <<addrTo, rc, wire, misled>>

\* complete_udp_connection
OpenTask ==
    /\ utasks # <<>> /\ Head(utasks)[1] = "open"
    /\ addrTo' = [addrTo EXCEPT ![AddrOf[Head(utasks)[2]]] = Head(utasks)[2]]
    /\ utasks' = Tail(utasks)
    /\ UNCHANGED <<established, udps, rc, wire, uheld, misled>>

\* close_connection(id, async): by a task, the tunnel lets go of the connection at once.
CloseConnectionAsync(c) ==
    /\ c \in uheld /\ udps[c].on
    /\ utasks' = Append(utasks, <<"close", c>>) /\ uheld' = uheld \ {c}
    /\ UNCHANGED <<established, udps, addrTo, rc, wire, misled>>

CloseTask ==
    /\ utasks # <<>> /\ Head(utasks)[1] = "close"
    /\ CleanConnections({Head(utasks)[2]})
    /\ UNCHANGED <<established, wire, misled>>

\* close_connection(id)
CloseConnection(c) ==
    /\ c \in uheld /\ CleanConnections({c})
    /\ UNCHANGED <<established, wire, misled>>

\* timer_callback: the connections S have been silent for too long.
TimerCallback ==
    /\ \E S \in SUBSET {c \in UdpConns : udps[c].on} : S # {} /\ CleanConnections(S)
    /\ UNCHANGED <<established, wire, misled>>

\* set_read_enabled
SetReadEnabled(c) ==
    /\ udps[c].on /\ udps' = [udps EXCEPT ![c].read = ~@]
    /\ UNCHANGED <<established, addrTo, utasks, rc, wire, uheld, misled>>

\* close and reset: the stream has ended.
Close ==
    /\ established /\ established' = FALSE
    /\ udps' = [c \in UdpConns |-> Absent] /\ addrTo' = [a \in Addrs |-> UNONE]
    /\ utasks' = <<>> /\ uheld' = {}
    /\ rc' = IdleRecv /\ wire' = NoPacket /\ misled' = FALSE

-----------------------------------------------------------------------------
\* process_read_event, piece by piece.

\* read_prefix: what the complete prefix of the packet p is taken for. A length below that of the prefix or above
\* MAX_UDP_IN_PACKET_LENGTH gives no connection and no payload to drop: the payload of the packet is taken for the
\* next prefix, and from then on a prefix may say anything.
Decoded(p) ==
    {q \in [addr : Addrs \cup {UNONE}, len : 0 .. MaxPayload] :
        /\ p.place = "kept" => q.addr = p.addr /\ q.len = p.len
        /\ p.place = "ending" => q.addr = UNONE /\ q.len = 0}

\* The connection of the packet, UNONE when it is to be dropped.
ReadPrefix(q) ==
    LET c == IF q.addr = UNONE THEN UNONE ELSE addrTo[q.addr]
    IN  IF c # UNONE /\ udps[c].on /\ udps[c].read THEN c ELSE UNONE

\* The prefix is complete with this piece, or not yet. A packet of no payload waits for the next piece.
ReceivePrefix(q) ==
    IF rc.have + 1 < Prefix THEN [rc EXCEPT !.have = @ + 1]
    ELSE LET c == ReadPrefix(q)
         IN  [st |-> IF c = UNONE THEN "DROPPING" ELSE "PAYLOAD", id |-> c, left |-> q.len, have |-> 0]

\* Payload is collected or dropped; at its end SERVER_EVENT_READ and the next packet.
ReceivePayload == IF rc.left = 1 THEN IdleRecv ELSE [rc EXCEPT !.left = @ - 1]

\* The piece p of the current packet arrives.
ProcessReadEvent(p) ==
    LET ended == rc.st # "IDLE" /\ rc.left = 0          \* a packet of no payload ends with this piece
        completes == rc.st = "PAYLOAD" /\ rc.left <= 1
    IN  /\ \E q \in Decoded(p) : rc' = IF ended THEN [IdleRecv EXCEPT !.have = 1]
                                       ELSE IF rc.st = "IDLE" THEN ReceivePrefix(q) ELSE ReceivePayload
        /\ misled' = (misled \/ (completes /\ AddrOf[rc.id] # wire.addr))

\* The next piece of the packet, or the first piece of another one. Past a prefix with such a length the packets are
\* no longer told apart.
NextPiece ==
    IF wire.addr # UNONE /\ wire.got < Prefix + wire.len THEN {[wire EXCEPT !.got = @ + 1]}
    ELSE IF wire.place = "kept"
    THEN {p \in [addr : Addrs, len : 0 .. MaxPayload, got : {1}, place : {"kept", "ending"}] :
              p.place = "ending" => p.len = 0}
    ELSE {[NoPacket EXCEPT !.place = "lost"]}

\* The endpoint sends the next piece.
EndpointSends ==
    /\ established
    /\ \E p \in NextPiece : wire' = p /\ ProcessReadEvent(p)
    /\ UNCHANGED <<established, udps, addrTo, utasks, uheld>>

Next ==
    \/ \E c \in UdpConns : \/ OpenConnection(c) \/ CloseConnectionAsync(c) \/ CloseConnection(c)
                           \/ SetReadEnabled(c)
    \/ OpenTask \/ CloseTask \/ TimerCallback \/ Close \/ EndpointSends

Spec == Init /\ [][Next]_udpVars

-----------------------------------------------------------------------------

\* The stream of packets and the table stay in step whatever connections come and go in the middle of a
\* packet: as long as the lengths of the packets are within the bounds, the multiplexer is where the endpoint is in
\* the packet and gives its payload to no other address. Whatever the lengths, it receives a payload only for a
\* connection that exists (the assert of process_read_event), and an open connection is found by its address,
\* although an older one with the same address may be closed by a task after the new one was asked for.
UdpMuxInStep ==
    /\ wire.place = "kept" =>
          /\ rc.st = "IDLE" => rc.have = (IF wire.got < Prefix THEN wire.got ELSE 0)
          /\ rc.st # "IDLE" => wire.got >= Prefix /\ rc.left = Prefix + wire.len - wire.got
          /\ ~misled
    /\ rc.st = "PAYLOAD" => udps[rc.id].on
    /\ \A c \in uheld : (\E i \in DOMAIN utasks : utasks[i] = <<"open", c>>) \/ addrTo[AddrOf[c]] = c

\* A packet is given to the connection of its address or dropped ("Drop packet as its length more than the maximum
\* allowed value" is what read_prefix logs). It does not hold: the payload of a packet that is dropped for its length
\* is read as packets.
NeverMisled == ~misled
=============================================================================
