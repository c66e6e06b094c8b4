---------------------------- MODULE Http2Upstream ----------------------------
(***************************************************************************)
(* One HTTP/2 upstream (core/src/http2_upstream.cpp) on its session        *)
(* (net/src/http2.cpp, net/src/http_session.cpp): the connections of the   *)
(* tunnel are streams, what the client cannot take yet is kept, and a      *)
(* session that fails while its socket is being handled is closed at the   *)
(* end of the handler. Nothing is modelled of a failing write: the output  *)
(* is buffered.                                                            *)
(***************************************************************************)
EXTENDS Naturals

CONSTANTS
    H2Conns,    \* the TCP connections of the tunnel
    MaxRoom,    \* bound: the room a client has for data
    MaxUnread   \* bound: the data kept for a connection, its receive window

VARIABLES
    h2,         \* the upstream: its session, connections and health check
    room,       \* the room the client of each connection has
    owner       \* what the owner knows of the session

h2Vars == <<h2, room, owner>>

NoConn == [on |-> FALSE, stream |-> "closed", read |-> FALSE, fin |-> FALSE, clientClosed |-> FALSE,
           err |-> FALSE, unread |-> 0, closeTask |-> FALSE, readTask |-> FALSE]

\* sess: m_socket and m_session; inh: m_in_handler; closed: m_closed; err: m_pending_session_error;
\* health: m_health_check_info; stray: a stream of a health check that was cancelled, "reset" when it is
\* in m_streams_to_reset; tun: what the tunnel knows of a connection; again: an event was raised for a
\* connection the tunnel does not have.
Init ==
    /\ h2 = [sess |-> "none", inh |-> FALSE, closed |-> FALSE, err |-> FALSE,
             conn |-> [c \in H2Conns |-> NoConn], health |-> "none", stray |-> "none",
             tun |-> [c \in H2Conns |-> "none"],
             again |-> FALSE]
    /\ room = [c \in H2Conns |-> MaxRoom] /\ owner = "none"

Min2(a, b) == IF a < b THEN a ELSE b

-----------------------------------------------------------------------------
\* The end of connections. The operators give the upstream after the step.

\* SERVER_EVENT_CONNECTION_CLOSED or SERVER_EVENT_ERROR of the connection, and clean_tcp_connection_data
Gone(h, c) ==
    [h EXCEPT !.conn[c] = NoConn, !.tun[c] = "gone", !.again = @ \/ h.tun[c] \notin {"waiting", "open"}]

\* HTTP_EVENT_STREAM_PROCESSED, code: with an error. The end is postponed while the client has data to
\* read.
StreamProcessed(h, c, code) ==
    LET k == h.conn[c] IN
    CASE ~k.on -> h
      [] k.on /\ (k.err \/ code \/ k.clientClosed \/ k.unread = 0) -> Gone(h, c)
      [] OTHER -> [h EXCEPT !.conn[c].stream = "closed"]

\* http_session_reset_stream: the end of the stream is reported before it returns.
Reset(h, c, graceful) == StreamProcessed([h EXCEPT !.conn[c].clientClosed = TRUE], c, ~graceful)

\* close_tcp_connection
CloseTcpConnection(h, c, graceful) ==
    CASE ~h.conn[c].on -> h
      [] h.conn[c].on /\ h.conn[c].stream = "open" -> Reset(h, c, graceful)
      [] OTHER -> Gone(h, c)

\* close_session: closes every connection, which reports it; http2_session_close reports the streams
\* that are left, which have no connection.
CloseSession(h) ==
    LET closed == [c \in H2Conns |-> CloseTcpConnection(h, c, FALSE)]
    IN  [h EXCEPT !.sess = "none", !.health = "none", !.stray = "none",
                  !.conn = [c \in H2Conns |-> closed[c].conn[c]],
                  !.tun = [c \in H2Conns |-> closed[c].tun[c]],
                  !.again = \E c \in H2Conns : closed[c].again]

-----------------------------------------------------------------------------
\* Data to the client.

\* A slip: reads that are turned on do not start the task.
UpdateFlowControl_idle(h, c, r) == [h EXCEPT !.conn[c].read = r > 0]

\* update_flow_control with the room r of the client: data that was kept is completed by a task.
UpdateFlowControl(h, c, r) ==
    LET k == h.conn[c]
    IN  [h EXCEPT !.conn[c] = [k EXCEPT !.read = r > 0, !.readTask = @ \/ (r > 0 /\ k.unread > 0)]]

\* handle_read of n bytes by a client with room r, accepted: the tunnel sets the flow control with what
\* is left of the room.
Taken(r, n) == Min2(r, n)

\* read_out_pending_data, the client having room r.
ReadOutPending(h, c, r) ==
    LET k == h.conn[c]
        n == Taken(r, k.unread)
    IN  IF ~k.read \/ k.unread = 0 THEN h
        ELSE [UpdateFlowControl(h, c, r - n) EXCEPT !.conn[c].unread = @ - n]

\* HTTP_EVENT_DATA of n bytes: first what was kept, then the new data if reads are on, and the rest is kept, or as
\* much of it as could be pushed: the error is not reported. (If what was kept cannot be read, the new data is lost.)
DataFrame(h, c, n) ==
    LET kept == h.conn[c].read /\ h.conn[c].unread > 0
        r0 == room[c] - (IF kept THEN Taken(room[c], h.conn[c].unread) ELSE 0)
        h0 == ReadOutPending(h, c, room[c])
        t == IF h0.conn[c].read THEN Taken(r0, n) ELSE 0
        h1 == IF h0.conn[c].read THEN UpdateFlowControl(h0, c, r0 - t) ELSE h0
    IN  /\ \E k \in 0 .. n - t : h2' = [h1 EXCEPT !.conn[c].unread = @ + k]
        /\ room' = [room EXCEPT ![c] = r0 - t]

\* complete_read: after the last data of a stream that has ended the connection goes.
CompleteRead(c) ==
    /\ h2.conn[c].readTask /\ ~h2.inh
    /\ LET h == [h2 EXCEPT !.conn[c].readTask = FALSE]
           read == h.conn[c].read
           n == IF read THEN Taken(room[c], h.conn[c].unread) ELSE 0
           h1 == ReadOutPending(h, c, room[c])
       IN  \/ /\ h2' = IF h1.conn[c].unread = 0 /\ h1.conn[c].stream = "closed" THEN Gone(h1, c) ELSE h1
              /\ room' = [room EXCEPT ![c] = @ - n]
           \/ read /\ h.conn[c].unread > 0 /\ h2' = CloseTcpConnection(h, c, FALSE) /\ UNCHANGED room
    /\ UNCHANGED owner

\* The client has read: the tunnel announces the room.
ClientReads(c) ==
    /\ h2.conn[c].on /\ room[c] < MaxRoom
    /\ room' = [room EXCEPT ![c] = MaxRoom]
    /\ h2' = UpdateFlowControl(h2, c, MaxRoom)
    /\ UNCHANGED owner

\* The tunnel turns reads on when it has opened the connection for the client.
StartReads(c) ==
    /\ h2.conn[c].on /\ h2.tun[c] = "open" /\ ~h2.conn[c].read /\ room[c] > 0
    /\ h2' = UpdateFlowControl(h2, c, room[c])
    /\ UNCHANGED <<room, owner>>

-----------------------------------------------------------------------------
\* Calls of the tunnel and of the owner.

\* open_session
OpenSession ==
    /\ owner = "none" /\ owner' = "opening"
    /\ h2' = [h2 EXCEPT !.sess = "connecting"]
    /\ UNCHANGED room

\* http2_session_send_headers makes the stream.
NewStream == [NoConn EXCEPT !.on = TRUE, !.stream = "open"]

\* open_connection, send_connect_request
OpenConnection(c) ==
    /\ h2.tun[c] = "none" /\ h2.sess = "up"
    /\ h2' = [h2 EXCEPT !.conn[c] = NewStream,
                        !.tun[c] = "waiting"]
    /\ UNCHANGED <<room, owner>>

\* close_connection, at once or by a task
CloseConnection(c) ==
    /\ h2.conn[c].on
    /\ \/ \E graceful \in BOOLEAN : h2' = CloseTcpConnection(h2, c, graceful)
       \/ h2' = [h2 EXCEPT !.conn[c].closeTask = TRUE]
    /\ UNCHANGED <<room, owner>>

CloseTask(c) ==
    /\ h2.conn[c].closeTask /\ ~h2.inh
    /\ \E graceful \in BOOLEAN : h2' = CloseTcpConnection([h2 EXCEPT !.conn[c].closeTask = FALSE], c, graceful)
    /\ UNCHANGED <<room, owner>>

\* do_health_check: a request that cannot be sent fails by a task; the previous check is forgotten.
DoHealthCheck ==
    /\ owner = "open" /\ h2.health = "none"
    /\ h2' = [h2 EXCEPT !.health = IF h2.sess = "up" THEN "stream" ELSE "unsent"]
    /\ UNCHANGED <<room, owner>>

\* cancel_health_check: the stream of the check stays.
CancelHealthCheck(h) ==
    [h EXCEPT !.health = "none", !.stray = IF h.health = "stream" THEN "open" ELSE @]

\* The task of a health check: it has timed out, or was never sent.
HealthCheckTimeout ==
    /\ h2.health # "none" /\ ~h2.inh
    /\ h2' = CancelHealthCheck(h2)
    /\ UNCHANGED <<room, owner>>

\* close_session by the owner
CloseByOwner ==
    /\ owner \in {"opening", "open"} /\ ~h2.inh
    /\ h2' = CloseSession(h2) /\ owner' = "closed"
    /\ UNCHANGED room

-----------------------------------------------------------------------------
\* net_handler: the socket reports to the upstream.

\* TCP_SOCKET_EVENT_CONNECTED, establish_http_session: a protocol that was not asked for fails the session.
Connected ==
    /\ h2.sess = "connecting" /\ ~h2.inh
    /\ \/ h2' = [h2 EXCEPT !.sess = "up"] /\ owner' = "open"
       \/ h2' = CloseSession(h2) /\ owner' = "error"
    /\ UNCHANGED room

\* TCP_SOCKET_EVENT_READABLE: chunks are processed until there are no more.
Readable ==
    /\ h2.sess = "up" /\ ~h2.inh
    /\ h2' = [h2 EXCEPT !.inh = TRUE]
    /\ UNCHANGED <<room, owner>>

\* close_session_inner inside the handler
MarkClosed(h, err) == [h EXCEPT !.closed = TRUE, !.err = err]

\* handle_response: an answer to CONNECT; an authentication failure ends the session.
Headers(c) ==
    /\ h2.inh /\ h2.conn[c].stream = "open" /\ h2.tun[c] = "waiting" /\ ~h2.conn[c].err
    /\ \/ h2' = [h2 EXCEPT !.tun[c] = "open"]
       \/ h2' = [h2 EXCEPT !.conn[c].err = TRUE]
       \/ h2' = MarkClosed(h2, TRUE)
    /\ UNCHANGED <<room, owner>>

\* on_data_chunk_recv_callback: the client takes what it can, or refuses and the connection is closed.
Data(c) ==
    /\ h2.inh /\ h2.conn[c].stream = "open" /\ h2.tun[c] = "open" /\ ~h2.conn[c].fin
    /\ \/ \E n \in 1 .. MaxUnread : h2.conn[c].unread + n <= MaxUnread /\ DataFrame(h2, c, n)
       \/ h2.conn[c].read /\ h2' = CloseTcpConnection(h2, c, FALSE) /\ UNCHANGED room
    /\ UNCHANGED owner

\* on_end_stream: the upstream answers with the end of its own data, which ends the stream now or when
\* the data queued before it has gone.
EndStream(c) ==
    /\ h2.inh /\ h2.conn[c].stream = "open"
    /\ \/ h2' = StreamProcessed(h2, c, FALSE)
       \/ h2.tun[c] = "open" /\ h2' = [h2 EXCEPT !.conn[c].fin = TRUE]
    /\ UNCHANGED <<room, owner>>

\* on_stream_close_callback: the endpoint resets the stream.
ResetStream(c) ==
    /\ h2.inh /\ h2.conn[c].stream = "open"
    /\ h2' = StreamProcessed(h2, c, TRUE)
    /\ UNCHANGED <<room, owner>>

\* on_frame_recv_callback and the callbacks before it
FrameReceived(c) == Headers(c) \/ Data(c) \/ EndStream(c) \/ ResetStream(c)

\* The stream of a health check is answered: a check that was cancelled is reset after the input.
HealthStream ==
    /\ h2.inh
    /\ \/ h2.health = "stream" /\ h2' = [h2 EXCEPT !.health = "none"]
       \/ h2.stray = "open" /\ h2' = [h2 EXCEPT !.stray = "reset"]
    /\ UNCHANGED <<room, owner>>

\* HTTP_EVENT_GOAWAY, the end of the input or input that cannot be processed
SessionFails ==
    /\ h2.inh /\ \E err \in BOOLEAN : h2' = MarkClosed(h2, err)
    /\ UNCHANGED <<room, owner>>

\* The handler returns: the input cancels the health check, streams are reset, and a session that has
\* failed is closed now.
HandlerReturns ==
    /\ h2.inh
    /\ LET c0 == CancelHealthCheck(h2)
           h == [c0 EXCEPT !.inh = FALSE, !.closed = FALSE, !.err = FALSE,
                           !.stray = IF @ = "reset" THEN "none" ELSE @]
       IN  /\ h2' = IF h2.closed THEN CloseSession(h) ELSE h
           /\ owner' = IF h2.closed THEN (IF h2.err THEN "error" ELSE "closed") ELSE owner
    /\ UNCHANGED room

\* TCP_SOCKET_EVENT_ERROR
SocketError ==
    /\ h2.sess # "none" /\ ~h2.inh
    /\ h2' = CloseSession(h2) /\ owner' = "error"
    /\ UNCHANGED room

Next ==
    \/ OpenSession \/ Connected \/ Readable \/ HandlerReturns \/ SessionFails \/ SocketError \/ CloseByOwner
    \/ DoHealthCheck \/ HealthCheckTimeout \/ HealthStream
    \/ \E c \in H2Conns :
          \/ OpenConnection(c) \/ CloseConnection(c) \/ CloseTask(c) \/ CompleteRead(c) \/ ClientReads(c)
          \/ StartReads(c) \/ FrameReceived(c)

Spec == Init /\ [][Next]_h2Vars

-----------------------------------------------------------------------------

\* The tunnel and the upstream have the same connections: each that ends, by either side, by an error
\* or with the session, is reported once, and none outlives the session (close_session,
\* http_handler, complete_read).
H2InStep ==
    /\ \A c \in H2Conns : h2.conn[c].on <=> h2.tun[c] \in {"waiting", "open"}
    /\ ~h2.again
    /\ owner \in {"closed", "error"} => h2.sess = "none" /\ \A c \in H2Conns : ~h2.conn[c].on

\* What the endpoint has sent reaches the client: data that was kept has a task that completes it as
\* soon as reads are on, and a connection whose stream has ended stays only while there is some.
H2DataServed ==
    \A c \in H2Conns : h2.conn[c].on =>
          /\ h2.conn[c].read /\ h2.conn[c].unread > 0 => h2.conn[c].readTask
          /\ h2.conn[c].stream = "closed" => h2.conn[c].unread > 0
=============================================================================
