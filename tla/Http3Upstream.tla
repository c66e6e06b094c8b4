---------------------------- MODULE Http3Upstream ----------------------------
(***************************************************************************)
(* The HTTP/3 upstream (core/src/http3_upstream.cpp). Its QUIC client is   *)
(* external: it calls back while it is given datagrams (inside             *)
(* socket_handler or process_handoff_packet, where m_in_handler is set) and*)
(* while its timer expires (where it is not). Much of the work is left to  *)
(* tasks of the event loop.                                                *)
(***************************************************************************)
EXTENDS Naturals

CONSTANTS
    H3Conns,    \* the TCP connections of the tunnel
    H3Room,     \* bound: the room a client has for data
    H3Window    \* bound: the data kept for a connection

VARIABLES
    h3,         \* the upstream, and what the tunnel knows of each connection (tun)
    space,      \* the room the client of each connection has
    holder      \* what the owner knows of the session

h3Vars == <<h3, space, holder>>

\* kind: "stream" in m_tcp_connections, "retriable" in m_retriable_tcp_requests
NoH3 == [kind |-> "none", streamClosed |-> FALSE, read |-> FALSE, err |-> FALSE, unread |-> 0]

\* st: m_state; inh: m_in_handler; closed, err: m_closed and m_pending_session_error; closing:
\* m_closing_connections; tasks: those that are submitted; health: m_health_check_info;
\* inside: the client was destroyed by one of its own callbacks.
Init ==
    /\ h3 = [st |-> "IDLE", inh |-> FALSE, closed |-> FALSE, err |-> FALSE, closing |-> {}, tasks |-> {},
             conn |-> [c \in H3Conns |-> NoH3], health |-> "none", tun |-> [c \in H3Conns |-> "none"],
             inside |-> FALSE]
    /\ space = [c \in H3Conns |-> H3Room] /\ holder = "none"

On(h, c) == h.conn[c].kind # "none"
Less(a, b) == IF a < b THEN a ELSE b

-----------------------------------------------------------------------------
\* The end of connections and of the session.

\* The event of a connection and clean_tcp_connection_data
Cleaned(h, c) == [h EXCEPT !.conn[c] = NoH3, !.closing = @ \ {c}, !.tun[c] = "gone"]

\* close_tcp_connection: raises the event whether the connection is there or not.
CloseTcpConnection(h, c) == IF On(h, c) THEN Cleaned(h, c) ELSE [h EXCEPT !.closing = @ \ {c}]

\* close_session: every connection, every request and every connection that is closing is reported.
CloseSession(h) ==
    [h EXCEPT !.conn = [c \in H3Conns |-> NoH3], !.closing = {}, !.tasks = {}, !.st = "IDLE", !.health = "none",
              !.closed = FALSE,
              !.tun = [c \in H3Conns |-> IF On(h, c) THEN "gone" ELSE h.tun[c]]]

\* close_session_inner: inside the handler of the socket it is only noted.
CloseSessionInner(err) ==
    IF h3.inh
    THEN h3' = [h3 EXCEPT !.closed = TRUE, !.err = err] /\ UNCHANGED holder
    ELSE h3' = CloseSession(h3) /\ holder' = IF err THEN "error" ELSE "closed"

-----------------------------------------------------------------------------
\* Data to the client.

\* update_flow_control with the room r: only a change has an effect.
UpdateFlowControl(h, c, r) ==
    LET k == h.conn[c]
    IN  IF k.kind # "stream" \/ k.read = (r > 0) THEN h
        ELSE [h EXCEPT !.conn[c].read = r > 0,
                       !.tasks = IF r > 0 /\ k.unread > 0 THEN @ \union {"read"} ELSE @]

\* process_pending_data, read_out_pending_data of one connection that has n bytes taken
PendingTaken(h, c, n) ==
    LET k == [h.conn[c] EXCEPT !.unread = @ - n, !.read = @ /\ space[c] > n]
    IN  IF k.streamClosed /\ k.unread = 0 THEN Cleaned(h, c) ELSE [h EXCEPT !.conn[c] = k]

\* How much the client takes of what was kept.
Taken(c) == IF h3.conn[c].read THEN Less(space[c], h3.conn[c].unread) ELSE 0

\* process_pending_data of the connections S, of which the clients in R refuse.
ProcessPending(S, R) ==
    LET one(c) == IF c \in R THEN CloseTcpConnection(h3, c) ELSE PendingTaken(h3, c, Taken(c))
    IN  [h3 EXCEPT !.conn = [c \in H3Conns |-> IF c \in S THEN one(c).conn[c] ELSE @[c]],
                   !.tun = [c \in H3Conns |-> IF c \in S THEN one(c).tun[c] ELSE @[c]],
                   !.closing = {c \in @ : c \in S => c \in one(c).closing}]

Refusers(S) == SUBSET {c \in S : h3.conn[c].read}

SpaceTaken(S, R) == space' = [c \in H3Conns |-> IF c \in S \ R THEN space[c] - Taken(c) ELSE space[c]]

\* A slip: only connections whose stream is open are served.
CompleteRead_open ==
    /\ "read" \in h3.tasks /\ ~h3.inh /\ UNCHANGED holder
    /\ LET S == {c \in H3Conns : h3.conn[c].unread > 0 /\ ~h3.conn[c].streamClosed}
       IN  \E R \in Refusers(S) : /\ h3' = [ProcessPending(S, R) EXCEPT !.tasks = @ \ {"read"}]
                                  /\ SpaceTaken(S, R)

\* complete_read: every connection that has data
CompleteRead ==
    /\ "read" \in h3.tasks /\ ~h3.inh /\ UNCHANGED holder
    /\ LET S == {c \in H3Conns : h3.conn[c].unread > 0}
       IN  \E R \in Refusers(S) : /\ h3' = [ProcessPending(S, R) EXCEPT !.tasks = @ \ {"read"}]
                                  /\ SpaceTaken(S, R)

\* The client has read, or the connection was opened for it: the tunnel announces the room.
ClientReads(c) ==
    /\ h3.tun[c] = "open" /\ (space[c] < H3Room \/ ~h3.conn[c].read)
    /\ space' = [space EXCEPT ![c] = H3Room]
    /\ h3' = UpdateFlowControl(h3, c, H3Room)
    /\ UNCHANGED holder

-----------------------------------------------------------------------------
\* Calls of the owner and of the tunnel.

\* open_session, with the connection of the ping or a new one
OpenSession ==
    /\ holder = "none" /\ holder' = "opening" /\ UNCHANGED space
    /\ \E tasks \in {{}, {"handoff"}} : h3' = [h3 EXCEPT !.st = "ESTABLISHING", !.tasks = tasks]

\* send_connect_request: a stream, or none to be had now.
Requested == {[NoH3 EXCEPT !.kind = "stream"], [NoH3 EXCEPT !.kind = "retriable"]}

\* open_connection
OpenConnection(c) ==
    /\ h3.st = "ESTABLISHED" /\ h3.tun[c] = "none"
    /\ \E k \in Requested : h3' = [h3 EXCEPT !.conn[c] = k, !.tun[c] = "waiting"]
    /\ UNCHANGED <<space, holder>>

\* close_connection: closed at once it is closed by the task once more.
CloseConnection(c) ==
    /\ On(h3, c)
    /\ \E now \in BOOLEAN :
          LET h == IF now THEN CloseTcpConnection(h3, c) ELSE h3
          IN  h3' = [h EXCEPT !.closing = @ \union {c}, !.tasks = @ \union {"close"}]
    /\ UNCHANGED <<space, holder>>

CloseTask ==
    /\ "close" \in h3.tasks /\ ~h3.inh
    /\ h3' = [h3 EXCEPT !.tasks = @ \ {"close"}, !.closing = {},
                        !.conn = [c \in H3Conns |-> IF c \in h3.closing THEN NoH3 ELSE @[c]],
                        !.tun = [c \in H3Conns |-> IF c \in h3.closing THEN "gone" ELSE @[c]]]
    /\ UNCHANGED <<space, holder>>

\* do_health_check: on a stream, to be tried again, or failed.
DoHealthCheck ==
    /\ holder = "open" /\ h3.health = "none"
    /\ \E how \in IF h3.st = "ESTABLISHED" THEN {"stream", "retry"} ELSE {"unsent"} :
          h3' = [h3 EXCEPT !.health = how]
    /\ UNCHANGED <<space, holder>>

\* The tasks of a health check: it is retried, or its failure is reported.
HealthCheckTask ==
    /\ ~h3.inh /\ h3.health # "none"
    /\ \E how \in IF h3.health = "retry" THEN {"stream", "retry"} ELSE {"none"} : h3' = [h3 EXCEPT !.health = how]
    /\ UNCHANGED <<space, holder>>

\* close_session by the owner
CloseByOwner ==
    /\ holder \in {"opening", "open"} /\ ~h3.inh
    /\ h3' = CloseSession(h3) /\ holder' = "closed" /\ UNCHANGED space

-----------------------------------------------------------------------------
\* The socket, the timer and the callbacks of the client.

\* UDP_SOCKET_EVENT_READABLE, or the task that feeds the packet of the ping
Readable ==
    /\ h3.st # "IDLE" /\ ~h3.inh
    /\ \/ h3' = [h3 EXCEPT !.inh = TRUE]
       \/ "handoff" \in h3.tasks /\ h3' = [h3 EXCEPT !.inh = TRUE, !.tasks = @ \ {"handoff"}]
    /\ UNCHANGED <<space, holder>>

\* on_handshake_completed
HandshakeCompleted ==
    /\ h3.inh /\ h3.st = "ESTABLISHING"
    /\ h3' = [h3 EXCEPT !.st = "ESTABLISHED"] /\ holder' = "open" /\ UNCHANGED space

\* on_response, handle_response
Response(c) ==
    /\ h3.inh /\ h3.conn[c].kind = "stream" /\ ~h3.conn[c].streamClosed /\ h3.tun[c] = "waiting"
    /\ ~h3.conn[c].err /\ UNCHANGED space
    /\ \/ h3' = [h3 EXCEPT !.tun[c] = "open"] /\ UNCHANGED holder
       \/ h3' = [h3 EXCEPT !.conn[c].err = TRUE] /\ UNCHANGED holder
       \/ CloseSessionInner(TRUE)

\* on_body: straight to the client when nothing was kept, the rest is kept, as much of it as push_unread_data can
\* keep; or the client refuses.
Body(c) ==
    /\ h3.inh /\ h3.conn[c].kind = "stream" /\ ~h3.conn[c].streamClosed /\ h3.tun[c] = "open"
    /\ LET direct == h3.conn[c].read /\ h3.conn[c].unread = 0
       IN  \/ \E n \in 1 .. H3Window :
                LET t == IF direct THEN Less(space[c], n) ELSE 0
                    h == IF direct THEN UpdateFlowControl(h3, c, space[c] - t) ELSE h3
                IN  /\ h3.conn[c].unread + n - t <= H3Window
                    /\ \E k \in 0 .. n - t : h3' = [h EXCEPT !.conn[c].unread = @ + k]
                    /\ space' = [space EXCEPT ![c] = @ - t]
           \/ direct /\ h3' = CloseTcpConnection(h3, c) /\ UNCHANGED space
    /\ UNCHANGED holder

\* on_stream_closed: postponed while there is data for the client.
StreamClosed(c) ==
    /\ h3.inh /\ h3.conn[c].kind = "stream" /\ ~h3.conn[c].streamClosed
    /\ h3' = IF h3.conn[c].err \/ h3.conn[c].unread = 0 THEN Cleaned(h3, c)
             ELSE [h3 EXCEPT !.conn[c].streamClosed = TRUE]
    /\ UNCHANGED <<space, holder>>

\* on_close inside the handler, or input that fails
ConnectionCloses ==
    /\ h3.inh /\ \E err \in BOOLEAN : CloseSessionInner(err)
    /\ UNCHANGED space

\* on_data_sent and on_output: tasks for the tunnel and for a socket that fails
Output ==
    /\ h3.st # "IDLE" /\ \E t \in {"notify", "flushError"} : h3' = [h3 EXCEPT !.tasks = @ \union {t}]
    /\ UNCHANGED <<space, holder>>

\* The handler returns: the data cancels the health check, a session that was closed is closed now, and
\* the work after the input is left to a task.
HandlerReturns ==
    /\ h3.inh /\ UNCHANGED space
    /\ LET h == [h3 EXCEPT !.inh = FALSE, !.health = "none", !.err = FALSE]
       IN  IF h3.closed THEN h3' = CloseSession(h) /\ holder' = IF h3.err THEN "error" ELSE "closed"
           ELSE h3' = [h EXCEPT !.tasks = @ \union {"post"}] /\ UNCHANGED holder

\* retry_connect_requests and poll_connections: a request gets its stream, data is offered to clients
\* whose stream is open.
PostReceive ==
    /\ "post" \in h3.tasks /\ ~h3.inh /\ UNCHANGED holder
    /\ LET S == {c \in H3Conns : h3.conn[c].read /\ ~h3.conn[c].streamClosed /\ h3.conn[c].unread > 0}
       IN  \E R \in Refusers(S), retried \in SUBSET {c \in H3Conns : h3.conn[c].kind = "retriable"} :
              /\ LET h == ProcessPending(S, R)
                 IN  h3' = [h EXCEPT !.tasks = @ \ {"post"},
                                     !.conn = [c \in H3Conns |-> IF c \in retried THEN [@[c] EXCEPT !.kind = "stream"]
                                                                 ELSE @[c]]]
              /\ SpaceTaken(S, R)

\* The task of on_data_sent: poll_tcp_connections and poll_mux_connections
NotifySent ==
    /\ "notify" \in h3.tasks /\ ~h3.inh /\ UNCHANGED holder
    /\ LET S == {c \in H3Conns : h3.conn[c].read /\ ~h3.conn[c].streamClosed /\ h3.conn[c].unread > 0}
       IN  \E R \in Refusers(S) :
              h3' = [ProcessPending(S, R) EXCEPT !.tasks = @ \ {"notify"}] /\ SpaceTaken(S, R)

\* The task of on_output: the owner hears of the failure and closes the session.
FlushError ==
    /\ "flushError" \in h3.tasks /\ ~h3.inh
    /\ h3' = CloseSession(h3) /\ holder' = "error" /\ UNCHANGED space

\* quic_timer_callback, and UDP_SOCKET_EVENT_TIMEOUT of an established session: handle_expiry may call
\* on_close, which finds no handler and destroys the client that is calling.
Expiry ==
    /\ h3.st # "IDLE" /\ ~h3.inh /\ UNCHANGED space
    /\ \E err \in BOOLEAN :
          /\ h3' = [CloseSession(h3) EXCEPT !.inside = TRUE]
          /\ holder' = IF err THEN "error" ELSE "closed"

\* UDP_SOCKET_EVENT_TIMEOUT before the session is established
SocketTimeout ==
    /\ h3.st = "ESTABLISHING" /\ ~h3.inh
    /\ CloseSessionInner(FALSE) /\ UNCHANGED space

Next ==
    \/ OpenSession \/ CloseByOwner \/ Readable \/ HandshakeCompleted \/ ConnectionCloses \/ HandlerReturns
    \/ Output \/ PostReceive \/ NotifySent \/ FlushError \/ Expiry \/ SocketTimeout \/ CloseTask \/ CompleteRead
    \/ DoHealthCheck \/ HealthCheckTask
    \/ \E c \in H3Conns : \/ OpenConnection(c) \/ CloseConnection(c) \/ ClientReads(c)
                          \/ Response(c) \/ Body(c) \/ StreamClosed(c)

Spec == Init /\ [][Next]_h3Vars

-----------------------------------------------------------------------------

\* The tunnel and the upstream have the same connections, those that wait for a stream and those that
\* are closing included; when the owner knows that the session is over nothing of it is left, no task
\* either (close_session, clean_tcp_connection_data).
H3InStep ==
    /\ \A c \in H3Conns : On(h3, c) <=> h3.tun[c] \in {"waiting", "open"}
    /\ holder \in {"closed", "error"} => h3.st = "IDLE" /\ h3.tasks = {} /\ h3.closing = {}
    /\ h3.closing # {} => "close" \in h3.tasks

\* Data that was kept is completed: reads are off, or the task that serves it is there; a connection
\* whose stream has ended stays only while there is some (update_flow_control, complete_read).
H3DataServed ==
    \A c \in H3Conns : h3.conn[c].kind = "stream" =>
        /\ h3.conn[c].read /\ h3.conn[c].unread > 0 => "read" \in h3.tasks
        /\ h3.conn[c].streamClosed => h3.conn[c].unread > 0

\* "Setting m_in_handler prevents from destroying the H3 client from withing its own callbacks"
\* (core/src/http3_upstream.cpp:239): the client is never destroyed while it is calling.
H3ClientAlive == ~h3.inside
=============================================================================
