------------------------------- MODULE Sockets -------------------------------
(***************************************************************************)
(* The sockets of the client (net/src/tcp_socket.cpp, udp_socket.cpp) and  *)
(* what SocketManager keeps for them (net/src/socket_manager.cpp): one     *)
(* timer with numbered subscribers, and the buffered events of destroyed   *)
(* sockets that still have data to write. libevent, TLS and the owners of  *)
(* the sockets are the environment.                                        *)
(***************************************************************************)
EXTENDS Naturals, Sequences, FiniteSets

CONSTANTS
    TcpSocks, UdpSocks,
    MaxIds,         \* bound: numbers the timer has handed out since it was created
    MaxRead,        \* bound: chunks in the input of a socket
    NON

VARIABLES
    sk,         \* the sockets
    tm,         \* SocketManager::timer: subs, the pairs <<id, subscriber>>, and next_subscriber_id
    byFd,       \* DeferredWrites::by_fd: the socket whose data is still being written, by descriptor
    deadlines,  \* DeferredWrites::deadlines: <<descriptor, socket>>, earliest first
    lingerId,   \* DeferredWrites::timer_id
    cut         \* sockets whose deferred data was given up for another one's deadline

sockVars == <<sk, tm, byFd, deadlines, lingerId, cut>>

Socks == TcpSocks \cup UdpSocks
Fds == 1..Cardinality(Socks)

NoTimer == [subs |-> {}, next |-> 0]

\* TcpSocket, UdpSocket. stage "none": not created; "closed": destroyed.
NewSocket == [stage |-> "created", fd |-> NON, reads |-> FALSE, task |-> FALSE, cb |-> FALSE, raw |-> 0,
              ssl |-> 0, eof |-> FALSE, left |-> FALSE, out |-> FALSE, pause |-> FALSE,
              mgr |-> TRUE, timed |-> TRUE, sub |-> NON]

Init == /\ sk = [s \in Socks |-> [NewSocket EXCEPT !.stage = "none"]]
        /\ tm = NoTimer /\ lingerId = NON /\ deadlines = <<>> /\ cut = {}
        /\ byFd = [f \in Fds |-> NON]

-----------------------------------------------------------------------------

\* socket_manager_timer_unsubscribe: the timer goes with its last subscriber, and its numbering.
Unsubscribe(t, id) ==
    LET rest == {x \in t.subs : x[1] # id}
    IN  IF id = NON \/ t.subs = {} THEN t ELSE IF rest = {} THEN NoTimer ELSE [t EXCEPT !.subs = rest]

\* SocketManager::timer_subscribe
Subscribe(t, who) == [subs |-> t.subs \cup {<<t.next, who>>}, next |-> t.next + 1]

\* tcp_socket_update_timeout, udp_socket_set_timeout, of the socket in the state k: the number of
\* a subscription that has ended is kept when none replaces it.
UpdateTimeout(s, k) ==
    LET t == Unsubscribe(tm, k.sub) IN
    IF ~k.mgr
    THEN sk' = [sk EXCEPT ![s] = k] /\ UNCHANGED tm
    ELSE IF k.timed
    THEN sk' = [sk EXCEPT ![s] = [k EXCEPT !.sub = t.next]] /\ tm' = Subscribe(t, s)
    ELSE sk' = [sk EXCEPT ![s] = k] /\ tm' = t

\* A slip: what was decrypted together with the end of the handshake does not count.
TurnOn_raw(k) == [k EXCEPT !.reads = TRUE, !.task = @ \/ k.raw > 0 \/ k.eof \/ k.stage = "tls"]

\* tcp_socket_set_read_enabled: libevent is silent about what it has read before, so a task is
\* submitted for it.
TurnOn(k) ==
    IF k.reads THEN k
    ELSE [k EXCEPT !.reads = TRUE, !.task = @ \/ k.raw > 0 \/ k.eof \/ k.stage = "tls" \/ k.ssl > 0]
TurnOff(k) == IF k.reads THEN [k EXCEPT !.reads = FALSE, !.task = FALSE] ELSE k

FreeFd == CHOOSE f \in Fds : /\ byFd[f] = NON
                             /\ \A s \in Socks : sk[s].fd # f

Live(s) == sk[s].stage \notin {"none", "closed"}
Unmanaged == <<byFd, deadlines, lingerId, cut>>

\* tcp_socket_create and tcp_socket_connect with create_bufferevent: the subscription is made
\* before the connection is started, which may fail.
Connect(s) ==
    /\ s \in TcpSocks /\ sk[s].stage = "none" /\ tm.next < MaxIds
    /\ \E ok, pause \in BOOLEAN :
          UpdateTimeout(s, [NewSocket EXCEPT !.stage = IF ok THEN "connecting" ELSE "created",
                                             !.fd = IF ok THEN FreeFd ELSE NON, !.pause = ok /\ pause])
    /\ UNCHANGED Unmanaged

\* tcp_socket_acquire_fd; udp_socket_create_inner.
AcquireFd(s) ==
    /\ sk[s].stage = "none" /\ tm.next < MaxIds
    /\ UpdateTimeout(s, [NewSocket EXCEPT !.stage = "open", !.fd = FreeFd])
    /\ UNCHANGED Unmanaged

\* do_handshake: everything read goes to TLS. The first data of the server may pause a handshake,
\* which takes the socket off its manager; otherwise the handshake advances or ends with n chunks
\* of decrypted data.
DoHandshake(s, k) ==
    \/ /\ k.pause /\ k.raw > 0
       /\ sk' = [sk EXCEPT ![s] = [TurnOff(k) EXCEPT !.stage = "paused", !.raw = 0, !.pause = FALSE,
                                                     !.mgr = FALSE, !.cb = FALSE]]
       /\ tm' = Unsubscribe(tm, k.sub)
    \/ /\ ~(k.pause /\ k.raw > 0)
       /\ UpdateTimeout(s, [k EXCEPT !.raw = 0])
    \/ /\ ~(k.pause /\ k.raw > 0) /\ k.raw > 0
       /\ \E n \in 0..1 : UpdateTimeout(s, [TurnOff(k) EXCEPT !.raw = 0, !.stage = "open", !.ssl = n, !.cb = FALSE])

\* on_connect_event, with TLS or without
Connected(s) ==
    /\ sk[s].stage = "connecting" /\ tm.next < MaxIds
    /\ \/ ~sk[s].pause /\ sk' = [sk EXCEPT ![s].stage = "open"] /\ UNCHANGED tm
       \/ DoHandshake(s, TurnOn([sk[s] EXCEPT !.stage = "tls"]))
    /\ UNCHANGED Unmanaged

\* tcp_socket_connect_continue: another owner takes the socket over, with a manager again.
ConnectContinue(s) ==
    /\ sk[s].stage = "paused" /\ tm.next < MaxIds
    /\ UpdateTimeout(s, TurnOn([sk[s] EXCEPT !.stage = "tls", !.mgr = TRUE]))
    /\ UNCHANGED Unmanaged

\* libevent reads a chunk, or the end of the stream (which turns EV_READ off).
Arrives(s) ==
    /\ s \in TcpSocks /\ sk[s].stage \in {"tls", "open"} /\ sk[s].reads /\ ~sk[s].eof
    /\ \/ sk[s].raw < MaxRead /\ sk' = [sk EXCEPT ![s].raw = @ + 1, ![s].cb = TRUE, ![s].left = FALSE]
       \/ sk' = [sk EXCEPT ![s].eof = TRUE, ![s].cb = TRUE, ![s].reads = FALSE]
    /\ UNCHANGED <<tm, byFd, deadlines, lingerId, cut>>

\* TCP_SOCKET_EVENT_READABLE, tcp_socket_peek and tcp_socket_drain: the owner takes what was
\* decrypted first, then the input, turns the reads off or leaves some with them on.
Taken(k) ==
    {[j EXCEPT !.left = j.reads /\ j.ssl + j.raw > 0] :
        j \in {[k EXCEPT !.ssl = x] : x \in 0..k.ssl} \cup {[TurnOff(k) EXCEPT !.ssl = x] : x \in 0..k.ssl}
              \cup {[k EXCEPT !.raw = y] : y \in IF k.ssl = 0 THEN 0..k.raw ELSE {}}}

\* on_read, from libevent or from the complete_read task; the end of a stream in on_event.
OnRead(s) ==
    LET k == [sk[s] EXCEPT !.task = FALSE, !.cb = FALSE] IN
    /\ s \in TcpSocks /\ (sk[s].cb \/ sk[s].task) /\ tm.next < MaxIds
    /\ \/ k.stage = "tls" /\ ~k.eof /\ DoHandshake(s, k)
       \/ /\ k.stage = "open" /\ (k.reads \/ (k.eof /\ sk[s].cb))
          /\ \E j \in Taken(k) : UpdateTimeout(s, j)
       \/ k.stage = "open" /\ ~k.reads /\ ~(k.eof /\ sk[s].cb) /\ UpdateTimeout(s, k)
    /\ UNCHANGED Unmanaged

\* The owner turns the reads on or off.
SetReadEnabled(s) ==
    /\ s \in TcpSocks /\ sk[s].stage = "open"
    /\ \/ sk' = [sk EXCEPT ![s] = TurnOn(@)]
       \/ sk' = [sk EXCEPT ![s] = TurnOff(@)]
    /\ UNCHANGED <<tm, byFd, deadlines, lingerId, cut>>

\* tcp_socket_write; bufferevent_write keeps the data until it can be sent.
Write(s) ==
    /\ s \in TcpSocks /\ sk[s].stage = "open" /\ tm.next < MaxIds
    /\ UpdateTimeout(s, [sk[s] EXCEPT !.out = TRUE])
    /\ UNCHANGED Unmanaged
WriteFlush(s) == sk[s].stage = "open" /\ sk[s].out /\ sk' = [sk EXCEPT ![s].out = FALSE]
                 /\ UNCHANGED <<tm, byFd, deadlines, lingerId, cut>>

\* tcp_socket_set_timeout, udp_socket_set_timeout; zero disables.
SetTimeout(s) ==
    /\ sk[s].stage = "open" /\ tm.next < MaxIds
    /\ \E on \in BOOLEAN : UpdateTimeout(s, [sk[s] EXCEPT !.timed = on])
    /\ UNCHANGED Unmanaged

Closed(s) == [NewSocket EXCEPT !.stage = "closed", !.timed = FALSE]

\* tcp_socket_destroy, udp_socket_destroy: the subscription ends first.
ReleaseTimer(s) == IF sk[s].mgr THEN Unsubscribe(tm, sk[s].sub) ELSE tm

\* socket_manager_complete_write with DeferredWrites::insert: the descriptor gets a deadline, and
\* the first one subscribes the manager itself to the timer t.
CompleteWrite(s, t) ==
    /\ byFd' = [byFd EXCEPT ![sk[s].fd] = s]
    /\ deadlines' = Append(deadlines, <<sk[s].fd, s>>)
    /\ IF lingerId = NON
       THEN tm' = Subscribe(t, "linger") /\ lingerId' = t.next
       ELSE tm' = t /\ UNCHANGED lingerId
    /\ UNCHANGED cut

\* tcp_socket_destroy: unless a reset is asked for, unsent data is left to the manager.
Destroy(s) ==
    /\ Live(s)
    /\ sk' = [sk EXCEPT ![s] = Closed(s)]
    /\ \/ tm' = ReleaseTimer(s) /\ UNCHANGED Unmanaged
       \/ sk[s].out /\ sk[s].mgr /\ tm.next < MaxIds /\ CompleteWrite(s, ReleaseTimer(s))

\* timer_callback: a socket whose time is over is told, and its owner destroys it.
TimerFires(s) == Live(s) /\ (\E x \in tm.subs : x[2] = s) /\ Destroy(s)

\* remove_by_fd, then clear_writes when nothing is left; gone are the descriptors to remove.
RemoveByFd(gone, dl) ==
    LET left == [f \in Fds |-> IF f \in gone THEN NON ELSE byFd[f]]
        none == \A f \in Fds : left[f] = NON
    IN  /\ byFd' = left
        /\ deadlines' = IF none THEN <<>> ELSE dl
        /\ lingerId' = IF none THEN NON ELSE lingerId
        /\ tm' = IF none THEN Unsubscribe(tm, lingerId) ELSE tm

\* free_after_flush, free_after_event: the deadline of the descriptor stays.
DeferredEnds(f) == byFd[f] # NON /\ RemoveByFd({f}, deadlines) /\ UNCHANGED <<sk, cut>>

\* deferred_write_timer_tick: the n earliest deadlines are over.
LingerTick(n) ==
    /\ \E x \in tm.subs : x[2] = "linger"
    /\ LET over == {deadlines[i] : i \in 1..n} IN
          /\ RemoveByFd({x[1] : x \in over}, SubSeq(deadlines, n + 1, Len(deadlines)))
          /\ cut' = cut \cup {byFd[x[1]] : x \in {y \in over : byFd[y[1]] \notin {NON, y[2]}}}
    /\ UNCHANGED sk

\* socket_manager_complete_all
CompleteAll ==
    /\ \A s \in Socks : ~Live(s)
    /\ byFd' = [f \in Fds |-> NON] /\ deadlines' = <<>> /\ lingerId' = NON /\ tm' = NoTimer
    /\ UNCHANGED <<sk, cut>>

Next == \/ \E s \in Socks : \/ Connect(s) \/ AcquireFd(s) \/ Connected(s) \/ ConnectContinue(s) \/ Arrives(s)
                            \/ OnRead(s) \/ SetReadEnabled(s) \/ Write(s) \/ WriteFlush(s) \/ SetTimeout(s)
                            \/ Destroy(s) \/ TimerFires(s)
        \/ \E f \in Fds : DeferredEnds(f)
        \/ \E n \in 1..Len(deadlines) : LingerTick(n)
        \/ CompleteAll

Spec == Init /\ [][Next]_sockVars

-----------------------------------------------------------------------------

\* The timer never calls a destroyed socket, and calls a socket under the number it remembers
\* (tcp_socket_update_timeout, tcp_socket_destroy, SocketManager::clear_writes).
SubscribersLive ==
    \A x \in tm.subs : IF x[2] = "linger" THEN lingerId = x[1]
                       ELSE Live(x[2]) /\ sk[x[2]].mgr /\ sk[x[2]].sub = x[1]

\* What a socket has read is offered to its owner: while the reads are on, data in its buffers
\* has an event or a task on its way, unless the owner has left it there with the reads on.
InputServed ==
    \A s \in TcpSocks : LET k == sk[s] IN
        k.stage = "open" /\ k.reads /\ k.ssl + k.raw > 0 => k.cb \/ k.task \/ k.left

\* A socket with a timeout is watched by the timer ("IO operations timeout",
\* net/include/net/socks5_listener.h).
TimedSocketWatched ==
    \A s \in Socks : Live(s) /\ sk[s].mgr /\ sk[s].timed => <<sk[s].sub, s>> \in tm.subs

\* The data of a destroyed socket is given up when its own time is over ("if we didn't write all
\* data in 30 seconds, force close", net/src/socket_manager.cpp).
LingerFull == cut = {}
=============================================================================
