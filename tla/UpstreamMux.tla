----------------------------- MODULE UpstreamMux -----------------------------
(***************************************************************************)
(* The UpstreamMultiplexer (core/src/upstream_multiplexer.cpp): a pool of   *)
(* HTTP/2 upstreams that share the connections of the tunnel. A new one is *)
(* opened when the others are loaded; connections wait for its session.    *)
(***************************************************************************)
EXTENDS Naturals, FiniteSets, Functions

CONSTANTS
    MuxConns,       \* the connections the tunnel may ask for
    PoolSize,       \* DEFAULT_UPSTREAMS_NUM
    Threshold,      \* NEW_UPSTREAM_CONNECTIONS_NUM_THRESHOLD
    MaxUpstreams    \* bound: the upstreams created in a behaviour

VARIABLES
    mux,    \* the multiplexer and what the tunnel and the client have been told
    asked   \* the connections asked for so far

muxVars == <<mux, asked>>

\* pool: m_upstreams_pool, each with its state and the connections it knows; conns: m_connections;
\* pend: m_pending_connections; error: m_pending_error; held: the ids the tunnel holds;
\* session: what the client knows of the session, "new" before open_session.
Init ==
    /\ mux = [pool |-> <<>>, conns |-> <<>>, pend |-> <<>>, next |-> 1, error |-> FALSE, open |-> FALSE,
              held |-> {}, session |-> "new"]
    /\ asked = {}

Upstreams(m) == DOMAIN m.pool
Without(f, S) == Restrict(f, DOMAIN f \ S)
With(f, k, v) == [x \in DOMAIN f \union {k} |-> IF x = k THEN v ELSE f[x]]
PendingOf(m, u) == {c \in DOMAIN m.pend : m.pend[c] = u}

-----------------------------------------------------------------------------
\* The selection of an upstream.

\* connections_num_by_upstream
ConnectionsNum(m, u) == Cardinality(m.pool[u].known) + Cardinality(PendingOf(m, u))

\* select_existing_upstream: an underloaded one, else the least loaded where the pool is full or the
\* caller insists; the order of the map is arbitrary.
SelectExisting(m, allowUnderflow) ==
    LET under == {u \in Upstreams(m) : ConnectionsNum(m, u) < Threshold}
    IN  CASE under # {} -> under
          [] under = {} /\ (allowUnderflow \/ Cardinality(Upstreams(m)) = PoolSize) ->
                {u \in Upstreams(m) : \A v \in Upstreams(m) :
                                        Cardinality(m.pool[u].known) <= Cardinality(m.pool[v].known)}
          [] OTHER -> {}

\* open_new_upstream, when the session starts to open
OpenNew(m) == [m EXCEPT !.pool = With(@, m.next, [st |-> "OPENING", known |-> {}]), !.next = @ + 1]

\* open_connection(upstream_id, ...): the multiplexers it may leave, and whether it succeeded.
\* emplace leaves a connection that is pending already as it is.
OpenOn(m, u, c) ==
    IF m.pool[u].st = "OPENING"
    THEN {<<[m EXCEPT !.pend = IF c \in DOMAIN @ THEN @ ELSE With(@, c, u)], TRUE>>}
    ELSE {<<[m EXCEPT !.pool[u].known = @ \union {c}, !.conns = With(@, c, u)], TRUE>>, <<m, FALSE>>}

-----------------------------------------------------------------------------
\* Events raised to the tunnel and to the client.

\* SERVER_EVENT_CONNECTION_CLOSED or SERVER_EVENT_ERROR of the connections S
Told(m, S) == [m EXCEPT !.held = @ \ S]

\* A child reports the end of its connections S: they are erased and the event is passed on.
ConnectionsEnd(m, u, S) ==
    Told([m EXCEPT !.pool[u].known = @ \ S, !.conns = Without(@, S)], S)

\* close_upstream: the last one ends the session.
CloseUpstream(m, u) ==
    LET r == [m EXCEPT !.pool = Without(@, {u})]
    IN  IF Upstreams(r) # {} THEN r
        ELSE [r EXCEPT !.open = FALSE, !.error = FALSE, !.session = IF r.error THEN "error" ELSE "closed"]

\* A slip: the upstream is dropped without closing its session.
DropUpstream_silently(m, u) == CloseUpstream(m, u)

\* close_session of a child reports each of its connections, then close_upstream
DropUpstream(m, u) == CloseUpstream(ConnectionsEnd(m, u, m.pool[u].known), u)

-----------------------------------------------------------------------------
\* Calls of the client and of the tunnel.

\* open_session
OpenSession ==
    /\ mux.session = "new" /\ UNCHANGED asked
    /\ mux' \in {[OpenNew(mux) EXCEPT !.session = "opening"], [mux EXCEPT !.session = "closed", !.next = @ + 1]}

\* open_connection: on an upstream there is, on a new one, or, when that fails, on any there is. The tunnel asks for
\* connections once it has been told that the session is open.
OpenConnection(c) ==
    /\ c \notin asked /\ asked' = asked \union {c}
    /\ mux.session = "open"
    /\ LET found == SelectExisting(mux, FALSE)
           Answer(m, ok) == mux' = IF ok THEN [m EXCEPT !.held = @ \union {c}] ELSE m
       IN  \/ \E u \in found : \E r \in OpenOn(mux, u, c) : Answer(r[1], r[2])
           \/ /\ found = {} /\ mux.next <= MaxUpstreams
              /\ Answer([OpenNew(mux) EXCEPT !.pend = With(@, c, mux.next)], TRUE)
           \/ /\ found = {} /\ mux.next <= MaxUpstreams
              /\ \E u \in SelectExisting(mux, TRUE) :
                    \E r \in OpenOn([mux EXCEPT !.next = @ + 1], u, c) : Answer(r[1], r[2])

\* close_connection: a connection that is still pending is not found.
CloseConnection(c) ==
    /\ c \in mux.held /\ c \in DOMAIN mux.conns
    /\ mux' = ConnectionsEnd(mux, mux.conns[c], {c})
    /\ UNCHANGED asked

\* close_session, after which the client deletes the multiplexer
CloseSession ==
    /\ mux.session \notin {"new", "deleted"}
    /\ LET told == UNION {mux.pool[u].known : u \in Upstreams(mux)} \union DOMAIN mux.pend
       IN  mux' = [Told(mux, told) EXCEPT !.pool = <<>>, !.conns = <<>>, !.pend = <<>>,
                                          !.error = FALSE, !.session = "deleted"]
    /\ UNCHANGED asked

-----------------------------------------------------------------------------
\* child_upstream_handler

\* proceed_pending_connection of the connections S, each on its upstream, else on the first of the pool, else
\* it has failed: by is the upstream that takes it, or 0. One that is still opening finds it pending, as
\* emplace leaves it, and it is erased from the pending ones either way.
Proceed(m, S, by) ==
    LET opened == {c \in S : by[c] # 0 /\ m.pool[by[c]].st = "OPENED"}
    IN  [m EXCEPT !.pool = [v \in DOMAIN m.pool |->
                               [m.pool[v] EXCEPT !.known = @ \union {c \in opened : by[c] = v}]],
                  !.conns = [c \in DOMAIN m.conns \union opened |-> IF c \in opened THEN by[c] ELSE m.conns[c]],
                  !.pend = Without(@, S),
                  !.held = @ \ {c \in S : by[c] = 0}]

\* The loop over the connections that wait for the upstream u.
ProceedAll(m, u) ==
    LET S == PendingOf(m, u) IN {Proceed(m, S, by) : by \in [S -> Upstreams(m) \union {0}]}

\* SERVER_EVENT_SESSION_OPENED: the client hears of the first one.
ChildSessionOpened(u) ==
    /\ mux.pool[u].st = "OPENING"
    /\ mux' \in ProceedAll([mux EXCEPT !.open = TRUE, !.session = IF mux.open THEN @ ELSE "open",
                                       !.pool[u].st = "OPENED"], u)
    /\ UNCHANGED asked

\* SERVER_EVENT_SESSION_CLOSED, after the child has reported its connections: those that wait for
\* it have failed.
ChildSessionClosed(u) ==
    /\ LET m == ConnectionsEnd(mux, u, mux.pool[u].known)
           S == PendingOf(m, u)
       IN  mux' = CloseUpstream(Told([m EXCEPT !.pend = Without(@, S)], S), u)
    /\ UNCHANGED asked

\* SERVER_EVENT_CONNECTION_CLOSED, or SERVER_EVENT_ERROR of one connection
ChildConnectionClosed(u) ==
    /\ \E c \in mux.pool[u].known : mux' = ConnectionsEnd(mux, u, {c})
    /\ UNCHANGED asked

\* SERVER_EVENT_ERROR of the session: a fatal one closes every upstream, another one this upstream.
ChildError(u) ==
    /\ \/ mux' = DropUpstream(mux, u)
       \/ LET others == UNION {mux.pool[v].known : v \in Upstreams(mux) \ {u}}
          IN  mux' = DropUpstream([Told(mux, others) EXCEPT !.pool = Restrict(@, {u}),
                                    !.conns = Without(@, others), !.error = TRUE], u)
    /\ UNCHANGED asked

Next ==
    \/ OpenSession \/ CloseSession
    \/ \E c \in MuxConns : OpenConnection(c) \/ CloseConnection(c)
    \/ \E u \in Upstreams(mux) : \/ ChildSessionOpened(u) \/ ChildSessionClosed(u)
                                 \/ ChildConnectionClosed(u) \/ ChildError(u)

Spec == Init /\ [][Next]_muxVars

-----------------------------------------------------------------------------

\* The multiplexer, its upstreams and the tunnel agree: a connection of m_connections belongs to an
\* open upstream that knows it, and the other way round, the tunnel holds it, and none is both open
\* and pending; when no upstream is left the client knows that the session is over
\* (child_upstream_handler, close_upstream).
MuxInStep ==
    /\ \A c \in DOMAIN mux.conns :
          /\ mux.conns[c] \in Upstreams(mux) /\ c \in mux.pool[mux.conns[c]].known
          /\ c \in mux.held /\ c \notin DOMAIN mux.pend
    /\ \A u \in Upstreams(mux) :
          /\ mux.pool[u].known # {} => mux.pool[u].st = "OPENED"
          /\ \A c \in mux.pool[u].known : c \in DOMAIN mux.conns /\ mux.conns[c] = u
    /\ DOMAIN mux.pend \subseteq mux.held
    /\ mux.session \in {"opening", "open"} <=> Upstreams(mux) # {}

\* While the session is open every connection the tunnel holds is served: it is open on an upstream
\* or waits for one of the pool, whose session will open or fail. "Result will be raised
\* asynchronously" (core/include/vpn/internal/server_upstream.h, open_connection).
HeldIsServed ==
    mux.session = "open" =>
        \A c \in mux.held : c \in DOMAIN mux.conns \/ (c \in DOMAIN mux.pend /\ mux.pend[c] \in Upstreams(mux))
=============================================================================
