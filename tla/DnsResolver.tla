------------------------------ MODULE DnsResolver ------------------------------
(***************************************************************************)
(* VpnDnsResolver (core/src/vpn_dns_resolver.cpp): names are resolved for  *)
(* the tunnel and for the exclusions by queries over one fictive UDP       *)
(* connection, which the resolver asks of the tunnel like any listener.    *)
(* Query ids are drawn at random by the library; a query stands for its id *)
(* here, so two of them never collide.                                     *)
(***************************************************************************)
EXTENDS Naturals, FiniteSets, Sequences

CONSTANTS
    MaxResolutions,     \* bound: the resolutions that are started
    RecordTypes,        \* the record types of the library
    Capacity            \* MAX_PARALLEL_BACKGROUND_RESOLVES

VARIABLES
    rsv,    \* the resolver: see NoState
    nextRes \* next_id

resolverVars == <<rsv, nextRes>>

Kinds == {"background", "foreground"}
Query == [of : 1 .. MaxResolutions, type : RecordTypes, kind : Kinds]

\* ResolveState and the tunnel's view of the connection, "none" when connection_id is NON_ID.
\* deadlines keeps queries that were answered; check, timer: the two timers are scheduled.
NoState == [conn |-> "none", accepted |-> FALSE, queries |-> {}, deadlines |-> {}, check |-> FALSE, timer |-> FALSE]

\* left: the record types of each resolution that are not answered; tasks: the deferred tasks in their order
Init ==
    /\ rsv = [left |-> <<>>, queue |-> [k \in Kinds |-> {}], state |-> NoState, tasks |-> <<>>]
    /\ nextRes = 1

Submitted(s, task) == IF \E i \in DOMAIN s.tasks : s.tasks[i] = task THEN s
                      ELSE [s EXCEPT !.tasks = Append(@, task)]

Without(f, ids) == [i \in DOMAIN f \ ids |-> f[i]]

-----------------------------------------------------------------------------
\* Sending

\* resolve_queue takes entries while queries are below the capacity and sends a query for each record type; one
\* that the tunnel does not take is dropped and its type stays. Entries that were cancelled are skipped.
ResolveQueue(s, k) ==
    LET taken(p) == p[1]
        sent(p) == p[2]
        size(p, ids) == Cardinality(s.state.queries \cup {q \in sent(p) : q.of \in ids})
        choices == (SUBSET s.queue[k]) \X (SUBSET [of : s.queue[k] \cap DOMAIN s.left, type : RecordTypes, kind : {k}])
    IN {[s EXCEPT !.queue[k] = @ \ taken(p), !.state.queries = @ \cup sent(p), !.state.deadlines = @ \cup sent(p),
                  !.state.check = @ \/ sent(p) # {}] :
        p \in {c \in choices :
            /\ \A q \in sent(c) : q.of \in taken(c) /\ q.type \in s.left[q.of]
            /\ taken(c) = s.queue[k] \/ (k = "background" /\ size(c, taken(c)) >= Capacity)
            /\ \/ taken(c) = {} \/ k = "foreground"
               \/ \E last \in taken(c) : size(c, taken(c) \ {last}) < Capacity}}

\* resolve_pending_domains
ResolvePending(s) ==
    IF \A k \in Kinds : s.queue[k] = {} THEN {s}
    ELSE IF s.state.conn = "none" THEN {[s EXCEPT !.state.conn = "asked", !.state.timer = TRUE]}
    ELSE IF ~s.state.accepted THEN {[s EXCEPT !.state.timer = TRUE]}
    ELSE {[u EXCEPT !.state.timer = TRUE] :
          u \in UNION {ResolveQueue(t, "foreground") : t \in ResolveQueue(s, "background")}}

\* resolve
Resolve ==
    /\ nextRes <= MaxResolutions
    /\ nextRes' = nextRes + 1
    /\ \E k \in Kinds, types \in (SUBSET RecordTypes) \ {{}} :
        rsv' = Submitted([rsv EXCEPT !.left = [i \in DOMAIN @ \cup {nextRes} |->
                                                IF i = nextRes THEN types ELSE @[i]],
                                     !.queue[k] = @ \cup {nextRes}], "resolve")

-----------------------------------------------------------------------------
\* Answers

\* The answered or expired queries leave, the resolutions without a type left are raised.
Settled(s, qs) ==
    LET left == [i \in DOMAIN s.left |-> s.left[i] \ {q.type : q \in {p \in qs : p.of = i}}]
    IN [s EXCEPT !.state.queries = @ \ qs, !.left = Without(left, {i \in DOMAIN left : left[i] = {}})]

\* send: a reply restarts the timeout of the connection, whatever it answers.
Reply ==
    /\ rsv.state.conn = "open"
    /\ LET s == [rsv EXCEPT !.state.timer = TRUE] IN
       \/ rsv' = s
       \/ \E q \in s.state.queries : rsv' \in ResolvePending(Settled(s, {q}))
    /\ UNCHANGED nextRes

\* on_periodic_queries_check; more queries may expire together than the clock allows.
PeriodicQueriesCheck ==
    /\ rsv.state.check
    /\ \E expired \in (SUBSET rsv.state.deadlines) \ {{}} :
        rsv' \in ResolvePending(Settled([rsv EXCEPT !.state.check = FALSE, !.state.deadlines = @ \ expired],
                                        expired \cap rsv.state.queries))
    /\ UNCHANGED nextRes

-----------------------------------------------------------------------------
\* The connection

CloseConnection_asked(s) ==
    LET asked == {q.of : q \in s.state.queries} \cup UNION {s.queue[k] : k \in Kinds} IN
    [s EXCEPT !.left = Without(@, asked), !.queue = [k \in Kinds |-> {}], !.state = NoState]
\* close_connection at once: every resolution is raised, the tunnel forgets the connection.
CloseConnection(s) == [s EXCEPT !.left = <<>>, !.queue = [k \in Kinds |-> {}], !.state = NoState]

\* The tunnel answers the connect request.
CompleteConnectRequest(pass) ==
    /\ rsv.state.conn = "asked"
    /\ rsv' = IF pass THEN Submitted([rsv EXCEPT !.state.conn = "passed"], "accept")
              ELSE Submitted([rsv EXCEPT !.state.conn = "rejected"], "close")
    /\ UNCHANGED nextRes

\* The tunnel closes the connection, at once when its server side ended.
TunnelCloses(async) ==
    /\ rsv.state.conn \in {"passed", "open"}
    /\ rsv' = IF async THEN Submitted(rsv, "close") ELSE CloseConnection(rsv)
    /\ UNCHANGED nextRes

\* accept_connection: the task takes the connection there is; one the tunnel has not passed is closed by it.
AcceptConnection(s) ==
    LET t == [s EXCEPT !.state.accepted = TRUE] IN
    CASE s.state.conn = "passed" -> ResolvePending([t EXCEPT !.state.conn = "open"])
      [] s.state.conn \in {"open", "rejected"} -> ResolvePending(Submitted(t, "close"))
      [] OTHER -> ResolvePending(t)

\* A deferred task runs; like accept_connection the close takes the connection there is, NON_ID included.
RunTask ==
    /\ rsv.tasks # <<>>
    /\ LET task == Head(rsv.tasks)
           s == [rsv EXCEPT !.tasks = Tail(@)]
       IN rsv' \in CASE task = "resolve" -> ResolvePending(s)
                     [] task = "accept" -> AcceptConnection(s)
                     [] task = "close" -> {CloseConnection(s)}
    /\ UNCHANGED nextRes

\* on_connection_timeout
ConnectionTimeout ==
    /\ rsv.state.timer /\ rsv' = CloseConnection(rsv)
    /\ UNCHANGED nextRes

-----------------------------------------------------------------------------
\* The owners

\* cancel leaves the id in its queue, where it is skipped.
Cancel(i) ==
    /\ i \in DOMAIN rsv.left
    /\ rsv' = [rsv EXCEPT !.left = Without(@, {i}), !.state.queries = {q \in @ : q.of # i}]
    /\ UNCHANGED nextRes

StopQueues(s, kinds) ==
    LET queued == UNION {s.queue[k] : k \in kinds}
        asked == {q.of : q \in {p \in s.state.queries : p.kind \in kinds}}
    IN [s EXCEPT !.queue = [k \in Kinds |-> IF k \in kinds THEN {} ELSE @[k]],
                 !.left = Without(@, queued \cup asked),
                 !.state.queries = {q \in @ : q.kind \notin kinds /\ q.of \notin queued}]

\* stop_resolving_queues, before the exclusions are resolved anew
StopResolvingQueues ==
    /\ rsv' = StopQueues(rsv, {"background"})
    /\ UNCHANGED nextRes

\* stop_resolving and deinit, before the endpoint's session ends: resolutions stay unless a connection is closed.
StopResolving ==
    /\ LET s == StopQueues(rsv, Kinds)
           t == IF s.state.conn = "none" THEN s ELSE CloseConnection(s)
       IN rsv' = [t EXCEPT !.queue = [k \in Kinds |-> {}], !.state = NoState, !.tasks = <<>>]
    /\ UNCHANGED nextRes

Next ==
    \/ Resolve \/ Reply \/ PeriodicQueriesCheck \/ RunTask \/ ConnectionTimeout
    \/ \E pass \in BOOLEAN : CompleteConnectRequest(pass)
    \/ \E async \in BOOLEAN : TunnelCloses(async)
    \/ \E i \in 1 .. MaxResolutions : Cancel(i)
    \/ StopResolvingQueues \/ StopResolving

Spec == Init /\ [][Next]_resolverVars

-----------------------------------------------------------------------------
\* Whatever the order of replies, expiries, stale deferred tasks, rejections and cancellations, a resolution whose
\* handler was not called can still be answered: a deferred task will look at its queue, or the timeout of the
\* connection, which fails what is left, is running (resolve_pending_domains, close_connection). A tunnel's
\* connection that waits for the name would hang otherwise.
ResolutionsDriven ==
    \A i \in DOMAIN rsv.left :
        \/ rsv.state.timer
        \/ \E k \in Kinds : i \in rsv.queue[k] /\ \E n \in DOMAIN rsv.tasks : rsv.tasks[n] = "resolve"

\* A query in flight is in the deadlines and the check of the deadlines is scheduled (the timeout is "applied to
\* each query", vpn_dns_resolver.h); not so once an earlier query has expired with the queues empty.
QueryTimeoutApplied ==
    \A q \in rsv.state.queries : q \in rsv.state.deadlines /\ rsv.state.check
=============================================================================
