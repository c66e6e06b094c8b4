------------------------------ MODULE Connectors ------------------------------
(***************************************************************************)
(* The connectors that open the session with the endpoint: a                *)
(* SingleUpstreamConnector for each protocol                               *)
(* (core/src/single_upstream_connector.cpp) and the                        *)
(* FallbackableUpstreamConnector that starts the second one after a delay  *)
(* or a failure, reports the first session that opens and drops the other  *)
(* (core/src/fallbackable_upstream_connector.cpp).                         *)
(***************************************************************************)
EXTENDS Naturals

CONSTANT NON

VARIABLES
    one,        \* the SingleUpstreamConnectors
    tried,      \* m_fallback.tried
    delay,      \* m_fallback.delay_task
    outcome     \* "idle", "running", the result "ok" or "err", or "disconnected"

connectorVars == <<one, tried, delay, outcome>>

Sides == {"main", "fallback"}
Other(i) == CHOOSE j \in Sides : j # i

\* fsm: the state of the connector, "gone" when it was destroyed; sess: the session of its upstream;
\* deferred: deferred_task; result: result_task with what it carries; has: has_result.
NewConnector == [fsm |-> "DISCONNECTED", sess |-> "closed", deferred |-> FALSE, result |-> NON, has |-> FALSE]
Destroyed == [NewConnector EXCEPT !.fsm = "gone", !.has = TRUE]

Init == /\ one = [i \in Sides |-> NewConnector]
        /\ tried = FALSE /\ delay = FALSE /\ outcome = "idle"

-----------------------------------------------------------------------------

\* SingleUpstreamConnector::disconnect, do_disconnect
Disconnected(k) ==
    IF k.fsm \in {"CONNECTING", "DISCONNECTING"}
    THEN [k EXCEPT !.fsm = "DISCONNECTED", !.sess = "closed", !.deferred = FALSE] ELSE k

\* A slip: a failure of the main protocol waits for the delay, which a failed start never armed.
HandleConnectResult_waits(i, res, all) ==
    LET cs == [all EXCEPT ![i] = [Destroyed EXCEPT !.sess = all[i].sess]]
    IN  IF res = "ok" \/ cs[Other(i)].has
        THEN /\ outcome' = res /\ delay' = FALSE
             /\ one' = [j \in Sides |-> IF j = i THEN cs[j] ELSE Destroyed]
        ELSE /\ one' = cs /\ outcome' = "running"
             /\ UNCHANGED delay

\* handle_connect_result of the connector i: a session ends the other attempt, two failures end
\* both, and a failure of the main protocol starts the fallback at once. all are the connectors
\* as the caller leaves them.
HandleConnectResult(i, res, all) ==
    LET cs == [all EXCEPT ![i] = [Destroyed EXCEPT !.sess = all[i].sess],
                          ![Other(i)] = IF res = "ok" THEN Disconnected(@) ELSE @]
    IN  IF res = "ok" \/ cs[Other(i)].has
        THEN /\ outcome' = res /\ delay' = FALSE
             /\ one' = [j \in Sides |-> IF j = i THEN cs[j] ELSE Destroyed]
        ELSE /\ one' = cs /\ outcome' = "running"
             /\ delay' = ~tried'

\* SingleUpstreamConnector::connect, do_connect of the connector i.
Opening(i) == [one EXCEPT ![i] = [@ EXCEPT !.fsm = "CONNECTING", !.sess = "opening"]]

\* FallbackableUpstreamConnector::connect
Connect ==
    /\ outcome = "idle" /\ UNCHANGED tried
    /\ \/ one' = Opening("main") /\ delay' = TRUE /\ outcome' = "running"
       \/ HandleConnectResult("main", "err", one)

\* start_fallback_connection
StartFallbackConnection ==
    /\ delay /\ tried' = TRUE
    /\ \/ one' = Opening("fallback") /\ delay' = FALSE /\ UNCHANGED outcome
       \/ HandleConnectResult("fallback", "err", one)

\* raise_connected, raise_disconnected and the connector's handler: the result is a task.
Raise(k, res) == [k EXCEPT !.fsm = "DISCONNECTED", !.result = res]

\* upstream_handler: the session opens, closes or reports an error, after which it may still be
\* there until the deferred disconnect.
UpstreamEvent(i) ==
    LET k == one[i] IN
    /\ k.fsm \in {"CONNECTING", "DISCONNECTING"} /\ k.sess = "opening"
    /\ \/ k.fsm = "CONNECTING" /\ one' = [one EXCEPT ![i] = Raise([k EXCEPT !.sess = "open"], "ok")]
       \/ one' = [one EXCEPT ![i] = Raise([k EXCEPT !.sess = "closed"], "err")]
       \/ /\ k.fsm = "CONNECTING"
          /\ \E s \in {"opening", "closed"} :
                one' = [one EXCEPT ![i] = [k EXCEPT !.fsm = "DISCONNECTING", !.sess = s, !.deferred = TRUE]]
    /\ UNCHANGED <<tried, delay, outcome>>

\* E_DEFERRED_DISCONNECT: nothing to do when the session has closed before.
DeferredDisconnect(i) ==
    /\ one[i].deferred
    /\ one' = [one EXCEPT ![i] = IF @.fsm = "DISCONNECTING" THEN Raise(Disconnected(@), "err")
                                 ELSE [@ EXCEPT !.deferred = FALSE]]
    /\ UNCHANGED <<tried, delay, outcome>>

\* The task of make_deferred_handle_task.
ResultTask(i) ==
    /\ one[i].result # NON /\ UNCHANGED tried
    /\ HandleConnectResult(i, one[i].result, one)

\* FallbackableUpstreamConnector::disconnect, before its owner deletes it.
Disconnect ==
    /\ outcome = "running" /\ outcome' = "disconnected"
    /\ one' = [i \in Sides |-> [(IF i = "main" \/ tried THEN Disconnected(one[i]) ELSE one[i])
                                EXCEPT !.result = NON, !.sess = "closed"]]
    /\ delay' = FALSE /\ UNCHANGED tried

Next == \/ Connect \/ StartFallbackConnection \/ Disconnect
        \/ \E i \in Sides : UpstreamEvent(i) \/ DeferredDisconnect(i) \/ ResultTask(i)

Spec == Init /\ [][Next]_connectorVars

-----------------------------------------------------------------------------

\* A connector that was started always reports, and reports at most one session: until then the
\* delay, a result, a deferred disconnect or a session that is opening keeps it going; a success
\* hands over a session that is open and leaves no other one (handle_connect_result).
ConnectorSettles ==
    /\ outcome = "running" => \/ delay
                              \/ \E i \in Sides : \/ one[i].result # NON \/ one[i].deferred
                                                  \/ one[i].fsm = "CONNECTING" /\ one[i].sess = "opening"
    /\ outcome = "ok" => \E i \in Sides : one[i].sess = "open" /\ one[Other(i)].sess = "closed"
    /\ delay => ~tried /\ ~one["fallback"].has
=============================================================================
