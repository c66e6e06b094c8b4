-------------------------- MODULE VpnRequestsProofs --------------------------
(***************************************************************************)
(* What the session manager does with the connect requests of client       *)
(* connections, and that it implements the lifecycle of SessionLifecycle,  *)
(* for every value of the constants of module VpnManager.                  *)
(*                                                                         *)
(* Almost every handler leaves the requests alone and at most closes       *)
(* connections: Keeps says so, Quiet adds that the session stays where it  *)
(* is.  The lemmas of the first part say which handlers are quiet and what *)
(* they do to the counter of recovery attempts; Step is what one event of  *)
(* the session machine may do, a move of the lifecycle included; the       *)
(* actions that do more with a request are treated one by one.             *)
(***************************************************************************)
EXTENDS VpnManagerProofs

\* The requests are left alone; connections may be closed, a window may begin.
Keeps(v, w) ==
  /\ w.postponed_requests = v.postponed_requests
  /\ w.bypassed_connection_ids = v.bypassed_connection_ids
  /\ w.completed = v.completed
  /\ w.kill_switch_on = v.kill_switch_on
  /\ v.postponement_window_timer => w.postponement_window_timer
  /\ \A r \in Requests :
       w.conn[r] = v.conn[r] \/ (v.conn[r] # "none" /\ w.conn[r] = "closed")

\* Whether vpn_connect was called, and whether its task has run.
Same(v, w) ==
  /\ w.phase = "created" <=> v.phase = "created"
  /\ Has(w.tasks, "do_connect") <=> Has(v.tasks, "do_connect")

\* A handler that leaves the session in its state.
Quiet(v, w) ==
  /\ w \in VpnRecord
  /\ Keeps(v, w) /\ Same(v, w)
  /\ w.state = v.state /\ w.connected_once = v.connected_once

\* The inductive invariant of the requests.  An answered request waits only as
\* a postponed one, and one that was not answered is not routed.
HeldOK(v) ==
  /\ v.postponed_requests # {} => v.postponement_window_timer
  /\ \A r \in v.postponed_requests :
       r \in v.completed /\ (v.conn[r] = "requested" \/ v.conn[r] = "closed")

AnsweredOK(v) ==
  \A r \in Requests :
    IF r \in v.completed
    THEN v.conn[r] # "none" /\ (v.conn[r] = "requested" => r \in v.postponed_requests)
    ELSE v.conn[r] = "none" \/ v.conn[r] = "requested" \/ v.conn[r] = "closed"

BypassOK(v) ==
  \A r \in Requests \ BypassRequests :
    v.conn[r] = "bypassed" => r \in v.bypassed_connection_ids /\ ~v.kill_switch_on

RequestsOK(v) == HeldOK(v) /\ AnsweredOK(v) /\ BypassOK(v)

\* No connection is routed a second time.
Routes(v, w) ==
  \A r \in Requests : v.conn[r] \in {"redirected", "bypassed", "closed"} =>
    w.conn[r] \in {v.conn[r], "closed"}

-----------------------------------------------------------------------------
(* Keeping, and handlers that keep.                                        *)

LEMMA KeepsTrans ==
  ASSUME NEW u, NEW v, NEW w, Keeps(u, v), Keeps(v, w)
  PROVE  Keeps(u, w)
BY SMT DEF Keeps

LEMMA KeepsRequests ==
  ASSUME NEW v \in VpnRecord, NEW w, RequestsOK(v), Keeps(v, w)
  PROVE  RequestsOK(w) /\ Routes(v, w)
<1>1. v.postponed_requests \subseteq Requests /\ v.completed \subseteq Requests
  BY SMT DEF VpnRecord
<1>2. HeldOK(w)
  BY <1>1, SMT DEF RequestsOK, HeldOK, Keeps
<1>3. AnsweredOK(w)
  BY <1>1, SMT DEF RequestsOK, AnsweredOK, Keeps
<1>4. BypassOK(w)
  BY SMT DEF RequestsOK, BypassOK, Keeps
<1>5. Routes(v, w)
  BY SMT DEF Routes, Keeps
<1> QED BY <1>2, <1>3, <1>4, <1>5, Zenon DEF RequestsOK

LEMMA QuietTrans ==
  ASSUME NEW u, NEW v, NEW w, Quiet(u, v), Quiet(v, w)
  PROVE  Quiet(u, w)
<1>1. Keeps(u, w)
  BY KeepsTrans, Zenon DEF Quiet
<1> QED BY <1>1, Zenon DEF Quiet, Same

\* A quiet handler that leaves the counter of recovery attempts alone too.
Calm(v, w) == Quiet(v, w) /\ w.recovery_attempts = v.recovery_attempts

LEMMA CalmTrans ==
  ASSUME NEW u, NEW v, NEW w, Calm(u, v), Calm(v, w)
  PROVE  Calm(u, w)
BY QuietTrans, Zenon DEF Calm

\* The fields that Calm reads, but for the connections and the tasks.
RequestPart(v) ==
  <<v.postponed_requests, v.bypassed_connection_ids, v.completed, v.kill_switch_on,
    v.postponement_window_timer, v.phase, v.state, v.connected_once, v.recovery_attempts>>

LEMMA RequestPartFields ==
  ASSUME NEW v, NEW w, RequestPart(w) = RequestPart(v)
  PROVE  /\ w.postponed_requests = v.postponed_requests
         /\ w.bypassed_connection_ids = v.bypassed_connection_ids
         /\ w.completed = v.completed
         /\ w.kill_switch_on = v.kill_switch_on
         /\ w.postponement_window_timer = v.postponement_window_timer
         /\ w.phase = v.phase /\ w.state = v.state
         /\ w.connected_once = v.connected_once
         /\ w.recovery_attempts = v.recovery_attempts
BY SMT DEF RequestPart

LEMMA CalmFrame ==
  ASSUME NEW v, NEW w \in VpnRecord, RequestPart(w) = RequestPart(v),
         w.conn = v.conn, w.tasks = v.tasks
  PROVE  Calm(v, w)
BY RequestPartFields, Zenon DEF Calm, Quiet, Keeps, Same

LEMMA CalmRefl ==
  ASSUME NEW v \in VpnRecord
  PROVE  Calm(v, v)
BY CalmFrame, Zenon

LEMMA SubmitCalm ==
  ASSUME NEW v \in VpnRecord, NEW t \in Tasks, t # "do_connect"
  PROVE  Calm(v, submit(v, t))
<1> DEFINE w == submit(v, t)
<1>1. w \in VpnRecord /\ (Has(w.tasks, "do_connect") <=> Has(v.tasks, "do_connect"))
  BY SubmitEffect, Zenon
<1>2. RequestPart(w) = RequestPart(v) /\ w.conn = v.conn
  BY SMT DEF VpnRecord, submit, RequestPart
<1> HIDE DEF w
<1>3. Calm(v, w)
  BY <1>1, <1>2, RequestPartFields, Zenon DEF Calm, Quiet, Keeps, Same
<1> QED BY <1>3, Zenon DEF w

LEMMA CloseCalm ==
  ASSUME NEW v \in VpnRecord
  PROVE  Calm(v, close_connections(v))
<1> DEFINE w == close_connections(v)
<1>1. w \in VpnRecord
  BY CloseConnectionsType, Zenon
<1>2. v.conn \in [Requests -> ConnStates]
  BY SMT DEF VpnRecord
<1>3. w.conn = [r \in DOMAIN v.conn |-> IF v.conn[r] = "none" THEN "none" ELSE "closed"]
  BY SMT DEF VpnRecord, close_connections
<1>4. RequestPart(w) = RequestPart(v) /\ w.tasks = v.tasks
  BY SMT DEF VpnRecord, close_connections, RequestPart
<1> HIDE DEF w
<1>5. \A r \in Requests :
        w.conn[r] = v.conn[r] \/ (v.conn[r] # "none" /\ w.conn[r] = "closed")
  BY <1>2, <1>3, SMT
<1>6. Calm(v, w)
  BY <1>1, <1>4, <1>5, RequestPartFields, Zenon DEF Calm, Quiet, Keeps, Same
<1> QED BY <1>6, Zenon DEF w

LEMMA ClearDeferredCalm ==
  ASSUME NEW v \in VpnRecord
  PROVE  Calm(v, clear_deferred_tasks(v))
<1> DEFINE w == clear_deferred_tasks(v)
<1>1. w \in VpnRecord /\ SameManagerTasks(v, w)
  BY ClearDeferredEffect, Zenon
<1>2. Has(w.tasks, "do_connect") <=> Has(v.tasks, "do_connect")
  BY <1>1, Zenon DEF SameManagerTasks, ManagerTasks
<1>3. RequestPart(w) = RequestPart(v) /\ w.conn = v.conn
  BY SMT DEF VpnRecord, clear_deferred_tasks, RequestPart
<1> HIDE DEF w
<1>4. Calm(v, w)
  BY <1>1, <1>2, <1>3, RequestPartFields, Zenon DEF Calm, Quiet, Keeps, Same
<1> QED BY <1>4, Zenon DEF w

LEMMA BeforeDisconnectCalm ==
  ASSUME NEW v \in VpnRecord
  PROVE  /\ on_before_endpoint_disconnect(v) \in VpnRecord
         /\ Calm(v, on_before_endpoint_disconnect(v))
<1> DEFINE c == close_connections(v)
           w == [c EXCEPT !.endpoint_upstream_connected = FALSE]
<1>1. Calm(v, c) /\ c \in VpnRecord
  BY CloseCalm, CloseConnectionsType, Zenon
<1> HIDE DEF c
<1>2. FALSE \in BOOLEAN
  BY Zenon
<1>3. w \in VpnRecord
  BY <1>1, <1>2, ZenonT(60) DEF VpnRecord
<1>4. RequestPart(w) = RequestPart(c) /\ w.conn = c.conn /\ w.tasks = c.tasks
  BY <1>1, SMT DEF VpnRecord, RequestPart
<1> HIDE DEF w
<1>5. Calm(v, w)
  BY <1>1, <1>3, <1>4, CalmFrame, CalmTrans, Zenon
<1> QED BY <1>3, <1>5, Zenon DEF on_before_endpoint_disconnect, c, w

LEMMA RunDisconnectCalm ==
  ASSUME NEW v \in VpnRecord
  PROVE  Calm(v, run_disconnect(v))
<1> DEFINE b == on_before_endpoint_disconnect(v)
           c == clear_deferred_tasks(b)
           w == run_disconnect(v)
<1>1. w \in VpnRecord
  BY RunDisconnectType, Zenon
<1>2. b \in VpnRecord /\ Calm(v, b)
  BY BeforeDisconnectCalm, Zenon
<1> HIDE DEF b
<1>3. c \in VpnRecord /\ Calm(v, c)
  BY <1>2, ClearDeferredCalm, ClearDeferredEffect, CalmTrans, Zenon
<1>4. w = [c EXCEPT !.endpoint_connector = "nullptr",
                    !.endpoint_upstream = IF c.endpoint_upstream = "nullptr"
                                          THEN "nullptr" ELSE "closed",
                    !.client_fsm = "S_DISCONNECTED"]
  BY Zenon DEF run_disconnect, b
<1> HIDE DEF c, w
<1>5. RequestPart(w) = RequestPart(c) /\ w.conn = c.conn /\ w.tasks = c.tasks
  BY <1>3, <1>4, SMT DEF VpnRecord, RequestPart
<1>6. Calm(v, w)
  BY <1>1, <1>3, <1>5, CalmFrame, CalmTrans, Zenon
<1> QED BY <1>6, Zenon DEF w

LEMMA DisconnectClientCalm ==
  ASSUME NEW v \in VpnRecord
  PROVE  Calm(v, disconnect_client(v))
<1> DEFINE d == client_disconnect(v)
           w == [d EXCEPT !.client_state = "CLIS_DISCONNECTED"]
<1>1. d \in VpnRecord /\ Calm(v, d)
  BY RunDisconnectType, RunDisconnectCalm, CalmRefl, Zenon DEF client_disconnect
<1> HIDE DEF d
<1>2. w \in VpnRecord
  BY <1>1, Zenon DEF VpnRecord, ClientConnectionStates
<1>3. RequestPart(w) = RequestPart(d) /\ w.conn = d.conn /\ w.tasks = d.tasks
  BY <1>1, SMT DEF VpnRecord, RequestPart
<1> HIDE DEF w
<1>4. Calm(v, w)
  BY <1>1, <1>2, <1>3, CalmFrame, CalmTrans, Zenon
<1> QED BY <1>4, CalmRefl, Zenon DEF disconnect_client, d, w

LEMMA StopPingingCalm ==
  ASSUME NEW v \in VpnRecord
  PROVE  Calm(v, stop_pinging(v))
<1> DEFINE w == stop_pinging(v)
<1>1. w \in VpnRecord
  BY StopPingingType, Zenon
<1>2. RequestPart(w) = RequestPart(v) /\ w.conn = v.conn /\ w.tasks = v.tasks
  BY SMT DEF VpnRecord, RequestPart, stop_pinging
<1> QED BY <1>1, <1>2, CalmFrame, Zenon

LEMMA DisconnectCalm ==
  ASSUME NEW v \in VpnRecord
  PROVE  Calm(v, disconnect(v))
BY StopPingingType, StopPingingCalm, DisconnectClientCalm, CalmTrans, Zenon DEF disconnect

LEMMA RunPingCalm ==
  ASSUME NEW v \in VpnRecord
  PROVE  Calm(v, run_ping(v))
<1> DEFINE w == run_ping(v)
<1>1. w \in VpnRecord
  BY RunPingType, Zenon
<1>2. RequestPart(w) = RequestPart(v) /\ w.conn = v.conn /\ w.tasks = v.tasks
  BY SMT DEF VpnRecord, RequestPart, run_ping, stop_pinging
<1> QED BY <1>1, <1>2, CalmFrame, Zenon

LEMMA PendingErrorCalm ==
  ASSUME NEW v \in VpnRecord, NEW error \in MaybeError
  PROVE  Calm(v, [v EXCEPT !.pending_error = error])
<1> DEFINE w == [v EXCEPT !.pending_error = error]
<1>1. w \in VpnRecord
  BY PendingErrorType, Zenon
<1>2. RequestPart(w) = RequestPart(v) /\ w.conn = v.conn /\ w.tasks = v.tasks
  BY SMT DEF VpnRecord, RequestPart
<1> QED BY <1>1, <1>2, CalmFrame, Zenon

LEMMA NoteErrorCalm ==
  ASSUME NEW v \in VpnRecord, NEW error \in MaybeError
  PROVE  Calm(v, note_error(v, error))
<1> DEFINE w == note_error(v, error)
<1>1. w \in VpnRecord
  BY NoteErrorType, Zenon
<1>2. RequestPart(w) = RequestPart(v) /\ w.conn = v.conn /\ w.tasks = v.tasks
  BY SMT DEF VpnRecord, RequestPart, note_error
<1> QED BY <1>1, <1>2, CalmFrame, Zenon

LEMMA RunClientConnectCalm ==
  ASSUME NEW v \in VpnRecord, NEW started \in BOOLEAN
  PROVE  Calm(v, run_client_connect(v, started))
<1> DEFINE error == connect_error(v, started)
           p == [v EXCEPT !.client_pending_error = NullOpt,
                          !.client_fsm = "S_CONNECTING",
                          !.endpoint_connector = "connecting"]
           w == client_connect(v, started)
           x == [w EXCEPT !.client_state = "CLIS_CONNECTING", !.pending_error = NullOpt]
           y == [w EXCEPT !.pending_error = error]
<1>1. w \in VpnRecord
  BY ClientConnectType, Zenon
<1>2. p \in VpnRecord
  BY Zenon DEF VpnRecord, MaybeError, ClientStates, ConnectorStates
<1>3. RequestPart(p) = RequestPart(v) /\ p.conn = v.conn /\ p.tasks = v.tasks
  BY SMT DEF VpnRecord, RequestPart
<1>4. w = v \/ w = p \/ w = run_disconnect(p)
  <2> HIDE DEF p
  <2>1. w = CASE v.client_fsm # "S_DISCONNECTED" -> v
              [] v.client_fsm = "S_DISCONNECTED" /\ connect_error(v, started) = NoError -> p
              [] OTHER -> run_disconnect(p)
    BY Zenon DEF client_connect, p
  <2> QED BY <2>1, Zenon
<1> HIDE DEF p, w
<1>5. Calm(v, p)
  BY <1>2, <1>3, CalmFrame, Zenon
<1>6. Calm(v, w)
  <2>1. Calm(p, run_disconnect(p)) /\ Calm(v, v)
    BY <1>2, CalmRefl, RunDisconnectCalm, Zenon
  <2>2. Calm(v, run_disconnect(p))
    BY <1>5, <2>1, CalmTrans, Zenon
  <2> QED BY <1>4, <1>5, <2>1, <2>2, Zenon
<1>7. error \in MaybeError
  <2>1. v.client_pending_error \in MaybeError
    BY Zenon DEF VpnRecord
  <2> QED BY <2>1, ErrorsType, Zenon DEF connect_error
<1>8. run_client_connect(v, started) = x
      \/ run_client_connect(v, started) = submit(y, "client_disconnected")
  BY Zenon DEF run_client_connect, w
<1> HIDE DEF error
<1>9. x \in VpnRecord
  BY <1>1, Zenon DEF VpnRecord, ClientConnectionStates, MaybeError
<1>10. RequestPart(x) = RequestPart(w) /\ x.conn = w.conn /\ x.tasks = w.tasks
  BY <1>1, SMT DEF VpnRecord, RequestPart
<1>11. y \in VpnRecord /\ Calm(w, y)
  BY <1>1, <1>7, PendingErrorCalm, PendingErrorType, Zenon
<1> HIDE DEF x, y
<1>12. Calm(v, x)
  BY <1>6, <1>9, <1>10, CalmFrame, CalmTrans, Zenon
<1>13. Calm(y, submit(y, "client_disconnected"))
  BY <1>11, TasksType, SubmitCalm, Zenon
<1>14. Calm(v, submit(y, "client_disconnected"))
  BY <1>6, <1>11, <1>13, CalmTrans, Zenon
<1> QED BY <1>8, <1>12, <1>14, Zenon

LEMMA ReconnectClientCalm ==
  ASSUME NEW v \in VpnRecord, NEW started \in BOOLEAN
  PROVE  Calm(v, reconnect_client(v, started))
BY DisconnectClientType, DisconnectClientCalm, RunClientConnectCalm, CalmTrans, Zenon
   DEF reconnect_client

LEMMA RetryConnectCalm ==
  ASSUME NEW v \in VpnRecord
  PROVE  Calm(v, retry_connect(v))
<1> DEFINE n == decrement(v.attempts_left)
           a == [v EXCEPT !.attempts_left = n]
           w == IF v.retry_policy = "VPN_CRP_SEVERAL_ATTEMPTS" THEN a ELSE v
<1>1. n \in 0..SizeMax
  BY DecrementType, Zenon DEF VpnRecord
<1> HIDE DEF n
<1>2. a \in VpnRecord
  BY <1>1, Zenon DEF VpnRecord
<1>3. RequestPart(a) = RequestPart(v) /\ a.conn = v.conn /\ a.tasks = v.tasks
  BY SMT DEF VpnRecord, RequestPart
<1>4. retry_connect(v) = submit(disconnect(w), "retry_connect")
  BY Zenon DEF retry_connect, n
<1> HIDE DEF a
<1>5. w \in VpnRecord /\ Calm(v, w)
  BY <1>2, <1>3, CalmFrame, CalmRefl, Zenon
<1> HIDE DEF w
<1>6. disconnect(w) \in VpnRecord /\ Calm(v, disconnect(w))
  BY <1>5, DisconnectType, DisconnectCalm, CalmTrans, Zenon
<1>7. Calm(disconnect(w), submit(disconnect(w), "retry_connect"))
  BY <1>6, TasksType, SubmitCalm, Zenon
<1> QED BY <1>4, <1>6, <1>7, CalmTrans, Zenon

-----------------------------------------------------------------------------
(* Handlers that change the counter of recovery attempts.                  *)

LEMMA ResetRecoveryQuiet ==
  ASSUME NEW v \in VpnRecord
  PROVE  Quiet(v, reset_recovery(v)) /\ reset_recovery(v).recovery_attempts = 0
<1> DEFINE w == reset_recovery(v)
<1>1. w \in VpnRecord
  BY ResetRecoveryType, Zenon
<1>2. /\ w.postponed_requests = v.postponed_requests
      /\ w.bypassed_connection_ids = v.bypassed_connection_ids
      /\ w.completed = v.completed
      /\ w.kill_switch_on = v.kill_switch_on
      /\ w.postponement_window_timer = v.postponement_window_timer
      /\ w.phase = v.phase /\ w.state = v.state /\ w.connected_once = v.connected_once
      /\ w.recovery_attempts = 0 /\ w.conn = v.conn /\ w.tasks = v.tasks
  BY SMT DEF VpnRecord, reset_recovery
<1> HIDE DEF w
<1>3. Quiet(v, w)
  BY <1>1, <1>2, Zenon DEF Quiet, Keeps, Same
<1> QED BY <1>2, <1>3, Zenon DEF w

LEMMA CalmQuiet ==
  ASSUME NEW u, NEW v, NEW w, Calm(u, v), Quiet(v, w)
  PROVE  Quiet(u, w)
BY QuietTrans, Zenon DEF Calm

LEMMA DoDisconnectQuiet ==
  ASSUME NEW v \in VpnRecord
  PROVE  Quiet(v, do_disconnect(v)) /\ do_disconnect(v).recovery_attempts = 0
<1>1. /\ Quiet(v, reset_recovery(v)) /\ reset_recovery(v).recovery_attempts = 0
      /\ reset_recovery(v) \in VpnRecord
  BY ResetRecoveryQuiet, ResetRecoveryType, Zenon
<1>2. Calm(reset_recovery(v), disconnect(reset_recovery(v)))
  BY <1>1, DisconnectCalm, Zenon
<1> QED BY <1>1, <1>2, QuietTrans, Zenon DEF Calm, do_disconnect

LEMMA CompleteConnectQuiet ==
  ASSUME NEW v \in VpnRecord, NEW error \in MaybeError
  PROVE  Quiet(v, complete_connect(v, error)) /\ complete_connect(v, error).recovery_attempts = 0
<1> DEFINE failed == v.pending_error = NullOpt /\ error \notin {NullOpt, NoError}
           w == IF failed THEN note_error(disconnect(v), error) ELSE v
           exhausted == /\ w.pending_error # NullOpt
                        /\ ~is_fatal_error(w, error)
                        /\ no_connect_attempts(w)
           p == IF exhausted THEN "VPN_EC_INITIAL_CONNECT_FAILED" ELSE w.pending_error
           x == [w EXCEPT !.pending_error = p]
<1>1. disconnect(v) \in VpnRecord /\ Calm(v, disconnect(v))
  BY DisconnectType, DisconnectCalm, Zenon
<1>2. Calm(disconnect(v), note_error(disconnect(v), error))
  BY <1>1, NoteErrorCalm, Zenon
<1>3. w \in VpnRecord /\ Calm(v, w)
  BY <1>1, <1>2, NoteErrorType, CalmTrans, CalmRefl, Zenon
<1>4. p \in MaybeError
  <2> HIDE DEF w
  <2>1. w.pending_error \in MaybeError
    BY <1>3, Zenon DEF VpnRecord
  <2> QED BY <2>1, ErrorsType, Zenon
<1>5. complete_connect(v, error) = reset_recovery(x)
  BY Zenon DEF complete_connect
<1> HIDE DEF w, p
<1>6. x \in VpnRecord /\ Calm(w, x)
  BY <1>3, <1>4, PendingErrorType, PendingErrorCalm, Zenon
<1> HIDE DEF x
<1>7. Quiet(x, reset_recovery(x)) /\ reset_recovery(x).recovery_attempts = 0
  BY <1>6, ResetRecoveryQuiet, Zenon
<1>8. Quiet(v, reset_recovery(x))
  BY <1>3, <1>6, <1>7, CalmTrans, CalmQuiet, Zenon
<1> QED BY <1>5, <1>7, <1>8, Zenon

\* The next attempt is counted, or every attempt allowed has been made.
Counted(v, w) ==
  \/ v.recovery_attempts < RecoveryAttempts /\ w.recovery_attempts = v.recovery_attempts + 1
  \/ v.recovery_attempts = RecoveryAttempts /\ w.recovery_attempts = v.recovery_attempts

LEMMA InitiateRecoveryQuiet ==
  ASSUME NEW v \in VpnRecord, NEW slow \in BOOLEAN
  PROVE  Quiet(v, initiate_recovery(v, slow)) /\ Counted(v, initiate_recovery(v, slow))
<1> DEFINE w == initiate_recovery(v, slow)
<1>1. w \in VpnRecord
  BY InitiateRecoveryType, Zenon
<1>2. v.recovery_attempts \in 0..RecoveryAttempts /\ RecoveryAttempts \in Nat
  BY ConstantsAssumption, SMT DEF VpnRecord
<1>3. CASE v.recovery_attempts >= RecoveryAttempts
  <2>1. w = submit(v, "failed_recovery")
    BY <1>3, Zenon DEF initiate_recovery
  <2>2. Calm(v, w)
    BY <2>1, TasksType, SubmitCalm, Zenon
  <2>3. w.recovery_attempts = v.recovery_attempts
    BY <2>2, Zenon DEF Calm
  <2>4. v.recovery_attempts = RecoveryAttempts
    BY <1>2, <1>3, SMT
  <2> QED BY <2>2, <2>3, <2>4, Zenon DEF Calm, Counted
<1>4. CASE ~(v.recovery_attempts >= RecoveryAttempts)
  <2>1. w = [v EXCEPT !.postponement_window_timer = @ \/ ~v.recovery_start_ts,
                      !.recovery_attempts = @ + 1, !.recovery_task = TRUE,
                      !.recovery_start_ts = ~slow]
    BY <1>4, Zenon DEF initiate_recovery
  <2> HIDE DEF w
  <2>2. /\ w.postponed_requests = v.postponed_requests
        /\ w.bypassed_connection_ids = v.bypassed_connection_ids
        /\ w.completed = v.completed
        /\ w.kill_switch_on = v.kill_switch_on
        /\ w.postponement_window_timer = (v.postponement_window_timer \/ ~v.recovery_start_ts)
        /\ w.phase = v.phase /\ w.state = v.state /\ w.connected_once = v.connected_once
        /\ w.recovery_attempts = v.recovery_attempts + 1
        /\ w.conn = v.conn /\ w.tasks = v.tasks
    BY <2>1, SMT DEF VpnRecord
  <2>3. Quiet(v, w)
    BY <1>1, <2>2, Zenon DEF Quiet, Keeps, Same
  <2>4. v.recovery_attempts < RecoveryAttempts
    BY <1>2, <1>4, SMT
  <2> QED BY <2>2, <2>3, <2>4, Zenon DEF Counted, w
<1> QED BY <1>3, <1>4, Zenon

LEMMA PrepareForRecoveryQuiet ==
  ASSUME NEW v \in VpnRecord, NEW error \in MaybeError, NEW slow \in BOOLEAN
  PROVE  /\ Quiet(v, prepare_for_recovery(v, error, slow))
         /\ Counted(v, prepare_for_recovery(v, error, slow))
<1> DEFINE d == disconnect(v)
           i == initiate_recovery(d, slow)
           n == note_error(i, error)
<1>1. d \in VpnRecord /\ Calm(v, d)
  BY DisconnectType, DisconnectCalm, Zenon
<1> HIDE DEF d
<1>2. i \in VpnRecord /\ Quiet(d, i) /\ Counted(d, i)
  BY <1>1, InitiateRecoveryType, InitiateRecoveryQuiet, Zenon
<1> HIDE DEF i
<1>3. Calm(i, n)
  BY <1>2, NoteErrorCalm, Zenon
<1> HIDE DEF n
<1>4. Quiet(v, n)
  BY <1>1, <1>2, <1>3, CalmQuiet, QuietTrans, Zenon DEF Calm
<1>5. Counted(v, n)
  BY <1>1, <1>2, <1>3, Zenon DEF Counted, Calm
<1> QED BY <1>4, <1>5, Zenon DEF prepare_for_recovery, d, i, n

-----------------------------------------------------------------------------
(* Moves of the lifecycle, as relations between two states of struct Vpn.  *)

SameConnected(v, w) == w.connected_once = v.connected_once

Stays(v, w) ==
  w.state = v.state /\ SameConnected(v, w) /\ w.recovery_attempts = v.recovery_attempts

Begins(v, w) ==
  /\ v.state = "VPN_SS_DISCONNECTED" /\ w.state = "VPN_SS_CONNECTING"
  /\ SameConnected(v, w) /\ w.recovery_attempts = v.recovery_attempts

Succeeds(v, w) ==
  /\ v.state \in {"VPN_SS_CONNECTING", "VPN_SS_RECOVERING"}
  /\ w.state = "VPN_SS_CONNECTED" /\ w.connected_once = TRUE /\ w.recovery_attempts = 0

Waits(v, w) ==
  /\ v.state \in {"VPN_SS_CONNECTING", "VPN_SS_CONNECTED", "VPN_SS_RECOVERING",
                  "VPN_SS_WAITING_FOR_NETWORK"}
  /\ w.state = "VPN_SS_WAITING_RECOVERY" /\ SameConnected(v, w) /\ Counted(v, w)

Recovers(v, w) ==
  /\ v.state = "VPN_SS_WAITING_RECOVERY" /\ w.state = "VPN_SS_RECOVERING"
  /\ SameConnected(v, w) /\ w.recovery_attempts = v.recovery_attempts

LosesNetwork(v, w) ==
  /\ v.state # "VPN_SS_DISCONNECTED" /\ v.state # "VPN_SS_WAITING_FOR_NETWORK"
  /\ w.state = "VPN_SS_WAITING_FOR_NETWORK"
  /\ SameConnected(v, w) /\ w.recovery_attempts = 0

ConnectsAgain(v, w) ==
  /\ v.state = "VPN_SS_WAITING_FOR_NETWORK" /\ ~v.connected_once
  /\ w.state = "VPN_SS_CONNECTING"
  /\ SameConnected(v, w) /\ w.recovery_attempts = v.recovery_attempts

Ends(v, w) ==
  /\ v.state # "VPN_SS_DISCONNECTED" /\ w.state = "VPN_SS_DISCONNECTED"
  /\ SameConnected(v, w) /\ w.recovery_attempts = 0

Moves(v, w) ==
  \/ Stays(v, w) \/ Succeeds(v, w) \/ Waits(v, w) \/ Recovers(v, w)
  \/ LosesNetwork(v, w) \/ ConnectsAgain(v, w) \/ Ends(v, w)

\* What finalize_recovery does with the requests: those postponed are routed or
\* closed, those on the list of bypassed connections closed.
Answers(v, w, r) ==
  \/ v.conn[r] # "none" /\ w.conn[r] = "closed"
  \/ /\ w.conn[r] = v.conn[r]
     /\ r \notin v.bypassed_connection_ids \/ v.conn[r] = "none"
     /\ r \notin v.postponed_requests \/ v.conn[r] = "none" \/ v.conn[r] = "closed"
  \/ /\ r \in v.postponed_requests /\ v.conn[r] # "none" /\ v.conn[r] # "closed"
     /\ w.conn[r] = "redirected" \/ (r \in BypassRequests /\ w.conn[r] = "bypassed")

Finalizes(v, w) ==
  /\ w.postponed_requests = {} /\ w.bypassed_connection_ids = {}
  /\ w.completed = v.completed /\ w.kill_switch_on = v.kill_switch_on
  /\ \A r \in Requests : Answers(v, w, r)

\* What one event of the session machine may do.
Step(v, w) ==
  /\ w \in VpnRecord /\ Same(v, w) /\ Moves(v, w)
  /\ IF v.state = "VPN_SS_RECOVERING" /\ w.state = "VPN_SS_CONNECTED"
     THEN Finalizes(v, w) ELSE Keeps(v, w)

LEMMA CalmStep ==
  ASSUME NEW u, NEW v, Calm(u, v)
  PROVE  Step(u, v)
BY Zenon DEF Calm, Quiet, Step, Moves, Stays, SameConnected

LEMMA CalmThenStep ==
  ASSUME NEW u, NEW v, NEW w, Calm(u, v), Step(v, w), u \in VpnRecord
  PROVE  Step(u, w)
<1>1. /\ v \in VpnRecord /\ Keeps(u, v) /\ Same(u, v) /\ v.state = u.state
      /\ v.connected_once = u.connected_once /\ v.recovery_attempts = u.recovery_attempts
  BY Zenon DEF Calm, Quiet
<1>2. Same(u, w)
  BY <1>1, Zenon DEF Step, Same
<1>3. Moves(u, w)
  BY <1>1, Zenon DEF Step, Moves, Stays, Succeeds, Waits, Recovers, LosesNetwork,
     ConnectsAgain, Ends, SameConnected, Counted
<1>4. CASE v.state = "VPN_SS_RECOVERING" /\ w.state = "VPN_SS_CONNECTED"
  <2>1. Finalizes(v, w)
    BY <1>4, Zenon DEF Step
  <2>2. \A r \in Requests : Answers(u, w, r)
    BY <1>1, <2>1, SMT DEF Finalizes, Answers, Keeps
  <2>3. Finalizes(u, w)
    BY <1>1, <2>1, <2>2, Zenon DEF Finalizes, Keeps
  <2> QED BY <1>1, <1>2, <1>3, <1>4, <2>3, Zenon DEF Step
<1>5. CASE ~(v.state = "VPN_SS_RECOVERING" /\ w.state = "VPN_SS_CONNECTED")
  <2>1. Keeps(u, w)
    BY <1>1, <1>5, KeepsTrans, Zenon DEF Step
  <2> QED BY <1>1, <1>2, <1>3, <1>5, <2>1, Zenon DEF Step
<1> QED BY <1>4, <1>5, Zenon

LEMMA EnterKeeps ==
  ASSUME NEW v, NEW u \in VpnRecord, Quiet(v, u), NEW st \in SessionStates
  PROVE  LET w == Enter(u, st)
         IN /\ w \in VpnRecord /\ Keeps(v, w) /\ Same(v, w) /\ w.state = st
            /\ w.recovery_attempts = u.recovery_attempts
            /\ st # "VPN_SS_CONNECTED" => SameConnected(v, w)
            /\ st = "VPN_SS_CONNECTED" => w.connected_once = TRUE
<1> DEFINE w == Enter(u, st)
<1>1. w \in VpnRecord
  BY EnterType, Zenon
<1>2. /\ w.postponed_requests = u.postponed_requests
      /\ w.bypassed_connection_ids = u.bypassed_connection_ids
      /\ w.completed = u.completed
      /\ w.kill_switch_on = u.kill_switch_on
      /\ w.postponement_window_timer = u.postponement_window_timer
      /\ w.phase = u.phase /\ w.state = st
      /\ w.recovery_attempts = u.recovery_attempts
      /\ w.conn = u.conn /\ w.tasks = u.tasks
  BY SMT DEF VpnRecord, Enter
<1>3. w.connected_once = (u.connected_once \/ st = "VPN_SS_CONNECTED")
  BY SMT DEF VpnRecord, Enter
<1>4. u.connected_once \in BOOLEAN
  BY SMT DEF VpnRecord
<1> HIDE DEF w
<1>5. Keeps(u, w) /\ Same(u, w)
  BY <1>2, Zenon DEF Keeps, Same
<1>6. Keeps(v, w) /\ Same(v, w)
  BY <1>5, KeepsTrans, Zenon DEF Quiet, Same
<1>7. /\ st # "VPN_SS_CONNECTED" => SameConnected(v, w)
      /\ st = "VPN_SS_CONNECTED" => w.connected_once = TRUE
  BY <1>3, <1>4, Zenon DEF Quiet, SameConnected
<1> QED BY <1>1, <1>2, <1>6, <1>7, Zenon DEF w

LEMMA FinalizeRecoveryAnswers ==
  ASSUME NEW v \in VpnRecord
  PROVE  LET w == finalize_recovery(v)
         IN /\ w \in VpnRecord /\ Same(v, w) /\ Finalizes(v, w)
            /\ w.recovery_attempts = 0
<1> DEFINE q == stop_pinging(reset_recovery(v))
           p == [q EXCEPT !.postponement_window_timer = FALSE]
           c == complete_all(p, p.postponed_requests, BypassRequests)
           x == [c EXCEPT !.postponed_requests = {}]
           w == finalize_recovery(v)
<1>1. w \in VpnRecord
  BY FinalizeRecoveryType, Zenon
<1>2. q \in VpnRecord
  BY ResetRecoveryType, StopPingingType, Zenon
<1>3. p \in VpnRecord
  <2> HIDE DEF q
  <2> QED BY <1>2, Zenon DEF VpnRecord
<1>4. /\ p.postponed_requests = v.postponed_requests
      /\ p.bypassed_connection_ids = v.bypassed_connection_ids
      /\ p.completed = v.completed /\ p.kill_switch_on = v.kill_switch_on
      /\ p.phase = v.phase /\ p.conn = v.conn /\ p.tasks = v.tasks
      /\ p.recovery_attempts = 0
  BY SMT DEF VpnRecord, stop_pinging, reset_recovery
<1>5. w = reset_bypassed_connections(x)
  BY Zenon DEF finalize_recovery, complete_postponed_requests
<1> HIDE DEF p, q
<1>6. v.conn \in [Requests -> ConnStates]
  BY SMT DEF VpnRecord
<1>7. /\ c.bypassed_connection_ids = p.bypassed_connection_ids
      /\ c.completed = p.completed /\ c.kill_switch_on = p.kill_switch_on
      /\ c.phase = p.phase /\ c.tasks = p.tasks
      /\ c.recovery_attempts = p.recovery_attempts
      /\ c.conn = [r \in DOMAIN p.conn |->
           IF r \notin p.postponed_requests \/ p.conn[r] \in {"none", "closed"} THEN p.conn[r]
           ELSE IF r \in BypassRequests THEN "bypassed"
           ELSE IF p.endpoint_upstream_connected THEN "redirected"
           ELSE "closed"]
  BY <1>3, SMT DEF VpnRecord, complete_all
<1>8. c \in VpnRecord
  BY <1>3, CompleteAllType, Zenon
<1> HIDE DEF c
<1>9. /\ w.postponed_requests = {} /\ w.bypassed_connection_ids = {}
      /\ w.completed = c.completed /\ w.kill_switch_on = c.kill_switch_on
      /\ w.phase = c.phase /\ w.tasks = c.tasks
      /\ w.recovery_attempts = c.recovery_attempts
      /\ w.conn = [r \in DOMAIN c.conn |->
                      IF r \in c.bypassed_connection_ids /\ c.conn[r] # "none"
                      THEN "closed" ELSE c.conn[r]]
  BY <1>5, <1>8, SMT DEF VpnRecord, reset_bypassed_connections
<1> HIDE DEF w
<1>10. \A r \in Requests : Answers(v, w, r)
  <2> SUFFICES ASSUME NEW r \in Requests
               PROVE  Answers(v, w, r)
    BY Zenon
  <2>1. c.conn[r] = IF r \notin v.postponed_requests \/ v.conn[r] \in {"none", "closed"}
                    THEN v.conn[r]
                    ELSE IF r \in BypassRequests THEN "bypassed"
                    ELSE IF p.endpoint_upstream_connected THEN "redirected"
                    ELSE "closed"
    BY <1>4, <1>6, <1>7, Zenon
  <2>2. DOMAIN c.conn = Requests
    BY <1>4, <1>6, <1>7, Zenon
  <2>3. c.bypassed_connection_ids = v.bypassed_connection_ids
    BY <1>4, <1>7, Zenon
  <2>4. w.conn[r] = IF r \in v.bypassed_connection_ids /\ c.conn[r] # "none"
                    THEN "closed" ELSE c.conn[r]
    BY <1>9, <2>2, <2>3, SMT
  <2> QED BY <2>1, <2>4, SMT DEF Answers
<1>11. Finalizes(v, w) /\ Same(v, w)
  BY <1>4, <1>7, <1>9, <1>10, Zenon DEF Finalizes, Same
<1> QED BY <1>1, <1>4, <1>7, <1>9, <1>11, Zenon DEF w

-----------------------------------------------------------------------------
(* Events of the session machine.                                          *)

\* The ways into each state.
LEMMA ToDisconnectedStep ==
  ASSUME NEW v \in VpnRecord, v.state # "VPN_SS_DISCONNECTED", NEW u \in VpnRecord,
         Quiet(v, u), u.recovery_attempts = 0
  PROVE  Step(v, Enter(u, "VPN_SS_DISCONNECTED"))
<1> DEFINE w == Enter(u, "VPN_SS_DISCONNECTED")
<1>1. /\ w \in VpnRecord /\ Keeps(v, w) /\ Same(v, w) /\ w.state = "VPN_SS_DISCONNECTED"
      /\ w.recovery_attempts = 0 /\ SameConnected(v, w)
  BY SessionStatesType, EnterKeeps, Zenon
<1> HIDE DEF w
<1>2. Moves(v, w)
  BY <1>1, Zenon DEF Moves, Ends
<1> QED BY <1>1, <1>2, Zenon DEF w, Step

LEMMA ToWaitingForNetworkStep ==
  ASSUME NEW v \in VpnRecord, v.state # "VPN_SS_DISCONNECTED",
         v.state # "VPN_SS_WAITING_FOR_NETWORK", NEW u \in VpnRecord,
         Quiet(v, u), u.recovery_attempts = 0
  PROVE  Step(v, Enter(u, "VPN_SS_WAITING_FOR_NETWORK"))
<1> DEFINE w == Enter(u, "VPN_SS_WAITING_FOR_NETWORK")
<1>1. /\ w \in VpnRecord /\ Keeps(v, w) /\ Same(v, w)
      /\ w.state = "VPN_SS_WAITING_FOR_NETWORK"
      /\ w.recovery_attempts = 0 /\ SameConnected(v, w)
  BY SessionStatesType, EnterKeeps, Zenon
<1> HIDE DEF w
<1>2. Moves(v, w)
  BY <1>1, Zenon DEF Moves, LosesNetwork
<1> QED BY <1>1, <1>2, Zenon DEF w, Step

LEMMA ToWaitingRecoveryStep ==
  ASSUME NEW v \in VpnRecord, NEW error \in MaybeError, NEW slow \in BOOLEAN,
         v.state \in {"VPN_SS_CONNECTING", "VPN_SS_CONNECTED", "VPN_SS_RECOVERING",
                     "VPN_SS_WAITING_FOR_NETWORK"}
  PROVE  Step(v, Enter(prepare_for_recovery(v, error, slow), "VPN_SS_WAITING_RECOVERY"))
<1> DEFINE u == prepare_for_recovery(v, error, slow)
           w == Enter(u, "VPN_SS_WAITING_RECOVERY")
<1>1. u \in VpnRecord /\ Quiet(v, u) /\ Counted(v, u)
  BY PrepareForRecoveryType, PrepareForRecoveryQuiet, Zenon
<1> HIDE DEF u
<1>2. /\ w \in VpnRecord /\ Keeps(v, w) /\ Same(v, w)
      /\ w.state = "VPN_SS_WAITING_RECOVERY"
      /\ w.recovery_attempts = u.recovery_attempts /\ SameConnected(v, w)
  BY <1>1, SessionStatesType, EnterKeeps, Zenon
<1> HIDE DEF w
<1>3. Moves(v, w)
  BY <1>1, <1>2, Zenon DEF Moves, Waits, Counted
<1> QED BY <1>2, <1>3, Zenon DEF w, u, Step

LEMMA ToRecoveringStep ==
  ASSUME NEW v \in VpnRecord, v.state = "VPN_SS_WAITING_RECOVERY", NEW u \in VpnRecord,
         Calm(v, u)
  PROVE  Step(v, Enter(u, "VPN_SS_RECOVERING"))
<1> DEFINE w == Enter(u, "VPN_SS_RECOVERING")
<1>0. Quiet(v, u) /\ u.recovery_attempts = v.recovery_attempts
  BY Zenon DEF Calm
<1>1. /\ w \in VpnRecord /\ Keeps(v, w) /\ Same(v, w) /\ w.state = "VPN_SS_RECOVERING"
      /\ w.recovery_attempts = u.recovery_attempts /\ SameConnected(v, w)
  BY <1>0, SessionStatesType, EnterKeeps, ZenonT(30)
<1> HIDE DEF w
<1>2. Moves(v, w)
  BY <1>0, <1>1, Zenon DEF Moves, Recovers
<1> QED BY <1>1, <1>2, Zenon DEF w, Step

LEMMA EndSessionStep ==
  ASSUME NEW v \in VpnRecord, v.state # "VPN_SS_DISCONNECTED"
  PROVE  /\ Step(v, Enter(do_disconnect(v), "VPN_SS_DISCONNECTED"))
         /\ \A error \in MaybeError :
              Step(v, Enter(complete_connect(v, error), "VPN_SS_DISCONNECTED"))
<1>1. Step(v, Enter(do_disconnect(v), "VPN_SS_DISCONNECTED"))
  BY DoDisconnectType, DoDisconnectQuiet, ToDisconnectedStep, Zenon
<1>2. ASSUME NEW error \in MaybeError
      PROVE  Step(v, Enter(complete_connect(v, error), "VPN_SS_DISCONNECTED"))
  BY CompleteConnectType, CompleteConnectQuiet, ToDisconnectedStep, Zenon
<1> QED BY <1>1, <1>2, Zenon

LEMMA ConnectingFailedStep ==
  ASSUME NEW v \in VpnRecord, v.state = "VPN_SS_CONNECTING",
         NEW error \in MaybeError, NEW slow \in BOOLEAN
  PROVE  Step(v, connecting_failed(v, error, slow))
<1>1. /\ Step(v, Enter(complete_connect(v, error), "VPN_SS_DISCONNECTED"))
      /\ Step(v, Enter(prepare_for_recovery(v, error, slow), "VPN_SS_WAITING_RECOVERY"))
      /\ Step(v, retry_connect(v))
  BY EndSessionStep, ToWaitingRecoveryStep, RetryConnectCalm, CalmStep, Zenon
<1> QED BY <1>1, Zenon DEF connecting_failed

LEMMA SessionFailedStep ==
  ASSUME NEW v \in VpnRecord, v.state # "VPN_SS_DISCONNECTED",
         NEW error \in MaybeError, NEW slow \in BOOLEAN,
         v.state = "VPN_SS_WAITING_RECOVERY" => is_fatal_error(v, error)
  PROVE  Step(v, session_failed(v, error, slow))
<1>1. Step(v, Enter(do_disconnect(v), "VPN_SS_DISCONNECTED"))
  BY EndSessionStep, Zenon
<1>2. v.state \in SessionStates
  BY SMT DEF VpnRecord
<1>3. v.state # "VPN_SS_WAITING_RECOVERY" =>
        Step(v, Enter(prepare_for_recovery(v, error, slow), "VPN_SS_WAITING_RECOVERY"))
  BY <1>2, ToWaitingRecoveryStep, Zenon DEF SessionStates
<1> QED BY <1>1, <1>3, Zenon DEF session_failed

LEMMA PingFailStep ==
  ASSUME NEW v \in VpnRecord, NEW error \in MaybeError, NEW slow \in BOOLEAN
  PROVE  Step(v, On_PING_FAIL(v, error, slow))
<1>1. Step(v, v)
  BY CalmRefl, CalmStep, Zenon
<1>2. v.state = "VPN_SS_CONNECTING" => Step(v, connecting_failed(v, error, slow))
  BY ConnectingFailedStep, Zenon
<1>3. v.state = "VPN_SS_RECOVERING" => Step(v, session_failed(v, error, slow))
  BY SessionFailedStep, Zenon
<1> QED BY <1>1, <1>2, <1>3, Zenon DEF On_PING_FAIL

LEMMA PingReadyStep ==
  ASSUME NEW v \in VpnRecord, NEW started \in BOOLEAN
  PROVE  Step(v, On_PING_READY(v, started))
<1>1. Step(v, v) /\ Step(v, run_client_connect(v, started)) /\ Step(v, reconnect_client(v, started))
  BY CalmRefl, RunClientConnectCalm, ReconnectClientCalm, CalmStep, Zenon
<1> QED BY <1>1, Zenon DEF On_PING_READY, connect_client

LEMMA ClientReadyStep ==
  ASSUME NEW v \in VpnRecord
  PROVE  Step(v, On_CLIENT_READY(v))
<1>1. CASE v.state = "VPN_SS_CONNECTING"
  <2> DEFINE u == complete_connect(v, NullOpt)
             w == Enter(u, "VPN_SS_CONNECTED")
  <2>1. u \in VpnRecord /\ Quiet(v, u) /\ u.recovery_attempts = 0
    BY ErrorsType, CompleteConnectType, CompleteConnectQuiet, Zenon
  <2> HIDE DEF u
  <2>2. /\ w \in VpnRecord /\ Keeps(v, w) /\ Same(v, w) /\ w.state = "VPN_SS_CONNECTED"
        /\ w.recovery_attempts = 0 /\ w.connected_once = TRUE
    BY <2>1, SessionStatesType, EnterKeeps, Zenon
  <2> HIDE DEF w
  <2>3. Moves(v, w)
    BY <1>1, <2>2, Zenon DEF Moves, Succeeds
  <2>4. Step(v, w)
    BY <1>1, <2>2, <2>3, Zenon DEF Step
  <2> QED BY <1>1, <2>4, Zenon DEF On_CLIENT_READY, w, u
<1>2. CASE v.state = "VPN_SS_RECOVERING"
  <2> DEFINE u == finalize_recovery(v)
             w == Enter(u, "VPN_SS_CONNECTED")
  <2>1. /\ u \in VpnRecord /\ Same(v, u) /\ Finalizes(v, u) /\ u.recovery_attempts = 0
    BY FinalizeRecoveryAnswers, Zenon
  <2> HIDE DEF u
  <2>2. Quiet(u, u)
    BY <2>1, CalmRefl, Zenon DEF Calm
  <2>3. /\ w \in VpnRecord /\ Keeps(u, w) /\ Same(u, w) /\ w.state = "VPN_SS_CONNECTED"
        /\ w.recovery_attempts = 0 /\ w.connected_once = TRUE
    BY <2>1, <2>2, SessionStatesType, EnterKeeps, Zenon
  <2>4. w.conn = u.conn
    BY <2>1, SMT DEF VpnRecord, Enter
  <2> HIDE DEF w
  <2>5. Finalizes(v, w)
    BY <2>1, <2>3, <2>4, Zenon DEF Finalizes, Answers, Keeps
  <2>6. Same(v, w)
    BY <2>1, <2>3, Zenon DEF Same
  <2>7. Moves(v, w)
    BY <1>2, <2>3, Zenon DEF Moves, Succeeds
  <2>8. Step(v, w)
    BY <1>2, <2>3, <2>5, <2>6, <2>7, Zenon DEF Step
  <2> QED BY <1>2, <2>8, Zenon DEF On_CLIENT_READY, w, u
<1>3. CASE v.state # "VPN_SS_CONNECTING" /\ v.state # "VPN_SS_RECOVERING"
  <2>1. Step(v, v)
    BY CalmRefl, CalmStep, Zenon
  <2> QED BY <1>3, <2>1, Zenon DEF On_CLIENT_READY
<1> QED BY <1>1, <1>2, <1>3, Zenon

LEMMA ClientDisconnectedStep ==
  ASSUME NEW v \in VpnRecord, NEW error \in MaybeError, NEW slow \in BOOLEAN
  PROVE  Step(v, On_CLIENT_DISCONNECTED(v, error, slow))
<1>1. Step(v, v)
  BY CalmRefl, CalmStep, Zenon
<1>2. v.state = "VPN_SS_CONNECTING" => Step(v, connecting_failed(v, error, slow))
  BY ConnectingFailedStep, Zenon
<1>3. /\ v.state # "VPN_SS_DISCONNECTED"
      /\ ~(v.state = "VPN_SS_WAITING_RECOVERY" /\ ~is_fatal_error(v, error))
      => Step(v, session_failed(v, error, slow))
  BY SessionFailedStep, Zenon
<1> QED BY <1>1, <1>2, <1>3, Zenon DEF On_CLIENT_DISCONNECTED

LEMMA AbandonEventStep ==
  ASSUME NEW v \in VpnRecord, NEW slow \in BOOLEAN
  PROVE  Step(v, On_ABANDON_ENDPOINT(v, slow))
<1>1. Step(v, v) /\ Step(v, retry_connect(v))
  BY CalmRefl, RetryConnectCalm, CalmStep, Zenon
<1>2. v.state # "VPN_SS_DISCONNECTED" =>
        /\ Step(v, Enter(do_disconnect(v), "VPN_SS_DISCONNECTED"))
        /\ Step(v, Enter(complete_connect(v, NullOpt), "VPN_SS_DISCONNECTED"))
  BY ErrorsType, EndSessionStep, Zenon
<1>3. v.state \in {"VPN_SS_CONNECTED", "VPN_SS_RECOVERING"} =>
        Step(v, session_failed(v, NullOpt, slow))
  BY ErrorsType, SessionFailedStep, Zenon
<1> QED BY <1>1, <1>2, <1>3, Zenon DEF On_ABANDON_ENDPOINT

LEMMA EnterConnecting ==
  ASSUME NEW v, NEW u \in VpnRecord, Quiet(v, u)
  PROVE  LET w == Enter(u, "VPN_SS_CONNECTING")
         IN /\ w \in VpnRecord /\ Keeps(v, w) /\ Same(v, w)
            /\ w.state = "VPN_SS_CONNECTING"
            /\ w.recovery_attempts = u.recovery_attempts /\ SameConnected(v, w)
BY SessionStatesType, EnterKeeps, Zenon

LEMMA ConnectAgainStep ==
  ASSUME NEW v \in VpnRecord, v.state = "VPN_SS_WAITING_FOR_NETWORK", ~v.connected_once
  PROVE  Step(v, Enter(retry_connect(v), "VPN_SS_CONNECTING"))
<1> DEFINE u == retry_connect(v)
           w == Enter(u, "VPN_SS_CONNECTING")
<1>0. u.recovery_attempts = v.recovery_attempts
  BY RetryConnectCalm, Zenon DEF Calm
<1>1. u \in VpnRecord /\ Quiet(v, u)
  BY RetryConnectType, RetryConnectCalm, Zenon DEF Calm
<1> HIDE DEF u
<1>2. /\ w \in VpnRecord /\ Keeps(v, w) /\ Same(v, w) /\ w.state = "VPN_SS_CONNECTING"
      /\ w.recovery_attempts = u.recovery_attempts /\ SameConnected(v, w)
  BY <1>1, EnterConnecting, Zenon
<1> HIDE DEF w
<1>3. Moves(v, w)
  BY <1>0, <1>2, Zenon DEF Moves, ConnectsAgain
<1> QED BY <1>2, <1>3, Zenon DEF w, u, Step

LEMMA NetworkChangeStep ==
  ASSUME NEW v \in VpnRecord, NEW lost \in BOOLEAN, NEW slow \in BOOLEAN
  PROVE  Step(v, On_NETWORK_CHANGE(v, lost, slow))
<1> DEFINE w == On_NETWORK_CHANGE(v, lost, slow)
           working == {"VPN_SS_CONNECTED", "VPN_SS_WAITING_RECOVERY", "VPN_SS_RECOVERING"}
           disconnected == Enter(fail_connect_with_no_attempts(v), "VPN_SS_DISCONNECTED")
           offline == Enter(do_disconnect(v), "VPN_SS_WAITING_FOR_NETWORK")
           waiting == Enter(prepare_for_recovery(v, NullOpt, slow), "VPN_SS_WAITING_RECOVERY")
           recovering == Enter(run_ping(v), "VPN_SS_RECOVERING")
           again == Enter(retry_connect(v), "VPN_SS_CONNECTING")
<1>1. Step(v, v) /\ Step(v, retry_connect(v))
  BY CalmRefl, RetryConnectCalm, CalmStep, Zenon
<1>2. v.state # "VPN_SS_DISCONNECTED" => Step(v, disconnected)
  BY ErrorsType, EndSessionStep, Zenon DEF fail_connect_with_no_attempts
<1>3. v.state \in working \/ v.state = "VPN_SS_CONNECTING" => Step(v, offline)
  BY DoDisconnectType, DoDisconnectQuiet, ToWaitingForNetworkStep, Zenon
<1>4. v.state \in {"VPN_SS_CONNECTING", "VPN_SS_CONNECTED", "VPN_SS_RECOVERING",
                  "VPN_SS_WAITING_FOR_NETWORK"} => Step(v, waiting)
  BY ErrorsType, ToWaitingRecoveryStep, Zenon
<1>5. v.state = "VPN_SS_WAITING_RECOVERY" => Step(v, recovering)
  BY RunPingType, RunPingCalm, ToRecoveringStep, Zenon
<1>6. v.state = "VPN_SS_WAITING_FOR_NETWORK" /\ ~v.connected_once => Step(v, again)
  BY ConnectAgainStep, Zenon
<1> HIDE DEF disconnected, offline, waiting, recovering, again
<1>7. v.state \in SessionStates
  BY SMT DEF VpnRecord
<1>8. CASE v.state = "VPN_SS_CONNECTING"
  <2>1. w \in {disconnected, retry_connect(v), offline, waiting, v}
    BY <1>8, Zenon DEF On_NETWORK_CHANGE, disconnected, offline, waiting
  <2> QED BY <1>1, <1>2, <1>3, <1>4, <1>8, <2>1, Zenon
<1>9. CASE v.state = "VPN_SS_CONNECTED" \/ v.state = "VPN_SS_RECOVERING"
  <2>1. w \in {offline, waiting, v}
    BY <1>9, Zenon DEF On_NETWORK_CHANGE, offline, waiting
  <2> QED BY <1>1, <1>3, <1>4, <1>9, <2>1, Zenon
<1>10. CASE v.state = "VPN_SS_WAITING_RECOVERY"
  <2>1. w \in {offline, recovering, v}
    BY <1>10, Zenon DEF On_NETWORK_CHANGE, offline, recovering
  <2> QED BY <1>1, <1>3, <1>5, <1>10, <2>1, Zenon
<1>11. CASE v.state = "VPN_SS_WAITING_FOR_NETWORK"
  <2>1. \/ w \in {waiting, disconnected, v}
        \/ w = again /\ ~v.connected_once
    BY <1>11, Zenon DEF On_NETWORK_CHANGE, waiting, disconnected, again
  <2> QED BY <1>1, <1>2, <1>4, <1>6, <1>11, <2>1, Zenon
<1>12. CASE v.state = "VPN_SS_DISCONNECTED"
  <2>1. w = v
    BY <1>12, Zenon DEF On_NETWORK_CHANGE
  <2> QED BY <1>1, <2>1, Zenon
<1> QED BY <1>7, <1>8, <1>9, <1>10, <1>11, <1>12, Zenon DEF SessionStates

LEMMA DoRecoveryStep ==
  ASSUME NEW v \in VpnRecord, NEW late \in BOOLEAN, NEW started \in BOOLEAN
  PROVE  Step(v, On_DO_RECOVERY(v, late, started))
<1>1. Step(v, v)
  BY CalmRefl, CalmStep, Zenon
<1>2. v.state = "VPN_SS_WAITING_RECOVERY" =>
        /\ Step(v, Enter(run_ping(v), "VPN_SS_RECOVERING"))
        /\ Step(v, Enter(run_client_connect(v, started), "VPN_SS_RECOVERING"))
  BY RunPingType, RunPingCalm, RunClientConnectType, RunClientConnectCalm, ToRecoveringStep,
     Zenon
<1> QED BY <1>1, <1>2, Zenon DEF On_DO_RECOVERY, connect_client

\* CE_SHUTDOWN, after anything quiet.
LEMMA ShutdownStep ==
  ASSUME NEW u \in VpnRecord, NEW v \in VpnRecord, Quiet(u, v),
         u.state = "VPN_SS_DISCONNECTED" => u.recovery_attempts = 0
  PROVE  Step(u, On_SHUTDOWN(v))
<1> DEFINE d == do_disconnect(v)
<1>1. d \in VpnRecord /\ Quiet(v, d) /\ d.recovery_attempts = 0
  BY DoDisconnectType, DoDisconnectQuiet, Zenon
<1> HIDE DEF d
<1>2. Quiet(u, d)
  BY <1>1, QuietTrans, Zenon
<1>3. v.state = u.state
  BY Zenon DEF Quiet
<1>4. CASE u.state = "VPN_SS_DISCONNECTED"
  <2>1. Step(u, d)
    BY <1>1, <1>2, <1>4, CalmStep, Zenon DEF Calm
  <2> QED BY <1>3, <1>4, <2>1, Zenon DEF On_SHUTDOWN, d
<1>5. CASE u.state # "VPN_SS_DISCONNECTED"
  <2>1. Step(u, Enter(d, "VPN_SS_DISCONNECTED"))
    BY <1>1, <1>2, <1>5, ToDisconnectedStep, Zenon
  <2> QED BY <1>3, <1>5, <2>1, Zenon DEF On_SHUTDOWN, d
<1> QED BY <1>4, <1>5, Zenon

-----------------------------------------------------------------------------
(* Events of the client and tasks of the loop.                             *)

LEMMA RaiseDisconnectedStep ==
  ASSUME NEW v \in VpnRecord, NEW slow \in BOOLEAN
  PROVE  Step(v, raise_disconnected(v, slow))
<1> DEFINE u == [v EXCEPT !.client_state = "CLIS_DISCONNECTED",
                          !.client_pending_error = NullOpt]
<1>1. v.client_pending_error \in MaybeError /\ NullOpt \in MaybeError
  BY ErrorsType, Zenon DEF VpnRecord
<1>2. u \in VpnRecord
  BY <1>1, ClientConstantsType, Zenon DEF VpnRecord
<1>3. RequestPart(u) = RequestPart(v) /\ u.conn = v.conn /\ u.tasks = v.tasks
  BY SMT DEF VpnRecord, RequestPart
<1>4. raise_disconnected(v, slow) = On_CLIENT_DISCONNECTED(u, v.client_pending_error, slow)
  BY Zenon DEF raise_disconnected
<1> HIDE DEF u
<1>5. Calm(v, u)
  BY <1>2, <1>3, CalmFrame, Zenon
<1>6. Step(u, On_CLIENT_DISCONNECTED(u, v.client_pending_error, slow))
  BY <1>1, <1>2, ClientDisconnectedStep, Zenon
<1> QED BY <1>4, <1>5, <1>6, CalmThenStep, Zenon

LEMMA SessionClosedStep ==
  ASSUME NEW v \in VpnRecord, NEW slow \in BOOLEAN
  PROVE  Step(v, session_closed(v, slow))
<1> DEFINE u == [v EXCEPT !.client_fsm = "S_DISCONNECTED"]
<1>1. u \in VpnRecord
  BY ClientConstantsType, Zenon DEF VpnRecord
<1>2. RequestPart(u) = RequestPart(v) /\ u.conn = v.conn /\ u.tasks = v.tasks
  BY SMT DEF VpnRecord, RequestPart
<1>3. session_closed(v, slow) = raise_disconnected(u, slow)
  BY Zenon DEF session_closed
<1> HIDE DEF u
<1>4. Calm(v, u)
  BY <1>1, <1>2, CalmFrame, Zenon
<1> QED BY <1>1, <1>3, <1>4, RaiseDisconnectedStep, CalmThenStep, Zenon

LEMMA FinalizerStep ==
  ASSUME NEW v \in VpnRecord, NEW slow \in BOOLEAN
  PROVE  Step(v, endpoint_connector_finalizer(v, slow))
<1> DEFINE w == [v EXCEPT !.endpoint_connector = "nullptr"]
           opened == [w EXCEPT !.endpoint_upstream_connected = TRUE]
           ready == [opened EXCEPT !.client_fsm = "S_CONNECTED"]
           up == [ready EXCEPT !.client_state = "CLIS_CONNECTED"]
<1>1. w \in VpnRecord
  BY ClientConstantsType, Zenon DEF VpnRecord
<1>2. opened \in VpnRecord
  <2> HIDE DEF w
  <2> QED BY <1>1, Zenon DEF VpnRecord
<1>3. ready \in VpnRecord
  <2> HIDE DEF opened
  <2> QED BY <1>2, ClientConstantsType, Zenon DEF VpnRecord
<1>4. up \in VpnRecord
  <2> HIDE DEF ready
  <2> QED BY <1>3, ClientConstantsType, Zenon DEF VpnRecord
<1>5. RequestPart(w) = RequestPart(v) /\ w.conn = v.conn /\ w.tasks = v.tasks
  BY SMT DEF VpnRecord, RequestPart
<1>6. RequestPart(opened) = RequestPart(v) /\ opened.conn = v.conn /\ opened.tasks = v.tasks
  BY SMT DEF VpnRecord, RequestPart
<1>7. RequestPart(up) = RequestPart(v) /\ up.conn = v.conn /\ up.tasks = v.tasks
  BY SMT DEF VpnRecord, RequestPart
<1>8. endpoint_connector_finalizer(v, slow) \in
        {session_closed(w, slow), On_CLIENT_READY(up), opened}
  BY Zenon DEF endpoint_connector_finalizer, client_connected
<1> HIDE DEF w, opened, up
<1>9. Calm(v, w) /\ Calm(v, opened) /\ Calm(v, up)
  BY <1>1, <1>2, <1>4, <1>5, <1>6, <1>7, CalmFrame, Zenon
<1>10. Step(v, session_closed(w, slow))
  BY <1>1, <1>9, SessionClosedStep, CalmThenStep, Zenon
<1>11. Step(v, On_CLIENT_READY(up))
  BY <1>4, <1>9, ClientReadyStep, CalmThenStep, Zenon
<1>12. Step(v, opened)
  BY <1>9, CalmStep, Zenon
<1> QED BY <1>8, <1>10, <1>11, <1>12, Zenon

LEMMA DeferredDisconnectStep ==
  ASSUME NEW v \in VpnRecord, NEW slow \in BOOLEAN
  PROVE  Step(v, deferred_disconnect(v, slow))
<1>1. Step(v, v)
  BY CalmRefl, CalmStep, Zenon
<1>2. run_disconnect(v) \in VpnRecord /\ Calm(v, run_disconnect(v))
  BY RunDisconnectType, RunDisconnectCalm, Zenon
<1>3. Step(v, raise_disconnected(run_disconnect(v), slow))
  BY <1>2, RaiseDisconnectedStep, CalmThenStep, Zenon
<1> QED BY <1>1, <1>3, Zenon DEF deferred_disconnect

LEMMA SubmitDisconnectCalm ==
  ASSUME NEW v \in VpnRecord, NEW error \in MaybeError
  PROVE  Calm(v, submit_disconnect(v, error))
<1> DEFINE p == IF v.client_pending_error = NullOpt /\ error \notin {NullOpt, NoError}
                THEN error ELSE v.client_pending_error
           w == [v EXCEPT !.client_fsm = "S_DISCONNECTING", !.client_pending_error = p]
<1>1. p \in MaybeError
  BY Zenon DEF VpnRecord
<1>2. submit_disconnect(v, error) \in {v, submit(w, "deferred_disconnect")}
  BY Zenon DEF submit_disconnect
<1> HIDE DEF p
<1>3. w \in VpnRecord
  BY <1>1, ClientConstantsType, Zenon DEF VpnRecord
<1>4. RequestPart(w) = RequestPart(v) /\ w.conn = v.conn /\ w.tasks = v.tasks
  BY SMT DEF VpnRecord, RequestPart
<1> HIDE DEF w
<1>5. Calm(v, w)
  BY <1>3, <1>4, CalmFrame, Zenon
<1>6. Calm(w, submit(w, "deferred_disconnect"))
  BY <1>3, TasksType, SubmitCalm, Zenon
<1>7. Calm(v, submit(w, "deferred_disconnect")) /\ Calm(v, v)
  BY <1>5, <1>6, CalmTrans, CalmRefl, Zenon
<1> QED BY <1>2, <1>7, Zenon

LEMMA UpstreamEndedCalm ==
  ASSUME NEW v \in VpnRecord
  PROVE  Calm(v, upstream_ended(v))
<1> DEFINE w == [v EXCEPT !.endpoint_upstream = "closed"]
<1>1. w \in VpnRecord
  BY ClientConstantsType, Zenon DEF VpnRecord
<1>2. RequestPart(w) = RequestPart(v) /\ w.conn = v.conn /\ w.tasks = v.tasks
  BY SMT DEF VpnRecord, RequestPart
<1>3. upstream_ended(v) = on_before_endpoint_disconnect(w)
  BY Zenon DEF upstream_ended
<1> HIDE DEF w
<1>4. Calm(v, w) /\ Calm(w, on_before_endpoint_disconnect(w))
  BY <1>1, <1>2, CalmFrame, BeforeDisconnectCalm, Zenon
<1> QED BY <1>3, <1>4, CalmTrans, Zenon

LEMMA ConnectorHandlerCalm ==
  ASSUME NEW v \in VpnRecord, NEW error \in ConnectorErrors, NEW dns_ok \in BOOLEAN
  PROVE  Calm(v, endpoint_connector_handler(v, error, dns_ok))
<1> DEFINE p == IF error = NullOpt /\ ~dns_ok THEN "VPN_EC_ERROR" ELSE error
           u == IF error = NullOpt THEN "open" ELSE v.endpoint_upstream
           w == [v EXCEPT !.client_pending_error = p, !.endpoint_upstream = u,
                          !.endpoint_connector = "finished"]
<1>1. p \in MaybeError
  BY ErrorsType, Zenon DEF ConnectorErrors
<1>2. u \in UpstreamStates
  BY ClientConstantsType, Zenon DEF VpnRecord
<1>3. endpoint_connector_handler(v, error, dns_ok) = submit(w, "endpoint_connector_finalizer")
  BY Zenon DEF endpoint_connector_handler
<1> HIDE DEF p, u
<1>4. w \in VpnRecord
  BY <1>1, <1>2, ClientConstantsType, Zenon DEF VpnRecord
<1>5. RequestPart(w) = RequestPart(v) /\ w.conn = v.conn /\ w.tasks = v.tasks
  BY SMT DEF VpnRecord, RequestPart
<1> HIDE DEF w
<1>6. Calm(v, w)
  BY <1>4, <1>5, CalmFrame, Zenon
<1>7. Calm(w, submit(w, "endpoint_connector_finalizer"))
  BY <1>4, TasksType, SubmitCalm, Zenon
<1> QED BY <1>3, <1>6, <1>7, CalmTrans, Zenon

\* The one task that begins the session.
LEMMA DoConnectBegins ==
  ASSUME NEW v \in VpnRecord, v.state = "VPN_SS_DISCONNECTED"
  PROVE  LET w == do_connect(v)
         IN w \in VpnRecord /\ Begins(v, w) /\ Keeps(v, w) /\ Same(v, w)
<1> DEFINE n == IF v.retry_policy = "VPN_CRP_SEVERAL_ATTEMPTS"
                THEN decrement(v.attempts_left) ELSE v.attempts_left
           u == [v EXCEPT !.endpoints = Endpoints, !.attempts_left = n]
           x == run_ping(u)
           w == Enter(x, "VPN_SS_CONNECTING")
<1>1. n \in 0..SizeMax /\ Endpoints \in SUBSET Endpoints
  <2>1. v.attempts_left \in 0..SizeMax
    BY Zenon DEF VpnRecord
  <2> QED BY <2>1, DecrementType, Zenon
<1>2. do_connect(v) = On_DO_CONNECT(u)
  BY Zenon DEF do_connect
<1> HIDE DEF n
<1>3. u \in VpnRecord
  BY <1>1, Zenon DEF VpnRecord
<1>4. RequestPart(u) = RequestPart(v) /\ u.conn = v.conn /\ u.tasks = v.tasks
  BY SMT DEF VpnRecord, RequestPart
<1>5. u.state = "VPN_SS_DISCONNECTED"
  BY SMT DEF VpnRecord
<1> HIDE DEF u
<1>6. do_connect(v) = w
  BY <1>2, <1>5, Zenon DEF On_DO_CONNECT
<1>7. Calm(v, u) /\ Calm(u, x) /\ x \in VpnRecord
  BY <1>3, <1>4, CalmFrame, RunPingCalm, RunPingType, Zenon
<1> HIDE DEF x
<1>8. Calm(v, x)
  BY <1>7, CalmTrans, Zenon
<1>9. Quiet(v, x) /\ x.recovery_attempts = v.recovery_attempts
  BY <1>8, Zenon DEF Calm
<1>10. /\ w \in VpnRecord /\ Keeps(v, w) /\ Same(v, w)
       /\ w.state = "VPN_SS_CONNECTING"
       /\ w.recovery_attempts = x.recovery_attempts /\ SameConnected(v, w)
  BY <1>7, <1>9, EnterConnecting, Zenon
<1> HIDE DEF w
<1>11. Begins(v, w)
  BY <1>9, <1>10, Zenon DEF Begins
<1> QED BY <1>6, <1>10, <1>11, Zenon

\* Every other task is one event; the counter is clear in a session that is over.
LEMMA TaskStep ==
  ASSUME NEW v \in VpnRecord, NEW task \in Tasks, task # "do_connect", NEW slow \in BOOLEAN,
         v.state = "VPN_SS_DISCONNECTED" => v.recovery_attempts = 0
  PROVE  Step(v, run_task(v, task, slow))
<1>1. Step(v, v) /\ Step(v, run_ping(v))
  BY CalmRefl, RunPingCalm, CalmStep, Zenon
<1>2. Step(v, On_RETRY_CONNECT(v))
  BY <1>1, Zenon DEF On_RETRY_CONNECT
<1>3. Step(v, On_CLIENT_DISCONNECTED(v, NullOpt, slow))
  BY ErrorsType, ClientDisconnectedStep, Zenon
<1>4. Step(v, failed_recovery(v))
  <2> DEFINE r == reset_recovery(v)
             u == [r EXCEPT !.pending_error = "VPN_EC_LOCATION_UNAVAILABLE"]
  <2>1. r \in VpnRecord /\ Quiet(v, r)
    BY ResetRecoveryType, ResetRecoveryQuiet, Zenon
  <2>2. "VPN_EC_LOCATION_UNAVAILABLE" \in MaybeError
    BY ErrorsType, Zenon
  <2>3. failed_recovery(v) = On_SHUTDOWN(u)
    BY Zenon DEF failed_recovery
  <2> HIDE DEF r
  <2>4. u \in VpnRecord /\ Calm(r, u)
    BY <2>1, <2>2, PendingErrorType, PendingErrorCalm, Zenon
  <2> HIDE DEF u
  <2>5. Quiet(v, u)
    BY <2>1, <2>4, QuietTrans, Zenon DEF Calm
  <2> QED BY <2>3, <2>4, <2>5, ShutdownStep, Zenon
<1>5. Step(v, listen_failed(v))
  <2> DEFINE u == [v EXCEPT !.pending_error = "VPN_EC_ERROR"]
  <2>1. "VPN_EC_ERROR" \in MaybeError
    BY ErrorsType, Zenon
  <2>2. listen_failed(v) = On_SHUTDOWN(u)
    BY Zenon DEF listen_failed
  <2>3. u \in VpnRecord /\ Calm(v, u)
    BY <2>1, PendingErrorType, PendingErrorCalm, Zenon
  <2> HIDE DEF u
  <2> QED BY <2>2, <2>3, ShutdownStep, Zenon DEF Calm
<1>6. Step(v, On_SHUTDOWN(v))
  <2>1. Quiet(v, v)
    BY CalmRefl, Zenon DEF Calm
  <2> QED BY <2>1, ShutdownStep, Zenon
<1>7. Step(v, endpoint_connector_finalizer(v, slow)) /\ Step(v, deferred_disconnect(v, slow))
  BY FinalizerStep, DeferredDisconnectStep, Zenon
<1> QED BY <1>1, <1>2, <1>3, <1>4, <1>5, <1>6, <1>7, Zenon DEF run_task

-----------------------------------------------------------------------------
(* What one action of the manager may do.                                  *)

\* vpn_connect was called and its task is no longer queued.
Used(v) == v.phase # "created" /\ ~Has(v.tasks, "do_connect")

\* A move of the lifecycle, its beginning and the stop before it included.
Turns(v, w) ==
  \/ (Used(w) <=> Used(v)) /\ Moves(v, w)
  \/ ~Used(v) /\ Used(w) /\ Begins(v, w)
  \/ ~Used(v) /\ Used(w) /\ v.state = "VPN_SS_DISCONNECTED" /\ Stays(v, w)

\* Nothing is held, and nothing is direct that need not be.
Served(w) ==
  /\ \A r \in w.completed : w.conn[r] # "requested"
  /\ \A r \in Requests \ BypassRequests : w.conn[r] # "bypassed"

Serves(v, w) ==
  /\ RequestsOK(w) /\ Routes(v, w)
  /\ v.state = "VPN_SS_RECOVERING" /\ w.state = "VPN_SS_CONNECTED" => Served(w)

\* The end of a recovery answers what is held and closes what was bypassed.
LEMMA FinalizesServes ==
  ASSUME NEW v \in VpnRecord, NEW w \in VpnRecord, RequestsOK(v), Finalizes(v, w)
  PROVE  RequestsOK(w) /\ Routes(v, w) /\ Served(w)
<1>1. /\ HeldOK(v) /\ AnsweredOK(v) /\ BypassOK(v)
      /\ v.completed \subseteq Requests /\ w.completed \subseteq Requests
  BY Zenon DEF RequestsOK, VpnRecord
<1>2. /\ w.postponed_requests = {} /\ w.bypassed_connection_ids = {}
      /\ w.completed = v.completed /\ \A r \in Requests : Answers(v, w, r)
  BY Zenon DEF Finalizes
<1>3. \A r \in Requests : r \in w.completed => w.conn[r] # "requested" /\ w.conn[r] # "none"
  <2> SUFFICES ASSUME NEW r \in Requests, r \in w.completed
               PROVE  w.conn[r] # "requested" /\ w.conn[r] # "none"
    BY Zenon
  <2>1. /\ Answers(v, w, r) /\ v.conn[r] # "none"
        /\ v.conn[r] = "requested" => r \in v.postponed_requests
    BY <1>1, <1>2, Zenon DEF AnsweredOK
  <2> QED BY <2>1, SMT DEF Answers
<1>4. \A r \in Requests : r \notin w.completed =>
        w.conn[r] = "none" \/ w.conn[r] = "requested" \/ w.conn[r] = "closed"
  <2> SUFFICES ASSUME NEW r \in Requests, r \notin w.completed
               PROVE  w.conn[r] = "none" \/ w.conn[r] = "requested" \/ w.conn[r] = "closed"
    BY Zenon
  <2>1. /\ Answers(v, w, r) /\ r \notin v.postponed_requests
        /\ v.conn[r] = "none" \/ v.conn[r] = "requested" \/ v.conn[r] = "closed"
    BY <1>1, <1>2, Zenon DEF AnsweredOK, HeldOK
  <2> QED BY <2>1, SMT DEF Answers
<1>5. \A r \in Requests \ BypassRequests : w.conn[r] # "bypassed"
  <2> SUFFICES ASSUME NEW r \in Requests, r \notin BypassRequests
               PROVE  w.conn[r] # "bypassed"
    BY Zenon
  <2>1. Answers(v, w, r) /\ (v.conn[r] = "bypassed" => r \in v.bypassed_connection_ids)
    BY <1>1, <1>2, Zenon DEF BypassOK
  <2> QED BY <2>1, SMT DEF Answers
<1>6. Routes(v, w)
  <2> SUFFICES ASSUME NEW r \in Requests, v.conn[r] \in {"redirected", "bypassed", "closed"}
               PROVE  w.conn[r] \in {v.conn[r], "closed"}
    BY Zenon DEF Routes
  <2>1. Answers(v, w, r) /\ (r \in v.postponed_requests => v.conn[r] = "closed")
    BY <1>1, <1>2, SMT DEF HeldOK
  <2> QED BY <2>1, SMT DEF Answers
<1>7. HeldOK(w)
  BY <1>2, Zenon DEF HeldOK
<1>8. AnsweredOK(w)
  BY <1>3, <1>4, Zenon DEF AnsweredOK
<1>9. BypassOK(w)
  BY <1>5, Zenon DEF BypassOK
<1>10. Served(w)
  BY <1>1, <1>3, <1>5, Zenon DEF Served
<1> QED BY <1>6, <1>7, <1>8, <1>9, <1>10, Zenon DEF RequestsOK

LEMMA StepTurns ==
  ASSUME NEW v, NEW w, Step(v, w)
  PROVE  Turns(v, w)
BY Zenon DEF Step, Same, Turns, Used

LEMMA StepServes ==
  ASSUME NEW v \in VpnRecord, NEW w, RequestsOK(v), Step(v, w)
  PROVE  Serves(v, w)
<1>1. w \in VpnRecord
  BY Zenon DEF Step
<1>2. CASE v.state = "VPN_SS_RECOVERING" /\ w.state = "VPN_SS_CONNECTED"
  <2>1. Finalizes(v, w)
    BY <1>2, Zenon DEF Step
  <2> QED BY <1>1, <2>1, FinalizesServes, Zenon DEF Serves
<1>3. CASE ~(v.state = "VPN_SS_RECOVERING" /\ w.state = "VPN_SS_CONNECTED")
  <2>1. Keeps(v, w)
    BY <1>3, Zenon DEF Step
  <2> QED BY <1>3, <2>1, KeepsRequests, Zenon DEF Serves
<1> QED BY <1>2, <1>3, Zenon

\* Both, for the actions that are one event.
Effect(v, w) == Turns(v, w) /\ (RequestsOK(v) => Serves(v, w))

LEMMA StepEffect ==
  ASSUME NEW v \in VpnRecord, NEW w, Step(v, w)
  PROVE  Effect(v, w)
BY StepTurns, StepServes, Zenon DEF Effect

\* An action that leaves the lifecycle where it is.
LEMMA StaysEffect ==
  ASSUME NEW v \in VpnRecord, NEW w, Stays(v, w), Same(v, w),
         RequestsOK(v) => RequestsOK(w) /\ Routes(v, w)
  PROVE  Effect(v, w)
<1>1. Turns(v, w)
  BY Zenon DEF Turns, Moves, Same, Used
<1>2. ~(v.state = "VPN_SS_RECOVERING" /\ w.state = "VPN_SS_CONNECTED")
  BY SMT DEF Stays
<1> QED BY <1>1, <1>2, Zenon DEF Effect, Serves

-----------------------------------------------------------------------------
(* Actions, one by one.                                                    *)

LEMMA ConsistentParts ==
  ASSUME NEW v, Consistent(v)
  PROVE  /\ v \in VpnRecord /\ BeginOK(v)
         /\ v.state = "VPN_SS_DISCONNECTED" => v.recovery_attempts = 0
<1>1. v \in VpnRecord /\ BeginOK(v) /\ CleanOK(v)
  BY Zenon DEF Consistent, Steady
<1> QED BY <1>1, SMT DEF CleanOK, Clean

LEMMA RunTaskEffect ==
  ASSUME NEW v, Consistent(v), v.phase # "created", v.tasks # <<>>, NEW slow \in BOOLEAN
  PROVE  Effect(v, run_task([v EXCEPT !.tasks = Tail(v.tasks)], Head(v.tasks), slow))
<1> DEFINE u == [v EXCEPT !.tasks = Tail(v.tasks)]
           t == Head(v.tasks)
           w == run_task(u, t, slow)
<1>0. /\ v \in VpnRecord /\ BeginOK(v) /\ v.tasks \in Seq(Tasks)
      /\ v.state = "VPN_SS_DISCONNECTED" => v.recovery_attempts = 0
  <2>1. /\ v \in VpnRecord /\ BeginOK(v)
        /\ v.state = "VPN_SS_DISCONNECTED" => v.recovery_attempts = 0
    BY ConsistentParts, Zenon
  <2>2. v.tasks \in Seq(Tasks)
    BY <2>1, Zenon DEF VpnRecord
  <2> QED BY <2>1, <2>2, Zenon
<1>1. u \in VpnRecord /\ t \in Tasks
  BY Popped, Zenon
<1>2. RequestPart(u) = RequestPart(v) /\ u.conn = v.conn /\ u.tasks = Tail(v.tasks)
  BY <1>0, SMT DEF VpnRecord, RequestPart
<1>3. /\ \A x : Has(Tail(v.tasks), x) => Has(v.tasks, x)
      /\ \A x : x # t /\ Has(v.tasks, x) => Has(Tail(v.tasks), x)
      /\ Has(v.tasks, t) /\ (Once(v.tasks, t) => ~Has(Tail(v.tasks), t))
  BY <1>0, PopEffect, Zenon
<1> HIDE DEF u, t
<1>4. u.state = v.state /\ u.recovery_attempts = v.recovery_attempts
      /\ u.connected_once = v.connected_once /\ u.phase = v.phase /\ Keeps(v, u)
  BY <1>2, RequestPartFields, Zenon DEF Keeps
<1>5. CASE t # "do_connect"
  <2>1. Calm(v, u)
    <3>1. Same(v, u)
      BY <1>2, <1>3, <1>4, <1>5, Zenon DEF Same
    <3> QED BY <1>1, <1>4, <3>1, Zenon DEF Calm, Quiet
  <2>2. Step(u, w)
    BY <1>0, <1>1, <1>4, <1>5, TaskStep, Zenon
  <2> HIDE DEF w
  <2>3. Step(v, w)
    BY <1>0, <2>1, <2>2, CalmThenStep, Zenon
  <2> QED BY <1>0, <2>3, StepEffect, Zenon DEF w, u, t
<1>6. CASE t = "do_connect"
  <2>1. v.state = "VPN_SS_DISCONNECTED" /\ Has(v.tasks, "do_connect")
        /\ ~Has(u.tasks, "do_connect")
    BY <1>0, <1>2, <1>3, <1>6, Zenon DEF BeginOK
  <2>2. w = do_connect(u)
    BY <1>6, Zenon DEF run_task
  <2>3. w \in VpnRecord /\ Begins(u, w) /\ Keeps(u, w) /\ Same(u, w)
    BY <1>1, <1>4, <2>1, <2>2, DoConnectBegins, Zenon
  <2> HIDE DEF w
  <2>4. Begins(v, w)
    BY <1>4, <2>3, Zenon DEF Begins, SameConnected
  <2>5. Used(w) /\ ~Used(v)
    BY <1>4, <2>1, <2>3, Zenon DEF Used, Same
  <2>6. Keeps(v, w)
    BY <1>4, <2>3, KeepsTrans, Zenon
  <2>7. v.state # "VPN_SS_RECOVERING"
    BY <2>1, SMT
  <2>8. RequestsOK(v) => Serves(v, w)
    BY <1>0, <2>6, <2>7, KeepsRequests, Zenon DEF Serves
  <2> QED BY <2>4, <2>5, <2>8, Zenon DEF Effect, Turns, w, u, t
<1> QED BY <1>5, <1>6, Zenon

\* postponement_window_timer_cb: held requests are rejected or let past the
\* tunnel, and remembered.
LEMMA PostponementTimerEffect ==
  ASSUME vpn \in VpnRecord, PostponementTimer
  PROVE  Effect(vpn, vpn')
<1> DEFINE requests == vpn.postponed_requests
           w == [vpn EXCEPT !.postponement_window_timer = FALSE,
                            !.postponed_requests = {}]
           x == complete_all(w, requests, requests)
           y == [x EXCEPT !.bypassed_connection_ids = x.bypassed_connection_ids \cup requests]
           z == reject_all(w, requests)
<1>1. \/ vpn.kill_switch_on /\ vpn' = z
      \/ ~vpn.kill_switch_on /\ vpn' = y
  BY Zenon DEF PostponementTimer
<1>2. /\ vpn.conn \in [Requests -> ConnStates] /\ vpn.postponed_requests \subseteq Requests
      /\ vpn.completed \subseteq Requests
  BY SMT DEF VpnRecord
<1>3. /\ z.postponed_requests = {} /\ z.completed = vpn.completed
      /\ z.bypassed_connection_ids = vpn.bypassed_connection_ids
      /\ z.kill_switch_on = vpn.kill_switch_on
      /\ z.phase = vpn.phase /\ z.state = vpn.state /\ z.tasks = vpn.tasks
      /\ z.connected_once = vpn.connected_once
      /\ z.recovery_attempts = vpn.recovery_attempts
      /\ z.conn = [r \in DOMAIN vpn.conn |->
                     IF r \in requests /\ vpn.conn[r] # "none" THEN "closed" ELSE vpn.conn[r]]
  BY SMT DEF VpnRecord, reject_all
<1>4. /\ y.postponed_requests = {} /\ y.completed = vpn.completed
      /\ y.bypassed_connection_ids = vpn.bypassed_connection_ids \cup requests
      /\ y.kill_switch_on = vpn.kill_switch_on
      /\ y.phase = vpn.phase /\ y.state = vpn.state /\ y.tasks = vpn.tasks
      /\ y.connected_once = vpn.connected_once
      /\ y.recovery_attempts = vpn.recovery_attempts
  BY SMT DEF VpnRecord, complete_all
<1>5. y.conn = [r \in DOMAIN vpn.conn |->
                 IF r \notin requests \/ vpn.conn[r] \in {"none", "closed"} THEN vpn.conn[r]
                 ELSE IF r \in requests THEN "bypassed"
                 ELSE IF w.endpoint_upstream_connected THEN "redirected"
                 ELSE "closed"]
  BY SMT DEF VpnRecord, complete_all
<1> HIDE DEF y, z, w
<1>6. \A r \in Requests :
        /\ z.conn[r] = IF r \in requests /\ vpn.conn[r] # "none" THEN "closed" ELSE vpn.conn[r]
        /\ y.conn[r] = IF r \notin requests \/ vpn.conn[r] \in {"none", "closed"}
                       THEN vpn.conn[r] ELSE "bypassed"
  BY <1>2, <1>3, <1>5, SMT
<1>7. ASSUME RequestsOK(vpn), vpn.kill_switch_on
      PROVE  RequestsOK(z) /\ Routes(vpn, z)
  <2>1. HeldOK(vpn) /\ AnsweredOK(vpn) /\ BypassOK(vpn)
    BY <1>7, Zenon DEF RequestsOK
  <2>2. HeldOK(z)
    BY <1>3, Zenon DEF HeldOK
  <2>3. AnsweredOK(z)
    BY <1>2, <1>3, <1>6, <2>1, SMT DEF AnsweredOK, HeldOK
  <2>4. BypassOK(z)
    BY <1>3, <1>6, <2>1, SMT DEF BypassOK
  <2>5. Routes(vpn, z)
    BY <1>6, SMT DEF Routes
  <2> QED BY <2>2, <2>3, <2>4, <2>5, Zenon DEF RequestsOK
<1>8. ASSUME RequestsOK(vpn), ~vpn.kill_switch_on
      PROVE  RequestsOK(y) /\ Routes(vpn, y)
  <2>1. HeldOK(vpn) /\ AnsweredOK(vpn) /\ BypassOK(vpn)
    BY <1>8, Zenon DEF RequestsOK
  <2>2. HeldOK(y)
    BY <1>4, Zenon DEF HeldOK
  <2>3. AnsweredOK(y)
    BY <1>2, <1>4, <1>6, <2>1, SMT DEF AnsweredOK, HeldOK
  <2>4. BypassOK(y)
    BY <1>4, <1>6, <1>8, <2>1, SMT DEF BypassOK
  <2>5. Routes(vpn, y)
    BY <1>6, <2>1, SMT DEF Routes, HeldOK
  <2> QED BY <2>2, <2>3, <2>4, <2>5, Zenon DEF RequestsOK
<1>9. Effect(vpn, z) \/ ~vpn.kill_switch_on
  BY <1>3, <1>7, StaysEffect, Zenon DEF Stays, SameConnected, Same
<1>10. Effect(vpn, y) \/ vpn.kill_switch_on
  BY <1>4, <1>8, StaysEffect, Zenon DEF Stays, SameConnected, Same
<1> QED BY <1>1, <1>9, <1>10, Zenon

\* The rest of the callbacks of the loop are events, after calm assignments.
LEMMA LoopNextEffect ==
  ASSUME Consistent(vpn), LoopNext
  PROVE  Effect(vpn, vpn')
<1>0. vpn \in VpnRecord
  BY ConsistentParts, Zenon
<1>1. loop_active => vpn.phase # "created"
  BY Zenon DEF loop_active
<1> DEFINE p == pinger_finished(vpn)
<1>2. p \in VpnRecord /\ Calm(vpn, p)
  <2>1. p \in VpnRecord
    BY <1>0, PingerFinishedType, Zenon
  <2>2. RequestPart(p) = RequestPart(vpn) /\ p.conn = vpn.conn /\ p.tasks = vpn.tasks
    BY <1>0, SMT DEF VpnRecord, pinger_finished, RequestPart
  <2> QED BY <2>1, <2>2, CalmFrame, Zenon
<1>3. CASE \E slow \in BOOLEAN : RunTask(slow)
  BY <1>1, <1>3, RunTaskEffect, Zenon DEF RunTask
<1>4. CASE \E slow \in BOOLEAN : PingerFailed(slow)
  <2>1. PICK slow \in BOOLEAN : PingerFailed(slow)
    BY <1>4
  <2> DEFINE error == IF vpn.ping_failure_induces_location_unavailable
                      THEN "VPN_EC_LOCATION_UNAVAILABLE" ELSE "VPN_EC_ERROR"
  <2>2. vpn' = On_PING_FAIL(p, error, slow)
    BY <2>1, Zenon DEF PingerFailed
  <2>3. error \in MaybeError
    BY ErrorsType, Zenon
  <2> HIDE DEF p, error
  <2>4. Step(vpn, vpn')
    BY <1>0, <1>2, <2>2, <2>3, PingFailStep, CalmThenStep, Zenon
  <2> QED BY <1>0, <2>4, StepEffect, Zenon
<1>5. CASE \E e \in Endpoints, started, slow \in BOOLEAN : PingerSelected(e, started, slow)
  <2>1. PICK e \in Endpoints, started \in BOOLEAN, slow \in BOOLEAN :
          PingerSelected(e, started, slow)
    BY <1>5
  <2> DEFINE f == vpn.ping_failure_induces_location_unavailable
             w == [p EXCEPT !.selected_endpoint = e]
             x == [p EXCEPT !.ping_failure_induces_location_unavailable = f]
  <2>2. vpn' \in {On_PING_READY(w, started), On_PING_FAIL(x, "VPN_EC_ERROR", slow)}
    BY <2>1, Zenon DEF PingerSelected
  <2>3. f \in BOOLEAN /\ e \in Endpoints \cup {NullOpt}
    BY <1>0, Zenon DEF VpnRecord
  <2> HIDE DEF p, f
  <2>4. w \in VpnRecord
    BY <1>2, <2>3, Zenon DEF VpnRecord
  <2>5. x \in VpnRecord
    BY <1>2, <2>3, Zenon DEF VpnRecord
  <2>6. RequestPart(w) = RequestPart(p) /\ w.conn = p.conn /\ w.tasks = p.tasks
    BY <1>2, SMT DEF VpnRecord, RequestPart
  <2>7. RequestPart(x) = RequestPart(p) /\ x.conn = p.conn /\ x.tasks = p.tasks
    BY <1>2, SMT DEF VpnRecord, RequestPart
  <2> HIDE DEF w, x
  <2>8. Calm(vpn, w) /\ Calm(vpn, x)
    BY <1>2, <2>4, <2>5, <2>6, <2>7, CalmFrame, CalmTrans, Zenon
  <2>9. Step(vpn, On_PING_READY(w, started))
    BY <1>0, <2>4, <2>8, PingReadyStep, CalmThenStep, Zenon
  <2>10. Step(vpn, On_PING_FAIL(x, "VPN_EC_ERROR", slow))
    BY <1>0, <2>5, <2>8, ErrorsType, PingFailStep, CalmThenStep, Zenon
  <2> QED BY <1>0, <2>2, <2>9, <2>10, StepEffect, Zenon
<1>6. CASE \E error \in ConnectorErrors, dns_ok \in BOOLEAN : ConnectorReport(error, dns_ok)
  BY <1>0, <1>6, ConnectorHandlerCalm, CalmStep, StepEffect, Zenon DEF ConnectorReport
<1>7. CASE \/ \E slow \in BOOLEAN : UpstreamClosed(slow)
           \/ \E error \in UpstreamErrors : UpstreamError(error)
  <2> DEFINE w == upstream_ended(vpn)
  <2>1. \/ \E slow \in BOOLEAN : vpn' = session_closed(w, slow)
        \/ \E error \in MaybeError : vpn' = submit_disconnect(w, error)
    BY <1>7, ErrorsType, Zenon DEF UpstreamClosed, UpstreamError, UpstreamErrors
  <2>2. w \in VpnRecord /\ Calm(vpn, w)
    BY <1>0, UpstreamEndedType, UpstreamEndedCalm, Zenon
  <2> HIDE DEF w
  <2>3. \A slow \in BOOLEAN : Step(vpn, session_closed(w, slow))
    BY <1>0, <2>2, SessionClosedStep, CalmThenStep, Zenon
  <2>4. \A error \in MaybeError : Step(vpn, submit_disconnect(w, error))
    BY <1>0, <2>2, SubmitDisconnectCalm, CalmTrans, CalmStep, Zenon
  <2> QED BY <1>0, <2>1, <2>3, <2>4, StepEffect, Zenon
<1>8. CASE HealthCheckError
  BY <1>0, <1>8, ErrorsType, SubmitDisconnectCalm, CalmStep, StepEffect, Zenon
  DEF HealthCheckError
<1>9. CASE \E late, started \in BOOLEAN : RecoveryTimer(late, started)
  <2> DEFINE w == [vpn EXCEPT !.recovery_task = FALSE]
  <2>1. \E late, started \in BOOLEAN : vpn' = On_DO_RECOVERY(w, late, started)
    BY <1>9, Zenon DEF RecoveryTimer
  <2>2. w \in VpnRecord
    BY <1>0, Zenon DEF VpnRecord
  <2>3. RequestPart(w) = RequestPart(vpn) /\ w.conn = vpn.conn /\ w.tasks = vpn.tasks
    BY <1>0, SMT DEF VpnRecord, RequestPart
  <2> HIDE DEF w
  <2>4. Calm(vpn, w)
    BY <2>2, <2>3, CalmFrame, Zenon
  <2>5. Step(vpn, vpn')
    BY <1>0, <2>1, <2>2, <2>4, DoRecoveryStep, CalmThenStep, Zenon
  <2> QED BY <1>0, <2>5, StepEffect, Zenon
<1>10. CASE PostponementTimer
  BY <1>0, <1>10, PostponementTimerEffect, Zenon
<1> QED BY <1>3, <1>4, <1>5, <1>6, <1>7, <1>8, <1>9, <1>10, Zenon DEF LoopNext

LEMMA ConnectEffect ==
  ASSUME Consistent(vpn), NEW policy \in Policies, Connect(policy)
  PROVE  Effect(vpn, vpn')
<1> DEFINE w == [vpn EXCEPT !.phase = "running", !.retry_policy = policy,
                            !.attempts_left = ConnectAttempts]
<1>0. vpn \in VpnRecord
  BY ConsistentParts, Zenon
<1>1. vpn' = submit(w, "do_connect") /\ vpn.phase = "created"
  BY Zenon DEF Connect
<1>2. w \in VpnRecord /\ "do_connect" \in Tasks
  <2>1. "running" \in Phases /\ policy \in RetryPolicies
    BY ConstantsAssumption, Zenon DEF Phases, RetryPolicies
  <2>2. ConnectAttempts \in 0..SizeMax
    BY ConstantsAssumption, SMT
  <2>3. w \in VpnRecord
    BY <1>0, <2>1, <2>2, Zenon DEF VpnRecord
  <2> QED BY <2>3, TasksType, Zenon
<1>3. /\ w.postponed_requests = vpn.postponed_requests
      /\ w.bypassed_connection_ids = vpn.bypassed_connection_ids
      /\ w.completed = vpn.completed /\ w.kill_switch_on = vpn.kill_switch_on
      /\ w.postponement_window_timer = vpn.postponement_window_timer
      /\ w.state = vpn.state /\ w.connected_once = vpn.connected_once
      /\ w.recovery_attempts = vpn.recovery_attempts /\ w.conn = vpn.conn
  BY <1>0, SMT DEF VpnRecord
<1> HIDE DEF w
<1> DEFINE s == submit(w, "do_connect")
<1>4. Has(s.tasks, "do_connect")
  BY <1>2, SubmitEffect, Zenon
<1>5. RequestPart(s) = RequestPart(w) /\ s.conn = w.conn
  BY <1>2, SMT DEF VpnRecord, submit, RequestPart
<1> HIDE DEF s
<1>6. Keeps(vpn, s) /\ Stays(vpn, s)
  BY <1>3, <1>5, RequestPartFields, ZenonT(30) DEF Keeps, Stays, SameConnected
<1>7. Turns(vpn, s)
  BY <1>1, <1>4, <1>6, Zenon DEF Turns, Moves, Used
<1>8. ~(vpn.state = "VPN_SS_RECOVERING" /\ s.state = "VPN_SS_CONNECTED")
  BY <1>6, SMT DEF Stays
<1>9. Effect(vpn, s)
  BY <1>0, <1>6, <1>7, <1>8, KeepsRequests, Zenon DEF Effect, Serves
<1> QED BY <1>1, <1>9, Zenon DEF s

LEMMA AbandonStep ==
  ASSUME NEW v \in VpnRecord, NEW e \in Endpoints, NEW slow \in BOOLEAN
  PROVE  Step(v, abandon_endpoint(v, e, slow))
<1> DEFINE es == v.endpoints \ {e}
           se == IF v.selected_endpoint = e THEN NullOpt ELSE v.selected_endpoint
           w == [v EXCEPT !.endpoints = es, !.selected_endpoint = se]
           x == [w EXCEPT !.endpoints = {}, !.pending_error = "VPN_EC_LOCATION_UNAVAILABLE"]
           y == [w EXCEPT !.pending_error = "VPN_EC_ERROR",
                          !.ping_failure_induces_location_unavailable = TRUE]
<1>1. es \in SUBSET Endpoints /\ se \in Endpoints \cup {NullOpt}
  BY Zenon DEF VpnRecord
<1>2. abandon_endpoint(v, e, slow) \in
        {w, On_ABANDON_ENDPOINT(x, slow), On_ABANDON_ENDPOINT(y, slow)}
  BY Zenon DEF abandon_endpoint
<1> HIDE DEF es, se
<1>3. w \in VpnRecord
  BY <1>1, Zenon DEF VpnRecord
<1>4. RequestPart(w) = RequestPart(v) /\ w.conn = v.conn /\ w.tasks = v.tasks
  BY SMT DEF VpnRecord, RequestPart
<1> HIDE DEF w
<1>5. {} \in SUBSET Endpoints /\ TRUE \in BOOLEAN
  BY Zenon
<1>6. x \in VpnRecord
  BY <1>3, <1>5, ErrorsType, Zenon DEF VpnRecord
<1>7. y \in VpnRecord
  BY <1>3, <1>5, ErrorsType, Zenon DEF VpnRecord
<1>8. RequestPart(x) = RequestPart(w) /\ x.conn = w.conn /\ x.tasks = w.tasks
  BY <1>3, SMT DEF VpnRecord, RequestPart
<1>9. RequestPart(y) = RequestPart(w) /\ y.conn = w.conn /\ y.tasks = w.tasks
  BY <1>3, SMT DEF VpnRecord, RequestPart
<1> HIDE DEF x, y
<1>10. Calm(v, w) /\ Calm(w, x) /\ Calm(w, y)
  BY <1>3, <1>4, <1>6, <1>7, <1>8, <1>9, CalmFrame, Zenon
<1>11. Calm(v, x) /\ Calm(v, y) /\ Step(v, w)
  BY <1>10, CalmTrans, CalmStep, Zenon
<1>12. Step(v, On_ABANDON_ENDPOINT(x, slow))
  BY <1>6, <1>11, AbandonEventStep, CalmThenStep, Zenon
<1>13. Step(v, On_ABANDON_ENDPOINT(y, slow))
  BY <1>7, <1>11, AbandonEventStep, CalmThenStep, Zenon
<1> QED BY <1>2, <1>11, <1>12, <1>13, Zenon

\* A new connection has not been answered.
LEMMA ConnectRequestEffect ==
  ASSUME vpn \in VpnRecord, NEW r \in Requests, ConnectRequest(r)
  PROVE  Effect(vpn, vpn')
<1>1. vpn.conn[r] = "none" /\ vpn' = [vpn EXCEPT !.conn[r] = "requested"]
  BY Zenon DEF ConnectRequest
<1>2. /\ RequestPart(vpn') = RequestPart(vpn) /\ (vpn').tasks = vpn.tasks
      /\ (vpn').conn = [vpn.conn EXCEPT ![r] = "requested"]
  BY <1>1, SMT DEF VpnRecord, RequestPart
<1>3. vpn.conn \in [Requests -> ConnStates] /\ vpn.postponed_requests \subseteq Requests
  BY SMT DEF VpnRecord
<1> DEFINE w == vpn'
<1>4. /\ w.postponed_requests = vpn.postponed_requests
      /\ w.bypassed_connection_ids = vpn.bypassed_connection_ids
      /\ w.completed = vpn.completed /\ w.kill_switch_on = vpn.kill_switch_on
      /\ w.postponement_window_timer = vpn.postponement_window_timer
      /\ w.phase = vpn.phase
  BY <1>2, RequestPartFields, Zenon
<1>5. Stays(vpn, w) /\ Same(vpn, w)
  BY <1>2, RequestPartFields, Zenon DEF Stays, SameConnected, Same
<1>6. \A q \in Requests : w.conn[q] = IF q = r THEN "requested" ELSE vpn.conn[q]
  BY <1>2, <1>3, SMT
<1> HIDE DEF w
<1>7. ASSUME RequestsOK(vpn)
      PROVE  RequestsOK(w) /\ Routes(vpn, w)
  <2>1. HeldOK(vpn) /\ AnsweredOK(vpn) /\ BypassOK(vpn)
    BY <1>7, Zenon DEF RequestsOK
  <2>2. r \notin vpn.completed
    BY <1>1, <2>1, Zenon DEF AnsweredOK
  <2>3. HeldOK(w)
    BY <1>3, <1>4, <1>6, <2>1, SMT DEF HeldOK
  <2>4. AnsweredOK(w)
    BY <1>4, <1>6, <2>1, <2>2, SMT DEF AnsweredOK
  <2>5. BypassOK(w)
    BY <1>4, <1>6, <2>1, SMT DEF BypassOK
  <2>6. Routes(vpn, w)
    BY <1>1, <1>6, SMT DEF Routes
  <2> QED BY <2>3, <2>4, <2>5, <2>6, Zenon DEF RequestsOK
<1>8. Effect(vpn, w)
  BY <1>5, <1>7, StaysEffect, Zenon
<1> QED BY <1>8, Zenon DEF w

\* What answering one request may do: the connection is routed or closed, held
\* behind the timer, or let past the tunnel and remembered.
Answered(v, w, r) ==
  /\ w.completed = v.completed \cup {r} /\ w.kill_switch_on = v.kill_switch_on
  /\ w.postponement_window_timer = v.postponement_window_timer
  /\ \A q \in Requests : q # r => w.conn[q] = v.conn[q]
  /\ \/ /\ w.postponed_requests = v.postponed_requests
        /\ w.bypassed_connection_ids = v.bypassed_connection_ids
        /\ \/ w.conn[r] \in {"redirected", "closed"}
           \/ r \in BypassRequests /\ w.conn[r] = "bypassed"
     \/ /\ v.postponement_window_timer
        /\ w.postponed_requests = v.postponed_requests \cup {r}
        /\ w.bypassed_connection_ids = v.bypassed_connection_ids
        /\ w.conn[r] = v.conn[r]
     \/ /\ ~v.kill_switch_on
        /\ w.postponed_requests = v.postponed_requests
        /\ w.bypassed_connection_ids = v.bypassed_connection_ids \cup {r}
        /\ w.conn[r] = "bypassed" \/ (v.conn[r] = "closed" /\ w.conn[r] = "closed")
  /\ v.conn[r] = "closed" => w.conn[r] = "closed"

LEMMA AnsweredRequests ==
  ASSUME NEW v \in VpnRecord, NEW w, NEW r \in Requests, Answered(v, w, r),
         v.conn[r] # "none", r \notin v.completed, RequestsOK(v)
  PROVE  RequestsOK(w) /\ Routes(v, w)
<1>1. HeldOK(v) /\ AnsweredOK(v) /\ BypassOK(v)
  BY Zenon DEF RequestsOK
<1>2. v.postponed_requests \subseteq Requests /\ v.completed \subseteq Requests
  BY Zenon DEF VpnRecord
<1>3. v.conn[r] = "requested" \/ v.conn[r] = "closed"
  BY <1>1, Zenon DEF AnsweredOK
<1>4. r \notin v.postponed_requests
  BY <1>1, Zenon DEF HeldOK
<1>5. HeldOK(w)
  BY <1>1, <1>2, <1>3, <1>4, SMT DEF HeldOK, Answered
<1>6. AnsweredOK(w)
  BY <1>1, <1>2, <1>3, <1>4, SMT DEF AnsweredOK, Answered
<1>7. BypassOK(w)
  BY <1>1, <1>3, SMT DEF BypassOK, Answered
<1>8. Routes(v, w)
  BY <1>3, SMT DEF Routes, Answered
<1> QED BY <1>5, <1>6, <1>7, <1>8, Zenon DEF RequestsOK

LEMMA CompleteRequestAnswers ==
  ASSUME NEW u \in VpnRecord, NEW r \in Requests, NEW immediate \in BOOLEAN,
         u.conn[r] # "none"
  PROVE  LET v == [u EXCEPT !.completed = u.completed \cup {r}]
             w == On_COMPLETE_REQUEST(v, r, immediate)
         IN Answered(u, w, r) /\ Stays(u, w) /\ w.phase = u.phase /\ w.tasks = u.tasks
<1> DEFINE v == [u EXCEPT !.completed = u.completed \cup {r}]
           a == complete_all(v, {r}, BypassRequests)
           b == [v EXCEPT !.postponed_requests = v.postponed_requests \cup {r}]
           c == reject_all(v, {r})
           x == complete_all(v, {r}, {r})
           d == [x EXCEPT !.bypassed_connection_ids = x.bypassed_connection_ids \cup {r}]
           w == On_COMPLETE_REQUEST(v, r, immediate)
           Frame(s) == /\ s.phase = u.phase /\ s.tasks = u.tasks /\ Stays(u, s)
                       /\ s.completed = u.completed \cup {r}
                       /\ s.kill_switch_on = u.kill_switch_on
                       /\ s.postponement_window_timer = u.postponement_window_timer
<1>1. v \in VpnRecord
  BY Zenon DEF VpnRecord
<1>2. u.conn \in [Requests -> ConnStates]
  BY SMT DEF VpnRecord
<1>3. /\ Frame(v) /\ v.conn = u.conn /\ v.postponed_requests = u.postponed_requests
      /\ v.bypassed_connection_ids = u.bypassed_connection_ids
  BY SMT DEF VpnRecord, Stays, SameConnected
<1>4. \/ w = a
      \/ w = b /\ v.postponement_window_timer
      \/ w = c
      \/ w = d /\ ~v.kill_switch_on
  <2> HIDE DEF v
  <2>1. CASE can_complete(v, r, immediate)
    BY <2>1, Zenon DEF On_COMPLETE_REQUEST
  <2>2. CASE ~can_complete(v, r, immediate) /\ v.postponement_window_timer
    BY <2>2, Zenon DEF On_COMPLETE_REQUEST
  <2>3. CASE ~can_complete(v, r, immediate) /\ ~v.postponement_window_timer /\ v.kill_switch_on
    BY <2>3, Zenon DEF On_COMPLETE_REQUEST
  <2>4. CASE ~can_complete(v, r, immediate) /\ ~v.postponement_window_timer /\ ~v.kill_switch_on
    BY <2>4, Zenon DEF On_COMPLETE_REQUEST, bypass_until_connected
  <2> QED BY <2>1, <2>2, <2>3, <2>4, Zenon
<1> HIDE DEF v, w
<1>5. /\ Frame(a) /\ a.postponed_requests = u.postponed_requests
      /\ a.bypassed_connection_ids = u.bypassed_connection_ids
      /\ a.conn = [q \in DOMAIN v.conn |->
           IF q \notin {r} \/ v.conn[q] \in {"none", "closed"} THEN v.conn[q]
           ELSE IF q \in BypassRequests THEN "bypassed"
           ELSE IF v.endpoint_upstream_connected THEN "redirected"
           ELSE "closed"]
  BY <1>1, <1>3, SMT DEF VpnRecord, complete_all, Stays, SameConnected
<1>6. /\ Frame(b) /\ b.postponed_requests = u.postponed_requests \cup {r}
      /\ b.bypassed_connection_ids = u.bypassed_connection_ids /\ b.conn = u.conn
  BY <1>1, <1>3, SMT DEF VpnRecord, Stays, SameConnected
<1>7. /\ Frame(c) /\ c.postponed_requests = u.postponed_requests
      /\ c.bypassed_connection_ids = u.bypassed_connection_ids
      /\ c.conn = [q \in DOMAIN v.conn |->
           IF q \in {r} /\ v.conn[q] # "none" THEN "closed" ELSE v.conn[q]]
  BY <1>1, <1>3, SMT DEF VpnRecord, reject_all, Stays, SameConnected
<1>8. /\ Frame(d) /\ d.postponed_requests = u.postponed_requests
      /\ d.bypassed_connection_ids = u.bypassed_connection_ids \cup {r}
  BY <1>1, <1>3, SMT DEF VpnRecord, complete_all, Stays, SameConnected
<1>9. d.conn = [q \in DOMAIN v.conn |->
           IF q \notin {r} \/ v.conn[q] \in {"none", "closed"} THEN v.conn[q]
           ELSE IF q \in {r} THEN "bypassed"
           ELSE IF v.endpoint_upstream_connected THEN "redirected"
           ELSE "closed"]
  BY <1>1, SMT DEF VpnRecord, complete_all
<1> HIDE DEF a, b, c, d
<1>10. DOMAIN v.conn = Requests
  BY <1>2, <1>3, Zenon
<1>11. Answered(u, a, r)
  <2>1. \A q \in Requests : q # r => a.conn[q] = u.conn[q]
    BY <1>3, <1>5, <1>10, SMT
  <2>2. a.conn[r] = IF u.conn[r] = "closed" THEN "closed"
                    ELSE IF r \in BypassRequests THEN "bypassed"
                    ELSE IF v.endpoint_upstream_connected THEN "redirected"
                    ELSE "closed"
    BY <1>3, <1>5, <1>10, SMT
  <2> QED BY <1>5, <2>1, <2>2, SMT DEF Answered
<1>12. v.postponement_window_timer => Answered(u, b, r)
  BY <1>3, <1>6, SMT DEF Answered
<1>13. Answered(u, c, r)
  <2>1. \A q \in Requests : q # r => c.conn[q] = u.conn[q]
    BY <1>3, <1>7, <1>10, SMT
  <2>2. c.conn[r] = "closed"
    BY <1>3, <1>7, <1>10, SMT
  <2> QED BY <1>7, <2>1, <2>2, SMT DEF Answered
<1>14. ~v.kill_switch_on => Answered(u, d, r)
  <2>1. \A q \in Requests : q # r => d.conn[q] = u.conn[q]
    BY <1>3, <1>9, <1>10, SMT
  <2>2. d.conn[r] = IF u.conn[r] = "closed" THEN "closed" ELSE "bypassed"
    BY <1>3, <1>9, <1>10, SMT
  <2> QED BY <1>3, <1>8, <2>1, <2>2, SMT DEF Answered
<1>15. Answered(u, w, r) /\ Frame(w)
  BY <1>4, <1>5, <1>6, <1>7, <1>8, <1>11, <1>12, <1>13, <1>14, Zenon
<1> QED BY <1>15, Zenon DEF w, v

LEMMA CompleteConnectRequestEffect ==
  ASSUME vpn \in VpnRecord, NEW r \in Requests, NEW immediate \in BOOLEAN,
         CompleteConnectRequest(r, immediate)
  PROVE  Effect(vpn, vpn')
<1> DEFINE v == [vpn EXCEPT !.completed = vpn.completed \cup {r}]
           w == On_COMPLETE_REQUEST(v, r, immediate)
<1>1. vpn' = w /\ vpn.conn[r] # "none" /\ r \notin vpn.completed
  BY Zenon DEF CompleteConnectRequest
<1>2. Answered(vpn, w, r) /\ Stays(vpn, w) /\ w.phase = vpn.phase /\ w.tasks = vpn.tasks
  BY <1>1, CompleteRequestAnswers, Zenon
<1> HIDE DEF w
<1>3. Same(vpn, w)
  BY <1>2, Zenon DEF Same
<1>4. RequestsOK(vpn) => RequestsOK(w) /\ Routes(vpn, w)
  BY <1>1, <1>2, AnsweredRequests, Zenon
<1> QED BY <1>1, <1>2, <1>3, <1>4, StaysEffect, Zenon

\* vpn_stop ends the session, or keeps it from beginning, and closes everything.
LEMMA StoppedEffect ==
  ASSUME Consistent(vpn), Stopped
  PROVE  Effect(vpn, vpn')
<1>0. /\ vpn \in VpnRecord /\ BeginOK(vpn)
      /\ vpn.state = "VPN_SS_DISCONNECTED" => vpn.recovery_attempts = 0
  BY ConsistentParts, Zenon
<1> DEFINE u == stop_pinging(reset_recovery(vpn))
           x == finalize_disconnect(u)
           w == vpn'
<1>1. /\ vpn.phase = "stopping"
      /\ w = [x EXCEPT
                !.phase = "stopped", !.state = "VPN_SS_DISCONNECTED",
                !.pending_error = NullOpt, !.client_state = "CLIS_DISCONNECTED",
                !.postponement_window_timer = FALSE, !.selected_endpoint = NullOpt,
                !.postponed_requests = {}, !.bypassed_connection_ids = {},
                !.tasks = <<>>]
  BY Zenon DEF Stopped
<1>2. /\ u \in VpnRecord /\ u.completed = vpn.completed /\ u.conn = vpn.conn
      /\ u.kill_switch_on = vpn.kill_switch_on /\ u.recovery_attempts = 0
      /\ u.connected_once = vpn.connected_once
  <2>1. u \in VpnRecord
    BY <1>0, ResetRecoveryType, StopPingingType, Zenon
  <2>2. /\ u.completed = vpn.completed /\ u.conn = vpn.conn
        /\ u.kill_switch_on = vpn.kill_switch_on /\ u.recovery_attempts = 0
        /\ u.connected_once = vpn.connected_once
    BY <1>0, SMT DEF VpnRecord, stop_pinging, reset_recovery
  <2> QED BY <2>1, <2>2, Zenon
<1> HIDE DEF u
<1>3. /\ DOMAIN x = DOMAIN u /\ x.completed = u.completed
      /\ x.kill_switch_on = u.kill_switch_on /\ x.recovery_attempts = u.recovery_attempts
      /\ x.connected_once = u.connected_once
      /\ x.conn = [r \in DOMAIN u.conn |-> IF u.conn[r] = "none" THEN "none" ELSE "closed"]
  BY <1>2, SMT DEF VpnRecord, finalize_disconnect, close_connections
<1>4. {"phase", "state", "tasks", "postponed_requests", "bypassed_connection_ids"}
        \subseteq DOMAIN u
  BY <1>2, SMT DEF VpnRecord
<1> HIDE DEF x
<1>5. /\ w.phase = "stopped" /\ w.state = "VPN_SS_DISCONNECTED" /\ w.tasks = <<>>
      /\ w.postponed_requests = {} /\ w.bypassed_connection_ids = {}
      /\ w.completed = x.completed /\ w.kill_switch_on = x.kill_switch_on
      /\ w.recovery_attempts = x.recovery_attempts
      /\ w.connected_once = x.connected_once /\ w.conn = x.conn
  BY <1>1, <1>3, <1>4, SMT
<1> HIDE DEF w
<1>6. Used(w)
  <2>1. ~Has(w.tasks, "do_connect")
    BY <1>5, SMT DEF Has
  <2>2. w.phase # "created"
    BY <1>5, SMT
  <2> QED BY <2>1, <2>2, Zenon DEF Used
<1>7. w.recovery_attempts = 0 /\ SameConnected(vpn, w)
  BY <1>2, <1>3, <1>5, Zenon DEF SameConnected
<1>8. vpn.state = "VPN_SS_DISCONNECTED" => Stays(vpn, w)
  BY <1>0, <1>5, <1>7, Zenon DEF Stays
<1>9. vpn.state # "VPN_SS_DISCONNECTED" => Ends(vpn, w)
  BY <1>5, <1>7, Zenon DEF Ends
<1>10. Turns(vpn, w)
  <2>1. CASE Used(vpn)
    BY <1>6, <1>8, <1>9, <2>1, Zenon DEF Turns, Moves
  <2>2. CASE ~Used(vpn)
    <3>1. vpn.phase # "created"
      BY <1>1, SMT
    <3>2. vpn.state = "VPN_SS_DISCONNECTED"
      BY <1>0, <2>2, <3>1, Zenon DEF Used, BeginOK
    <3> QED BY <1>6, <1>8, <2>2, <3>2, Zenon DEF Turns
  <2> QED BY <2>1, <2>2, Zenon
<1>11. \A r \in Requests : w.conn[r] = IF vpn.conn[r] = "none" THEN "none" ELSE "closed"
  <2>1. vpn.conn \in [Requests -> ConnStates]
    BY <1>0, SMT DEF VpnRecord
  <2>2. DOMAIN u.conn = Requests
    BY <1>2, <2>1, Zenon
  <2> QED BY <1>2, <1>3, <1>5, <2>2, SMT
<1>12. ASSUME RequestsOK(vpn)
       PROVE  RequestsOK(w) /\ Routes(vpn, w)
  <2>1. AnsweredOK(vpn) /\ w.completed = vpn.completed
    BY <1>2, <1>3, <1>5, <1>12, Zenon DEF RequestsOK
  <2>2. HeldOK(w)
    BY <1>5, Zenon DEF HeldOK
  <2>3. AnsweredOK(w)
    BY <1>11, <2>1, SMT DEF AnsweredOK
  <2>4. BypassOK(w)
    BY <1>11, SMT DEF BypassOK
  <2>5. Routes(vpn, w)
    BY <1>11, SMT DEF Routes
  <2> QED BY <2>2, <2>3, <2>4, <2>5, Zenon DEF RequestsOK
<1>13. w.state # "VPN_SS_CONNECTED"
  BY <1>5, SMT
<1>14. Effect(vpn, w)
  BY <1>10, <1>12, <1>13, Zenon DEF Effect, Serves
<1> QED BY <1>14, Zenon DEF w

LEMMA StopStep ==
  ASSUME vpn \in VpnRecord, Stop
  PROVE  Step(vpn, vpn')
<1> DEFINE w == [vpn EXCEPT !.phase = "stopping"]
<1>1. vpn' = submit(w, "shutdown") /\ vpn.phase = "running"
  BY Zenon DEF Stop
<1>2. w \in VpnRecord
  <2>1. "stopping" \in Phases
    BY Zenon DEF Phases
  <2> QED BY <2>1, Zenon DEF VpnRecord
<1>3. /\ w.postponed_requests = vpn.postponed_requests
      /\ w.bypassed_connection_ids = vpn.bypassed_connection_ids
      /\ w.completed = vpn.completed /\ w.kill_switch_on = vpn.kill_switch_on
      /\ w.postponement_window_timer = vpn.postponement_window_timer
      /\ w.phase = "stopping" /\ w.state = vpn.state
      /\ w.connected_once = vpn.connected_once
      /\ w.recovery_attempts = vpn.recovery_attempts
      /\ w.conn = vpn.conn /\ w.tasks = vpn.tasks
  BY SMT DEF VpnRecord
<1> HIDE DEF w
<1>4. w.phase = "created" <=> vpn.phase = "created"
  BY <1>1, <1>3, SMT
<1>5. Keeps(vpn, w) /\ Same(vpn, w)
  BY <1>3, <1>4, Zenon DEF Keeps, Same
<1>6. Calm(vpn, w)
  BY <1>2, <1>3, <1>5, Zenon DEF Calm, Quiet
<1>7. Calm(w, submit(w, "shutdown"))
  BY <1>2, TasksType, SubmitCalm, Zenon
<1> QED BY <1>1, <1>6, <1>7, CalmTrans, CalmStep, Zenon

LEMMA ConnectionClosedStep ==
  ASSUME vpn \in VpnRecord, vpn' \in VpnRecord, NEW r \in Requests, ConnectionClosed(r)
  PROVE  Step(vpn, vpn')
<1>1. vpn.conn[r] \notin {"none", "closed"} /\ vpn' = [vpn EXCEPT !.conn[r] = "closed"]
  BY Zenon DEF ConnectionClosed
<1>2. /\ RequestPart(vpn') = RequestPart(vpn) /\ (vpn').tasks = vpn.tasks
      /\ (vpn').conn = [vpn.conn EXCEPT ![r] = "closed"]
  BY <1>1, SMT DEF VpnRecord, RequestPart
<1>3. vpn.conn \in [Requests -> ConnStates]
  BY SMT DEF VpnRecord
<1> DEFINE w == vpn'
<1>4. \A q \in Requests :
        w.conn[q] = vpn.conn[q] \/ (vpn.conn[q] # "none" /\ w.conn[q] = "closed")
  BY <1>1, <1>2, <1>3, SMT
<1>5. Calm(vpn, w)
  BY <1>2, <1>4, RequestPartFields, ZenonT(30) DEF Calm, Quiet, Keeps, Same
<1> QED BY <1>5, CalmStep, Zenon

LEMMA ApiNextEffect ==
  ASSUME Consistent(vpn), ApiNext
  PROVE  Effect(vpn, vpn')
<1>0. vpn \in VpnRecord /\ (vpn.state = "VPN_SS_DISCONNECTED" => vpn.recovery_attempts = 0)
  BY ConsistentParts, Zenon
<1>1. vpn' \in VpnRecord
  BY <1>0, ApiNextType, Zenon
<1>2. CASE \E policy \in Policies : Connect(policy)
  BY <1>2, ConnectEffect, Zenon
<1>3. CASE \E late, started \in BOOLEAN : ForceReconnect(late, started)
  BY <1>0, <1>3, DoRecoveryStep, StepEffect, Zenon DEF ForceReconnect
<1>4. CASE \E fatal \in BOOLEAN : ForceDisconnect(fatal)
  <2>1. PICK fatal \in BOOLEAN : ForceDisconnect(fatal)
    BY <1>4
  <2> DEFINE p == IF fatal THEN "VPN_EC_FATAL_CONNECTIVITY_ERROR" ELSE vpn.pending_error
             u == [vpn EXCEPT !.pending_error = p]
  <2>2. vpn' = On_SHUTDOWN(u)
    BY <2>1, Zenon DEF ForceDisconnect
  <2>3. p \in MaybeError
    BY <1>0, ErrorsType, Zenon DEF VpnRecord
  <2> HIDE DEF p
  <2>4. u \in VpnRecord /\ Quiet(vpn, u)
    BY <1>0, <2>3, PendingErrorType, PendingErrorCalm, Zenon DEF Calm
  <2> HIDE DEF u
  <2>5. Step(vpn, vpn')
    BY <1>0, <2>2, <2>4, ShutdownStep, Zenon
  <2> QED BY <1>0, <2>5, StepEffect, Zenon
<1>5. CASE \E lost, slow \in BOOLEAN : NetworkChange(lost, slow)
  <2> DEFINE u == [vpn EXCEPT !.network_changed_before_recovery = TRUE]
  <2>1. \E lost, slow \in BOOLEAN : vpn' = On_NETWORK_CHANGE(u, lost, slow)
    BY <1>5, Zenon DEF NetworkChange
  <2>2. u \in VpnRecord
    BY <1>0, Zenon DEF VpnRecord
  <2>3. RequestPart(u) = RequestPart(vpn) /\ u.conn = vpn.conn /\ u.tasks = vpn.tasks
    BY <1>0, SMT DEF VpnRecord, RequestPart
  <2> HIDE DEF u
  <2>4. Calm(vpn, u)
    BY <2>2, <2>3, CalmFrame, Zenon
  <2>5. Step(vpn, vpn')
    BY <1>0, <2>1, <2>2, <2>4, NetworkChangeStep, CalmThenStep, Zenon
  <2> QED BY <1>0, <2>5, StepEffect, Zenon
<1>6. CASE \E e \in Endpoints, slow \in BOOLEAN : AbandonEndpoint(e, slow)
  BY <1>0, <1>6, AbandonStep, StepEffect, Zenon DEF AbandonEndpoint
<1>7. CASE ListenFailed
  <2> DEFINE u == submit_disconnect(vpn, NullOpt)
  <2>1. vpn' = submit(u, "listen_failed")
    BY <1>7, Zenon DEF ListenFailed
  <2>2. u \in VpnRecord /\ Calm(vpn, u)
    BY <1>0, ErrorsType, SubmitDisconnectType, SubmitDisconnectCalm, Zenon
  <2> HIDE DEF u
  <2>3. "listen_failed" \in Tasks
    BY TasksType, Zenon
  <2>4. Calm(u, submit(u, "listen_failed"))
    BY <2>2, <2>3, SubmitCalm, Zenon
  <2> QED BY <1>0, <2>1, <2>2, <2>4, CalmTrans, CalmStep, StepEffect, Zenon
<1>8. CASE \E r \in Requests : ConnectRequest(r)
  BY <1>0, <1>8, ConnectRequestEffect, Zenon
<1>9. CASE \E r \in Requests, immediate \in BOOLEAN : CompleteConnectRequest(r, immediate)
  BY <1>0, <1>9, CompleteConnectRequestEffect, Zenon
<1>10. CASE \E r \in Requests : ConnectionClosed(r)
  BY <1>0, <1>1, <1>10, ConnectionClosedStep, StepEffect, Zenon
<1>11. CASE ResetConnections
  BY <1>0, <1>11, CloseCalm, CalmStep, StepEffect, Zenon DEF ResetConnections
<1>12. CASE Stop
  BY <1>0, <1>12, StopStep, StepEffect, Zenon
<1>13. CASE Stopped
  BY <1>13, StoppedEffect, Zenon
<1> QED BY <1>2, <1>3, <1>4, <1>5, <1>6, <1>7, <1>8, <1>9, <1>10, <1>11, <1>12, <1>13,
    Zenon DEF ApiNext

LEMMA NextEffect ==
  ASSUME Consistent(vpn), [Next]_vpn
  PROVE  Effect(vpn, vpn')
<1>1. CASE LoopNext
  BY <1>1, LoopNextEffect, Zenon
<1>2. CASE ApiNext
  BY <1>2, ApiNextEffect, Zenon
<1>3. CASE Done \/ UNCHANGED vpn
  <2>1. vpn' = vpn /\ vpn \in VpnRecord
    BY <1>3, ConsistentParts, Zenon DEF Done
  <2>2. Effect(vpn, vpn)
    BY <2>1, CalmRefl, CalmStep, StepEffect, Zenon
  <2> QED BY <2>1, <2>2, Zenon
<1> QED BY <1>1, <1>2, <1>3, Zenon DEF Next

LEMMA InitRequests == Init => RequestsOK(vpn)
<1> SUFFICES ASSUME Init PROVE RequestsOK(vpn)
  OBVIOUS
<1>1. /\ vpn.postponed_requests = {} /\ vpn.completed = {}
      /\ vpn.conn = [r \in Requests |-> "none"]
  BY SMT DEF Init
<1>2. HeldOK(vpn)
  BY <1>1, Zenon DEF HeldOK
<1>3. AnsweredOK(vpn) /\ BypassOK(vpn)
  BY <1>1, SMT DEF AnsweredOK, BypassOK
<1> QED BY <1>2, <1>3, Zenon DEF RequestsOK

-----------------------------------------------------------------------------
(* The theorems.                                                           *)

\* The inductive invariant of the requests holds in every reachable state, and
\* every step serves them.
THEOREM RequestsServed ==
  Spec => []RequestsOK(vpn) /\ [][Serves(vpn, vpn')]_vpn
<1>1. Init => RequestsOK(vpn)
  BY InitRequests
<1>2. Consistent(vpn) /\ RequestsOK(vpn) /\ [Next]_vpn => Serves(vpn, vpn')
  BY NextEffect, Zenon DEF Effect
<1>3. Serves(vpn, vpn') => RequestsOK(vpn')
  BY Zenon DEF Serves
<1>4. RequestsOK(vpn)' <=> RequestsOK(vpn')
  OBVIOUS
<1>5. RequestsOK(vpn) /\ Consistent(vpn) /\ [Next]_vpn => RequestsOK(vpn)'
  BY <1>2, <1>3, <1>4
<1>6. RequestsOK(vpn) /\ Consistent(vpn) /\ [Next]_vpn => [Serves(vpn, vpn')]_vpn
  BY <1>2
<1> QED BY <1>1, <1>5, <1>6, AlwaysConsistent, PTL DEF Spec

\* With the kill switch on, no connection is routed directly unless the
\* application asked for it: not by the postponement timer, not while a recovery
\* runs, not at its end.
THEOREM KillSwitchProved == Spec => []KillSwitchHolds
<1>1. RequestsOK(vpn) => KillSwitchHolds
  BY Zenon DEF RequestsOK, BypassOK, KillSwitchHolds
<1> QED BY <1>1, RequestsServed, PTL

\* A routed connection is never routed again: the postponement timer, the end of
\* a recovery and the application answer a request once between them.
THEOREM RoutedOnceHolds == Spec => RoutedOnce
<1>1. Serves(vpn, vpn') => (\A r \in Requests : vpn.conn[r] \in {"redirected", "bypassed", "closed"}
                              => (vpn').conn[r] \in {vpn.conn[r], "closed"})
  BY Zenon DEF Serves, Routes
<1> QED BY <1>1, RequestsServed, PTL DEF RoutedOnce

\* A recovery deals with every request it held up: a postponed one has its timer,
\* what was let past the tunnel is remembered, and a recovery that succeeds
\* answers the ones and closes the others.
THEOREM RecoveryServes == Spec => RecoveryServesRequests
<1>1. RequestsOK(vpn) /\ TypeOK => PostponedHasTimer /\ BypassRemembered
  <2> SUFFICES ASSUME RequestsOK(vpn), vpn \in VpnRecord
               PROVE  PostponedHasTimer /\ BypassRemembered
    BY Zenon DEF TypeOK
  <2>1. vpn.completed \subseteq Requests
    BY Zenon DEF VpnRecord
  <2>2. PostponedHasTimer
    BY <2>1, Zenon DEF RequestsOK, HeldOK, AnsweredOK, PostponedHasTimer
  <2>3. BypassRemembered
    BY Zenon DEF RequestsOK, BypassOK, BypassRemembered
  <2> QED BY <2>2, <2>3, Zenon
<1>2. Serves(vpn, vpn') =>
        (RecoveryEnds =>
          /\ \A r \in (vpn').completed : (vpn').conn[r] # "requested"
          /\ \A r \in Requests \ BypassRequests : (vpn').conn[r] # "bypassed")
  BY Zenon DEF Serves, Served, RecoveryEnds
<1>3. Spec => [](PostponedHasTimer /\ BypassRemembered)
  BY <1>1, RequestsServed, TypeCorrect, PTL
<1> QED BY <1>2, <1>3, RequestsServed, PTL DEF RecoveryServesRequests

\* A move of the session manager is a step of the lifecycle or leaves it alone.
LEMMA TurnsLifecycle ==
  ASSUME Turns(vpn, vpn'), vpn.recovery_attempts \in 0..RecoveryAttempts
  PROVE  [Lifecycle!Next]_(Lifecycle!lifecycle)
<1> DEFINE used == vpn.phase # "created" /\ ~Queued("do_connect")
<1>1. (used <=> Used(vpn)) /\ (used' <=> Used(vpn'))
  BY Zenon DEF Used, Queued, Has
<1>2. used \in BOOLEAN /\ used' \in BOOLEAN
  BY Zenon
<1> HIDE DEF used
<1>3. Used(vpn) \in BOOLEAN /\ Used(vpn') \in BOOLEAN
  BY Zenon DEF Used
<1>4. CASE (Used(vpn') <=> Used(vpn)) /\ Moves(vpn, vpn')
  <2>1. used' = used
    BY <1>1, <1>2, <1>4, Zenon
  <2>2. CASE Stays(vpn, vpn')
    BY <2>1, <2>2, Zenon DEF Stays, SameConnected, Lifecycle!lifecycle, used
  <2>3. CASE Succeeds(vpn, vpn')
    BY <2>1, <2>3, Zenon DEF Succeeds, Lifecycle!Next, Lifecycle!Succeed, used
  <2>4. CASE Waits(vpn, vpn')
    <3>1. \/ vpn.recovery_attempts < RecoveryAttempts
             /\ (vpn').recovery_attempts = vpn.recovery_attempts + 1
          \/ vpn.recovery_attempts = RecoveryAttempts
             /\ (vpn').recovery_attempts = vpn.recovery_attempts
      BY <2>4, ConstantsAssumption, SMT DEF Waits, Counted
    <3> QED BY <2>1, <2>4, <3>1, Zenon
        DEF Waits, SameConnected, Lifecycle!Next, Lifecycle!Wait, used
  <2>5. CASE Recovers(vpn, vpn')
    BY <2>1, <2>5, Zenon DEF Recovers, SameConnected, Lifecycle!Next, Lifecycle!Recover, used
  <2>6. CASE LosesNetwork(vpn, vpn')
    BY <2>1, <2>6, Zenon
    DEF LosesNetwork, SameConnected, Lifecycle!Next, Lifecycle!LoseNetwork, used
  <2>7. CASE ConnectsAgain(vpn, vpn')
    BY <2>1, <2>7, Zenon
    DEF ConnectsAgain, SameConnected, Lifecycle!Next, Lifecycle!ConnectAgain, used
  <2>8. CASE Ends(vpn, vpn')
    BY <2>1, <2>8, Zenon DEF Ends, SameConnected, Lifecycle!Next, Lifecycle!End, used
  <2> QED BY <1>4, <2>2, <2>3, <2>4, <2>5, <2>6, <2>7, <2>8, Zenon DEF Moves
<1>5. CASE ~Used(vpn) /\ Used(vpn') /\ Begins(vpn, vpn')
  <2>1. ~used /\ used' = TRUE
    BY <1>1, <1>2, <1>5, Zenon
  <2> QED BY <1>5, <2>1, Zenon
      DEF Begins, SameConnected, Lifecycle!Next, Lifecycle!Begin, used
<1>6. CASE ~Used(vpn) /\ Used(vpn') /\ vpn.state = "VPN_SS_DISCONNECTED" /\ Stays(vpn, vpn')
  <2>1. ~used /\ used' = TRUE
    BY <1>1, <1>2, <1>6, Zenon
  <2> QED BY <1>6, <2>1, Zenon
      DEF Stays, SameConnected, Lifecycle!Next, Lifecycle!Cancel, used
<1> QED BY <1>4, <1>5, <1>6, Zenon DEF Turns

LEMMA InitLifecycle == Init => Lifecycle!Init
<1> SUFFICES ASSUME Init PROVE Lifecycle!Init
  OBVIOUS
<1>1. /\ vpn.phase = "created" /\ vpn.state = "VPN_SS_DISCONNECTED"
      /\ vpn.connected_once = FALSE /\ vpn.recovery_attempts = 0
  BY SMT DEF Init
<1>2. (vpn.phase # "created" /\ ~Queued("do_connect")) = FALSE
  BY <1>1, Zenon
<1> QED BY <1>1, <1>2, Zenon DEF Lifecycle!Init

\* The session manager implements the lifecycle that vpn.h promises the
\* application: a session begins once, waits and recovers within its attempts,
\* and has ended for good once it is disconnected.
THEOREM ImplementsLifecycle == Spec => LifecycleSpec
<1>1. Init => Lifecycle!Init
  BY InitLifecycle
<1>2. Consistent(vpn) /\ [Next]_vpn => [Lifecycle!Next]_(Lifecycle!lifecycle)
  <2> SUFFICES ASSUME Consistent(vpn), [Next]_vpn
               PROVE  [Lifecycle!Next]_(Lifecycle!lifecycle)
    OBVIOUS
  <2>1. Turns(vpn, vpn')
    BY NextEffect, Zenon DEF Effect
  <2>2. vpn.recovery_attempts \in 0..RecoveryAttempts
    BY ConsistentParts, Zenon DEF VpnRecord
  <2> QED BY <2>1, <2>2, TurnsLifecycle, Zenon
<1> QED BY <1>1, <1>2, AlwaysConsistent, PTL DEF Spec, LifecycleSpec, Lifecycle!Spec

=============================================================================
