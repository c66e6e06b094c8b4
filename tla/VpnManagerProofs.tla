-------------------------- MODULE VpnManagerProofs ---------------------------
(***************************************************************************)
(* Safety of module VpnManager for every value of its constants.           *)
(*                                                                         *)
(* Consistent is an inductive invariant on struct Vpn: ClientOK relates    *)
(* the endpoint client, its connector, its upstream and its finalizer      *)
(* task; the other parts relate the session state to the client, the ping, *)
(* the recovery and the queued tasks.  The proof has effect lemmas, which  *)
(* say what a handler does to the fields the invariant mentions, then one  *)
(* lemma per state reached, per event of the session machine and per task, *)
(* then one step per action.                                               *)
(***************************************************************************)
EXTENDS VpnManager, TLAPS

(***************************************************************************)
(* Type correctness: every handler maps a well-typed struct Vpn to a       *)
(* well-typed one.  One lemma per handler, in the order in which the       *)
(* handlers call one another, then one step per action.                    *)
(***************************************************************************)

LEMMA SubmitType ==
  ASSUME NEW v \in VpnRecord, NEW t \in Tasks
  PROVE  submit(v, t) \in VpnRecord
<1>1. Append(v.tasks, t) \in Seq(Tasks)
  BY SMT DEF VpnRecord
<1> QED BY <1>1, Zenon DEF VpnRecord, submit

LEMMA ClearDeferredType ==
  ASSUME NEW v \in VpnRecord
  PROVE  clear_deferred_tasks(v) \in VpnRecord
<1> DEFINE q == [i \in DOMAIN v.tasks |->
                   IF v.tasks[i] \in ClientTasks THEN "cancelled" ELSE v.tasks[i]]
<1>1. v.tasks \in Seq(Tasks)
  BY Zenon DEF VpnRecord
<1>2. q \in Seq(Tasks)
  BY <1>1, SMT DEF Tasks
<1>3. clear_deferred_tasks(v) = [v EXCEPT !.tasks = q]
  BY Zenon DEF clear_deferred_tasks
<1> HIDE DEF q
<1>4. [v EXCEPT !.tasks = q] \in VpnRecord
  BY <1>2, ZenonT(60) DEF VpnRecord
<1> QED BY <1>3, <1>4, Zenon

LEMMA CloseConnectionsType ==
  ASSUME NEW v \in VpnRecord
  PROVE  close_connections(v) \in VpnRecord
<1> DEFINE c == [r \in DOMAIN v.conn |-> IF v.conn[r] = "none" THEN "none" ELSE "closed"]
<1>1. c \in [Requests -> ConnStates]
  BY SMT DEF VpnRecord, ConnStates
<1>2. close_connections(v) = [v EXCEPT !.conn = c]
  BY Zenon DEF close_connections
<1> HIDE DEF c
<1>3. [v EXCEPT !.conn = c] \in VpnRecord
  BY <1>1, ZenonT(60) DEF VpnRecord
<1> QED BY <1>2, <1>3, Zenon

LEMMA RunDisconnectType ==
  ASSUME NEW v \in VpnRecord
  PROVE  run_disconnect(v) \in VpnRecord
<1>1. on_before_endpoint_disconnect(v) \in VpnRecord
  <2>1. close_connections(v) \in VpnRecord
    BY CloseConnectionsType, Zenon
  <2>2. on_before_endpoint_disconnect(v) =
          [close_connections(v) EXCEPT !.endpoint_upstream_connected = FALSE]
    BY Zenon DEF on_before_endpoint_disconnect
  <2>3. FALSE \in BOOLEAN
    BY Zenon
  <2>4. [close_connections(v) EXCEPT !.endpoint_upstream_connected = FALSE] \in VpnRecord
    BY <2>1, <2>3, ZenonT(60) DEF VpnRecord
  <2> QED BY <2>2, <2>4, Zenon
<1> DEFINE w == clear_deferred_tasks(on_before_endpoint_disconnect(v))
           u == IF w.endpoint_upstream = "nullptr" THEN "nullptr" ELSE "closed"
<1>2. w \in VpnRecord
  BY <1>1, ClearDeferredType, Zenon
<1>3. u \in UpstreamStates
  BY Zenon DEF UpstreamStates
<1>4. run_disconnect(v) = [w EXCEPT !.endpoint_connector = "nullptr",
                                    !.endpoint_upstream = u,
                                    !.client_fsm = "S_DISCONNECTED"]
  BY Zenon DEF run_disconnect
<1>5. "nullptr" \in ConnectorStates /\ "S_DISCONNECTED" \in ClientStates
  BY Zenon DEF ConnectorStates, ClientStates
<1> HIDE DEF w, u
<1>6. [w EXCEPT !.endpoint_connector = "nullptr", !.endpoint_upstream = u,
       !.client_fsm = "S_DISCONNECTED"] \in VpnRecord
  BY <1>2, <1>3, <1>5, ZenonT(60) DEF VpnRecord
<1> QED BY <1>4, <1>6, Zenon

LEMMA StopPingingType ==
  ASSUME NEW v \in VpnRecord
  PROVE  stop_pinging(v) \in VpnRecord
BY Zenon DEF VpnRecord, stop_pinging

LEMMA DisconnectClientType ==
  ASSUME NEW v \in VpnRecord
  PROVE  disconnect_client(v) \in VpnRecord
<1>1. client_disconnect(v) \in VpnRecord
  BY RunDisconnectType, Zenon DEF client_disconnect
<1>2. "CLIS_DISCONNECTED" \in ClientConnectionStates
  BY Zenon DEF ClientConnectionStates
<1>3. [client_disconnect(v) EXCEPT !.client_state = "CLIS_DISCONNECTED"] \in VpnRecord
  BY <1>1, <1>2, Zenon DEF VpnRecord
<1> QED BY <1>3, Zenon DEF disconnect_client

LEMMA DisconnectType ==
  ASSUME NEW v \in VpnRecord
  PROVE  disconnect(v) \in VpnRecord
BY StopPingingType, DisconnectClientType, Zenon DEF disconnect

LEMMA ResetRecoveryType ==
  ASSUME NEW v \in VpnRecord
  PROVE  reset_recovery(v) \in VpnRecord
<1>1. 0 \in 0..RecoveryAttempts
  BY ConstantsAssumption
<1> QED BY <1>1, Zenon DEF VpnRecord, reset_recovery

LEMMA CompleteAllType ==
  ASSUME NEW v \in VpnRecord, NEW requests, NEW bypass
  PROVE  complete_all(v, requests, bypass) \in VpnRecord
<1> DEFINE c == [r \in DOMAIN v.conn |->
                   IF r \notin requests \/ v.conn[r] \in {"none", "closed"} THEN v.conn[r]
                   ELSE IF r \in bypass THEN "bypassed"
                   ELSE IF v.endpoint_upstream_connected THEN "redirected"
                   ELSE "closed"]
<1>1. c \in [Requests -> ConnStates]
  BY SMT DEF VpnRecord, ConnStates
<1>2. complete_all(v, requests, bypass) = [v EXCEPT !.conn = c]
  BY Zenon DEF complete_all
<1> HIDE DEF c
<1>3. [v EXCEPT !.conn = c] \in VpnRecord
  BY <1>1, ZenonT(60) DEF VpnRecord
<1> QED BY <1>2, <1>3, Zenon

LEMMA RejectAllType ==
  ASSUME NEW v \in VpnRecord, NEW requests
  PROVE  reject_all(v, requests) \in VpnRecord
<1> DEFINE c == [r \in DOMAIN v.conn |->
                   IF r \in requests /\ v.conn[r] # "none" THEN "closed" ELSE v.conn[r]]
<1>1. c \in [Requests -> ConnStates]
  BY SMT DEF VpnRecord, ConnStates
<1>2. reject_all(v, requests) = [v EXCEPT !.conn = c]
  BY Zenon DEF reject_all
<1> HIDE DEF c
<1>3. [v EXCEPT !.conn = c] \in VpnRecord
  BY <1>1, ZenonT(60) DEF VpnRecord
<1> QED BY <1>2, <1>3, Zenon

LEMMA FinalizeRecoveryType ==
  ASSUME NEW v \in VpnRecord
  PROVE  finalize_recovery(v) \in VpnRecord
<1> DEFINE w == [stop_pinging(reset_recovery(v)) EXCEPT !.postponement_window_timer = FALSE]
           x == complete_postponed_requests(w)
           c == [r \in DOMAIN x.conn |->
                   IF r \in x.bypassed_connection_ids /\ x.conn[r] # "none"
                   THEN "closed" ELSE x.conn[r]]
<1>1. w \in VpnRecord
  <2>1. stop_pinging(reset_recovery(v)) \in VpnRecord
    BY ResetRecoveryType, StopPingingType, Zenon
  <2> QED BY <2>1, Zenon DEF VpnRecord
<1>2. x \in VpnRecord
  <2>1. complete_all(w, w.postponed_requests, BypassRequests) \in VpnRecord
    BY <1>1, CompleteAllType, Zenon
  <2> HIDE DEF w
  <2> QED BY <2>1, Zenon DEF VpnRecord, complete_postponed_requests
<1>3. c \in [Requests -> ConnStates]
  <2> HIDE DEF x
  <2> QED BY <1>2, SMT DEF VpnRecord, ConnStates
<1>4. finalize_recovery(v) = [x EXCEPT !.conn = c, !.bypassed_connection_ids = {}]
  BY Zenon DEF finalize_recovery, reset_bypassed_connections
<1> HIDE DEF x, c
<1>5. [x EXCEPT !.conn = c, !.bypassed_connection_ids = {}] \in VpnRecord
  BY <1>2, <1>3, ZenonT(60) DEF VpnRecord
<1> QED BY <1>4, <1>5, Zenon

LEMMA EnterType ==
  ASSUME NEW v \in VpnRecord, NEW st \in SessionStates
  PROVE  Enter(v, st) \in VpnRecord
<1> DEFINE p == IF st = "VPN_SS_CONNECTED" THEN v.pending_error ELSE NullOpt
           o == v.connected_once \/ st = "VPN_SS_CONNECTED"
           n == v.network_changed_before_recovery
                /\ st \notin {"VPN_SS_DISCONNECTED", "VPN_SS_CONNECTING", "VPN_SS_RECOVERING"}
<1>1. p \in MaybeError
  BY Zenon DEF VpnRecord, MaybeError
<1>2. o \in BOOLEAN /\ n \in BOOLEAN
  BY Zenon
<1>3. Enter(v, st) = [v EXCEPT !.state = st, !.pending_error = p, !.connected_once = o,
                               !.network_changed_before_recovery = n]
  BY Zenon DEF Enter
<1> HIDE DEF p, o, n
<1>4. [v EXCEPT !.state = st, !.pending_error = p, !.connected_once = o,
       !.network_changed_before_recovery = n] \in VpnRecord
  BY <1>1, <1>2, ZenonT(60) DEF VpnRecord
<1> QED BY <1>3, <1>4, Zenon

LEMMA RunPingType ==
  ASSUME NEW v \in VpnRecord
  PROVE  run_ping(v) \in VpnRecord
<1>1. stop_pinging(v) \in VpnRecord
  BY StopPingingType, Zenon
<1>2. v.endpoints \in SUBSET Endpoints
  BY Zenon DEF VpnRecord
<1>3. NullOpt \in MaybeError /\ NullOpt \in Endpoints \cup {NullOpt}
  BY Zenon DEF MaybeError
<1>4. TRUE \in BOOLEAN /\ FALSE \in BOOLEAN
  BY Zenon
<1> HIDE DEF stop_pinging
<1> QED BY <1>1, <1>2, <1>3, <1>4, Zenon DEF VpnRecord, run_ping

\* Handlers that only write an error, a task or a client field.
LEMMA PendingErrorType ==
  ASSUME NEW v \in VpnRecord, NEW error \in MaybeError
  PROVE  [v EXCEPT !.pending_error = error] \in VpnRecord
BY Zenon DEF VpnRecord

LEMMA NoteErrorType ==
  ASSUME NEW v \in VpnRecord, NEW error \in MaybeError
  PROVE  note_error(v, error) \in VpnRecord
<1> DEFINE p == IF v.pending_error = NullOpt /\ error \notin {NullOpt, NoError}
                THEN error ELSE v.pending_error
<1>1. p \in MaybeError
  BY Zenon DEF VpnRecord
<1>2. note_error(v, error) = [v EXCEPT !.pending_error = p]
  BY Zenon DEF note_error
<1> HIDE DEF p
<1> QED BY <1>1, <1>2, PendingErrorType, Zenon

LEMMA TasksType ==
  /\ \A t \in {"do_connect", "retry_connect", "client_disconnected", "failed_recovery",
               "listen_failed", "shutdown", "endpoint_connector_finalizer",
               "deferred_disconnect"} : t \in Tasks
BY Zenon DEF Tasks, ClientTasks, ManagerTasks

LEMMA InitiateRecoveryType ==
  ASSUME NEW v \in VpnRecord, NEW slow \in BOOLEAN
  PROVE  initiate_recovery(v, slow) \in VpnRecord
<1>1. CASE v.recovery_attempts >= RecoveryAttempts
  <2>1. submit(v, "failed_recovery") \in VpnRecord
    BY TasksType, SubmitType, Zenon
  <2> QED BY <1>1, <2>1, Zenon DEF initiate_recovery
<1>2. CASE ~(v.recovery_attempts >= RecoveryAttempts)
  <2> DEFINE p == v.postponement_window_timer \/ ~v.recovery_start_ts
             n == v.recovery_attempts + 1
             s == ~slow
  <2>1. n \in 0..RecoveryAttempts
    BY <1>2, ConstantsAssumption, SMT DEF VpnRecord
  <2>2. p \in BOOLEAN /\ s \in BOOLEAN /\ TRUE \in BOOLEAN
    BY Zenon
  <2>3. initiate_recovery(v, slow) =
          [v EXCEPT !.postponement_window_timer = p, !.recovery_attempts = n,
                    !.recovery_task = TRUE, !.recovery_start_ts = s]
    BY <1>2, Zenon DEF initiate_recovery
  <2> HIDE DEF p, n, s
  <2>4. [v EXCEPT !.postponement_window_timer = p, !.recovery_attempts = n,
                  !.recovery_task = TRUE, !.recovery_start_ts = s] \in VpnRecord
    BY <2>1, <2>2, Zenon DEF VpnRecord
  <2> QED BY <2>3, <2>4, Zenon
<1> QED BY <1>1, <1>2, Zenon

LEMMA PrepareForRecoveryType ==
  ASSUME NEW v \in VpnRecord, NEW error \in MaybeError, NEW slow \in BOOLEAN
  PROVE  prepare_for_recovery(v, error, slow) \in VpnRecord
BY DisconnectType, InitiateRecoveryType, NoteErrorType, Zenon DEF prepare_for_recovery

LEMMA DoDisconnectType ==
  ASSUME NEW v \in VpnRecord
  PROVE  do_disconnect(v) \in VpnRecord
BY ResetRecoveryType, DisconnectType, Zenon DEF do_disconnect

LEMMA ErrorsType ==
  /\ \A error \in {NullOpt, NoError, "VPN_EC_ERROR", "VPN_EC_AUTH_REQUIRED",
                   "VPN_EC_LOCATION_UNAVAILABLE", "VPN_EC_INITIAL_CONNECT_FAILED",
                   "VPN_EC_FATAL_CONNECTIVITY_ERROR"} : error \in MaybeError
BY Zenon DEF MaybeError, ErrorCodes

LEMMA CompleteConnectType ==
  ASSUME NEW v \in VpnRecord, NEW error \in MaybeError
  PROVE  complete_connect(v, error) \in VpnRecord
<1> DEFINE failed == v.pending_error = NullOpt /\ error \notin {NullOpt, NoError}
           w == IF failed THEN note_error(disconnect(v), error) ELSE v
           exhausted == /\ w.pending_error # NullOpt
                        /\ ~is_fatal_error(w, error)
                        /\ no_connect_attempts(w)
           p == IF exhausted THEN "VPN_EC_INITIAL_CONNECT_FAILED" ELSE w.pending_error
<1>1. w \in VpnRecord
  BY DisconnectType, NoteErrorType, Zenon
<1>2. p \in MaybeError
  <2> HIDE DEF w
  <2>1. w.pending_error \in MaybeError
    BY <1>1, Zenon DEF VpnRecord
  <2> QED BY <2>1, ErrorsType, Zenon
<1>3. complete_connect(v, error) = reset_recovery([w EXCEPT !.pending_error = p])
  BY Zenon DEF complete_connect
<1> HIDE DEF w, p
<1> QED BY <1>1, <1>2, <1>3, PendingErrorType, ResetRecoveryType, Zenon

LEMMA DecrementType ==
  ASSUME NEW n \in 0..SizeMax
  PROVE  decrement(n) \in 0..SizeMax
BY ConstantsAssumption, SMT DEF decrement

LEMMA RetryConnectType ==
  ASSUME NEW v \in VpnRecord
  PROVE  retry_connect(v) \in VpnRecord
<1> DEFINE n == decrement(v.attempts_left)
           w == IF v.retry_policy = "VPN_CRP_SEVERAL_ATTEMPTS"
                THEN [v EXCEPT !.attempts_left = n] ELSE v
<1>1. n \in 0..SizeMax
  BY DecrementType, Zenon DEF VpnRecord
<1>2. [v EXCEPT !.attempts_left = n] \in VpnRecord
  <2> HIDE DEF n
  <2> QED BY <1>1, Zenon DEF VpnRecord
<1>3. retry_connect(v) = submit(disconnect(w), "retry_connect")
  BY Zenon DEF retry_connect
<1> QED BY <1>2, <1>3, DisconnectType, SubmitType, TasksType, Zenon

LEMMA ClientConnectType ==
  ASSUME NEW v \in VpnRecord, NEW started \in BOOLEAN
  PROVE  client_connect(v, started) \in VpnRecord
<1> DEFINE w == [v EXCEPT !.client_pending_error = NullOpt,
                          !.client_fsm = "S_CONNECTING",
                          !.endpoint_connector = "connecting"]
<1>1. /\ NullOpt \in MaybeError /\ "S_CONNECTING" \in ClientStates
      /\ "connecting" \in ConnectorStates
  BY Zenon DEF MaybeError, ClientStates, ConnectorStates
<1>2. w \in VpnRecord
  BY <1>1, Zenon DEF VpnRecord
<1>3. client_connect(v, started) \in {v, w, run_disconnect(w)}
  <2> HIDE DEF w
  <2>1. client_connect(v, started) =
          CASE v.client_fsm # "S_DISCONNECTED" -> v
            [] v.client_fsm = "S_DISCONNECTED" /\ connect_error(v, started) = NoError -> w
            [] OTHER -> run_disconnect(w)
    BY Zenon DEF client_connect, w
  <2> QED BY <2>1, Zenon
<1> HIDE DEF w
<1> QED BY <1>2, <1>3, RunDisconnectType, Zenon

LEMMA RunClientConnectType ==
  ASSUME NEW v \in VpnRecord, NEW started \in BOOLEAN
  PROVE  run_client_connect(v, started) \in VpnRecord
<1> DEFINE error == connect_error(v, started)
           w == client_connect(v, started)
<1>1. w \in VpnRecord
  BY ClientConnectType, Zenon
<1>2. error \in MaybeError
  <2>1. v.client_pending_error \in MaybeError
    BY Zenon DEF VpnRecord
  <2> QED BY <2>1, ErrorsType, Zenon DEF connect_error
<1>3. "CLIS_CONNECTING" \in ClientConnectionStates /\ NullOpt \in MaybeError
  BY Zenon DEF ClientConnectionStates, MaybeError
<1>4. run_client_connect(v, started) \in
        {[w EXCEPT !.client_state = "CLIS_CONNECTING", !.pending_error = NullOpt],
         submit([w EXCEPT !.pending_error = error], "client_disconnected")}
  BY Zenon DEF run_client_connect
<1> HIDE DEF error, w
<1>5. [w EXCEPT !.client_state = "CLIS_CONNECTING", !.pending_error = NullOpt] \in VpnRecord
  BY <1>1, <1>3, Zenon DEF VpnRecord
<1>6. submit([w EXCEPT !.pending_error = error], "client_disconnected") \in VpnRecord
  BY <1>1, <1>2, PendingErrorType, SubmitType, TasksType, Zenon
<1> QED BY <1>4, <1>5, <1>6, Zenon

LEMMA ReconnectClientType ==
  ASSUME NEW v \in VpnRecord, NEW started \in BOOLEAN
  PROVE  reconnect_client(v, started) \in VpnRecord
BY DisconnectClientType, RunClientConnectType, Zenon DEF reconnect_client

\* The rows of the transition table.
LEMMA SessionStatesType ==
  /\ \A st \in {"VPN_SS_DISCONNECTED", "VPN_SS_CONNECTING", "VPN_SS_CONNECTED",
                "VPN_SS_WAITING_RECOVERY", "VPN_SS_RECOVERING",
                "VPN_SS_WAITING_FOR_NETWORK"} : st \in SessionStates
BY Zenon DEF SessionStates

LEMMA ConnectingFailedType ==
  ASSUME NEW v \in VpnRecord, NEW error \in MaybeError, NEW slow \in BOOLEAN
  PROVE  connecting_failed(v, error, slow) \in VpnRecord
<1>1. Enter(complete_connect(v, error), "VPN_SS_DISCONNECTED") \in VpnRecord
  BY CompleteConnectType, EnterType, SessionStatesType, Zenon
<1>2. Enter(prepare_for_recovery(v, error, slow), "VPN_SS_WAITING_RECOVERY") \in VpnRecord
  BY PrepareForRecoveryType, EnterType, SessionStatesType, Zenon
<1> QED BY <1>1, <1>2, RetryConnectType, Zenon DEF connecting_failed

LEMMA SessionFailedType ==
  ASSUME NEW v \in VpnRecord, NEW error \in MaybeError, NEW slow \in BOOLEAN
  PROVE  session_failed(v, error, slow) \in VpnRecord
<1>1. Enter(do_disconnect(v), "VPN_SS_DISCONNECTED") \in VpnRecord
  BY DoDisconnectType, EnterType, SessionStatesType, Zenon
<1>2. Enter(prepare_for_recovery(v, error, slow), "VPN_SS_WAITING_RECOVERY") \in VpnRecord
  BY PrepareForRecoveryType, EnterType, SessionStatesType, Zenon
<1> QED BY <1>1, <1>2, Zenon DEF session_failed

LEMMA DoConnectEventType ==
  ASSUME NEW v \in VpnRecord
  PROVE  On_DO_CONNECT(v) \in VpnRecord
BY RunPingType, DisconnectType, EnterType, SessionStatesType, Zenon DEF On_DO_CONNECT

LEMMA PingReadyType ==
  ASSUME NEW v \in VpnRecord, NEW started \in BOOLEAN
  PROVE  On_PING_READY(v, started) \in VpnRecord
BY RunClientConnectType, ReconnectClientType, Zenon DEF On_PING_READY, connect_client

LEMMA PingFailType ==
  ASSUME NEW v \in VpnRecord, NEW error \in MaybeError, NEW slow \in BOOLEAN
  PROVE  On_PING_FAIL(v, error, slow) \in VpnRecord
BY ConnectingFailedType, SessionFailedType, Zenon DEF On_PING_FAIL

LEMMA ClientReadyType ==
  ASSUME NEW v \in VpnRecord
  PROVE  On_CLIENT_READY(v) \in VpnRecord
<1>1. Enter(complete_connect(v, NullOpt), "VPN_SS_CONNECTED") \in VpnRecord
  BY CompleteConnectType, ErrorsType, EnterType, SessionStatesType, Zenon
<1>2. Enter(finalize_recovery(v), "VPN_SS_CONNECTED") \in VpnRecord
  BY FinalizeRecoveryType, EnterType, SessionStatesType, Zenon
<1> QED BY <1>1, <1>2, Zenon DEF On_CLIENT_READY

LEMMA ClientDisconnectedType ==
  ASSUME NEW v \in VpnRecord, NEW error \in MaybeError, NEW slow \in BOOLEAN
  PROVE  On_CLIENT_DISCONNECTED(v, error, slow) \in VpnRecord
BY ConnectingFailedType, SessionFailedType, Zenon DEF On_CLIENT_DISCONNECTED

LEMMA AbandonEndpointEventType ==
  ASSUME NEW v \in VpnRecord, NEW slow \in BOOLEAN
  PROVE  On_ABANDON_ENDPOINT(v, slow) \in VpnRecord
<1>1. Enter(complete_connect(v, NullOpt), "VPN_SS_DISCONNECTED") \in VpnRecord
  BY CompleteConnectType, ErrorsType, EnterType, SessionStatesType, Zenon
<1>2. session_failed(v, NullOpt, slow) \in VpnRecord
  BY SessionFailedType, ErrorsType, Zenon
<1>3. Enter(do_disconnect(v), "VPN_SS_DISCONNECTED") \in VpnRecord
  BY DoDisconnectType, EnterType, SessionStatesType, Zenon
<1> QED BY <1>1, <1>2, <1>3, RetryConnectType, Zenon DEF On_ABANDON_ENDPOINT

LEMMA NetworkChangeEventType ==
  ASSUME NEW v \in VpnRecord, NEW lost \in BOOLEAN, NEW slow \in BOOLEAN
  PROVE  On_NETWORK_CHANGE(v, lost, slow) \in VpnRecord
<1>1. Enter(fail_connect_with_no_attempts(v), "VPN_SS_DISCONNECTED") \in VpnRecord
  BY CompleteConnectType, ErrorsType, EnterType, SessionStatesType, Zenon
  DEF fail_connect_with_no_attempts
<1>2. Enter(do_disconnect(v), "VPN_SS_WAITING_FOR_NETWORK") \in VpnRecord
  BY DoDisconnectType, EnterType, SessionStatesType, Zenon
<1>3. Enter(prepare_for_recovery(v, NullOpt, slow), "VPN_SS_WAITING_RECOVERY") \in VpnRecord
  BY PrepareForRecoveryType, ErrorsType, EnterType, SessionStatesType, Zenon
<1>4. Enter(run_ping(v), "VPN_SS_RECOVERING") \in VpnRecord
  BY RunPingType, EnterType, SessionStatesType, Zenon
<1>5. retry_connect(v) \in VpnRecord /\ Enter(retry_connect(v), "VPN_SS_CONNECTING") \in VpnRecord
  BY RetryConnectType, EnterType, SessionStatesType, Zenon
<1> QED BY <1>1, <1>2, <1>3, <1>4, <1>5, Zenon DEF On_NETWORK_CHANGE

LEMMA DoRecoveryType ==
  ASSUME NEW v \in VpnRecord, NEW late \in BOOLEAN, NEW started \in BOOLEAN
  PROVE  On_DO_RECOVERY(v, late, started) \in VpnRecord
BY RunPingType, RunClientConnectType, EnterType, SessionStatesType, Zenon
DEF On_DO_RECOVERY, connect_client

LEMMA ShutdownType ==
  ASSUME NEW v \in VpnRecord
  PROVE  On_SHUTDOWN(v) \in VpnRecord
BY DoDisconnectType, EnterType, SessionStatesType, Zenon DEF On_SHUTDOWN

LEMMA CompleteRequestType ==
  ASSUME NEW v \in VpnRecord, NEW r \in Requests, NEW immediate \in BOOLEAN
  PROVE  On_COMPLETE_REQUEST(v, r, immediate) \in VpnRecord
<1> DEFINE p == v.postponed_requests \cup {r}
           w == complete_all(v, {r}, {r})
           b == w.bypassed_connection_ids \cup {r}
<1>1. complete_all(v, {r}, BypassRequests) \in VpnRecord /\ w \in VpnRecord
  BY CompleteAllType, Zenon
<1>2. reject_all(v, {r}) \in VpnRecord
  BY RejectAllType, Zenon
<1>3. [v EXCEPT !.postponed_requests = p] \in VpnRecord
  <2>1. p \in SUBSET Requests
    BY Zenon DEF VpnRecord
  <2> HIDE DEF p
  <2> QED BY <2>1, Zenon DEF VpnRecord
<1>4. bypass_until_connected(v, r) \in VpnRecord
  <2>1. bypass_until_connected(v, r) = [w EXCEPT !.bypassed_connection_ids = b]
    BY Zenon DEF bypass_until_connected
  <2> HIDE DEF w
  <2>2. b \in SUBSET Requests
    BY <1>1, Zenon DEF VpnRecord
  <2> HIDE DEF b
  <2>3. [w EXCEPT !.bypassed_connection_ids = b] \in VpnRecord
    BY <1>1, <2>2, ZenonT(60) DEF VpnRecord
  <2> QED BY <2>1, <2>3, Zenon
<1> QED BY <1>1, <1>2, <1>3, <1>4, Zenon DEF On_COMPLETE_REQUEST

\* The client's events and the tasks of the loop.
LEMMA ClientConstantsType ==
  /\ "CLIS_CONNECTED" \in ClientConnectionStates
  /\ "CLIS_DISCONNECTED" \in ClientConnectionStates
  /\ "S_DISCONNECTED" \in ClientStates /\ "S_CONNECTED" \in ClientStates
  /\ "S_DISCONNECTING" \in ClientStates
  /\ "nullptr" \in ConnectorStates /\ "finished" \in ConnectorStates
  /\ "open" \in UpstreamStates /\ "closed" \in UpstreamStates
  /\ "nullptr" \in UpstreamStates
BY Zenon DEF ClientConnectionStates, ClientStates, ConnectorStates, UpstreamStates

LEMMA RaiseDisconnectedType ==
  ASSUME NEW v \in VpnRecord, NEW slow \in BOOLEAN
  PROVE  raise_disconnected(v, slow) \in VpnRecord
<1>1. v.client_pending_error \in MaybeError /\ NullOpt \in MaybeError
  BY ErrorsType, Zenon DEF VpnRecord
<1>2. [v EXCEPT !.client_state = "CLIS_DISCONNECTED", !.client_pending_error = NullOpt]
        \in VpnRecord
  BY <1>1, ClientConstantsType, Zenon DEF VpnRecord
<1> QED BY <1>1, <1>2, ClientDisconnectedType, Zenon DEF raise_disconnected

LEMMA SessionClosedType ==
  ASSUME NEW v \in VpnRecord, NEW slow \in BOOLEAN
  PROVE  session_closed(v, slow) \in VpnRecord
<1>1. [v EXCEPT !.client_fsm = "S_DISCONNECTED"] \in VpnRecord
  BY ClientConstantsType, Zenon DEF VpnRecord
<1> QED BY <1>1, RaiseDisconnectedType, Zenon DEF session_closed

LEMMA FinalizerType ==
  ASSUME NEW v \in VpnRecord, NEW slow \in BOOLEAN
  PROVE  endpoint_connector_finalizer(v, slow) \in VpnRecord
<1> DEFINE w == [v EXCEPT !.endpoint_connector = "nullptr"]
           opened == [w EXCEPT !.endpoint_upstream_connected = TRUE]
           ready == [opened EXCEPT !.client_fsm = "S_CONNECTED"]
<1>1. w \in VpnRecord
  BY ClientConstantsType, Zenon DEF VpnRecord
<1>2. opened \in VpnRecord
  <2> HIDE DEF w
  <2> QED BY <1>1, Zenon DEF VpnRecord
<1>3. ready \in VpnRecord
  <2> HIDE DEF opened
  <2> QED BY <1>2, ClientConstantsType, Zenon DEF VpnRecord
<1>4. client_connected(ready) \in VpnRecord
  <2> HIDE DEF ready
  <2>1. [ready EXCEPT !.client_state = "CLIS_CONNECTED"] \in VpnRecord
    BY <1>3, ClientConstantsType, Zenon DEF VpnRecord
  <2> QED BY <2>1, ClientReadyType, Zenon DEF client_connected
<1>5. session_closed(w, slow) \in VpnRecord
  BY <1>1, SessionClosedType, Zenon
<1>6. endpoint_connector_finalizer(v, slow) \in
        {session_closed(w, slow), client_connected(ready), opened}
  BY Zenon DEF endpoint_connector_finalizer
<1> QED BY <1>2, <1>4, <1>5, <1>6, Zenon

LEMMA DeferredDisconnectType ==
  ASSUME NEW v \in VpnRecord, NEW slow \in BOOLEAN
  PROVE  deferred_disconnect(v, slow) \in VpnRecord
BY RunDisconnectType, RaiseDisconnectedType, Zenon DEF deferred_disconnect

LEMMA DoConnectTaskType ==
  ASSUME NEW v \in VpnRecord
  PROVE  do_connect(v) \in VpnRecord
<1> DEFINE n == IF v.retry_policy = "VPN_CRP_SEVERAL_ATTEMPTS"
                THEN decrement(v.attempts_left) ELSE v.attempts_left
<1>1. n \in 0..SizeMax
  <2>1. v.attempts_left \in 0..SizeMax
    BY Zenon DEF VpnRecord
  <2> QED BY <2>1, DecrementType, Zenon
<1>2. do_connect(v) = On_DO_CONNECT([v EXCEPT !.endpoints = Endpoints, !.attempts_left = n])
  BY Zenon DEF do_connect
<1> HIDE DEF n
<1>3. Endpoints \in SUBSET Endpoints
  BY Zenon
<1>4. [v EXCEPT !.endpoints = Endpoints, !.attempts_left = n] \in VpnRecord
  BY <1>1, <1>3, Zenon DEF VpnRecord
<1> QED BY <1>2, <1>4, DoConnectEventType, Zenon

LEMMA RunTaskType ==
  ASSUME NEW v \in VpnRecord, NEW task \in Tasks, NEW slow \in BOOLEAN
  PROVE  run_task(v, task, slow) \in VpnRecord
<1>1. On_RETRY_CONNECT(v) \in VpnRecord
  BY RunPingType, Zenon DEF On_RETRY_CONNECT
<1>2. On_CLIENT_DISCONNECTED(v, NullOpt, slow) \in VpnRecord
  BY ClientDisconnectedType, ErrorsType, Zenon
<1>3. failed_recovery(v) \in VpnRecord
  <2>1. reset_recovery(v) \in VpnRecord
    BY ResetRecoveryType, Zenon
  <2> QED BY <2>1, PendingErrorType, ErrorsType, ShutdownType, Zenon DEF failed_recovery
<1>4. listen_failed(v) \in VpnRecord
  BY PendingErrorType, ErrorsType, ShutdownType, Zenon DEF listen_failed
<1>5. do_connect(v) \in VpnRecord /\ On_SHUTDOWN(v) \in VpnRecord
  BY DoConnectTaskType, ShutdownType, Zenon
<1>6. /\ endpoint_connector_finalizer(v, slow) \in VpnRecord
      /\ deferred_disconnect(v, slow) \in VpnRecord
  BY FinalizerType, DeferredDisconnectType, Zenon
<1> QED BY <1>1, <1>2, <1>3, <1>4, <1>5, <1>6, Zenon DEF run_task

LEMMA EndpointConnectorHandlerType ==
  ASSUME NEW v \in VpnRecord, NEW error \in ConnectorErrors, NEW dns_ok \in BOOLEAN
  PROVE  endpoint_connector_handler(v, error, dns_ok) \in VpnRecord
<1> DEFINE p == IF error = NullOpt /\ ~dns_ok THEN "VPN_EC_ERROR" ELSE error
           u == IF error = NullOpt THEN "open" ELSE v.endpoint_upstream
           w == [v EXCEPT !.client_pending_error = p, !.endpoint_upstream = u,
                          !.endpoint_connector = "finished"]
<1>1. p \in MaybeError
  BY ErrorsType, Zenon DEF ConnectorErrors
<1>2. u \in UpstreamStates
  BY ClientConstantsType, Zenon DEF VpnRecord
<1>3. endpoint_connector_handler(v, error, dns_ok) = submit(w, "endpoint_connector_finalizer")
  BY Zenon DEF endpoint_connector_handler
<1>4. w \in VpnRecord
  <2> HIDE DEF p, u
  <2> QED BY <1>1, <1>2, ClientConstantsType, Zenon DEF VpnRecord
<1> QED BY <1>3, <1>4, SubmitType, TasksType, Zenon

LEMMA SubmitDisconnectType ==
  ASSUME NEW v \in VpnRecord, NEW error \in MaybeError
  PROVE  submit_disconnect(v, error) \in VpnRecord
<1> DEFINE p == IF v.client_pending_error = NullOpt /\ error \notin {NullOpt, NoError}
                THEN error ELSE v.client_pending_error
           w == [v EXCEPT !.client_fsm = "S_DISCONNECTING", !.client_pending_error = p]
<1>1. p \in MaybeError
  BY Zenon DEF VpnRecord
<1>2. w \in VpnRecord
  <2> HIDE DEF p
  <2> QED BY <1>1, ClientConstantsType, Zenon DEF VpnRecord
<1>3. submit_disconnect(v, error) \in {v, submit(w, "deferred_disconnect")}
  BY Zenon DEF submit_disconnect
<1> QED BY <1>2, <1>3, SubmitType, TasksType, Zenon

LEMMA UpstreamEndedType ==
  ASSUME NEW v \in VpnRecord
  PROVE  upstream_ended(v) \in VpnRecord
<1> DEFINE w == [v EXCEPT !.endpoint_upstream = "closed"]
<1>1. w \in VpnRecord
  BY ClientConstantsType, Zenon DEF VpnRecord
<1>2. upstream_ended(v) = [close_connections(w) EXCEPT !.endpoint_upstream_connected = FALSE]
  BY Zenon DEF upstream_ended, on_before_endpoint_disconnect
<1> HIDE DEF w
<1>3. close_connections(w) \in VpnRecord
  BY <1>1, CloseConnectionsType, Zenon
<1>4. [close_connections(w) EXCEPT !.endpoint_upstream_connected = FALSE] \in VpnRecord
  BY <1>3, ZenonT(60) DEF VpnRecord
<1> QED BY <1>2, <1>4, Zenon

\* The callbacks and the API calls.
LEMMA PingerFinishedType ==
  ASSUME NEW v \in VpnRecord
  PROVE  pinger_finished(v) \in VpnRecord
<1>1. NullOpt \in Endpoints \cup {NullOpt}
  BY Zenon
<1> QED BY <1>1, Zenon DEF VpnRecord, pinger_finished

LEMMA AbandonType ==
  ASSUME NEW v \in VpnRecord, NEW e \in Endpoints, NEW slow \in BOOLEAN
  PROVE  abandon_endpoint(v, e, slow) \in VpnRecord
<1> DEFINE es == v.endpoints \ {e}
           se == IF v.selected_endpoint = e THEN NullOpt ELSE v.selected_endpoint
           w == [v EXCEPT !.endpoints = es, !.selected_endpoint = se]
           x == [w EXCEPT !.endpoints = {}, !.pending_error = "VPN_EC_LOCATION_UNAVAILABLE"]
           y == [w EXCEPT !.pending_error = "VPN_EC_ERROR",
                          !.ping_failure_induces_location_unavailable = TRUE]
<1>1. es \in SUBSET Endpoints /\ se \in Endpoints \cup {NullOpt}
  BY Zenon DEF VpnRecord
<1>2. w \in VpnRecord
  <2> HIDE DEF es, se
  <2> QED BY <1>1, Zenon DEF VpnRecord
<1>3. x \in VpnRecord /\ y \in VpnRecord
  <2> HIDE DEF w
  <2>1. /\ "VPN_EC_LOCATION_UNAVAILABLE" \in MaybeError /\ "VPN_EC_ERROR" \in MaybeError
        /\ {} \in SUBSET Endpoints /\ TRUE \in BOOLEAN
    BY ErrorsType, Zenon
  <2>2. x \in VpnRecord
    BY <1>2, <2>1, Zenon DEF VpnRecord
  <2>3. y \in VpnRecord
    BY <1>2, <2>1, Zenon DEF VpnRecord
  <2> QED BY <2>2, <2>3, Zenon
<1>4. abandon_endpoint(v, e, slow) \in
        {On_ABANDON_ENDPOINT(x, slow), On_ABANDON_ENDPOINT(y, slow), w}
  BY Zenon DEF abandon_endpoint
<1> HIDE DEF w, x, y
<1> QED BY <1>2, <1>3, <1>4, AbandonEndpointEventType, Zenon

LEMMA LoopNextType ==
  ASSUME vpn \in VpnRecord, LoopNext
  PROVE  vpn' \in VpnRecord
<1>1. CASE \E slow \in BOOLEAN : RunTask(slow)
  <2>1. PICK slow \in BOOLEAN : RunTask(slow)
    BY <1>1
  <2> DEFINE w == [vpn EXCEPT !.tasks = Tail(vpn.tasks)]
  <2>2. vpn.tasks # <<>> /\ vpn' = run_task(w, Head(vpn.tasks), slow)
    BY <2>1, Zenon DEF RunTask
  <2>3. vpn.tasks \in Seq(Tasks)
    BY Zenon DEF VpnRecord
  <2>4. Head(vpn.tasks) \in Tasks /\ Tail(vpn.tasks) \in Seq(Tasks)
    BY <2>2, <2>3, SMT
  <2>5. w \in VpnRecord
    BY <2>4, Zenon DEF VpnRecord
  <2> HIDE DEF w
  <2> QED BY <2>2, <2>4, <2>5, RunTaskType, Zenon
<1>2. CASE \E slow \in BOOLEAN : PingerFailed(slow)
  BY <1>2, PingerFinishedType, PingFailType, ErrorsType, Zenon DEF PingerFailed
<1>3. CASE \E e \in Endpoints, started, slow \in BOOLEAN : PingerSelected(e, started, slow)
  <2>1. PICK e \in Endpoints, started \in BOOLEAN, slow \in BOOLEAN :
          PingerSelected(e, started, slow)
    BY <1>3
  <2> DEFINE f == vpn.ping_failure_induces_location_unavailable
             w == [pinger_finished(vpn) EXCEPT !.selected_endpoint = e]
             x == [pinger_finished(vpn) EXCEPT
                     !.ping_failure_induces_location_unavailable = f]
  <2>2. vpn' \in {On_PING_READY(w, started), On_PING_FAIL(x, "VPN_EC_ERROR", slow)}
    BY <2>1, Zenon DEF PingerSelected
  <2>3. pinger_finished(vpn) \in VpnRecord
    BY PingerFinishedType, Zenon
  <2>4. e \in Endpoints \cup {NullOpt} /\ f \in BOOLEAN
    BY Zenon DEF VpnRecord
  <2> HIDE DEF f
  <2>5. w \in VpnRecord
    BY <2>3, <2>4, Zenon DEF VpnRecord
  <2>6. x \in VpnRecord
    BY <2>3, <2>4, Zenon DEF VpnRecord
  <2> HIDE DEF w, x
  <2>7. /\ On_PING_READY(w, started) \in VpnRecord
        /\ On_PING_FAIL(x, "VPN_EC_ERROR", slow) \in VpnRecord
    BY <2>5, <2>6, PingReadyType, PingFailType, ErrorsType, Zenon
  <2> QED BY <2>2, <2>7, Zenon
<1>4. CASE \E error \in ConnectorErrors, dns_ok \in BOOLEAN : ConnectorReport(error, dns_ok)
  BY <1>4, EndpointConnectorHandlerType, Zenon DEF ConnectorReport
<1>5. CASE \E slow \in BOOLEAN : UpstreamClosed(slow)
  BY <1>5, UpstreamEndedType, SessionClosedType, Zenon DEF UpstreamClosed
<1>6. CASE \E error \in UpstreamErrors : UpstreamError(error)
  BY <1>6, UpstreamEndedType, SubmitDisconnectType, ErrorsType, Zenon
  DEF UpstreamError, UpstreamErrors
<1>7. CASE HealthCheckError
  BY <1>7, SubmitDisconnectType, ErrorsType, Zenon DEF HealthCheckError
<1>8. CASE \E late, started \in BOOLEAN : RecoveryTimer(late, started)
  <2>1. [vpn EXCEPT !.recovery_task = FALSE] \in VpnRecord
    BY Zenon DEF VpnRecord
  <2> QED BY <1>8, <2>1, DoRecoveryType, Zenon DEF RecoveryTimer
<1>9. CASE PostponementTimer
  <2> DEFINE requests == vpn.postponed_requests
             w == [vpn EXCEPT !.postponement_window_timer = FALSE,
                              !.postponed_requests = {}]
             x == complete_all(w, requests, requests)
             b == x.bypassed_connection_ids \cup requests
  <2>1. vpn' \in {reject_all(w, requests), [x EXCEPT !.bypassed_connection_ids = b]}
    BY <1>9, Zenon DEF PostponementTimer
  <2>2. {} \in SUBSET Requests /\ FALSE \in BOOLEAN /\ requests \in SUBSET Requests
    BY Zenon DEF VpnRecord
  <2>3. w \in VpnRecord
    BY <2>2, Zenon DEF VpnRecord
  <2> HIDE DEF w, requests
  <2>4. reject_all(w, requests) \in VpnRecord /\ x \in VpnRecord
    BY <2>3, RejectAllType, CompleteAllType, Zenon
  <2> HIDE DEF x
  <2>5. b \in SUBSET Requests
    BY <2>2, <2>4, Zenon DEF VpnRecord
  <2> HIDE DEF b
  <2>6. [x EXCEPT !.bypassed_connection_ids = b] \in VpnRecord
    BY <2>4, <2>5, Zenon DEF VpnRecord
  <2> QED BY <2>1, <2>4, <2>6, Zenon
<1> QED BY <1>1, <1>2, <1>3, <1>4, <1>5, <1>6, <1>7, <1>8, <1>9, Zenon DEF LoopNext

LEMMA ApiNextType ==
  ASSUME vpn \in VpnRecord, ApiNext
  PROVE  vpn' \in VpnRecord
<1>1. CASE \E policy \in Policies : Connect(policy)
  <2>1. PICK policy \in Policies : Connect(policy)
    BY <1>1
  <2> DEFINE w == [vpn EXCEPT !.phase = "running", !.retry_policy = policy,
                              !.attempts_left = ConnectAttempts]
  <2>2. vpn' = submit(w, "do_connect")
    BY <2>1, Zenon DEF Connect
  <2>3. "running" \in Phases /\ policy \in RetryPolicies
    BY ConstantsAssumption, Zenon DEF Phases, RetryPolicies
  <2>4. ConnectAttempts \in 0..SizeMax
    BY ConstantsAssumption, SMT
  <2>5. w \in VpnRecord
    BY <2>3, <2>4, Zenon DEF VpnRecord
  <2> HIDE DEF w
  <2> QED BY <2>2, <2>5, SubmitType, TasksType, Zenon
<1>2. CASE \E late, started \in BOOLEAN : ForceReconnect(late, started)
  BY <1>2, DoRecoveryType, Zenon DEF ForceReconnect
<1>3. CASE \E fatal \in BOOLEAN : ForceDisconnect(fatal)
  <2>1. PICK fatal \in BOOLEAN : ForceDisconnect(fatal)
    BY <1>3
  <2> DEFINE p == IF fatal THEN "VPN_EC_FATAL_CONNECTIVITY_ERROR" ELSE vpn.pending_error
  <2>2. vpn' = On_SHUTDOWN([vpn EXCEPT !.pending_error = p])
    BY <2>1, Zenon DEF ForceDisconnect
  <2>3. p \in MaybeError
    BY ErrorsType, Zenon DEF VpnRecord
  <2> HIDE DEF p
  <2> QED BY <2>2, <2>3, PendingErrorType, ShutdownType, Zenon
<1>4. CASE \E lost, slow \in BOOLEAN : NetworkChange(lost, slow)
  <2>1. [vpn EXCEPT !.network_changed_before_recovery = TRUE] \in VpnRecord
    BY Zenon DEF VpnRecord
  <2> QED BY <1>4, <2>1, NetworkChangeEventType, Zenon DEF NetworkChange
<1>5. CASE \E e \in Endpoints, slow \in BOOLEAN : AbandonEndpoint(e, slow)
  BY <1>5, AbandonType, Zenon DEF AbandonEndpoint
<1>6. CASE ListenFailed
  BY <1>6, SubmitDisconnectType, ErrorsType, SubmitType, TasksType, Zenon DEF ListenFailed
<1>7. CASE \E r \in Requests : ConnectRequest(r)
  <2>1. PICK r \in Requests : ConnectRequest(r)
    BY <1>7
  <2> DEFINE c == [vpn.conn EXCEPT ![r] = "requested"]
  <2>2. vpn' = [vpn EXCEPT !.conn = c]
    BY <2>1, Zenon DEF ConnectRequest
  <2>3. "requested" \in ConnStates /\ vpn.conn \in [Requests -> ConnStates]
    BY Zenon DEF ConnStates, VpnRecord
  <2>4. c \in [Requests -> ConnStates]
    BY <2>3, Zenon
  <2> HIDE DEF c
  <2>5. [vpn EXCEPT !.conn = c] \in VpnRecord
    BY <2>4, ZenonT(60) DEF VpnRecord
  <2> QED BY <2>2, <2>5, Zenon
<1>8. CASE \E r \in Requests, immediate \in BOOLEAN : CompleteConnectRequest(r, immediate)
  <2>1. PICK r \in Requests, immediate \in BOOLEAN : CompleteConnectRequest(r, immediate)
    BY <1>8
  <2> DEFINE c == vpn.completed \cup {r}
  <2>2. vpn' = On_COMPLETE_REQUEST([vpn EXCEPT !.completed = c], r, immediate)
    BY <2>1, Zenon DEF CompleteConnectRequest
  <2>3. c \in SUBSET Requests
    BY Zenon DEF VpnRecord
  <2> HIDE DEF c
  <2>4. [vpn EXCEPT !.completed = c] \in VpnRecord
    BY <2>3, Zenon DEF VpnRecord
  <2> QED BY <2>2, <2>4, CompleteRequestType, Zenon
<1>9. CASE \E r \in Requests : ConnectionClosed(r)
  <2>1. PICK r \in Requests : ConnectionClosed(r)
    BY <1>9
  <2> DEFINE c == [vpn.conn EXCEPT ![r] = "closed"]
  <2>2. vpn' = [vpn EXCEPT !.conn = c]
    BY <2>1, Zenon DEF ConnectionClosed
  <2>3. "closed" \in ConnStates /\ vpn.conn \in [Requests -> ConnStates]
    BY Zenon DEF ConnStates, VpnRecord
  <2>4. c \in [Requests -> ConnStates]
    BY <2>3, Zenon
  <2> HIDE DEF c
  <2>5. [vpn EXCEPT !.conn = c] \in VpnRecord
    BY <2>4, ZenonT(60) DEF VpnRecord
  <2> QED BY <2>2, <2>5, Zenon
<1>10. CASE ResetConnections
  BY <1>10, CloseConnectionsType, Zenon DEF ResetConnections
<1>11. CASE Stop
  <2>1. "stopping" \in Phases
    BY Zenon DEF Phases
  <2>2. [vpn EXCEPT !.phase = "stopping"] \in VpnRecord
    BY <2>1, Zenon DEF VpnRecord
  <2> QED BY <1>11, <2>2, SubmitType, TasksType, Zenon DEF Stop
<1>12. CASE Stopped
  <2> DEFINE w == stop_pinging(reset_recovery(vpn))
             x == [close_connections(w) EXCEPT
                     !.endpoint_upstream = "nullptr", !.endpoint_connector = "nullptr",
                     !.client_fsm = "S_DISCONNECTED", !.endpoint_upstream_connected = FALSE]
  <2>1. vpn' = [x EXCEPT
                  !.phase = "stopped", !.state = "VPN_SS_DISCONNECTED",
                  !.pending_error = NullOpt, !.client_state = "CLIS_DISCONNECTED",
                  !.postponement_window_timer = FALSE, !.selected_endpoint = NullOpt,
                  !.postponed_requests = {}, !.bypassed_connection_ids = {},
                  !.tasks = <<>>]
    BY <1>12, Zenon DEF Stopped, finalize_disconnect
  <2>2. close_connections(w) \in VpnRecord
    BY ResetRecoveryType, StopPingingType, CloseConnectionsType, Zenon
  <2> HIDE DEF w
  <2>3. x \in VpnRecord
    BY <2>2, ClientConstantsType, Zenon DEF VpnRecord
  <2> HIDE DEF x
  <2>4. /\ "stopped" \in Phases /\ "VPN_SS_DISCONNECTED" \in SessionStates
        /\ NullOpt \in MaybeError /\ "CLIS_DISCONNECTED" \in ClientConnectionStates
        /\ NullOpt \in Endpoints \cup {NullOpt} /\ {} \in SUBSET Requests
        /\ FALSE \in BOOLEAN
    BY ErrorsType, SessionStatesType, ClientConstantsType, Zenon DEF Phases
  <2>5. <<>> \in Seq(Tasks)
    BY SMT
  <2>6. [x EXCEPT !.phase = "stopped", !.state = "VPN_SS_DISCONNECTED",
         !.pending_error = NullOpt, !.client_state = "CLIS_DISCONNECTED",
         !.postponement_window_timer = FALSE, !.selected_endpoint = NullOpt,
         !.postponed_requests = {}, !.bypassed_connection_ids = {}, !.tasks = <<>>]
          \in VpnRecord
    BY <2>3, <2>4, <2>5, ZenonT(60) DEF VpnRecord
  <2> QED BY <2>1, <2>6, Zenon
<1> QED BY <1>1, <1>2, <1>3, <1>4, <1>5, <1>6, <1>7, <1>8, <1>9, <1>10, <1>11, <1>12,
    Zenon DEF ApiNext

LEMMA InitType == Init => vpn \in VpnRecord
BY ConstantsAssumption, SMT
DEF Init, VpnRecord, Phases, SessionStates, MaybeError, ClientConnectionStates,
    RetryPolicies, ClientStates, ConnectorStates, UpstreamStates, ConnStates

\* Type correctness of the manager for every location, retry policy, number of
\* attempts and queue: no handler leaves struct Vpn ill-typed, and the counter of
\* recovery attempts of initiate_recovery never passes its configured maximum.
THEOREM TypeCorrect == Spec => []TypeOK
<1>1. Init => TypeOK
  BY InitType DEF TypeOK
<1>2. TypeOK /\ [Next]_vpn => TypeOK'
  <2> SUFFICES ASSUME vpn \in VpnRecord, [Next]_vpn
               PROVE  vpn' \in VpnRecord
    BY DEF TypeOK
  <2>1. CASE LoopNext
    BY <2>1, LoopNextType, Zenon
  <2>2. CASE ApiNext
    BY <2>2, ApiNextType, Zenon
  <2>3. CASE Done \/ UNCHANGED vpn
    BY <2>3, Zenon DEF Done
  <2> QED BY <2>1, <2>2, <2>3, Zenon DEF Next
<1> QED BY <1>1, <1>2, PTL DEF Spec

(***************************************************************************)
(* Safety.                                                                 *)
(***************************************************************************)

Has(s, t) == \E i \in DOMAIN s : s[i] = t

Once(s, t) == \A i, j \in DOMAIN s : s[i] = t /\ s[j] = t => i = j

\* The fields of the session, of the ping and of the recovery.
SessionPart(v) == <<v.phase, v.state>>

PingPart(v) ==
  <<v.pinger, v.selected_endpoint, v.ping_failure_induces_location_unavailable>>

RecoveryPart(v) == <<v.recovery_attempts, v.recovery_start_ts, v.recovery_task>>

ClientPart(v) ==
  <<v.client_state, v.client_fsm, v.endpoint_connector, v.endpoint_upstream,
    v.client_pending_error>>

\* The same tasks of the manager are queued.
SameManagerTasks(v, w) ==
  /\ \A t \in ManagerTasks : Has(w.tasks, t) <=> Has(v.tasks, t)
  /\ Once(v.tasks, "do_connect") => Once(w.tasks, "do_connect")

Clean(v) == v.recovery_attempts = 0 /\ ~v.recovery_task /\ ~v.recovery_start_ts

Fin == "endpoint_connector_finalizer"

\* client_state agrees with the client's machine; a connecting client has a
\* connector; as long as no upstream was ever opened the client is off or
\* connecting, and its one queued finalizer carries an error.
ClientOK(v) ==
  /\ v.client_state = "CLIS_DISCONNECTED" => v.client_fsm = "S_DISCONNECTED"
  /\ v.client_state = "CLIS_CONNECTING" => v.client_fsm = "S_CONNECTING"
  /\ v.client_state = "CLIS_CONNECTED" =>
       v.client_fsm = "S_CONNECTED" \/ v.client_fsm = "S_DISCONNECTING"
  /\ v.client_fsm = "S_CONNECTING" => v.endpoint_connector # "nullptr"
  /\ v.endpoint_upstream = "nullptr" =>
       /\ v.client_fsm = "S_DISCONNECTED" \/ v.client_fsm = "S_CONNECTING"
       /\ v.endpoint_connector = "connecting" => v.client_fsm = "S_CONNECTING"
       /\ Has(v.tasks, Fin) => /\ v.client_fsm = "S_CONNECTING"
                               /\ v.endpoint_connector = "finished"
                               /\ v.client_pending_error # NullOpt
       /\ Once(v.tasks, Fin)

-----------------------------------------------------------------------------
(* Queues.                                                                 *)

LEMMA SubmitEffect ==
  ASSUME NEW v \in VpnRecord, NEW t \in Tasks
  PROVE  /\ submit(v, t) \in VpnRecord
         /\ SessionPart(submit(v, t)) = SessionPart(v)
         /\ PingPart(submit(v, t)) = PingPart(v)
         /\ RecoveryPart(submit(v, t)) = RecoveryPart(v)
         /\ ClientPart(submit(v, t)) = ClientPart(v)
         /\ \A u : Has(submit(v, t).tasks, u) <=> u = t \/ Has(v.tasks, u)
         /\ \A u : Once(v.tasks, u) /\ (u # t \/ ~Has(v.tasks, u)) => Once(submit(v, t).tasks, u)
<1> DEFINE w == submit(v, t)
<1>1. w \in VpnRecord
  BY SubmitType, Zenon
<1>2. w.tasks = Append(v.tasks, t) /\ v.tasks \in Seq(Tasks)
  BY SMT DEF VpnRecord, submit
<1>3. /\ SessionPart(w) = SessionPart(v) /\ PingPart(w) = PingPart(v)
      /\ RecoveryPart(w) = RecoveryPart(v) /\ ClientPart(w) = ClientPart(v)
  BY SMT DEF VpnRecord, submit, SessionPart, PingPart, RecoveryPart, ClientPart
<1> HIDE DEF w
<1>4. /\ DOMAIN w.tasks = 1..(Len(v.tasks) + 1) /\ DOMAIN v.tasks = 1..Len(v.tasks)
      /\ w.tasks[Len(v.tasks) + 1] = t /\ Len(v.tasks) \in Nat
      /\ \A i \in 1..Len(v.tasks) : w.tasks[i] = v.tasks[i]
  BY <1>2, SMT
<1>5. \A u : Has(w.tasks, u) <=> u = t \/ Has(v.tasks, u)
  <2>1. Len(v.tasks) + 1 \in DOMAIN w.tasks /\ DOMAIN v.tasks \subseteq DOMAIN w.tasks
    BY <1>4, SMT
  <2>2. \A i \in DOMAIN w.tasks : w.tasks[i] = t \/ i \in DOMAIN v.tasks
    BY <1>4, SMT
  <2> QED BY <1>4, <2>1, <2>2, Zenon DEF Has
<1>6. \A u : Once(v.tasks, u) /\ (u # t \/ ~Has(v.tasks, u)) => Once(w.tasks, u)
  <2> SUFFICES ASSUME NEW u, Once(v.tasks, u), u # t \/ ~Has(v.tasks, u),
                      NEW i \in DOMAIN w.tasks, NEW j \in DOMAIN w.tasks,
                      w.tasks[i] = u, w.tasks[j] = u
               PROVE  i = j
    BY Zenon DEF Once
  <2>1. \A k \in 1..(Len(v.tasks) + 1) : k \in 1..Len(v.tasks) \/ k = Len(v.tasks) + 1
    BY <1>4, SMT
  <2>2. \A k \in DOMAIN w.tasks :
          \/ k \in DOMAIN v.tasks /\ w.tasks[k] = v.tasks[k]
          \/ k = Len(v.tasks) + 1 /\ w.tasks[k] = t
    BY <1>4, <2>1, Zenon
  <2> QED BY <2>2, Zenon DEF Has, Once
<1> QED BY <1>1, <1>3, <1>5, <1>6, Zenon DEF w

\* Taking the next task off the queue.
LEMMA PopEffect ==
  ASSUME NEW s \in Seq(Tasks), s # <<>>
  PROVE  /\ \A u : Has(Tail(s), u) => Has(s, u)
         /\ \A u : u # Head(s) /\ Has(s, u) => Has(Tail(s), u)
         /\ Has(s, Head(s))
         /\ \A u : Once(s, u) => Once(Tail(s), u)
         /\ Once(s, Head(s)) => ~Has(Tail(s), Head(s))
<1>1. /\ Len(s) \in Nat /\ Len(s) > 0 /\ DOMAIN s = 1..Len(s)
      /\ DOMAIN Tail(s) = 1..(Len(s) - 1) /\ Head(s) = s[1]
      /\ \A i \in 1..(Len(s) - 1) : Tail(s)[i] = s[i + 1]
  BY SMT
<1>2. \A u : Has(Tail(s), u) => Has(s, u)
  <2> SUFFICES ASSUME NEW u, NEW i \in DOMAIN Tail(s), Tail(s)[i] = u
               PROVE  Has(s, u)
    BY Zenon DEF Has
  <2>1. i + 1 \in DOMAIN s /\ s[i + 1] = u
    BY <1>1, SMT
  <2> QED BY <2>1, Zenon DEF Has
<1>3. \A u : u # Head(s) /\ Has(s, u) => Has(Tail(s), u)
  <2> SUFFICES ASSUME NEW u, u # Head(s), NEW i \in DOMAIN s, s[i] = u
               PROVE  Has(Tail(s), u)
    BY Zenon DEF Has
  <2>1. i # 1 /\ i - 1 \in DOMAIN Tail(s) /\ Tail(s)[i - 1] = u
    BY <1>1, SMT
  <2> QED BY <2>1, Zenon DEF Has
<1>4. Has(s, Head(s))
  BY <1>1, SMT DEF Has
<1>5. \A u : Once(s, u) => Once(Tail(s), u)
  <2> SUFFICES ASSUME NEW u, Once(s, u),
                      NEW i \in DOMAIN Tail(s), NEW j \in DOMAIN Tail(s),
                      Tail(s)[i] = u, Tail(s)[j] = u
               PROVE  i = j
    BY Zenon DEF Once
  <2>1. /\ i + 1 \in DOMAIN s /\ s[i + 1] = u
        /\ j + 1 \in DOMAIN s /\ s[j + 1] = u
    BY <1>1, SMT
  <2>2. i + 1 = j + 1
    BY <2>1, Zenon DEF Once
  <2> QED BY <1>1, <2>2, SMT
<1>6. Once(s, Head(s)) => ~Has(Tail(s), Head(s))
  <2> SUFFICES ASSUME Once(s, Head(s)), NEW i \in DOMAIN Tail(s), Tail(s)[i] = Head(s)
               PROVE  FALSE
    BY Zenon DEF Has
  <2>1. /\ 1 \in DOMAIN s /\ i + 1 \in DOMAIN s /\ s[1] = Head(s)
        /\ s[i + 1] = Head(s) /\ i + 1 # 1
    BY <1>1, SMT
  <2> QED BY <2>1, Zenon DEF Once
<1> QED BY <1>2, <1>3, <1>4, <1>5, <1>6, Zenon

LEMMA ClearDeferredEffect ==
  ASSUME NEW v \in VpnRecord
  PROVE  LET w == clear_deferred_tasks(v)
         IN /\ w \in VpnRecord
            /\ SessionPart(w) = SessionPart(v) /\ PingPart(w) = PingPart(v)
            /\ RecoveryPart(w) = RecoveryPart(v) /\ ClientPart(w) = ClientPart(v)
            /\ SameManagerTasks(v, w)
            /\ ~Has(w.tasks, Fin)
<1> DEFINE w == clear_deferred_tasks(v)
<1>1. w \in VpnRecord
  BY ClearDeferredType, Zenon
<1>2. v.tasks \in Seq(Tasks)
  BY Zenon DEF VpnRecord
<1>3. w.tasks = [i \in DOMAIN v.tasks |->
                   IF v.tasks[i] \in ClientTasks THEN "cancelled" ELSE v.tasks[i]]
  BY SMT DEF VpnRecord, clear_deferred_tasks
<1>4. /\ SessionPart(w) = SessionPart(v) /\ PingPart(w) = PingPart(v)
      /\ RecoveryPart(w) = RecoveryPart(v) /\ ClientPart(w) = ClientPart(v)
  BY SMT DEF VpnRecord, clear_deferred_tasks, SessionPart, PingPart, RecoveryPart, ClientPart
<1> HIDE DEF w
<1>5. SameManagerTasks(v, w)
  <2>1. DOMAIN w.tasks = DOMAIN v.tasks
    BY <1>3, Zenon
  <2>2. \A t \in ManagerTasks, i \in DOMAIN v.tasks : w.tasks[i] = t <=> v.tasks[i] = t
    BY <1>3, SMT DEF ManagerTasks, ClientTasks
  <2>3. "do_connect" \in ManagerTasks
    BY Zenon DEF ManagerTasks
  <2> QED BY <2>1, <2>2, <2>3, Zenon DEF SameManagerTasks, Has, Once
<1>6. ~Has(w.tasks, Fin)
  BY <1>3, SMT DEF Has, ClientTasks, Fin
<1> QED BY <1>1, <1>4, <1>5, <1>6, Zenon DEF w

-----------------------------------------------------------------------------
(* Handlers of the client.                                                 *)

\* ClientOK reads only the fields of the client and the finalizer in the queue.
LEMMA ClientOKFrame ==
  ASSUME NEW v, NEW w, ClientOK(v), ClientPart(w) = ClientPart(v),
         Has(w.tasks, Fin) => Has(v.tasks, Fin),
         Once(v.tasks, Fin) => Once(w.tasks, Fin)
  PROVE  ClientOK(w)
BY SMT DEF ClientOK, ClientPart

LEMMA SubmitManagerTask ==
  ASSUME NEW v \in VpnRecord, ClientOK(v), NEW t \in ManagerTasks
  PROVE  ClientOK(submit(v, t))
<1>1. t \in Tasks /\ t # Fin
  BY Zenon DEF Tasks, ManagerTasks, Fin
<1> QED BY <1>1, SubmitEffect, ClientOKFrame, Zenon

LEMMA RunDisconnectEffect ==
  ASSUME NEW v \in VpnRecord
  PROVE  LET w == run_disconnect(v)
         IN /\ w \in VpnRecord
            /\ SessionPart(w) = SessionPart(v) /\ PingPart(w) = PingPart(v)
            /\ RecoveryPart(w) = RecoveryPart(v)
            /\ w.client_state = v.client_state /\ w.client_fsm = "S_DISCONNECTED"
            /\ w.endpoint_connector = "nullptr"
            /\ w.endpoint_upstream = "nullptr" <=> v.endpoint_upstream = "nullptr"
            /\ w.client_pending_error = v.client_pending_error
            /\ SameManagerTasks(v, w) /\ ~Has(w.tasks, Fin)
<1> DEFINE b == on_before_endpoint_disconnect(v)
           c == clear_deferred_tasks(b)
           w == run_disconnect(v)
<1>1. w \in VpnRecord
  BY RunDisconnectType, Zenon
<1>2. b \in VpnRecord
  <2>1. close_connections(v) \in VpnRecord /\ FALSE \in BOOLEAN
    BY CloseConnectionsType, Zenon
  <2>2. [close_connections(v) EXCEPT !.endpoint_upstream_connected = FALSE] \in VpnRecord
    BY <2>1, ZenonT(60) DEF VpnRecord
  <2> QED BY <2>2, Zenon DEF on_before_endpoint_disconnect
<1>3. /\ SessionPart(b) = SessionPart(v) /\ PingPart(b) = PingPart(v)
      /\ RecoveryPart(b) = RecoveryPart(v) /\ ClientPart(b) = ClientPart(v)
      /\ b.tasks = v.tasks
  BY SMT DEF VpnRecord, on_before_endpoint_disconnect, close_connections, SessionPart,
     PingPart, RecoveryPart, ClientPart
<1> HIDE DEF b
<1>4. /\ c \in VpnRecord
      /\ SessionPart(c) = SessionPart(b) /\ PingPart(c) = PingPart(b)
      /\ RecoveryPart(c) = RecoveryPart(b) /\ ClientPart(c) = ClientPart(b)
      /\ SameManagerTasks(b, c) /\ ~Has(c.tasks, Fin)
  BY <1>2, ClearDeferredEffect, Zenon
<1>5. SameManagerTasks(v, c)
  BY <1>3, <1>4, Zenon DEF SameManagerTasks
<1>6. w = [c EXCEPT !.endpoint_connector = "nullptr",
                    !.endpoint_upstream = IF c.endpoint_upstream = "nullptr"
                                          THEN "nullptr" ELSE "closed",
                    !.client_fsm = "S_DISCONNECTED"]
  BY Zenon DEF run_disconnect, b
<1> HIDE DEF c, w
<1>7. /\ SessionPart(w) = SessionPart(c) /\ PingPart(w) = PingPart(c)
      /\ RecoveryPart(w) = RecoveryPart(c) /\ w.tasks = c.tasks
      /\ w.client_state = c.client_state /\ w.client_fsm = "S_DISCONNECTED"
      /\ w.endpoint_connector = "nullptr"
      /\ w.endpoint_upstream = "nullptr" <=> c.endpoint_upstream = "nullptr"
      /\ w.client_pending_error = c.client_pending_error
  BY <1>4, <1>6, SMT DEF VpnRecord, SessionPart, PingPart, RecoveryPart
<1>8. /\ c.client_state = v.client_state /\ c.endpoint_upstream = v.endpoint_upstream
      /\ c.client_pending_error = v.client_pending_error
  BY <1>3, <1>4, SMT DEF ClientPart
<1>9. SameManagerTasks(v, w)
  BY <1>5, <1>7, Zenon DEF SameManagerTasks
<1> QED BY <1>1, <1>3, <1>4, <1>7, <1>8, <1>9, Zenon DEF w

LEMMA DisconnectClientEffect ==
  ASSUME NEW v \in VpnRecord, ClientOK(v)
  PROVE  LET w == disconnect_client(v)
         IN /\ w \in VpnRecord /\ ClientOK(w)
            /\ SessionPart(w) = SessionPart(v) /\ PingPart(w) = PingPart(v)
            /\ RecoveryPart(w) = RecoveryPart(v)
            /\ w.client_state = "CLIS_DISCONNECTED"
            /\ SameManagerTasks(v, w)
<1> DEFINE w == disconnect_client(v)
           d == run_disconnect(v)
<1>1. w \in VpnRecord
  BY DisconnectClientType, Zenon
<1>2. CASE v.client_state = "CLIS_DISCONNECTED"
  <2>1. w = v
    BY <1>2, Zenon DEF disconnect_client
  <2> QED BY <1>2, <2>1, Zenon DEF SameManagerTasks
<1>3. CASE v.client_state # "CLIS_DISCONNECTED"
  <2>1. v.client_fsm # "S_DISCONNECTED"
    BY <1>3, SMT DEF ClientOK, VpnRecord, ClientConnectionStates
  <2>2. w = [d EXCEPT !.client_state = "CLIS_DISCONNECTED"]
    BY <1>3, <2>1, Zenon DEF disconnect_client, client_disconnect
  <2>3. /\ d \in VpnRecord
        /\ SessionPart(d) = SessionPart(v) /\ PingPart(d) = PingPart(v)
        /\ RecoveryPart(d) = RecoveryPart(v)
        /\ d.client_fsm = "S_DISCONNECTED" /\ d.endpoint_connector = "nullptr"
        /\ SameManagerTasks(v, d) /\ ~Has(d.tasks, Fin)
    BY RunDisconnectEffect, Zenon
  <2> HIDE DEF d, w
  <2>4. /\ SessionPart(w) = SessionPart(d) /\ PingPart(w) = PingPart(d)
        /\ RecoveryPart(w) = RecoveryPart(d) /\ w.tasks = d.tasks
        /\ w.client_state = "CLIS_DISCONNECTED"
        /\ w.client_fsm = "S_DISCONNECTED" /\ w.endpoint_connector = "nullptr"
    BY <2>2, <2>3, SMT DEF VpnRecord, SessionPart, PingPart, RecoveryPart
  <2>5. ClientOK(w)
    <3>1. ~Has(w.tasks, Fin)
      BY <2>3, <2>4, Zenon
    <3>2. Once(w.tasks, Fin)
      BY <3>1, Zenon DEF Has, Once
    <3> QED BY <3>1, <3>2, <2>4, SMT DEF ClientOK
  <2>6. SameManagerTasks(v, w)
    BY <2>3, <2>4, Zenon DEF SameManagerTasks
  <2> QED BY <1>1, <2>3, <2>4, <2>5, <2>6, Zenon DEF w
<1> QED BY <1>2, <1>3, <1>1, Zenon

LEMMA DisconnectEffect ==
  ASSUME NEW v \in VpnRecord, ClientOK(v)
  PROVE  LET w == disconnect(v)
         IN /\ w \in VpnRecord /\ ClientOK(w)
            /\ SessionPart(w) = SessionPart(v)
            /\ RecoveryPart(w) = RecoveryPart(v)
            /\ ~w.pinger /\ ~w.ping_failure_induces_location_unavailable
            /\ w.client_state = "CLIS_DISCONNECTED"
            /\ SameManagerTasks(v, w)
<1> DEFINE p == stop_pinging(v)
<1>1. p \in VpnRecord
  BY StopPingingType, Zenon
<1>2. /\ SessionPart(p) = SessionPart(v) /\ RecoveryPart(p) = RecoveryPart(v)
      /\ ClientPart(p) = ClientPart(v) /\ p.tasks = v.tasks
      /\ p.pinger = FALSE /\ p.ping_failure_induces_location_unavailable = FALSE
  BY SMT DEF VpnRecord, stop_pinging, SessionPart, RecoveryPart, ClientPart
<1> HIDE DEF p
<1>3. ClientOK(p)
  BY <1>2, ClientOKFrame, Zenon
<1> DEFINE w == disconnect_client(p)
<1>4. /\ w \in VpnRecord /\ ClientOK(w)
      /\ SessionPart(w) = SessionPart(p) /\ PingPart(w) = PingPart(p)
      /\ RecoveryPart(w) = RecoveryPart(p)
      /\ w.client_state = "CLIS_DISCONNECTED" /\ SameManagerTasks(p, w)
  BY <1>1, <1>3, DisconnectClientEffect, Zenon
<1> HIDE DEF w
<1>5. w.pinger = FALSE /\ w.ping_failure_induces_location_unavailable = FALSE
  BY <1>2, <1>4, SMT DEF PingPart
<1>6. SameManagerTasks(v, w)
  BY <1>2, <1>4, Zenon DEF SameManagerTasks
<1> QED BY <1>2, <1>4, <1>5, <1>6, Zenon DEF disconnect, p, w

-----------------------------------------------------------------------------
(* The invariant.                                                          *)

\* A ping runs without endpoint, without the flag of vpn_abandon_endpoint and
\* without the client.
PingOK(v) ==
  v.pinger => /\ v.selected_endpoint = NullOpt
              /\ ~v.ping_failure_induces_location_unavailable
              /\ v.client_state = "CLIS_DISCONNECTED"

\* The task of vpn_connect is queued once, before the session begins.
BeginOK(v) ==
  /\ v.phase = "created" =>
       /\ v.tasks = <<>> /\ v.state = "VPN_SS_DISCONNECTED"
       /\ v.client_state = "CLIS_DISCONNECTED" /\ ~v.pinger
  /\ Once(v.tasks, "do_connect")
  /\ Has(v.tasks, "do_connect") =>
       v.state = "VPN_SS_DISCONNECTED" /\ v.client_state = "CLIS_DISCONNECTED" /\ ~v.pinger

QuietOK(v) ==
  v.state \in {"VPN_SS_WAITING_RECOVERY", "VPN_SS_WAITING_FOR_NETWORK"} =>
    ~v.pinger /\ v.client_state = "CLIS_DISCONNECTED"

ArmedOK(v) ==
  v.state = "VPN_SS_WAITING_RECOVERY" =>
    v.recovery_task \/ Has(v.tasks, "failed_recovery")

CleanOK(v) ==
  v.state \notin {"VPN_SS_WAITING_RECOVERY", "VPN_SS_RECOVERING"} => Clean(v)

\* The client is on only for a selected endpoint, unless the session is over.
EndpointOK(v) ==
  /\ v.state \in {"VPN_SS_CONNECTING", "VPN_SS_CONNECTED", "VPN_SS_RECOVERING"}
  /\ v.client_state # "CLIS_DISCONNECTED"
  => v.selected_endpoint # NullOpt

RetryOK(v) ==
  v.state = "VPN_SS_CONNECTING" /\ Has(v.tasks, "retry_connect") =>
    v.client_state = "CLIS_DISCONNECTED"

\* All of the invariant but what a lost client breaks for a moment.
Steady(v) ==
  /\ v \in VpnRecord /\ ClientOK(v) /\ PingOK(v) /\ BeginOK(v) /\ QuietOK(v)
  /\ ArmedOK(v) /\ CleanOK(v) /\ EndpointOK(v) /\ RetryOK(v)

ConnectedOK(v) == v.state = "VPN_SS_CONNECTED" => v.client_state = "CLIS_CONNECTED"

DrivenOK(v) ==
  /\ v.state = "VPN_SS_CONNECTING" =>
       \/ v.pinger \/ v.client_state # "CLIS_DISCONNECTED"
       \/ Has(v.tasks, "retry_connect") \/ Has(v.tasks, "client_disconnected")
  /\ v.state = "VPN_SS_RECOVERING" =>
       \/ v.pinger \/ v.client_state # "CLIS_DISCONNECTED"
       \/ Has(v.tasks, "client_disconnected")

Consistent(v) == Steady(v) /\ ConnectedOK(v) /\ DrivenOK(v)

\* A session that has begun, in the middle of a callback.
Begun(v) ==
  /\ v \in VpnRecord /\ ClientOK(v) /\ v.phase # "created"
  /\ ~Has(v.tasks, "do_connect")

LEMMA HasNotOnce == \A s, t : ~Has(s, t) => Once(s, t)
BY Zenon DEF Has, Once

LEMMA SteadyBegun ==
  ASSUME NEW v, Steady(v), v.state # "VPN_SS_DISCONNECTED"
  PROVE  Begun(v)
BY Zenon DEF Steady, Begun, BeginOK

LEMMA EnterEffect ==
  ASSUME NEW v \in VpnRecord, NEW st \in SessionStates
  PROVE  LET w == Enter(v, st)
         IN /\ w \in VpnRecord /\ w.phase = v.phase /\ w.state = st
            /\ PingPart(w) = PingPart(v) /\ RecoveryPart(w) = RecoveryPart(v)
            /\ ClientPart(w) = ClientPart(v) /\ w.tasks = v.tasks
<1> DEFINE w == Enter(v, st)
<1>1. w \in VpnRecord
  BY EnterType, Zenon
<1>2. /\ w.phase = v.phase /\ w.state = st
      /\ PingPart(w) = PingPart(v) /\ RecoveryPart(w) = RecoveryPart(v)
      /\ ClientPart(w) = ClientPart(v) /\ w.tasks = v.tasks
  BY SMT DEF VpnRecord, Enter, PingPart, RecoveryPart, ClientPart
<1> QED BY <1>1, <1>2, Zenon

LEMMA ResetRecoveryEffect ==
  ASSUME NEW v \in VpnRecord
  PROVE  LET w == reset_recovery(v)
         IN /\ w \in VpnRecord /\ Clean(w)
            /\ SessionPart(w) = SessionPart(v) /\ PingPart(w) = PingPart(v)
            /\ ClientPart(w) = ClientPart(v) /\ w.tasks = v.tasks
<1> DEFINE w == reset_recovery(v)
<1>1. w \in VpnRecord
  BY ResetRecoveryType, Zenon
<1>2. /\ Clean(w) /\ SessionPart(w) = SessionPart(v) /\ PingPart(w) = PingPart(v)
      /\ ClientPart(w) = ClientPart(v) /\ w.tasks = v.tasks
  BY SMT DEF VpnRecord, reset_recovery, PingPart, SessionPart, ClientPart, Clean
<1> QED BY <1>1, <1>2, Zenon

LEMMA NoteErrorEffect ==
  ASSUME NEW v \in VpnRecord, NEW error \in MaybeError
  PROVE  LET w == note_error(v, error)
         IN /\ w \in VpnRecord
            /\ SessionPart(w) = SessionPart(v) /\ PingPart(w) = PingPart(v)
            /\ RecoveryPart(w) = RecoveryPart(v)
            /\ ClientPart(w) = ClientPart(v) /\ w.tasks = v.tasks
<1> DEFINE w == note_error(v, error)
<1>1. w \in VpnRecord
  BY NoteErrorType, Zenon
<1>2. /\ RecoveryPart(w) = RecoveryPart(v)
      /\ SessionPart(w) = SessionPart(v) /\ PingPart(w) = PingPart(v)
      /\ ClientPart(w) = ClientPart(v) /\ w.tasks = v.tasks
  BY SMT DEF VpnRecord, note_error, PingPart, SessionPart, ClientPart, RecoveryPart
<1> QED BY <1>1, <1>2, Zenon

LEMMA InitiateRecoveryEffect ==
  ASSUME NEW v \in VpnRecord, ClientOK(v), NEW slow \in BOOLEAN
  PROVE  LET w == initiate_recovery(v, slow)
         IN /\ w \in VpnRecord /\ ClientOK(w)
            /\ SessionPart(w) = SessionPart(v) /\ PingPart(w) = PingPart(v)
            /\ w.client_state = v.client_state
            /\ w.recovery_task \/ Has(w.tasks, "failed_recovery")
            /\ Has(w.tasks, "do_connect") => Has(v.tasks, "do_connect")
<1> DEFINE w == initiate_recovery(v, slow)
<1>1. w \in VpnRecord
  BY InitiateRecoveryType, Zenon
<1>2. CASE v.recovery_attempts >= RecoveryAttempts
  <2>1. w = submit(v, "failed_recovery")
    BY <1>2, Zenon DEF initiate_recovery
  <2>2. "failed_recovery" \in ManagerTasks /\ "failed_recovery" \in Tasks
    BY Zenon DEF ManagerTasks, Tasks
  <2>3. /\ SessionPart(w) = SessionPart(v) /\ PingPart(w) = PingPart(v)
        /\ ClientPart(w) = ClientPart(v)
        /\ Has(w.tasks, "failed_recovery")
        /\ Has(w.tasks, "do_connect") => Has(v.tasks, "do_connect")
    BY <2>1, <2>2, SubmitEffect, SMT
  <2>4. ClientOK(w)
    BY <2>1, <2>2, SubmitManagerTask, Zenon
  <2> HIDE DEF w
  <2>5. w.client_state = v.client_state
    BY <2>3, SMT DEF ClientPart
  <2> QED BY <1>1, <2>3, <2>4, <2>5, Zenon DEF w
<1>3. CASE ~(v.recovery_attempts >= RecoveryAttempts)
  <2>1. w = [v EXCEPT !.postponement_window_timer = @ \/ ~v.recovery_start_ts,
                      !.recovery_attempts = @ + 1, !.recovery_task = TRUE,
                      !.recovery_start_ts = ~slow]
    BY <1>3, Zenon DEF initiate_recovery
  <2> HIDE DEF w
  <2>2. /\ SessionPart(w) = SessionPart(v) /\ PingPart(w) = PingPart(v)
        /\ ClientPart(w) = ClientPart(v) /\ w.tasks = v.tasks /\ w.recovery_task = TRUE
        /\ w.client_state = v.client_state
    BY <2>1, SMT DEF VpnRecord, SessionPart, PingPart, ClientPart
  <2>3. ClientOK(w)
    BY <2>2, ClientOKFrame, Zenon
  <2> QED BY <1>1, <2>2, <2>3, Zenon DEF w
<1> QED BY <1>2, <1>3, Zenon

-----------------------------------------------------------------------------
(* Actions of the session machine and the states they lead to.             *)

\* The state of a session that is waiting or over: ping and client are off.
LEMMA Rests ==
  ASSUME NEW w \in VpnRecord, ClientOK(w), w.phase # "created",
         ~w.pinger, w.client_state = "CLIS_DISCONNECTED",
         Once(w.tasks, "do_connect"),
         Has(w.tasks, "do_connect") => w.state = "VPN_SS_DISCONNECTED",
         \/ /\ w.state = "VPN_SS_WAITING_RECOVERY"
            /\ w.recovery_task \/ Has(w.tasks, "failed_recovery")
         \/ /\ w.state = "VPN_SS_DISCONNECTED" \/ w.state = "VPN_SS_WAITING_FOR_NETWORK"
            /\ Clean(w)
  PROVE  Consistent(w)
<1>1. PingOK(w) /\ BeginOK(w) /\ QuietOK(w)
  BY Zenon DEF PingOK, BeginOK, QuietOK
<1>2. ArmedOK(w) /\ CleanOK(w)
  BY SMT DEF ArmedOK, CleanOK
<1>3. EndpointOK(w) /\ RetryOK(w) /\ ConnectedOK(w) /\ DrivenOK(w)
  BY SMT DEF EndpointOK, RetryOK, ConnectedOK, DrivenOK
<1> QED BY <1>1, <1>2, <1>3, Zenon DEF Consistent, Steady

LEMMA ToWaitingRecovery ==
  ASSUME NEW v, Begun(v), NEW error \in MaybeError, NEW slow \in BOOLEAN
  PROVE  Consistent(Enter(prepare_for_recovery(v, error, slow), "VPN_SS_WAITING_RECOVERY"))
<1> DEFINE d == disconnect(v)
           i == initiate_recovery(d, slow)
           n == note_error(i, error)
           w == Enter(n, "VPN_SS_WAITING_RECOVERY")
<1>0. v \in VpnRecord /\ ClientOK(v) /\ v.phase # "created" /\ ~Has(v.tasks, "do_connect")
  BY Zenon DEF Begun
<1>1. /\ d \in VpnRecord /\ ClientOK(d) /\ SessionPart(d) = SessionPart(v)
      /\ ~d.pinger /\ d.client_state = "CLIS_DISCONNECTED" /\ SameManagerTasks(v, d)
  BY <1>0, DisconnectEffect, Zenon
<1>2. ~Has(d.tasks, "do_connect")
  BY <1>0, <1>1, Zenon DEF SameManagerTasks, ManagerTasks
<1> HIDE DEF d
<1>3. /\ i \in VpnRecord /\ ClientOK(i)
      /\ SessionPart(i) = SessionPart(d) /\ PingPart(i) = PingPart(d)
      /\ i.client_state = d.client_state
      /\ i.recovery_task \/ Has(i.tasks, "failed_recovery")
      /\ ~Has(i.tasks, "do_connect")
  BY <1>1, <1>2, InitiateRecoveryEffect, Zenon
<1> HIDE DEF i
<1>4. /\ n \in VpnRecord /\ SessionPart(n) = SessionPart(i) /\ PingPart(n) = PingPart(i)
      /\ RecoveryPart(n) = RecoveryPart(i) /\ ClientPart(n) = ClientPart(i)
      /\ n.tasks = i.tasks
  BY <1>3, NoteErrorEffect, Zenon
<1> HIDE DEF n
<1>5. "VPN_SS_WAITING_RECOVERY" \in SessionStates
  BY Zenon DEF SessionStates
<1>6. /\ w \in VpnRecord /\ w.phase = n.phase /\ w.state = "VPN_SS_WAITING_RECOVERY"
      /\ PingPart(w) = PingPart(n) /\ RecoveryPart(w) = RecoveryPart(n)
      /\ ClientPart(w) = ClientPart(n) /\ w.tasks = n.tasks
  BY <1>4, <1>5, EnterEffect, Zenon
<1> HIDE DEF w
<1>7. w.phase # "created" /\ w.client_state = "CLIS_DISCONNECTED"
  BY <1>0, <1>1, <1>3, <1>4, <1>6, SMT DEF SessionPart, ClientPart
<1>8. w.pinger = d.pinger /\ w.recovery_task = i.recovery_task
  BY <1>1, <1>3, <1>4, <1>6, SMT DEF PingPart, RecoveryPart
<1>9. ClientPart(w) = ClientPart(i) /\ w.tasks = i.tasks
  BY <1>4, <1>6, Zenon
<1>10. ClientOK(w)
  BY <1>3, <1>9, ClientOKFrame, Zenon
<1>11. Consistent(w)
  BY <1>1, <1>3, <1>6, <1>7, <1>8, <1>9, <1>10, HasNotOnce, Rests, Zenon
<1> QED BY <1>11, Zenon DEF w, n, i, d, prepare_for_recovery

LEMMA DoDisconnectEffect ==
  ASSUME NEW v \in VpnRecord, ClientOK(v)
  PROVE  LET w == do_disconnect(v)
         IN /\ w \in VpnRecord /\ ClientOK(w) /\ SessionPart(w) = SessionPart(v)
            /\ Clean(w) /\ ~w.pinger /\ w.client_state = "CLIS_DISCONNECTED"
            /\ SameManagerTasks(v, w)
<1> DEFINE r == reset_recovery(v)
           w == disconnect(r)
<1>1. /\ r \in VpnRecord /\ Clean(r) /\ SessionPart(r) = SessionPart(v)
      /\ ClientPart(r) = ClientPart(v) /\ r.tasks = v.tasks
  BY ResetRecoveryEffect, Zenon
<1> HIDE DEF r
<1>2. ClientOK(r)
  BY <1>1, ClientOKFrame, Zenon
<1>3. /\ w \in VpnRecord /\ ClientOK(w) /\ SessionPart(w) = SessionPart(r)
      /\ RecoveryPart(w) = RecoveryPart(r) /\ ~w.pinger
      /\ w.client_state = "CLIS_DISCONNECTED" /\ SameManagerTasks(r, w)
  BY <1>1, <1>2, DisconnectEffect, Zenon
<1> HIDE DEF w
<1>4. Clean(w)
  BY <1>1, <1>3, SMT DEF Clean, RecoveryPart
<1>5. SameManagerTasks(v, w)
  BY <1>1, <1>3, Zenon DEF SameManagerTasks
<1> QED BY <1>1, <1>3, <1>4, <1>5, Zenon DEF do_disconnect, r, w

LEMMA ToRest ==
  ASSUME NEW v, Begun(v),
         NEW st \in {"VPN_SS_DISCONNECTED", "VPN_SS_WAITING_FOR_NETWORK"}
  PROVE  Consistent(Enter(do_disconnect(v), st))
<1> DEFINE d == do_disconnect(v)
           w == Enter(d, st)
<1>0. /\ v \in VpnRecord /\ ClientOK(v) /\ v.phase # "created"
      /\ ~Has(v.tasks, "do_connect") /\ st \in SessionStates
  BY Zenon DEF Begun, SessionStates
<1>1. /\ d \in VpnRecord /\ ClientOK(d) /\ SessionPart(d) = SessionPart(v)
      /\ Clean(d) /\ ~d.pinger /\ d.client_state = "CLIS_DISCONNECTED"
      /\ SameManagerTasks(v, d)
  BY <1>0, DoDisconnectEffect, Zenon
<1> HIDE DEF d
<1>2. /\ w \in VpnRecord /\ w.phase = d.phase /\ w.state = st
      /\ PingPart(w) = PingPart(d) /\ RecoveryPart(w) = RecoveryPart(d)
      /\ ClientPart(w) = ClientPart(d) /\ w.tasks = d.tasks
  BY <1>0, <1>1, EnterEffect, Zenon
<1> HIDE DEF w
<1>3. w.phase # "created" /\ w.client_state = "CLIS_DISCONNECTED"
  BY <1>0, <1>1, <1>2, SMT DEF SessionPart, ClientPart
<1>4. w.pinger = d.pinger /\ (Clean(d) => Clean(w))
  BY <1>2, SMT DEF PingPart, RecoveryPart, Clean
<1>5. ClientOK(w)
  BY <1>1, <1>2, ClientOKFrame, Zenon
<1>6. ~Has(w.tasks, "do_connect")
  BY <1>0, <1>1, <1>2, Zenon DEF SameManagerTasks, ManagerTasks
<1>7. Consistent(w)
  BY <1>1, <1>2, <1>3, <1>4, <1>5, <1>6, HasNotOnce, Rests, Zenon
<1> QED BY <1>7, Zenon DEF w, d

\* Consistent reads only these fields and the queue.
LEMMA ConsistentFrame ==
  ASSUME NEW v, NEW w \in VpnRecord,
         SessionPart(w) = SessionPart(v), PingPart(w) = PingPart(v),
         RecoveryPart(w) = RecoveryPart(v), ClientPart(w) = ClientPart(v),
         w.tasks = v.tasks
  PROVE  /\ Steady(v) => Steady(w)
         /\ Consistent(v) => Consistent(w)
<1>1. /\ w.phase = v.phase /\ w.state = v.state /\ w.pinger = v.pinger
      /\ w.selected_endpoint = v.selected_endpoint
      /\ w.ping_failure_induces_location_unavailable =
           v.ping_failure_induces_location_unavailable
      /\ w.client_state = v.client_state /\ w.recovery_task = v.recovery_task
      /\ w.recovery_attempts = v.recovery_attempts
      /\ w.recovery_start_ts = v.recovery_start_ts
  BY SMT DEF SessionPart, PingPart, RecoveryPart, ClientPart
<1>2. ClientOK(v) => ClientOK(w)
  BY ClientOKFrame, Zenon
<1>3. /\ PingOK(v) => PingOK(w)
      /\ BeginOK(v) => BeginOK(w)
      /\ QuietOK(v) => QuietOK(w)
      /\ ArmedOK(v) => ArmedOK(w)
  BY <1>1, Zenon DEF PingOK, BeginOK, QuietOK, ArmedOK
<1>4. /\ CleanOK(v) => CleanOK(w)
      /\ EndpointOK(v) => EndpointOK(w)
      /\ RetryOK(v) => RetryOK(w)
      /\ ConnectedOK(v) => ConnectedOK(w)
      /\ DrivenOK(v) => DrivenOK(w)
  BY <1>1, Zenon DEF CleanOK, Clean, EndpointOK, RetryOK, ConnectedOK, DrivenOK
<1> QED BY <1>2, <1>3, <1>4, Zenon DEF Consistent, Steady

\* A session that is over may keep its client or its ping.
LEMMA Idles ==
  ASSUME NEW w \in VpnRecord, ClientOK(w), PingOK(w), w.phase # "created",
         ~Has(w.tasks, "do_connect"), w.state = "VPN_SS_DISCONNECTED", Clean(w)
  PROVE  Consistent(w)
<1>1. BeginOK(w) /\ QuietOK(w) /\ ArmedOK(w) /\ CleanOK(w)
  BY HasNotOnce, SMT DEF BeginOK, QuietOK, ArmedOK, CleanOK
<1>2. EndpointOK(w) /\ RetryOK(w) /\ ConnectedOK(w) /\ DrivenOK(w)
  BY SMT DEF EndpointOK, RetryOK, ConnectedOK, DrivenOK
<1> QED BY <1>1, <1>2, Zenon DEF Consistent, Steady

\* A session that is connecting or recovering.
LEMMA Works ==
  ASSUME NEW w \in VpnRecord, ClientOK(w), PingOK(w), w.phase # "created",
         ~Has(w.tasks, "do_connect"),
         \/ /\ w.state = "VPN_SS_CONNECTING" /\ Clean(w)
            /\ Has(w.tasks, "retry_connect") => w.client_state = "CLIS_DISCONNECTED"
         \/ w.state = "VPN_SS_RECOVERING",
         w.client_state # "CLIS_DISCONNECTED" => w.selected_endpoint # NullOpt,
         \/ w.pinger \/ w.client_state # "CLIS_DISCONNECTED"
         \/ Has(w.tasks, "client_disconnected")
         \/ w.state = "VPN_SS_CONNECTING" /\ Has(w.tasks, "retry_connect")
  PROVE  Consistent(w)
<1>1. BeginOK(w) /\ QuietOK(w) /\ ArmedOK(w) /\ CleanOK(w)
  BY HasNotOnce, SMT DEF BeginOK, QuietOK, ArmedOK, CleanOK
<1>2. EndpointOK(w) /\ RetryOK(w) /\ ConnectedOK(w) /\ DrivenOK(w)
  BY SMT DEF EndpointOK, RetryOK, ConnectedOK, DrivenOK
<1> QED BY <1>1, <1>2, Zenon DEF Consistent, Steady

\* CE_SHUTDOWN in every state, before the session begins too.
LEMMA ShutdownConsistent ==
  ASSUME NEW v \in VpnRecord, ClientOK(v), v.phase # "created",
         Once(v.tasks, "do_connect"),
         Has(v.tasks, "do_connect") => v.state = "VPN_SS_DISCONNECTED"
  PROVE  Consistent(On_SHUTDOWN(v))
<1> DEFINE d == do_disconnect(v)
<1>1. CASE v.state = "VPN_SS_DISCONNECTED"
  <2>1. /\ d \in VpnRecord /\ ClientOK(d) /\ SessionPart(d) = SessionPart(v)
        /\ Clean(d) /\ ~d.pinger /\ d.client_state = "CLIS_DISCONNECTED"
        /\ SameManagerTasks(v, d)
    BY DoDisconnectEffect, Zenon
  <2> HIDE DEF d
  <2>2. d.phase # "created" /\ d.state = "VPN_SS_DISCONNECTED"
    BY <1>1, <2>1, SMT DEF SessionPart
  <2>3. Once(d.tasks, "do_connect")
    BY <2>1, Zenon DEF SameManagerTasks
  <2>4. Consistent(d)
    BY <2>1, <2>2, <2>3, Rests, Zenon
  <2> QED BY <1>1, <2>4, Zenon DEF On_SHUTDOWN, d
<1>2. CASE v.state # "VPN_SS_DISCONNECTED"
  <2>1. Begun(v)
    BY <1>2, Zenon DEF Begun
  <2>2. Consistent(Enter(d, "VPN_SS_DISCONNECTED"))
    BY <2>1, ToRest, Zenon
  <2> QED BY <1>2, <2>2, Zenon DEF On_SHUTDOWN
<1> QED BY <1>1, <1>2, Zenon

LEMMA PendingErrorEffect ==
  ASSUME NEW v \in VpnRecord, NEW error \in MaybeError
  PROVE  LET w == [v EXCEPT !.pending_error = error]
         IN /\ w \in VpnRecord
            /\ SessionPart(w) = SessionPart(v) /\ PingPart(w) = PingPart(v)
            /\ RecoveryPart(w) = RecoveryPart(v)
            /\ ClientPart(w) = ClientPart(v) /\ w.tasks = v.tasks
<1> DEFINE w == [v EXCEPT !.pending_error = error]
<1>1. w \in VpnRecord
  BY PendingErrorType, Zenon
<1>2. /\ SessionPart(w) = SessionPart(v) /\ PingPart(w) = PingPart(v)
      /\ RecoveryPart(w) = RecoveryPart(v)
      /\ ClientPart(w) = ClientPart(v) /\ w.tasks = v.tasks
  BY SMT DEF VpnRecord, PingPart, SessionPart, ClientPart, RecoveryPart
<1> QED BY <1>1, <1>2, Zenon

\* complete_connect stops ping and client, or leaves both as they are; without
\* an error of its own it always leaves them.
LEMMA CompleteConnectEffect ==
  ASSUME NEW v \in VpnRecord, ClientOK(v), PingOK(v), NEW error \in MaybeError
  PROVE  LET w == complete_connect(v, error)
         IN /\ w \in VpnRecord /\ ClientOK(w) /\ PingOK(w) /\ Clean(w)
            /\ w.phase = v.phase /\ SameManagerTasks(v, w)
            /\ error = NullOpt => /\ PingPart(w) = PingPart(v)
                                  /\ ClientPart(w) = ClientPart(v) /\ w.tasks = v.tasks
<1> DEFINE failed == v.pending_error = NullOpt /\ error \notin {NullOpt, NoError}
           d == disconnect(v)
           n == note_error(d, error)
           x == IF failed THEN n ELSE v
           exhausted == /\ x.pending_error # NullOpt
                        /\ ~is_fatal_error(x, error)
                        /\ no_connect_attempts(x)
           p == IF exhausted THEN "VPN_EC_INITIAL_CONNECT_FAILED" ELSE x.pending_error
           y == [x EXCEPT !.pending_error = p]
           w == reset_recovery(y)
<1>1. complete_connect(v, error) = w
  BY Zenon DEF complete_connect
<1>2. /\ d \in VpnRecord /\ ClientOK(d) /\ SessionPart(d) = SessionPart(v)
      /\ ~d.pinger /\ SameManagerTasks(v, d)
  BY DisconnectEffect, Zenon
<1> HIDE DEF d
<1>3. /\ n \in VpnRecord /\ SessionPart(n) = SessionPart(d) /\ PingPart(n) = PingPart(d)
      /\ ClientPart(n) = ClientPart(d) /\ n.tasks = d.tasks
  BY <1>2, NoteErrorEffect, Zenon
<1> HIDE DEF n
<1>4. n.pinger = d.pinger
  BY <1>3, SMT DEF PingPart
<1>5. ClientOK(n) /\ PingOK(n) /\ SameManagerTasks(v, n) /\ SessionPart(n) = SessionPart(v)
  <2>1. ClientOK(n)
    BY <1>2, <1>3, ClientOKFrame, Zenon
  <2> QED BY <2>1, <1>2, <1>3, <1>4, Zenon DEF PingOK, SameManagerTasks
<1>6. /\ x \in VpnRecord /\ ClientOK(x) /\ PingOK(x) /\ SameManagerTasks(v, x)
      /\ SessionPart(x) = SessionPart(v)
      /\ error = NullOpt => x = v
  <2>1. CASE failed
    BY <2>1, <1>3, <1>5, Zenon
  <2>2. CASE ~failed
    BY <2>2, Zenon DEF SameManagerTasks
  <2> QED BY <2>1, <2>2, Zenon
<1>7. p \in MaybeError
  <2> HIDE DEF x
  <2>1. x.pending_error \in MaybeError
    BY <1>6, Zenon DEF VpnRecord
  <2> QED BY <2>1, ErrorsType, Zenon
<1> HIDE DEF x, p
<1>8. /\ y \in VpnRecord /\ SessionPart(y) = SessionPart(x) /\ PingPart(y) = PingPart(x)
      /\ ClientPart(y) = ClientPart(x) /\ y.tasks = x.tasks
  BY <1>6, <1>7, PendingErrorEffect, Zenon
<1> HIDE DEF y
<1>9. /\ w \in VpnRecord /\ Clean(w)
      /\ SessionPart(w) = SessionPart(y) /\ PingPart(w) = PingPart(y)
      /\ ClientPart(w) = ClientPart(y) /\ w.tasks = y.tasks
  BY <1>8, ResetRecoveryEffect, Zenon
<1> HIDE DEF w
<1>10. /\ SessionPart(w) = SessionPart(v) /\ PingPart(w) = PingPart(x)
       /\ ClientPart(w) = ClientPart(x) /\ w.tasks = x.tasks
  BY <1>6, <1>8, <1>9, Zenon
<1>11. ClientOK(w)
  BY <1>6, <1>10, ClientOKFrame, Zenon
<1>12. PingOK(w)
  BY <1>6, <1>10, SMT DEF PingOK, PingPart, ClientPart
<1>13. w.phase = v.phase
  BY <1>10, SMT DEF SessionPart
<1>14. SameManagerTasks(v, w)
  BY <1>6, <1>10, Zenon DEF SameManagerTasks
<1> QED BY <1>1, <1>6, <1>9, <1>10, <1>11, <1>12, <1>13, <1>14, Zenon

LEMMA ToDisconnected ==
  ASSUME NEW v, Begun(v), PingOK(v), NEW error \in MaybeError
  PROVE  Consistent(Enter(complete_connect(v, error), "VPN_SS_DISCONNECTED"))
<1> DEFINE c == complete_connect(v, error)
           w == Enter(c, "VPN_SS_DISCONNECTED")
<1>0. /\ v \in VpnRecord /\ ClientOK(v) /\ v.phase # "created"
      /\ ~Has(v.tasks, "do_connect") /\ "VPN_SS_DISCONNECTED" \in SessionStates
  BY Zenon DEF Begun, SessionStates
<1>1. /\ c \in VpnRecord /\ ClientOK(c) /\ PingOK(c) /\ Clean(c)
      /\ c.phase = v.phase /\ SameManagerTasks(v, c)
  BY <1>0, CompleteConnectEffect, Zenon
<1>2. ~Has(c.tasks, "do_connect")
  BY <1>0, <1>1, Zenon DEF SameManagerTasks, ManagerTasks
<1> HIDE DEF c
<1>3. /\ w \in VpnRecord /\ w.phase = c.phase /\ w.state = "VPN_SS_DISCONNECTED"
      /\ PingPart(w) = PingPart(c) /\ RecoveryPart(w) = RecoveryPart(c)
      /\ ClientPart(w) = ClientPart(c) /\ w.tasks = c.tasks
  BY <1>0, <1>1, EnterEffect, Zenon
<1> HIDE DEF w
<1>4. ClientOK(w)
  BY <1>1, <1>3, ClientOKFrame, Zenon
<1>5. PingOK(w) /\ Clean(w)
  BY <1>1, <1>3, SMT DEF PingOK, PingPart, ClientPart, Clean, RecoveryPart
<1>6. Consistent(w)
  BY <1>0, <1>1, <1>2, <1>3, <1>4, <1>5, Idles, Zenon
<1> QED BY <1>6, Zenon DEF w, c

LEMMA RetryConnectEffect ==
  ASSUME NEW v, Begun(v)
  PROVE  LET w == retry_connect(v)
         IN /\ w \in VpnRecord /\ ClientOK(w) /\ SessionPart(w) = SessionPart(v)
            /\ RecoveryPart(w) = RecoveryPart(v)
            /\ ~w.pinger /\ w.client_state = "CLIS_DISCONNECTED"
            /\ ~Has(w.tasks, "do_connect") /\ Has(w.tasks, "retry_connect")
<1> DEFINE n == decrement(v.attempts_left)
           a == [v EXCEPT !.attempts_left = n]
           b == IF v.retry_policy = "VPN_CRP_SEVERAL_ATTEMPTS" THEN a ELSE v
           d == disconnect(b)
           w == submit(d, "retry_connect")
<1>0. /\ v \in VpnRecord /\ ClientOK(v) /\ ~Has(v.tasks, "do_connect")
      /\ "retry_connect" \in Tasks /\ "retry_connect" \in ManagerTasks
  BY Zenon DEF Begun, Tasks, ManagerTasks
<1>1. n \in 0..SizeMax
  <2>1. v.attempts_left \in 0..SizeMax
    BY <1>0, Zenon DEF VpnRecord
  <2> QED BY <2>1, DecrementType, Zenon
<1>2. retry_connect(v) = w
  BY Zenon DEF retry_connect
<1> HIDE DEF n
<1>3. a \in VpnRecord
  BY <1>0, <1>1, Zenon DEF VpnRecord
<1>4. /\ SessionPart(a) = SessionPart(v) /\ RecoveryPart(a) = RecoveryPart(v)
      /\ ClientPart(a) = ClientPart(v) /\ a.tasks = v.tasks
  BY <1>0, SMT DEF VpnRecord, SessionPart, RecoveryPart, ClientPart
<1> HIDE DEF a
<1>5. /\ b \in VpnRecord /\ SessionPart(b) = SessionPart(v)
      /\ RecoveryPart(b) = RecoveryPart(v) /\ ClientPart(b) = ClientPart(v)
      /\ b.tasks = v.tasks
  BY <1>0, <1>3, <1>4, Zenon
<1> HIDE DEF b
<1>6. ClientOK(b)
  BY <1>0, <1>5, ClientOKFrame, Zenon
<1>7. /\ d \in VpnRecord /\ ClientOK(d) /\ SessionPart(d) = SessionPart(b)
      /\ RecoveryPart(d) = RecoveryPart(b)
      /\ ~d.pinger /\ d.client_state = "CLIS_DISCONNECTED" /\ SameManagerTasks(b, d)
  BY <1>5, <1>6, DisconnectEffect, Zenon
<1> HIDE DEF d
<1>8. ~Has(d.tasks, "do_connect")
  BY <1>0, <1>5, <1>7, Zenon DEF SameManagerTasks, ManagerTasks
<1>9. /\ w \in VpnRecord /\ SessionPart(w) = SessionPart(d) /\ PingPart(w) = PingPart(d)
      /\ RecoveryPart(w) = RecoveryPart(d) /\ ClientPart(w) = ClientPart(d)
      /\ \A u : Has(w.tasks, u) <=> u = "retry_connect" \/ Has(d.tasks, u)
  BY <1>0, <1>7, SubmitEffect, Zenon
<1>10. ClientOK(w)
  BY <1>0, <1>7, SubmitManagerTask, Zenon
<1> HIDE DEF w
<1>11. w.pinger = d.pinger /\ w.client_state = d.client_state
  BY <1>9, SMT DEF PingPart, ClientPart
<1>12. ~Has(w.tasks, "do_connect") /\ Has(w.tasks, "retry_connect")
  BY <1>8, <1>9, Zenon
<1> QED BY <1>2, <1>5, <1>7, <1>9, <1>10, <1>11, <1>12, Zenon

\* A retry in CONNECTING and from WAITING_FOR_NETWORK.
LEMMA ToRetry ==
  ASSUME NEW v, Begun(v), Clean(v)
  PROVE  /\ v.state = "VPN_SS_CONNECTING" => Consistent(retry_connect(v))
         /\ Consistent(Enter(retry_connect(v), "VPN_SS_CONNECTING"))
<1> DEFINE r == retry_connect(v)
           w == Enter(r, "VPN_SS_CONNECTING")
<1>0. "VPN_SS_CONNECTING" \in SessionStates /\ v.phase # "created"
  BY Zenon DEF SessionStates, Begun
<1>1. /\ r \in VpnRecord /\ ClientOK(r) /\ SessionPart(r) = SessionPart(v)
      /\ RecoveryPart(r) = RecoveryPart(v)
      /\ ~r.pinger /\ r.client_state = "CLIS_DISCONNECTED"
      /\ ~Has(r.tasks, "do_connect") /\ Has(r.tasks, "retry_connect")
  BY RetryConnectEffect, Zenon
<1> HIDE DEF r
<1>2. r.phase # "created" /\ Clean(r) /\ r.state = v.state
  BY <1>0, <1>1, SMT DEF SessionPart, RecoveryPart, Clean
<1>3. v.state = "VPN_SS_CONNECTING" => Consistent(r)
  <2>1. PingOK(r)
    BY <1>1, Zenon DEF PingOK
  <2> QED BY <1>1, <1>2, <2>1, Works, Zenon
<1>4. /\ w \in VpnRecord /\ w.phase = r.phase /\ w.state = "VPN_SS_CONNECTING"
      /\ PingPart(w) = PingPart(r) /\ RecoveryPart(w) = RecoveryPart(r)
      /\ ClientPart(w) = ClientPart(r) /\ w.tasks = r.tasks
  BY <1>0, <1>1, EnterEffect, Zenon
<1> HIDE DEF w
<1>5. Clean(w) /\ w.pinger = r.pinger /\ w.client_state = r.client_state
  BY <1>2, <1>4, SMT DEF PingPart, RecoveryPart, ClientPart, Clean
<1>6. ClientOK(w)
  BY <1>1, <1>4, ClientOKFrame, Zenon
<1>7. PingOK(w)
  BY <1>1, <1>5, Zenon DEF PingOK
<1>8. Consistent(w)
  BY <1>1, <1>2, <1>4, <1>5, <1>6, <1>7, Works, Zenon
<1> QED BY <1>3, <1>8, Zenon DEF r, w

LEMMA RunPingEffect ==
  ASSUME NEW v \in VpnRecord
  PROVE  LET w == run_ping(v)
         IN /\ w \in VpnRecord /\ SessionPart(w) = SessionPart(v)
            /\ ClientPart(w) = ClientPart(v) /\ w.tasks = v.tasks
            /\ w.pinger = TRUE /\ w.selected_endpoint = NullOpt
            /\ w.ping_failure_induces_location_unavailable = FALSE
            /\ Clean(v) => Clean(w)
<1> DEFINE w == run_ping(v)
<1>1. w \in VpnRecord
  BY RunPingType, Zenon
<1>2. /\ SessionPart(w) = SessionPart(v)
      /\ ClientPart(w) = ClientPart(v) /\ w.tasks = v.tasks
      /\ w.pinger = TRUE /\ w.selected_endpoint = NullOpt
      /\ w.ping_failure_induces_location_unavailable = FALSE
      /\ w.recovery_attempts = v.recovery_attempts /\ w.recovery_task = FALSE
      /\ w.recovery_start_ts = v.recovery_start_ts
  BY SMT DEF VpnRecord, run_ping, stop_pinging, SessionPart, ClientPart
<1> HIDE DEF w
<1>3. Clean(v) => Clean(w)
  BY <1>2, Zenon DEF Clean
<1> QED BY <1>1, <1>2, <1>3, Zenon DEF w

\* A ping of a session that connects or recovers, with the client off.
LEMMA ToPing ==
  ASSUME NEW v, Begun(v), v.client_state = "CLIS_DISCONNECTED"
  PROVE  /\ v.state = "VPN_SS_CONNECTING" /\ Clean(v) => Consistent(run_ping(v))
         /\ Clean(v) => Consistent(Enter(run_ping(v), "VPN_SS_CONNECTING"))
         /\ Consistent(Enter(run_ping(v), "VPN_SS_RECOVERING"))
<1> DEFINE p == run_ping(v)
<1>0. /\ v \in VpnRecord /\ ClientOK(v) /\ v.phase # "created"
      /\ ~Has(v.tasks, "do_connect")
  BY Zenon DEF Begun
<1>1. /\ p \in VpnRecord /\ SessionPart(p) = SessionPart(v)
      /\ ClientPart(p) = ClientPart(v) /\ p.tasks = v.tasks
      /\ p.pinger = TRUE /\ p.selected_endpoint = NullOpt
      /\ p.ping_failure_induces_location_unavailable = FALSE
      /\ Clean(v) => Clean(p)
  BY <1>0, RunPingEffect, Zenon
<1> HIDE DEF p
<1>2. /\ p.phase = v.phase /\ p.state = v.state /\ p.client_state = "CLIS_DISCONNECTED"
  BY <1>1, SMT DEF SessionPart, ClientPart
<1>3. ClientOK(p) /\ PingOK(p) /\ ~Has(p.tasks, "do_connect")
  <2>1. ClientOK(p)
    BY <1>0, <1>1, ClientOKFrame, Zenon
  <2> QED BY <2>1, <1>0, <1>1, <1>2, Zenon DEF PingOK
<1>4. v.state = "VPN_SS_CONNECTING" /\ Clean(v) => Consistent(p)
  BY <1>0, <1>1, <1>2, <1>3, Works, Zenon
<1>5. ASSUME NEW st \in {"VPN_SS_CONNECTING", "VPN_SS_RECOVERING"},
             st = "VPN_SS_CONNECTING" => Clean(v)
      PROVE  Consistent(Enter(p, st))
  <2> DEFINE w == Enter(p, st)
  <2>1. st \in SessionStates
    BY Zenon DEF SessionStates
  <2>2. /\ w \in VpnRecord /\ w.phase = p.phase /\ w.state = st
        /\ PingPart(w) = PingPart(p) /\ RecoveryPart(w) = RecoveryPart(p)
        /\ ClientPart(w) = ClientPart(p) /\ w.tasks = p.tasks
    BY <1>1, <2>1, EnterEffect, Zenon
  <2> HIDE DEF w
  <2>3. ClientOK(w)
    BY <1>3, <2>2, ClientOKFrame, Zenon
  <2>4. /\ w.pinger = p.pinger /\ w.client_state = p.client_state
        /\ PingOK(p) => PingOK(w)
        /\ Clean(p) => Clean(w)
    BY <2>2, SMT DEF PingPart, ClientPart, RecoveryPart, Clean, PingOK
  <2>5. Consistent(w)
    BY <1>0, <1>1, <1>2, <1>3, <1>5, <2>2, <2>3, <2>4, Works, Zenon
  <2> QED BY <2>5, Zenon DEF w
<1> QED BY <1>4, <1>5, Zenon DEF p

\* VpnClient::connect with the client off: it is connecting, or off again and
\* the failure is queued.
LEMMA RunClientConnectEffect ==
  ASSUME NEW v \in VpnRecord, ClientOK(v), v.client_state = "CLIS_DISCONNECTED",
         NEW started \in BOOLEAN
  PROVE  LET w == run_client_connect(v, started)
         IN /\ w \in VpnRecord /\ ClientOK(w)
            /\ SessionPart(w) = SessionPart(v) /\ PingPart(w) = PingPart(v)
            /\ RecoveryPart(w) = RecoveryPart(v)
            /\ \/ w.client_state = "CLIS_CONNECTING"
               \/ /\ w.client_state = "CLIS_DISCONNECTED"
                  /\ Has(w.tasks, "client_disconnected")
            /\ \A t \in ManagerTasks \ {"client_disconnected"} :
                 Has(w.tasks, t) => Has(v.tasks, t)
<1> DEFINE error == connect_error(v, started)
           c == [v EXCEPT !.client_pending_error = NullOpt,
                          !.client_fsm = "S_CONNECTING",
                          !.endpoint_connector = "connecting"]
           d == run_disconnect(c)
           w == run_client_connect(v, started)
<1>1. w \in VpnRecord
  BY RunClientConnectType, Zenon
<1>2. v.client_fsm = "S_DISCONNECTED"
  BY SMT DEF ClientOK
<1>3. error \in MaybeError
  <2>1. v.client_pending_error \in MaybeError
    BY Zenon DEF VpnRecord
  <2> QED BY <2>1, ErrorsType, Zenon DEF connect_error
<1> HIDE DEF error
<1>4. c \in VpnRecord
  <2>1. /\ NullOpt \in MaybeError /\ "S_CONNECTING" \in ClientStates
        /\ "connecting" \in ConnectorStates
    BY Zenon DEF MaybeError, ClientStates, ConnectorStates
  <2> QED BY <2>1, Zenon DEF VpnRecord
<1>5. /\ SessionPart(c) = SessionPart(v) /\ PingPart(c) = PingPart(v)
      /\ RecoveryPart(c) = RecoveryPart(v) /\ c.tasks = v.tasks
      /\ c.client_state = "CLIS_DISCONNECTED" /\ c.client_fsm = "S_CONNECTING"
      /\ c.endpoint_connector = "connecting" /\ c.endpoint_upstream = v.endpoint_upstream
  BY SMT DEF VpnRecord, SessionPart, PingPart, RecoveryPart
<1>6. client_connect(v, started) = IF error = NoError THEN c ELSE d
  BY <1>2, Zenon DEF client_connect, error
<1>7. w = IF error = NoError
          THEN [c EXCEPT !.client_state = "CLIS_CONNECTING", !.pending_error = NullOpt]
          ELSE submit([d EXCEPT !.pending_error = error], "client_disconnected")
  BY <1>6, Zenon DEF run_client_connect, error
<1> HIDE DEF c, w
<1>8. CASE error = NoError
  <2>1. w = [c EXCEPT !.client_state = "CLIS_CONNECTING", !.pending_error = NullOpt]
    BY <1>7, <1>8, Zenon
  <2>2. /\ SessionPart(w) = SessionPart(c) /\ PingPart(w) = PingPart(c)
        /\ RecoveryPart(w) = RecoveryPart(c) /\ w.tasks = c.tasks
        /\ w.client_state = "CLIS_CONNECTING" /\ w.client_fsm = c.client_fsm
        /\ w.endpoint_connector = c.endpoint_connector
        /\ w.endpoint_upstream = c.endpoint_upstream
    BY <1>4, <2>1, SMT DEF VpnRecord, SessionPart, PingPart, RecoveryPart
  <2>3. ClientOK(w)
    BY <1>2, <1>5, <2>2, SMT DEF ClientOK
  <2> QED BY <1>1, <1>5, <2>2, <2>3, Zenon DEF w
<1>9. CASE error # NoError
  <2> DEFINE e == [d EXCEPT !.pending_error = error]
  <2>1. w = submit(e, "client_disconnected")
    BY <1>7, <1>9, Zenon
  <2>2. /\ d \in VpnRecord
        /\ SessionPart(d) = SessionPart(c) /\ PingPart(d) = PingPart(c)
        /\ RecoveryPart(d) = RecoveryPart(c)
        /\ d.client_state = c.client_state /\ d.client_fsm = "S_DISCONNECTED"
        /\ d.endpoint_connector = "nullptr"
        /\ SameManagerTasks(c, d) /\ ~Has(d.tasks, Fin)
    BY <1>4, RunDisconnectEffect, Zenon
  <2> HIDE DEF d
  <2>3. /\ e \in VpnRecord
        /\ SessionPart(e) = SessionPart(d) /\ PingPart(e) = PingPart(d)
        /\ RecoveryPart(e) = RecoveryPart(d)
        /\ ClientPart(e) = ClientPart(d) /\ e.tasks = d.tasks
    BY <1>3, <2>2, PendingErrorEffect, Zenon
  <2>4. ClientOK(d)
    <3>1. Once(d.tasks, Fin)
      BY <2>2, HasNotOnce, Zenon
    <3> QED BY <1>5, <2>2, <3>1, SMT DEF ClientOK
  <2> HIDE DEF e
  <2>5. ClientOK(e)
    BY <2>3, <2>4, ClientOKFrame, Zenon
  <2>6. "client_disconnected" \in ManagerTasks /\ "client_disconnected" \in Tasks
    BY Zenon DEF ManagerTasks, Tasks
  <2>7. /\ ClientOK(w)
        /\ SessionPart(w) = SessionPart(e) /\ PingPart(w) = PingPart(e)
        /\ RecoveryPart(w) = RecoveryPart(e) /\ ClientPart(w) = ClientPart(e)
        /\ \A u : Has(w.tasks, u) <=> u = "client_disconnected" \/ Has(e.tasks, u)
    BY <2>1, <2>3, <2>5, <2>6, SubmitEffect, SubmitManagerTask, Zenon
  <2>8. w.client_state = "CLIS_DISCONNECTED"
    BY <1>5, <2>2, <2>3, <2>7, SMT DEF ClientPart
  <2>9. \A t \in ManagerTasks \ {"client_disconnected"} : Has(w.tasks, t) => Has(v.tasks, t)
    BY <1>5, <2>2, <2>3, <2>7, Zenon DEF SameManagerTasks
  <2> QED BY <1>1, <1>5, <2>2, <2>3, <2>7, <2>8, <2>9, Zenon DEF w
<1> QED BY <1>8, <1>9, Zenon

\* The client is started for a selected endpoint, with no ping running.
LEMMA ToClientConnect ==
  ASSUME NEW v, Begun(v), v.client_state = "CLIS_DISCONNECTED", ~v.pinger,
         v.selected_endpoint # NullOpt, NEW started \in BOOLEAN
  PROVE  /\ (v.state = "VPN_SS_CONNECTING" /\ Clean(v) /\ ~Has(v.tasks, "retry_connect"))
              => Consistent(run_client_connect(v, started))
         /\ v.state = "VPN_SS_RECOVERING" => Consistent(run_client_connect(v, started))
         /\ Consistent(Enter(run_client_connect(v, started), "VPN_SS_RECOVERING"))
<1> DEFINE c == run_client_connect(v, started)
           w == Enter(c, "VPN_SS_RECOVERING")
<1>0. /\ v \in VpnRecord /\ ClientOK(v) /\ v.phase # "created"
      /\ ~Has(v.tasks, "do_connect") /\ "VPN_SS_RECOVERING" \in SessionStates
  BY Zenon DEF Begun, SessionStates
<1>1. /\ c \in VpnRecord /\ ClientOK(c)
      /\ SessionPart(c) = SessionPart(v) /\ PingPart(c) = PingPart(v)
      /\ RecoveryPart(c) = RecoveryPart(v)
      /\ \/ c.client_state = "CLIS_CONNECTING"
         \/ /\ c.client_state = "CLIS_DISCONNECTED"
            /\ Has(c.tasks, "client_disconnected")
      /\ \A t \in ManagerTasks \ {"client_disconnected"} :
           Has(c.tasks, t) => Has(v.tasks, t)
  BY <1>0, RunClientConnectEffect, Zenon
<1> HIDE DEF c
<1>2. /\ ~Has(c.tasks, "do_connect")
      /\ Has(c.tasks, "retry_connect") => Has(v.tasks, "retry_connect")
  BY <1>0, <1>1, Zenon DEF ManagerTasks
<1>3. /\ c.phase = v.phase /\ c.state = v.state /\ c.pinger = v.pinger
      /\ c.selected_endpoint = v.selected_endpoint /\ (Clean(v) => Clean(c))
  BY <1>1, SMT DEF SessionPart, PingPart, RecoveryPart, Clean
<1>4. PingOK(c)
  BY <1>3, Zenon DEF PingOK
<1>5. c.client_state # "CLIS_DISCONNECTED" \/ Has(c.tasks, "client_disconnected")
  BY <1>1, Zenon
<1>6. /\ (v.state = "VPN_SS_CONNECTING" /\ Clean(v) /\ ~Has(v.tasks, "retry_connect"))
           => Consistent(c)
      /\ v.state = "VPN_SS_RECOVERING" => Consistent(c)
  BY <1>0, <1>1, <1>2, <1>3, <1>4, <1>5, Works, Zenon
<1>7. /\ w \in VpnRecord /\ w.phase = c.phase /\ w.state = "VPN_SS_RECOVERING"
      /\ PingPart(w) = PingPart(c) /\ ClientPart(w) = ClientPart(c) /\ w.tasks = c.tasks
  BY <1>0, <1>1, EnterEffect, Zenon
<1> HIDE DEF w
<1>8. /\ w.pinger = c.pinger /\ w.client_state = c.client_state
      /\ w.selected_endpoint = c.selected_endpoint
  BY <1>7, SMT DEF PingPart, ClientPart
<1>9. ClientOK(w) /\ PingOK(w)
  <2>1. ClientOK(w)
    BY <1>1, <1>7, ClientOKFrame, Zenon
  <2> QED BY <2>1, <1>3, <1>8, Zenon DEF PingOK
<1>10. Consistent(w)
  BY <1>0, <1>2, <1>3, <1>5, <1>7, <1>8, <1>9, Works, Zenon
<1> QED BY <1>6, <1>10, Zenon DEF c, w

-----------------------------------------------------------------------------
(* Events of the session machine.                                          *)

LEMMA ConnectingFailedConsistent ==
  ASSUME NEW v, Begun(v), PingOK(v), Clean(v), v.state = "VPN_SS_CONNECTING",
         NEW error \in MaybeError, NEW slow \in BOOLEAN
  PROVE  Consistent(connecting_failed(v, error, slow))
<1>1. /\ Consistent(Enter(complete_connect(v, error), "VPN_SS_DISCONNECTED"))
      /\ Consistent(Enter(prepare_for_recovery(v, error, slow), "VPN_SS_WAITING_RECOVERY"))
      /\ Consistent(retry_connect(v))
  BY ToDisconnected, ToWaitingRecovery, ToRetry, Zenon
<1> QED BY <1>1, Zenon DEF connecting_failed

LEMMA SessionFailedConsistent ==
  ASSUME NEW v, Begun(v), NEW error \in MaybeError, NEW slow \in BOOLEAN
  PROVE  Consistent(session_failed(v, error, slow))
<1>1. /\ Consistent(Enter(do_disconnect(v), "VPN_SS_DISCONNECTED"))
      /\ Consistent(Enter(prepare_for_recovery(v, error, slow), "VPN_SS_WAITING_RECOVERY"))
  BY ToRest, ToWaitingRecovery, Zenon
<1> QED BY <1>1, Zenon DEF session_failed

\* A steady state that nothing has to drive is consistent.
LEMMA SteadyConsistent ==
  ASSUME NEW v, Steady(v), ConnectedOK(v),
         v.state # "VPN_SS_CONNECTING", v.state # "VPN_SS_RECOVERING"
  PROVE  Consistent(v)
BY Zenon DEF Consistent, ConnectedOK, DrivenOK

LEMMA SteadyConnecting ==
  ASSUME NEW v, Steady(v), v.state = "VPN_SS_CONNECTING"
  PROVE  Begun(v) /\ PingOK(v) /\ Clean(v)
<1>1. Begun(v)
  BY SteadyBegun, Zenon
<1>2. PingOK(v) /\ CleanOK(v)
  BY Zenon DEF Steady
<1>3. Clean(v)
  BY <1>2, SMT DEF CleanOK
<1> QED BY <1>1, <1>2, <1>3, Zenon

\* CE_CLIENT_DISCONNECTED, whatever the session was doing with the client.
LEMMA ClientDisconnectedConsistent ==
  ASSUME NEW v, Steady(v), NEW error \in MaybeError, NEW slow \in BOOLEAN
  PROVE  Consistent(On_CLIENT_DISCONNECTED(v, error, slow))
<1> DEFINE w == On_CLIENT_DISCONNECTED(v, error, slow)
<1>1. CASE v.state = "VPN_SS_CONNECTING"
  <2>1. Consistent(connecting_failed(v, error, slow))
    BY <1>1, SteadyConnecting, ConnectingFailedConsistent, Zenon
  <2> QED BY <1>1, <2>1, Zenon DEF On_CLIENT_DISCONNECTED
<1>2. CASE v.state \in {"VPN_SS_DISCONNECTED", "VPN_SS_WAITING_RECOVERY"}
  <2>1. Consistent(v)
    BY <1>2, SteadyConsistent, Zenon DEF ConnectedOK
  <2>2. v.state # "VPN_SS_DISCONNECTED" => Consistent(session_failed(v, error, slow))
    BY SteadyBegun, SessionFailedConsistent, Zenon
  <2> QED BY <1>2, <2>1, <2>2, Zenon DEF On_CLIENT_DISCONNECTED
<1>3. CASE v.state \notin {"VPN_SS_CONNECTING", "VPN_SS_DISCONNECTED", "VPN_SS_WAITING_RECOVERY"}
  <2>1. Consistent(session_failed(v, error, slow))
    BY <1>3, SteadyBegun, SessionFailedConsistent, Zenon
  <2> QED BY <1>3, <2>1, Zenon DEF On_CLIENT_DISCONNECTED
<1> QED BY <1>1, <1>2, <1>3, Zenon

LEMMA PingFailConsistent ==
  ASSUME NEW v, Steady(v), ConnectedOK(v), NEW error \in MaybeError, NEW slow \in BOOLEAN
  PROVE  Consistent(On_PING_FAIL(v, error, slow))
<1>1. CASE v.state = "VPN_SS_CONNECTING"
  <2>1. Consistent(connecting_failed(v, error, slow))
    BY <1>1, SteadyConnecting, ConnectingFailedConsistent, Zenon
  <2> QED BY <1>1, <2>1, Zenon DEF On_PING_FAIL
<1>2. CASE v.state = "VPN_SS_RECOVERING"
  <2>1. Consistent(session_failed(v, error, slow))
    BY <1>2, SteadyBegun, SessionFailedConsistent, Zenon
  <2> QED BY <1>2, <2>1, Zenon DEF On_PING_FAIL
<1>3. CASE v.state \notin {"VPN_SS_CONNECTING", "VPN_SS_RECOVERING"}
  <2>1. Consistent(v)
    BY <1>3, SteadyConsistent, Zenon
  <2> QED BY <1>3, <2>1, Zenon DEF On_PING_FAIL
<1> QED BY <1>1, <1>2, <1>3, Zenon

LEMMA PingReadyConsistent ==
  ASSUME NEW v, Steady(v), ConnectedOK(v), ~v.pinger, v.selected_endpoint # NullOpt,
         v.client_state = "CLIS_DISCONNECTED", ~Has(v.tasks, "retry_connect"),
         NEW started \in BOOLEAN
  PROVE  Consistent(On_PING_READY(v, started))
<1>1. CASE v.state = "VPN_SS_CONNECTING"
  <2>1. Consistent(run_client_connect(v, started))
    BY <1>1, SteadyConnecting, ToClientConnect, Zenon
  <2> QED BY <1>1, <2>1, Zenon DEF On_PING_READY, connect_client
<1>2. CASE v.state = "VPN_SS_RECOVERING"
  <2>1. Consistent(run_client_connect(v, started))
    BY <1>2, SteadyBegun, ToClientConnect, Zenon
  <2>2. disconnect_client(v) = v
    BY Zenon DEF disconnect_client
  <2> QED BY <1>2, <2>1, <2>2, Zenon DEF On_PING_READY, reconnect_client
<1>3. CASE v.state \notin {"VPN_SS_CONNECTING", "VPN_SS_RECOVERING"}
  <2>1. Consistent(v)
    BY <1>3, SteadyConsistent, Zenon
  <2> QED BY <1>3, <2>1, Zenon DEF On_PING_READY
<1> QED BY <1>1, <1>2, <1>3, Zenon

LEMMA FinalizeRecoveryEffect ==
  ASSUME NEW v \in VpnRecord
  PROVE  LET w == finalize_recovery(v)
         IN /\ w \in VpnRecord /\ SessionPart(w) = SessionPart(v)
            /\ ClientPart(w) = ClientPart(v) /\ w.tasks = v.tasks
            /\ w.selected_endpoint = v.selected_endpoint /\ ~w.pinger /\ Clean(w)
<1> DEFINE r == reset_recovery(v)
           s == stop_pinging(r)
           p == [s EXCEPT !.postponement_window_timer = FALSE]
           c == complete_all(p, p.postponed_requests, BypassRequests)
           x == [c EXCEPT !.postponed_requests = {}]
           w == finalize_recovery(v)
<1>1. w \in VpnRecord
  BY FinalizeRecoveryType, Zenon
<1>2. /\ r \in VpnRecord /\ Clean(r)
      /\ SessionPart(r) = SessionPart(v) /\ PingPart(r) = PingPart(v)
      /\ ClientPart(r) = ClientPart(v) /\ r.tasks = v.tasks
  BY ResetRecoveryEffect, Zenon
<1> HIDE DEF r
<1>3. s \in VpnRecord
  BY <1>2, StopPingingType, Zenon
<1>4. p \in VpnRecord
  <2> HIDE DEF s
  <2> QED BY <1>3, Zenon DEF VpnRecord
<1>5. /\ SessionPart(p) = SessionPart(r) /\ RecoveryPart(p) = RecoveryPart(r)
      /\ ClientPart(p) = ClientPart(r) /\ p.tasks = r.tasks
      /\ p.selected_endpoint = r.selected_endpoint /\ p.pinger = FALSE
  BY <1>2, SMT DEF VpnRecord, stop_pinging, SessionPart, RecoveryPart, ClientPart
<1>6. w = reset_bypassed_connections(x)
  BY Zenon DEF finalize_recovery, complete_postponed_requests, r
<1> HIDE DEF p
<1>7. c \in VpnRecord
  BY <1>4, CompleteAllType, Zenon
<1>8. /\ SessionPart(c) = SessionPart(p) /\ RecoveryPart(c) = RecoveryPart(p)
      /\ ClientPart(c) = ClientPart(p) /\ c.tasks = p.tasks
      /\ c.selected_endpoint = p.selected_endpoint /\ c.pinger = p.pinger
  BY <1>4, SMT DEF VpnRecord, complete_all, SessionPart, RecoveryPart, ClientPart
<1> HIDE DEF c
<1>9. /\ SessionPart(w) = SessionPart(c) /\ RecoveryPart(w) = RecoveryPart(c)
      /\ ClientPart(w) = ClientPart(c) /\ w.tasks = c.tasks
      /\ w.selected_endpoint = c.selected_endpoint /\ w.pinger = c.pinger
  BY <1>6, <1>7, SMT DEF VpnRecord, reset_bypassed_connections, SessionPart, RecoveryPart,
     ClientPart
<1> HIDE DEF w
<1>10. Clean(w) /\ w.pinger = FALSE /\ w.selected_endpoint = v.selected_endpoint
  <2>1. RecoveryPart(w) = RecoveryPart(r)
    BY <1>5, <1>8, <1>9, Zenon
  <2>2. Clean(w)
    BY <1>2, <2>1, SMT DEF Clean, RecoveryPart
  <2>3. r.selected_endpoint = v.selected_endpoint
    BY <1>2, SMT DEF PingPart
  <2> QED BY <2>2, <2>3, <1>5, <1>8, <1>9, Zenon
<1> QED BY <1>1, <1>2, <1>5, <1>8, <1>9, <1>10, Zenon DEF w

\* CE_CLIENT_READY, raised by the client that has just connected.
LEMMA ClientReadyConsistent ==
  ASSUME NEW v, Begun(v), v.client_state = "CLIS_CONNECTED", ~v.pinger,
         v.state \in {"VPN_SS_DISCONNECTED", "VPN_SS_CONNECTING", "VPN_SS_RECOVERING"},
         v.state # "VPN_SS_DISCONNECTED" => v.selected_endpoint # NullOpt,
         v.state = "VPN_SS_DISCONNECTED" => Clean(v)
  PROVE  Consistent(On_CLIENT_READY(v))
<1>0. /\ v \in VpnRecord /\ ClientOK(v) /\ v.phase # "created"
      /\ ~Has(v.tasks, "do_connect") /\ "VPN_SS_CONNECTED" \in SessionStates
      /\ NullOpt \in MaybeError /\ PingOK(v)
  BY Zenon DEF Begun, SessionStates, MaybeError, PingOK
<1>1. ASSUME NEW u \in VpnRecord, u.phase = v.phase, ClientPart(u) = ClientPart(v),
             u.tasks = v.tasks, ~u.pinger, Clean(u), u.selected_endpoint # NullOpt
      PROVE  Consistent(Enter(u, "VPN_SS_CONNECTED"))
  <2> DEFINE w == Enter(u, "VPN_SS_CONNECTED")
  <2>1. /\ w \in VpnRecord /\ w.phase = u.phase /\ w.state = "VPN_SS_CONNECTED"
        /\ PingPart(w) = PingPart(u) /\ RecoveryPart(w) = RecoveryPart(u)
        /\ ClientPart(w) = ClientPart(u) /\ w.tasks = u.tasks
    BY <1>0, EnterEffect, Zenon
  <2> HIDE DEF w
  <2>2. /\ w.pinger = u.pinger /\ w.selected_endpoint = u.selected_endpoint
        /\ w.client_state = "CLIS_CONNECTED" /\ Clean(w)
    BY <1>1, <2>1, SMT DEF PingPart, RecoveryPart, ClientPart, Clean
  <2>3. ClientOK(w)
    BY <1>0, <1>1, <2>1, ClientOKFrame, Zenon
  <2>4. PingOK(w) /\ BeginOK(w) /\ QuietOK(w) /\ ArmedOK(w) /\ CleanOK(w)
    BY <1>0, <1>1, <2>1, <2>2, HasNotOnce, SMT DEF PingOK, BeginOK, QuietOK, ArmedOK, CleanOK
  <2>5. EndpointOK(w) /\ RetryOK(w) /\ ConnectedOK(w) /\ DrivenOK(w)
    BY <1>1, <2>1, <2>2, SMT DEF EndpointOK, RetryOK, ConnectedOK, DrivenOK
  <2> QED BY <2>1, <2>3, <2>4, <2>5, Zenon DEF w, Consistent, Steady
<1>2. CASE v.state = "VPN_SS_CONNECTING"
  <2> DEFINE c == complete_connect(v, NullOpt)
  <2>1. /\ c \in VpnRecord /\ Clean(c) /\ c.phase = v.phase
        /\ PingPart(c) = PingPart(v) /\ ClientPart(c) = ClientPart(v) /\ c.tasks = v.tasks
    BY <1>0, CompleteConnectEffect, Zenon
  <2> HIDE DEF c
  <2>2. c.pinger = v.pinger /\ c.selected_endpoint = v.selected_endpoint
    BY <2>1, SMT DEF PingPart
  <2>3. Consistent(Enter(c, "VPN_SS_CONNECTED"))
    BY <1>1, <1>2, <2>1, <2>2, Zenon
  <2> QED BY <1>2, <2>3, Zenon DEF c, On_CLIENT_READY
<1>3. CASE v.state = "VPN_SS_RECOVERING"
  <2> DEFINE c == finalize_recovery(v)
  <2>1. /\ c \in VpnRecord /\ SessionPart(c) = SessionPart(v)
        /\ ClientPart(c) = ClientPart(v) /\ c.tasks = v.tasks
        /\ c.selected_endpoint = v.selected_endpoint /\ ~c.pinger /\ Clean(c)
    BY <1>0, FinalizeRecoveryEffect, Zenon
  <2> HIDE DEF c
  <2>2. c.phase = v.phase
    BY <2>1, SMT DEF SessionPart
  <2>3. Consistent(Enter(c, "VPN_SS_CONNECTED"))
    BY <1>1, <1>3, <2>1, <2>2, Zenon
  <2> QED BY <1>3, <2>3, Zenon DEF c, On_CLIENT_READY
<1>4. CASE v.state = "VPN_SS_DISCONNECTED"
  <2>1. Consistent(v)
    BY <1>0, <1>4, Idles, Zenon
  <2> QED BY <1>4, <2>1, Zenon DEF On_CLIENT_READY
<1> QED BY <1>2, <1>3, <1>4, Zenon

\* CE_NETWORK_CHANGE, the event with the most rows.
LEMMA NetworkChangeConsistent ==
  ASSUME NEW v, Consistent(v), NEW lost \in BOOLEAN, NEW slow \in BOOLEAN
  PROVE  Consistent(On_NETWORK_CHANGE(v, lost, slow))
<1>0. Steady(v) /\ PingOK(v) /\ QuietOK(v) /\ CleanOK(v)
  BY Zenon DEF Consistent, Steady
<1>1. /\ "VPN_EC_INITIAL_CONNECT_FAILED" \in MaybeError /\ NullOpt \in MaybeError
  BY ErrorsType, Zenon
<1>2. v.state \in {"VPN_SS_CONNECTING", "VPN_SS_WAITING_FOR_NETWORK"} =>
        /\ Consistent(Enter(fail_connect_with_no_attempts(v), "VPN_SS_DISCONNECTED"))
        /\ v.state = "VPN_SS_CONNECTING" => Consistent(retry_connect(v))
        /\ Consistent(Enter(retry_connect(v), "VPN_SS_CONNECTING"))
  <2> SUFFICES ASSUME v.state \in {"VPN_SS_CONNECTING", "VPN_SS_WAITING_FOR_NETWORK"}
               PROVE  /\ Consistent(Enter(fail_connect_with_no_attempts(v),
                                          "VPN_SS_DISCONNECTED"))
                      /\ v.state = "VPN_SS_CONNECTING" => Consistent(retry_connect(v))
                      /\ Consistent(Enter(retry_connect(v), "VPN_SS_CONNECTING"))
    BY Zenon
  <2>1. Begun(v)
    BY <1>0, SteadyBegun, Zenon
  <2>2. Clean(v)
    BY <1>0, SMT DEF CleanOK
  <2>3. Consistent(Enter(fail_connect_with_no_attempts(v), "VPN_SS_DISCONNECTED"))
    BY <1>0, <1>1, <2>1, ToDisconnected, Zenon DEF fail_connect_with_no_attempts
  <2> QED BY <2>1, <2>2, <2>3, ToRetry, Zenon
<1>3. v.state # "VPN_SS_DISCONNECTED" =>
        /\ Consistent(Enter(do_disconnect(v), "VPN_SS_WAITING_FOR_NETWORK"))
        /\ Consistent(Enter(prepare_for_recovery(v, NullOpt, slow), "VPN_SS_WAITING_RECOVERY"))
  BY <1>0, <1>1, SteadyBegun, ToRest, ToWaitingRecovery, Zenon
<1>4. v.state = "VPN_SS_WAITING_RECOVERY" =>
        Consistent(Enter(run_ping(v), "VPN_SS_RECOVERING"))
  <2> SUFFICES ASSUME v.state = "VPN_SS_WAITING_RECOVERY"
               PROVE  Consistent(Enter(run_ping(v), "VPN_SS_RECOVERING"))
    BY Zenon
  <2>1. v.client_state = "CLIS_DISCONNECTED"
    BY <1>0, Zenon DEF QuietOK
  <2> QED BY <1>0, <2>1, SteadyBegun, ToPing, Zenon
<1> QED BY <1>2, <1>3, <1>4, ZenonT(60) DEF On_NETWORK_CHANGE

\* CE_DO_RECOVERY, from the recovery timer or from vpn_force_reconnect.
LEMMA DoRecoveryConsistent ==
  ASSUME NEW v,
         v.state = "VPN_SS_WAITING_RECOVERY" =>
           /\ Begun(v) /\ ~v.pinger /\ v.client_state = "CLIS_DISCONNECTED",
         v.state # "VPN_SS_WAITING_RECOVERY" => Consistent(v),
         NEW late \in BOOLEAN, NEW started \in BOOLEAN
  PROVE  Consistent(On_DO_RECOVERY(v, late, started))
<1>1. CASE v.state # "VPN_SS_WAITING_RECOVERY"
  BY <1>1, Zenon DEF On_DO_RECOVERY
<1>2. CASE v.state = "VPN_SS_WAITING_RECOVERY"
  <2>1. Consistent(Enter(run_ping(v), "VPN_SS_RECOVERING"))
    BY <1>2, ToPing, Zenon
  <2>2. v.selected_endpoint # NullOpt =>
          Consistent(Enter(run_client_connect(v, started), "VPN_SS_RECOVERING"))
    BY <1>2, ToClientConnect, Zenon
  <2>3. ~need_to_ping_on_recovery(v, late) => v.selected_endpoint # NullOpt
    BY Zenon DEF need_to_ping_on_recovery
  <2> QED BY <1>2, <2>1, <2>2, <2>3, Zenon DEF On_DO_RECOVERY, connect_client
<1> QED BY <1>1, <1>2, Zenon

\* CE_ABANDON_ENDPOINT; the endpoint may have been deselected just before.
LEMMA AbandonEventConsistent ==
  ASSUME NEW v, Consistent(v), NEW u \in VpnRecord, PingOK(u),
         SessionPart(u) = SessionPart(v), RecoveryPart(u) = RecoveryPart(v),
         ClientPart(u) = ClientPart(v), u.tasks = v.tasks, u.pinger = v.pinger,
         NEW slow \in BOOLEAN
  PROVE  Consistent(On_ABANDON_ENDPOINT(u, slow))
<1>0. /\ ClientOK(v) /\ BeginOK(v) /\ QuietOK(v) /\ ArmedOK(v) /\ CleanOK(v)
      /\ NullOpt \in MaybeError
  BY Zenon DEF Consistent, Steady, MaybeError
<1>1. /\ u.phase = v.phase /\ u.state = v.state /\ u.client_state = v.client_state
      /\ u.recovery_task = v.recovery_task
      /\ Clean(v) => Clean(u)
  BY SMT DEF SessionPart, RecoveryPart, ClientPart, Clean
<1>2. ClientOK(u) /\ BeginOK(u) /\ QuietOK(u) /\ ArmedOK(u) /\ CleanOK(u)
  <2>1. ClientOK(u)
    BY <1>0, ClientOKFrame, Zenon
  <2> QED BY <2>1, <1>0, <1>1, Zenon DEF BeginOK, QuietOK, ArmedOK, CleanOK
<1>3. CASE u.state \in {"VPN_SS_CONNECTING", "VPN_SS_CONNECTED", "VPN_SS_RECOVERING"}
  <2>1. Begun(u)
    BY <1>2, <1>3, Zenon DEF Begun, BeginOK
  <2>2. u.state = "VPN_SS_CONNECTING" =>
          /\ Consistent(Enter(complete_connect(u, NullOpt), "VPN_SS_DISCONNECTED"))
          /\ Consistent(retry_connect(u))
    BY <1>0, <1>2, <2>1, ToDisconnected, ToRetry, Zenon DEF CleanOK
  <2>3. Consistent(session_failed(u, NullOpt, slow))
    BY <1>0, <2>1, SessionFailedConsistent, Zenon
  <2> QED BY <1>3, <2>2, <2>3, Zenon DEF On_ABANDON_ENDPOINT
<1>4. CASE u.state \notin {"VPN_SS_CONNECTING", "VPN_SS_CONNECTED", "VPN_SS_RECOVERING"}
  <2>1. EndpointOK(u) /\ RetryOK(u) /\ ConnectedOK(u) /\ DrivenOK(u)
    BY <1>4, Zenon DEF EndpointOK, RetryOK, ConnectedOK, DrivenOK
  <2>2. Consistent(u)
    BY <1>2, <2>1, Zenon DEF Consistent, Steady
  <2>3. u.state = "VPN_SS_WAITING_RECOVERY" =>
          Consistent(Enter(do_disconnect(u), "VPN_SS_DISCONNECTED"))
    BY <1>2, ToRest, Zenon DEF Begun, BeginOK
  <2> QED BY <1>4, <2>2, <2>3, Zenon DEF On_ABANDON_ENDPOINT
<1> QED BY <1>3, <1>4, Zenon

LEMMA AbandonConsistent ==
  ASSUME NEW v, Consistent(v), NEW e \in Endpoints, NEW slow \in BOOLEAN
  PROVE  Consistent(abandon_endpoint(v, e, slow))
<1> DEFINE es == v.endpoints \ {e}
           se == IF v.selected_endpoint = e THEN NullOpt ELSE v.selected_endpoint
           w == [v EXCEPT !.endpoints = es, !.selected_endpoint = se]
           x == [w EXCEPT !.endpoints = {}, !.pending_error = "VPN_EC_LOCATION_UNAVAILABLE"]
           y == [w EXCEPT !.pending_error = "VPN_EC_ERROR",
                          !.ping_failure_induces_location_unavailable = TRUE]
<1>0. v \in VpnRecord /\ PingOK(v)
  BY Zenon DEF Consistent, Steady
<1>1. es \in SUBSET Endpoints /\ se \in Endpoints \cup {NullOpt}
  BY <1>0, Zenon DEF VpnRecord
<1>2. e # NullOpt
  BY ConstantsAssumption, Zenon
<1>3. /\ v.selected_endpoint # e => se = v.selected_endpoint
      /\ v.selected_endpoint = e => ~v.pinger
  BY <1>0, <1>2, Zenon DEF PingOK
<1>4. \/ abandon_endpoint(v, e, slow) = w /\ v.selected_endpoint # e
      \/ abandon_endpoint(v, e, slow) = On_ABANDON_ENDPOINT(x, slow)
      \/ abandon_endpoint(v, e, slow) = On_ABANDON_ENDPOINT(y, slow) /\ v.selected_endpoint = e
  <2>1. CASE family_exhausted(v, e)
    <3>1. abandon_endpoint(v, e, slow) = On_ABANDON_ENDPOINT(x, slow)
      BY <2>1, Zenon DEF abandon_endpoint
    <3> QED BY <3>1, Zenon
  <2>2. CASE ~family_exhausted(v, e) /\ v.selected_endpoint = e
    <3>1. abandon_endpoint(v, e, slow) = On_ABANDON_ENDPOINT(y, slow)
      BY <2>2, Zenon DEF abandon_endpoint
    <3> QED BY <2>2, <3>1, Zenon
  <2>3. CASE ~family_exhausted(v, e) /\ v.selected_endpoint # e
    <3>1. abandon_endpoint(v, e, slow) = w
      BY <2>3, Zenon DEF abandon_endpoint
    <3> QED BY <2>3, <3>1, Zenon
  <2> QED BY <2>1, <2>2, <2>3, Zenon
<1> HIDE DEF es, se
<1>5. w \in VpnRecord
  BY <1>0, <1>1, Zenon DEF VpnRecord
<1>6. /\ SessionPart(w) = SessionPart(v) /\ RecoveryPart(w) = RecoveryPart(v)
      /\ ClientPart(w) = ClientPart(v) /\ w.tasks = v.tasks /\ w.pinger = v.pinger
      /\ w.selected_endpoint = se
      /\ w.ping_failure_induces_location_unavailable =
           v.ping_failure_induces_location_unavailable
  BY <1>0, SMT DEF VpnRecord, SessionPart, RecoveryPart, ClientPart
<1> HIDE DEF w
<1>7. x \in VpnRecord /\ y \in VpnRecord
  <2>1. /\ "VPN_EC_LOCATION_UNAVAILABLE" \in MaybeError /\ "VPN_EC_ERROR" \in MaybeError
        /\ {} \in SUBSET Endpoints /\ TRUE \in BOOLEAN
    BY ErrorsType, Zenon
  <2>2. x \in VpnRecord
    BY <1>5, <2>1, Zenon DEF VpnRecord
  <2>3. y \in VpnRecord
    BY <1>5, <2>1, Zenon DEF VpnRecord
  <2> QED BY <2>2, <2>3, Zenon
<1>8. /\ SessionPart(x) = SessionPart(w) /\ RecoveryPart(x) = RecoveryPart(w)
      /\ ClientPart(x) = ClientPart(w) /\ x.tasks = w.tasks /\ PingPart(x) = PingPart(w)
      /\ x.pinger = w.pinger
      /\ SessionPart(y) = SessionPart(w) /\ RecoveryPart(y) = RecoveryPart(w)
      /\ ClientPart(y) = ClientPart(w) /\ y.tasks = w.tasks /\ y.pinger = w.pinger
  BY <1>5, SMT DEF VpnRecord, SessionPart, RecoveryPart, ClientPart, PingPart
<1> HIDE DEF x, y
<1>9. PingOK(w)
  <2>1. w.client_state = v.client_state
    BY <1>6, SMT DEF ClientPart
  <2> QED BY <1>0, <1>3, <1>6, <2>1, Zenon DEF PingOK
<1>10. Consistent(On_ABANDON_ENDPOINT(x, slow))
  <2>1. PingOK(x)
    BY <1>8, <1>9, SMT DEF PingOK, PingPart, ClientPart
  <2> QED BY <1>6, <1>7, <1>8, <2>1, AbandonEventConsistent, Zenon
<1>11. v.selected_endpoint = e => Consistent(On_ABANDON_ENDPOINT(y, slow))
  <2> SUFFICES ASSUME v.selected_endpoint = e PROVE Consistent(On_ABANDON_ENDPOINT(y, slow))
    BY Zenon
  <2>1. PingOK(y)
    BY <1>3, <1>6, <1>8, Zenon DEF PingOK
  <2> QED BY <1>6, <1>7, <1>8, <2>1, AbandonEventConsistent, Zenon
<1>12. v.selected_endpoint # e => Consistent(w)
  <2> SUFFICES ASSUME v.selected_endpoint # e PROVE Consistent(w)
    BY Zenon
  <2>1. PingPart(w) = PingPart(v)
    BY <1>3, <1>6, SMT DEF PingPart
  <2> QED BY <1>5, <1>6, <2>1, ConsistentFrame, Zenon
<1> QED BY <1>4, <1>10, <1>11, <1>12, Zenon

-----------------------------------------------------------------------------
(* Events of the client.                                                   *)

SessionTasks == {"do_connect", "retry_connect", "client_disconnected", "failed_recovery"}

\* The same tasks that the invariant mentions are queued.
SameSessionTasks(v, w) ==
  /\ \A t \in SessionTasks : Has(w.tasks, t) <=> Has(v.tasks, t)
  /\ Once(v.tasks, "do_connect") => Once(w.tasks, "do_connect")

LEMMA SameTasks ==
  ASSUME NEW v, NEW w
  PROVE  /\ SameManagerTasks(v, w) => SameSessionTasks(v, w)
         /\ v.tasks = w.tasks => SameSessionTasks(v, w)
<1>1. SessionTasks \subseteq ManagerTasks
  BY Zenon DEF SessionTasks, ManagerTasks
<1> QED BY <1>1, Zenon DEF SameManagerTasks, SameSessionTasks

LEMMA SubmitOtherTask ==
  ASSUME NEW v \in VpnRecord, NEW t \in Tasks, t \notin SessionTasks
  PROVE  SameSessionTasks(v, submit(v, t))
<1>1. t # "do_connect"
  BY Zenon DEF SessionTasks
<1> QED BY <1>1, SubmitEffect, Zenon DEF SameSessionTasks

\* A callback that changes only the inside of the client.
LEMMA ClientFrame ==
  ASSUME NEW v, Consistent(v), NEW w \in VpnRecord, ClientOK(w), w.phase # "created",
         w.state = v.state, PingPart(w) = PingPart(v), RecoveryPart(w) = RecoveryPart(v),
         w.client_state = v.client_state, SameSessionTasks(v, w)
  PROVE  Consistent(w)
<1>0. /\ PingOK(v) /\ BeginOK(v) /\ QuietOK(v) /\ ArmedOK(v) /\ CleanOK(v)
      /\ EndpointOK(v) /\ RetryOK(v) /\ ConnectedOK(v) /\ DrivenOK(v)
  BY Zenon DEF Consistent, Steady
<1>1. /\ w.pinger = v.pinger /\ w.selected_endpoint = v.selected_endpoint
      /\ w.ping_failure_induces_location_unavailable =
           v.ping_failure_induces_location_unavailable
      /\ w.recovery_task = v.recovery_task /\ (Clean(v) => Clean(w))
  BY SMT DEF PingPart, RecoveryPart, Clean
<1>2. /\ \A t \in SessionTasks : Has(w.tasks, t) <=> Has(v.tasks, t)
      /\ Once(v.tasks, "do_connect") => Once(w.tasks, "do_connect")
  BY Zenon DEF SameSessionTasks
<1>3. /\ Has(w.tasks, "do_connect") <=> Has(v.tasks, "do_connect")
      /\ Has(w.tasks, "retry_connect") <=> Has(v.tasks, "retry_connect")
      /\ Has(w.tasks, "client_disconnected") <=> Has(v.tasks, "client_disconnected")
      /\ Has(w.tasks, "failed_recovery") <=> Has(v.tasks, "failed_recovery")
  BY <1>2, Zenon DEF SessionTasks
<1>4. PingOK(w) /\ BeginOK(w) /\ QuietOK(w) /\ ArmedOK(w) /\ CleanOK(w)
  BY <1>0, <1>1, <1>2, <1>3, Zenon DEF PingOK, BeginOK, QuietOK, ArmedOK, CleanOK
<1>5. EndpointOK(w) /\ RetryOK(w) /\ ConnectedOK(w) /\ DrivenOK(w)
  BY <1>0, <1>1, <1>3, Zenon DEF EndpointOK, RetryOK, ConnectedOK, DrivenOK
<1> QED BY <1>4, <1>5, Zenon DEF Consistent, Steady

\* The client is off: what is left is steady, though nothing may drive it.
LEMMA LostClient ==
  ASSUME NEW v, Consistent(v), NEW w \in VpnRecord, ClientOK(w), w.phase # "created",
         w.state = v.state, PingPart(w) = PingPart(v), RecoveryPart(w) = RecoveryPart(v),
         w.client_state = "CLIS_DISCONNECTED", SameSessionTasks(v, w)
  PROVE  Steady(w)
<1>0. /\ PingOK(v) /\ BeginOK(v) /\ QuietOK(v) /\ ArmedOK(v) /\ CleanOK(v)
  BY Zenon DEF Consistent, Steady
<1>1. /\ w.pinger = v.pinger /\ w.selected_endpoint = v.selected_endpoint
      /\ w.ping_failure_induces_location_unavailable =
           v.ping_failure_induces_location_unavailable
      /\ w.recovery_task = v.recovery_task /\ (Clean(v) => Clean(w))
  BY SMT DEF PingPart, RecoveryPart, Clean
<1>2. /\ Has(w.tasks, "do_connect") <=> Has(v.tasks, "do_connect")
      /\ Has(w.tasks, "failed_recovery") <=> Has(v.tasks, "failed_recovery")
      /\ Once(v.tasks, "do_connect") => Once(w.tasks, "do_connect")
  BY Zenon DEF SameSessionTasks, SessionTasks
<1>3. PingOK(w) /\ BeginOK(w) /\ QuietOK(w) /\ ArmedOK(w) /\ CleanOK(w)
  BY <1>0, <1>1, <1>2, Zenon DEF PingOK, BeginOK, QuietOK, ArmedOK, CleanOK
<1>4. EndpointOK(w) /\ RetryOK(w)
  BY Zenon DEF EndpointOK, RetryOK
<1> QED BY <1>3, <1>4, Zenon DEF Steady

\* raise_disconnected after the client's machine has become S_DISCONNECTED.
LEMMA RaiseDisconnectedConsistent ==
  ASSUME NEW v, Consistent(v), NEW w \in VpnRecord, w.phase # "created",
         w.state = v.state, PingPart(w) = PingPart(v), RecoveryPart(w) = RecoveryPart(v),
         SameSessionTasks(v, w), w.client_fsm = "S_DISCONNECTED",
         w.endpoint_upstream = "nullptr" =>
           w.endpoint_connector = "nullptr" /\ ~Has(w.tasks, Fin),
         NEW slow \in BOOLEAN
  PROVE  Consistent(raise_disconnected(w, slow))
<1> DEFINE u == [w EXCEPT !.client_state = "CLIS_DISCONNECTED",
                          !.client_pending_error = NullOpt]
<1>1. w.client_pending_error \in MaybeError /\ NullOpt \in MaybeError
  BY ErrorsType, Zenon DEF VpnRecord
<1>2. u \in VpnRecord
  BY <1>1, ClientConstantsType, Zenon DEF VpnRecord
<1>3. /\ u.phase = w.phase /\ u.state = w.state /\ PingPart(u) = PingPart(w)
      /\ RecoveryPart(u) = RecoveryPart(w) /\ u.tasks = w.tasks
      /\ u.client_state = "CLIS_DISCONNECTED" /\ u.client_fsm = w.client_fsm
      /\ u.endpoint_upstream = w.endpoint_upstream
      /\ u.endpoint_connector = w.endpoint_connector
  BY SMT DEF VpnRecord, PingPart, RecoveryPart
<1>4. raise_disconnected(w, slow) =
        On_CLIENT_DISCONNECTED(u, w.client_pending_error, slow)
  BY Zenon DEF raise_disconnected
<1> HIDE DEF u
<1>5. ClientOK(u)
  <2>1. u.endpoint_upstream = "nullptr" => ~Has(u.tasks, Fin) /\ Once(u.tasks, Fin)
    BY <1>3, HasNotOnce, Zenon
  <2> QED BY <1>3, <2>1, SMT DEF ClientOK
<1>6. SameSessionTasks(v, u)
  BY <1>3, Zenon DEF SameSessionTasks
<1>7. Steady(u)
  BY <1>2, <1>3, <1>5, <1>6, LostClient, Zenon
<1> QED BY <1>1, <1>4, <1>7, ClientDisconnectedConsistent, Zenon

LEMMA SessionClosedConsistent ==
  ASSUME NEW v, Consistent(v), NEW w \in VpnRecord, w.phase # "created",
         w.state = v.state, PingPart(w) = PingPart(v), RecoveryPart(w) = RecoveryPart(v),
         SameSessionTasks(v, w),
         w.endpoint_upstream = "nullptr" =>
           w.endpoint_connector = "nullptr" /\ ~Has(w.tasks, Fin),
         NEW slow \in BOOLEAN
  PROVE  Consistent(session_closed(w, slow))
<1> DEFINE u == [w EXCEPT !.client_fsm = "S_DISCONNECTED"]
<1>1. u \in VpnRecord
  BY ClientConstantsType, Zenon DEF VpnRecord
<1>2. /\ u.phase = w.phase /\ u.state = w.state /\ PingPart(u) = PingPart(w)
      /\ RecoveryPart(u) = RecoveryPart(w) /\ u.tasks = w.tasks
      /\ u.client_fsm = "S_DISCONNECTED"
      /\ u.endpoint_upstream = w.endpoint_upstream
      /\ u.endpoint_connector = w.endpoint_connector
  BY SMT DEF VpnRecord, PingPart, RecoveryPart
<1>3. session_closed(w, slow) = raise_disconnected(u, slow)
  BY Zenon DEF session_closed
<1> HIDE DEF u
<1>4. SameSessionTasks(v, u)
  BY <1>2, Zenon DEF SameSessionTasks
<1> QED BY <1>1, <1>2, <1>3, <1>4, RaiseDisconnectedConsistent, Zenon

\* endpoint_connector_finalizer.  Without an upstream the task was the only one
\* of its kind and carries an error, so a client never connects to nothing.
LEMMA FinalizerConsistent ==
  ASSUME NEW v, Consistent(v), v.phase # "created",
         v.endpoint_upstream = "nullptr" =>
           v.client_pending_error # NullOpt /\ ~Has(v.tasks, Fin),
         NEW slow \in BOOLEAN
  PROVE  Consistent(endpoint_connector_finalizer(v, slow))
<1> DEFINE w == [v EXCEPT !.endpoint_connector = "nullptr"]
           opened == [w EXCEPT !.endpoint_upstream_connected = TRUE]
           ready == [opened EXCEPT !.client_fsm = "S_CONNECTED"]
           u == [ready EXCEPT !.client_state = "CLIS_CONNECTED"]
<1>0. /\ v \in VpnRecord /\ ClientOK(v) /\ PingOK(v) /\ BeginOK(v) /\ QuietOK(v)
      /\ CleanOK(v) /\ EndpointOK(v) /\ ConnectedOK(v)
  BY Zenon DEF Consistent, Steady
<1>1. w \in VpnRecord
  BY <1>0, ClientConstantsType, Zenon DEF VpnRecord
<1>2. /\ w.phase = v.phase /\ w.state = v.state /\ PingPart(w) = PingPart(v)
      /\ RecoveryPart(w) = RecoveryPart(v) /\ w.tasks = v.tasks
      /\ w.client_state = v.client_state /\ w.client_fsm = v.client_fsm
      /\ w.client_pending_error = v.client_pending_error
      /\ w.endpoint_upstream = v.endpoint_upstream /\ w.endpoint_connector = "nullptr"
  BY <1>0, SMT DEF VpnRecord, PingPart, RecoveryPart
<1>3. v.client_pending_error # NullOpt => Consistent(session_closed(w, slow))
  <2> HIDE DEF w
  <2> SUFFICES Consistent(session_closed(w, slow))
    BY Zenon
  <2>1. SameSessionTasks(v, w)
    BY <1>2, SameTasks, Zenon
  <2> QED BY <1>1, <1>2, <2>1, SessionClosedConsistent, Zenon
<1>4. endpoint_connector_finalizer(v, slow) =
        IF v.client_pending_error # NullOpt THEN session_closed(w, slow)
        ELSE IF v.client_fsm = "S_CONNECTING" THEN On_CLIENT_READY(u) ELSE opened
  <2>1. CASE v.client_pending_error # NullOpt
    BY <2>1, Zenon DEF endpoint_connector_finalizer
  <2>2. CASE v.client_pending_error = NullOpt /\ v.client_fsm = "S_CONNECTING"
    BY <2>2, Zenon DEF endpoint_connector_finalizer, client_connected
  <2>3. CASE v.client_pending_error = NullOpt /\ v.client_fsm # "S_CONNECTING"
    BY <2>3, Zenon DEF endpoint_connector_finalizer
  <2> QED BY <2>1, <2>2, <2>3, Zenon
<1> HIDE DEF w
<1>5. opened \in VpnRecord
  BY <1>1, Zenon DEF VpnRecord
<1>6. ready \in VpnRecord
  <2> HIDE DEF opened
  <2> QED BY <1>5, ClientConstantsType, Zenon DEF VpnRecord
<1>7. u \in VpnRecord
  <2> HIDE DEF ready
  <2> QED BY <1>6, ClientConstantsType, Zenon DEF VpnRecord
<1>8. /\ opened.phase = w.phase /\ opened.state = w.state /\ PingPart(opened) = PingPart(w)
      /\ RecoveryPart(opened) = RecoveryPart(w) /\ opened.tasks = w.tasks
      /\ opened.client_state = w.client_state /\ opened.client_fsm = w.client_fsm
      /\ opened.endpoint_upstream = w.endpoint_upstream
      /\ opened.endpoint_connector = w.endpoint_connector
  BY <1>1, SMT DEF VpnRecord, PingPart, RecoveryPart
<1>9. /\ u.phase = w.phase /\ u.state = w.state /\ PingPart(u) = PingPart(w)
      /\ RecoveryPart(u) = RecoveryPart(w) /\ u.tasks = w.tasks
      /\ u.client_state = "CLIS_CONNECTED" /\ u.client_fsm = "S_CONNECTED"
      /\ u.endpoint_upstream = w.endpoint_upstream
  BY <1>1, SMT DEF VpnRecord, PingPart, RecoveryPart
<1> HIDE DEF opened, u
<1>10. v.client_pending_error = NullOpt /\ v.client_fsm = "S_CONNECTING" =>
         Consistent(On_CLIENT_READY(u))
  <2> SUFFICES ASSUME v.client_pending_error = NullOpt, v.client_fsm = "S_CONNECTING"
               PROVE  Consistent(On_CLIENT_READY(u))
    BY Zenon
  <2>1. u.endpoint_upstream # "nullptr"
    BY <1>2, <1>9, Zenon
  <2>2. v.client_state = "CLIS_CONNECTING"
    BY <1>0, SMT DEF ClientOK, VpnRecord, ClientConnectionStates
  <2>3. ClientOK(u)
    BY <1>9, <2>1, SMT DEF ClientOK
  <2>4. ~v.pinger /\ ~Has(v.tasks, "do_connect")
    BY <1>0, <2>2, SMT DEF PingOK, BeginOK
  <2>5. Begun(u)
    BY <1>2, <1>7, <1>9, <2>3, <2>4, Zenon DEF Begun
  <2>6. u.state = v.state /\ u.pinger = v.pinger /\ u.selected_endpoint = v.selected_endpoint
    BY <1>2, <1>9, SMT DEF PingPart
  <2>7. v.state \in {"VPN_SS_DISCONNECTED", "VPN_SS_CONNECTING", "VPN_SS_RECOVERING"}
    BY <1>0, <2>2, SMT DEF VpnRecord, SessionStates, QuietOK, ConnectedOK
  <2>8. v.state # "VPN_SS_DISCONNECTED" => v.selected_endpoint # NullOpt
    BY <1>0, <2>2, <2>7, SMT DEF EndpointOK
  <2>9. v.state = "VPN_SS_DISCONNECTED" => Clean(u)
    <3>1. v.state = "VPN_SS_DISCONNECTED" => Clean(v)
      BY <1>0, SMT DEF CleanOK
    <3>2. Clean(v) => Clean(u)
      BY <1>2, <1>9, SMT DEF Clean, RecoveryPart
    <3> QED BY <3>1, <3>2, Zenon
  <2> QED BY <1>9, <2>4, <2>5, <2>6, <2>7, <2>8, <2>9, ClientReadyConsistent, Zenon
<1>11. v.client_pending_error = NullOpt /\ v.client_fsm # "S_CONNECTING" => Consistent(opened)
  <2> SUFFICES ASSUME v.client_pending_error = NullOpt, v.client_fsm # "S_CONNECTING"
               PROVE  Consistent(opened)
    BY Zenon
  <2>1. opened.endpoint_upstream # "nullptr"
    BY <1>2, <1>8, Zenon
  <2>2. ClientOK(opened)
    BY <1>0, <1>2, <1>8, <2>1, SMT DEF ClientOK
  <2>3. SameSessionTasks(v, opened)
    BY <1>2, <1>8, SameTasks, Zenon
  <2> QED BY <1>2, <1>5, <1>8, <2>2, <2>3, ClientFrame, Zenon
<1> QED BY <1>3, <1>4, <1>10, <1>11, Zenon

LEMMA DeferredDisconnectConsistent ==
  ASSUME NEW v, Consistent(v), v.phase # "created", NEW slow \in BOOLEAN
  PROVE  Consistent(deferred_disconnect(v, slow))
<1> DEFINE w == run_disconnect(v)
<1>0. v \in VpnRecord
  BY Zenon DEF Consistent, Steady
<1>1. /\ w \in VpnRecord /\ SessionPart(w) = SessionPart(v) /\ PingPart(w) = PingPart(v)
      /\ RecoveryPart(w) = RecoveryPart(v) /\ w.client_fsm = "S_DISCONNECTED"
      /\ w.endpoint_connector = "nullptr" /\ SameManagerTasks(v, w) /\ ~Has(w.tasks, Fin)
  BY <1>0, RunDisconnectEffect, Zenon
<1> HIDE DEF w
<1>2. w.phase = v.phase /\ w.state = v.state
  BY <1>1, SMT DEF SessionPart
<1>3. SameSessionTasks(v, w)
  BY <1>1, SameTasks, Zenon
<1>4. Consistent(raise_disconnected(w, slow))
  BY <1>1, <1>2, <1>3, RaiseDisconnectedConsistent, Zenon
<1> QED BY <1>4, Zenon DEF deferred_disconnect, w

LEMMA SubmitDisconnectConsistent ==
  ASSUME NEW v, Consistent(v), v.phase # "created", NEW error \in MaybeError
  PROVE  Consistent(submit_disconnect(v, error))
<1> DEFINE p == IF v.client_pending_error = NullOpt /\ error \notin {NullOpt, NoError}
                THEN error ELSE v.client_pending_error
           c == [v EXCEPT !.client_fsm = "S_DISCONNECTING", !.client_pending_error = p]
           w == submit(c, "deferred_disconnect")
<1>0. v \in VpnRecord /\ ClientOK(v)
  BY Zenon DEF Consistent, Steady
<1>1. p \in MaybeError
  BY <1>0, Zenon DEF VpnRecord
<1>2. submit_disconnect(v, error) = IF v.client_fsm # "S_CONNECTED" THEN v ELSE w
  BY Zenon DEF submit_disconnect
<1> HIDE DEF p
<1>3. c \in VpnRecord
  BY <1>0, <1>1, ClientConstantsType, Zenon DEF VpnRecord
<1>4. /\ c.phase = v.phase /\ c.state = v.state /\ PingPart(c) = PingPart(v)
      /\ RecoveryPart(c) = RecoveryPart(v) /\ c.tasks = v.tasks
      /\ c.client_state = v.client_state /\ c.client_fsm = "S_DISCONNECTING"
      /\ c.endpoint_upstream = v.endpoint_upstream
  BY <1>0, SMT DEF VpnRecord, PingPart, RecoveryPart
<1> HIDE DEF c
<1>5. "deferred_disconnect" \in Tasks /\ "deferred_disconnect" \notin SessionTasks
  BY Zenon DEF Tasks, ClientTasks, SessionTasks
<1>6. /\ w \in VpnRecord /\ SessionPart(w) = SessionPart(c) /\ PingPart(w) = PingPart(c)
      /\ RecoveryPart(w) = RecoveryPart(c) /\ ClientPart(w) = ClientPart(c)
      /\ SameSessionTasks(c, w)
  BY <1>3, <1>5, SubmitEffect, SubmitOtherTask, Zenon
<1> HIDE DEF w
<1>7. CASE v.client_fsm = "S_CONNECTED"
  <2>1. v.client_state = "CLIS_CONNECTED" /\ v.endpoint_upstream # "nullptr"
    BY <1>0, <1>7, SMT DEF ClientOK, VpnRecord, ClientConnectionStates
  <2>2. /\ w.phase = c.phase /\ w.state = c.state /\ w.client_state = c.client_state
        /\ w.client_fsm = c.client_fsm /\ w.endpoint_upstream = c.endpoint_upstream
    BY <1>6, SMT DEF SessionPart, ClientPart
  <2>3. ClientOK(w)
    BY <1>4, <2>1, <2>2, SMT DEF ClientOK
  <2>4. SameSessionTasks(v, w)
    BY <1>4, <1>6, Zenon DEF SameSessionTasks
  <2>5. Consistent(w)
    BY <1>4, <1>6, <2>2, <2>3, <2>4, ClientFrame, Zenon
  <2> QED BY <1>2, <1>7, <2>5, Zenon
<1> QED BY <1>2, <1>7, Zenon

LEMMA ConnectorReportConsistent ==
  ASSUME NEW v, Consistent(v), v.phase # "created", v.endpoint_connector = "connecting",
         NEW error \in ConnectorErrors, NEW dns_ok \in BOOLEAN
  PROVE  Consistent(endpoint_connector_handler(v, error, dns_ok))
<1> DEFINE p == IF error = NullOpt /\ ~dns_ok THEN "VPN_EC_ERROR" ELSE error
           o == IF error = NullOpt THEN "open" ELSE v.endpoint_upstream
           c == [v EXCEPT !.client_pending_error = p, !.endpoint_upstream = o,
                          !.endpoint_connector = "finished"]
           w == submit(c, Fin)
<1>0. v \in VpnRecord /\ ClientOK(v)
  BY Zenon DEF Consistent, Steady
<1>1. p \in MaybeError
  BY ErrorsType, Zenon DEF ConnectorErrors
<1>2. o \in UpstreamStates /\ (o = "nullptr" => p # NullOpt /\ v.endpoint_upstream = "nullptr")
  <2>1. v.endpoint_upstream \in UpstreamStates
    BY <1>0, Zenon DEF VpnRecord
  <2> QED BY <2>1, ClientConstantsType, SMT
<1>3. endpoint_connector_handler(v, error, dns_ok) = w
  BY Zenon DEF endpoint_connector_handler, Fin
<1> HIDE DEF p, o
<1>4. c \in VpnRecord
  BY <1>0, <1>1, <1>2, ClientConstantsType, Zenon DEF VpnRecord
<1>5. /\ c.phase = v.phase /\ c.state = v.state /\ PingPart(c) = PingPart(v)
      /\ RecoveryPart(c) = RecoveryPart(v) /\ c.tasks = v.tasks
      /\ c.client_state = v.client_state /\ c.client_fsm = v.client_fsm
      /\ c.endpoint_upstream = o /\ c.endpoint_connector = "finished"
      /\ c.client_pending_error = p
  BY <1>0, SMT DEF VpnRecord, PingPart, RecoveryPart
<1> HIDE DEF c
<1>6. Fin \in Tasks /\ Fin \notin SessionTasks
  BY Zenon DEF Tasks, ClientTasks, SessionTasks, Fin
<1>7. /\ w \in VpnRecord /\ SessionPart(w) = SessionPart(c) /\ PingPart(w) = PingPart(c)
      /\ RecoveryPart(w) = RecoveryPart(c) /\ ClientPart(w) = ClientPart(c)
      /\ SameSessionTasks(c, w)
      /\ ~Has(c.tasks, Fin) => Once(w.tasks, Fin)
  BY <1>4, <1>6, SubmitEffect, SubmitOtherTask, HasNotOnce, Zenon
<1> HIDE DEF w
<1>8. /\ w.phase = c.phase /\ w.state = c.state /\ w.client_state = c.client_state
      /\ w.client_fsm = c.client_fsm /\ w.endpoint_upstream = c.endpoint_upstream
      /\ w.endpoint_connector = c.endpoint_connector
      /\ w.client_pending_error = c.client_pending_error
  BY <1>7, SMT DEF SessionPart, ClientPart
<1>9. ClientOK(w)
  <2>1. v.endpoint_upstream = "nullptr" =>
          v.client_fsm = "S_CONNECTING" /\ ~Has(v.tasks, Fin)
    BY <1>0, SMT DEF ClientOK
  <2>2. v.endpoint_upstream = "nullptr" => Once(w.tasks, Fin)
    BY <1>5, <1>7, <2>1, Zenon
  <2> QED BY <1>0, <1>2, <1>5, <1>8, <2>1, <2>2, SMT DEF ClientOK
<1>10. SameSessionTasks(v, w)
  BY <1>5, <1>7, Zenon DEF SameSessionTasks
<1> QED BY <1>3, <1>5, <1>7, <1>8, <1>9, <1>10, ClientFrame, Zenon

LEMMA UpstreamEndedEffect ==
  ASSUME NEW v, Consistent(v), v.phase # "created", v.endpoint_upstream = "open"
  PROVE  LET w == upstream_ended(v)
         IN /\ Consistent(w) /\ w.phase = v.phase /\ w.endpoint_upstream = "closed"
<1> DEFINE w == upstream_ended(v)
<1>0. v \in VpnRecord /\ ClientOK(v)
  BY Zenon DEF Consistent, Steady
<1>1. w \in VpnRecord
  BY <1>0, UpstreamEndedType, Zenon
<1>2. /\ w.phase = v.phase /\ w.state = v.state /\ PingPart(w) = PingPart(v)
      /\ RecoveryPart(w) = RecoveryPart(v) /\ w.tasks = v.tasks
      /\ w.client_state = v.client_state /\ w.client_fsm = v.client_fsm
      /\ w.endpoint_upstream = "closed" /\ w.endpoint_connector = v.endpoint_connector
  BY <1>0, SMT DEF VpnRecord, upstream_ended, on_before_endpoint_disconnect,
     close_connections, PingPart, RecoveryPart
<1> HIDE DEF w
<1>3. ClientOK(w)
  BY <1>0, <1>2, SMT DEF ClientOK
<1>4. SameSessionTasks(v, w)
  BY <1>2, SameTasks, Zenon
<1>5. Consistent(w)
  BY <1>1, <1>2, <1>3, <1>4, ClientFrame, Zenon
<1> QED BY <1>2, <1>5, Zenon DEF w

-----------------------------------------------------------------------------
(* Tasks.                                                                  *)

\* What a state keeps when its next task has been taken off the queue.
LEMMA Popped ==
  ASSUME NEW v, Consistent(v), v.tasks # <<>>
  PROVE  LET w == [v EXCEPT !.tasks = Tail(v.tasks)]
             t == Head(v.tasks)
         IN /\ w \in VpnRecord /\ t \in Tasks /\ ClientOK(w) /\ ConnectedOK(w)
            /\ SessionPart(w) = SessionPart(v) /\ PingPart(w) = PingPart(v)
            /\ RecoveryPart(w) = RecoveryPart(v) /\ ClientPart(w) = ClientPart(v)
            /\ w.tasks = Tail(v.tasks)
            /\ w.phase # "created" /\ Once(w.tasks, "do_connect")
            /\ Has(w.tasks, "do_connect") => w.state = "VPN_SS_DISCONNECTED"
            /\ t # "failed_recovery" => Steady(w)
            /\ t \notin {"failed_recovery", "client_disconnected", "retry_connect"} =>
                 Consistent(w)
            /\ t = "retry_connect" /\ w.state # "VPN_SS_CONNECTING" => Consistent(w)
<1> DEFINE w == [v EXCEPT !.tasks = Tail(v.tasks)]
           t == Head(v.tasks)
<1>0. /\ v \in VpnRecord /\ ClientOK(v) /\ PingOK(v) /\ BeginOK(v) /\ QuietOK(v) /\ ArmedOK(v)
      /\ CleanOK(v) /\ EndpointOK(v) /\ RetryOK(v) /\ ConnectedOK(v) /\ DrivenOK(v)
  BY Zenon DEF Consistent, Steady
<1>1. v.tasks \in Seq(Tasks)
  BY <1>0, Zenon DEF VpnRecord
<1>2. t \in Tasks /\ Tail(v.tasks) \in Seq(Tasks)
  BY <1>1, SMT
<1>3. w \in VpnRecord
  BY <1>0, <1>2, Zenon DEF VpnRecord
<1>4. /\ SessionPart(w) = SessionPart(v) /\ PingPart(w) = PingPart(v)
      /\ RecoveryPart(w) = RecoveryPart(v) /\ ClientPart(w) = ClientPart(v)
      /\ w.tasks = Tail(v.tasks)
  BY <1>0, SMT DEF VpnRecord, SessionPart, PingPart, RecoveryPart, ClientPart
<1>5. /\ w.phase = v.phase /\ w.state = v.state /\ w.pinger = v.pinger
      /\ w.selected_endpoint = v.selected_endpoint
      /\ w.ping_failure_induces_location_unavailable =
           v.ping_failure_induces_location_unavailable
      /\ w.client_state = v.client_state /\ w.recovery_task = v.recovery_task
      /\ Clean(v) => Clean(w)
  <2> HIDE DEF w
  <2> QED BY <1>4, SMT DEF SessionPart, PingPart, RecoveryPart, ClientPart, Clean
<1> HIDE DEF w
<1>6. /\ \A u : Has(w.tasks, u) => Has(v.tasks, u)
      /\ \A u : u # t /\ Has(v.tasks, u) => Has(w.tasks, u)
      /\ \A u : Once(v.tasks, u) => Once(w.tasks, u)
  BY <1>1, <1>4, PopEffect, Zenon
<1> HIDE DEF t
<1>7. ClientOK(w)
  BY <1>0, <1>4, <1>6, ClientOKFrame, Zenon
<1>8. /\ PingOK(w) /\ QuietOK(w) /\ CleanOK(w) /\ EndpointOK(w) /\ RetryOK(w) /\ ConnectedOK(w)
  BY <1>0, <1>5, <1>6, Zenon DEF PingOK, QuietOK, CleanOK, EndpointOK, RetryOK, ConnectedOK
<1>9. w.phase # "created"
  BY <1>0, <1>5, Zenon DEF BeginOK
<1>10. BeginOK(w)
  BY <1>0, <1>5, <1>6, <1>9, Zenon DEF BeginOK
<1>11. t # "failed_recovery" => ArmedOK(w)
  BY <1>0, <1>5, <1>6, Zenon DEF ArmedOK
<1>12. t \notin {"client_disconnected", "retry_connect"} => DrivenOK(w)
  <2> SUFFICES ASSUME t # "client_disconnected", t # "retry_connect" PROVE DrivenOK(w)
    BY Zenon
  <2>1. /\ Has(v.tasks, "retry_connect") => Has(w.tasks, "retry_connect")
        /\ Has(v.tasks, "client_disconnected") => Has(w.tasks, "client_disconnected")
    BY <1>6, Zenon
  <2> QED BY <1>0, <1>5, <2>1, Zenon DEF DrivenOK
<1>13. t = "retry_connect" /\ w.state # "VPN_SS_CONNECTING" => DrivenOK(w)
  <2> SUFFICES ASSUME t = "retry_connect", w.state # "VPN_SS_CONNECTING" PROVE DrivenOK(w)
    BY Zenon
  <2>1. Has(v.tasks, "client_disconnected") => Has(w.tasks, "client_disconnected")
    BY <1>6, Zenon
  <2> QED BY <1>0, <1>5, <2>1, Zenon DEF DrivenOK
<1>14. /\ Once(w.tasks, "do_connect")
       /\ Has(w.tasks, "do_connect") => w.state = "VPN_SS_DISCONNECTED"
  BY <1>10, Zenon DEF BeginOK
<1>15. t # "failed_recovery" => Steady(w)
  BY <1>3, <1>7, <1>8, <1>10, <1>11, Zenon DEF Steady
<1>16. t \notin {"failed_recovery", "client_disconnected", "retry_connect"} => Consistent(w)
  BY <1>8, <1>12, <1>15, Zenon DEF Consistent
<1>17. t = "retry_connect" /\ w.state # "VPN_SS_CONNECTING" => Consistent(w)
  BY <1>8, <1>13, <1>15, Zenon DEF Consistent
<1> QED BY <1>2, <1>3, <1>4, <1>7, <1>8, <1>9, <1>14, <1>15, <1>16, <1>17, Zenon DEF w, t

\* The tasks that shut the session down, with the error they report.
LEMMA ShutdownWithError ==
  ASSUME NEW v \in VpnRecord, ClientOK(v), v.phase # "created",
         Once(v.tasks, "do_connect"),
         Has(v.tasks, "do_connect") => v.state = "VPN_SS_DISCONNECTED",
         NEW error \in MaybeError
  PROVE  Consistent(On_SHUTDOWN([v EXCEPT !.pending_error = error]))
<1> DEFINE w == [v EXCEPT !.pending_error = error]
<1>1. /\ w \in VpnRecord /\ SessionPart(w) = SessionPart(v)
      /\ ClientPart(w) = ClientPart(v) /\ w.tasks = v.tasks
  BY PendingErrorEffect, Zenon
<1> HIDE DEF w
<1>2. ClientOK(w)
  BY <1>1, ClientOKFrame, Zenon
<1>3. w.phase = v.phase /\ w.state = v.state
  BY <1>1, SMT DEF SessionPart
<1>4. Consistent(On_SHUTDOWN(w))
  BY <1>1, <1>2, <1>3, ShutdownConsistent, Zenon
<1> QED BY <1>4, Zenon DEF w

\* The task of vpn_connect.
LEMMA DoConnectConsistent ==
  ASSUME NEW v, Steady(v), v.phase # "created", ~Has(v.tasks, "do_connect"),
         v.state = "VPN_SS_DISCONNECTED", v.client_state = "CLIS_DISCONNECTED"
  PROVE  Consistent(do_connect(v))
<1> DEFINE n == IF v.retry_policy = "VPN_CRP_SEVERAL_ATTEMPTS"
                THEN decrement(v.attempts_left) ELSE v.attempts_left
           w == [v EXCEPT !.endpoints = Endpoints, !.attempts_left = n]
<1>0. v \in VpnRecord /\ ClientOK(v) /\ CleanOK(v)
  BY Zenon DEF Steady
<1>1. n \in 0..SizeMax
  <2>1. v.attempts_left \in 0..SizeMax
    BY <1>0, Zenon DEF VpnRecord
  <2> QED BY <2>1, DecrementType, Zenon
<1>2. do_connect(v) = On_DO_CONNECT(w)
  BY Zenon DEF do_connect
<1> HIDE DEF n
<1>3. w \in VpnRecord
  <2>1. Endpoints \in SUBSET Endpoints
    BY Zenon
  <2> QED BY <1>0, <1>1, <2>1, Zenon DEF VpnRecord
<1>4. /\ SessionPart(w) = SessionPart(v) /\ RecoveryPart(w) = RecoveryPart(v)
      /\ ClientPart(w) = ClientPart(v) /\ w.tasks = v.tasks
  BY <1>0, SMT DEF VpnRecord, SessionPart, RecoveryPart, ClientPart
<1> HIDE DEF w
<1>5. /\ w.phase = v.phase /\ w.state = v.state /\ w.client_state = v.client_state
      /\ Clean(v) => Clean(w)
  BY <1>4, SMT DEF SessionPart, RecoveryPart, ClientPart, Clean
<1>6. Clean(w)
  BY <1>0, <1>5, SMT DEF CleanOK
<1>7. ClientOK(w)
  BY <1>0, <1>4, ClientOKFrame, Zenon
<1>8. Begun(w)
  BY <1>3, <1>4, <1>5, <1>7, Zenon DEF Begun
<1>9. Consistent(Enter(run_ping(w), "VPN_SS_CONNECTING"))
  BY <1>5, <1>6, <1>8, ToPing, Zenon
<1> QED BY <1>2, <1>5, <1>9, Zenon DEF On_DO_CONNECT

LEMMA RunTaskConsistent ==
  ASSUME NEW v, Consistent(v), v.tasks # <<>>, NEW slow \in BOOLEAN
  PROVE  Consistent(run_task([v EXCEPT !.tasks = Tail(v.tasks)], Head(v.tasks), slow))
<1> DEFINE w == [v EXCEPT !.tasks = Tail(v.tasks)]
           t == Head(v.tasks)
<1>0. /\ v \in VpnRecord /\ ClientOK(v) /\ BeginOK(v) /\ RetryOK(v)
  BY Zenon DEF Consistent, Steady
<1>1. v.tasks \in Seq(Tasks)
  BY <1>0, Zenon DEF VpnRecord
<1>2. /\ w \in VpnRecord /\ t \in Tasks /\ ClientOK(w) /\ ConnectedOK(w)
      /\ SessionPart(w) = SessionPart(v) /\ RecoveryPart(w) = RecoveryPart(v)
      /\ ClientPart(w) = ClientPart(v) /\ w.tasks = Tail(v.tasks)
      /\ w.phase # "created" /\ Once(w.tasks, "do_connect")
      /\ Has(w.tasks, "do_connect") => w.state = "VPN_SS_DISCONNECTED"
      /\ t # "failed_recovery" => Steady(w)
      /\ t \notin {"failed_recovery", "client_disconnected", "retry_connect"} =>
           Consistent(w)
      /\ t = "retry_connect" /\ w.state # "VPN_SS_CONNECTING" => Consistent(w)
  BY Popped, Zenon
<1> HIDE DEF w
<1>3. Has(v.tasks, t) /\ (Once(v.tasks, t) => ~Has(w.tasks, t))
  BY <1>1, <1>2, PopEffect, Zenon
<1> HIDE DEF t
<1>4. /\ w.state = v.state /\ w.client_state = v.client_state
      /\ w.endpoint_upstream = v.endpoint_upstream
      /\ w.client_pending_error = v.client_pending_error
  BY <1>2, SMT DEF SessionPart, ClientPart
<1>5. CASE t = "do_connect"
  <2>1. /\ w.state = "VPN_SS_DISCONNECTED" /\ w.client_state = "CLIS_DISCONNECTED"
        /\ ~Has(w.tasks, "do_connect")
    BY <1>0, <1>3, <1>4, <1>5, Zenon DEF BeginOK
  <2>2. Steady(w)
    BY <1>2, <1>5, Zenon
  <2>3. Consistent(do_connect(w))
    BY <1>2, <2>1, <2>2, DoConnectConsistent, Zenon
  <2> QED BY <1>5, <2>3, Zenon DEF run_task, w, t
<1>6. CASE t = "retry_connect"
  <2>1. CASE w.state = "VPN_SS_CONNECTING"
    <3>1. Steady(w)
      BY <1>2, <1>6, Zenon
    <3>2. Begun(w) /\ Clean(w)
      BY <2>1, <3>1, SteadyConnecting, Zenon
    <3>3. w.client_state = "CLIS_DISCONNECTED"
      BY <1>0, <1>3, <1>4, <1>6, <2>1, Zenon DEF RetryOK
    <3>4. Consistent(run_ping(w))
      BY <2>1, <3>2, <3>3, ToPing, Zenon
    <3> QED BY <1>6, <2>1, <3>4, Zenon DEF run_task, On_RETRY_CONNECT, w, t
  <2>2. CASE w.state # "VPN_SS_CONNECTING"
    BY <1>2, <1>6, <2>2, Zenon DEF run_task, On_RETRY_CONNECT, w, t
  <2> QED BY <2>1, <2>2, Zenon
<1>7. CASE t = "client_disconnected"
  <2>1. Steady(w) /\ NullOpt \in MaybeError
    BY <1>2, <1>7, ErrorsType, Zenon
  <2>2. Consistent(On_CLIENT_DISCONNECTED(w, NullOpt, slow))
    BY <2>1, ClientDisconnectedConsistent, Zenon
  <2> QED BY <1>7, <2>2, Zenon DEF run_task, w, t
<1>8. CASE t = "failed_recovery"
  <2> DEFINE r == reset_recovery(w)
  <2>1. /\ r \in VpnRecord /\ SessionPart(r) = SessionPart(w)
        /\ ClientPart(r) = ClientPart(w) /\ r.tasks = w.tasks
    BY <1>2, ResetRecoveryEffect, Zenon
  <2> HIDE DEF r
  <2>2. ClientOK(r) /\ "VPN_EC_LOCATION_UNAVAILABLE" \in MaybeError
    BY <1>2, <2>1, ClientOKFrame, ErrorsType, Zenon
  <2>3. r.phase = w.phase /\ r.state = w.state
    BY <2>1, SMT DEF SessionPart
  <2>4. Consistent(On_SHUTDOWN([r EXCEPT !.pending_error = "VPN_EC_LOCATION_UNAVAILABLE"]))
    BY <1>2, <2>1, <2>2, <2>3, ShutdownWithError, Zenon
  <2> QED BY <1>8, <2>4, Zenon DEF run_task, failed_recovery, r, w, t
<1>9. CASE t = "listen_failed"
  <2>1. Consistent(On_SHUTDOWN([w EXCEPT !.pending_error = "VPN_EC_ERROR"]))
    BY <1>2, ErrorsType, ShutdownWithError, Zenon
  <2> QED BY <1>9, <2>1, Zenon DEF run_task, listen_failed, w, t
<1>10. CASE t = "shutdown"
  <2>1. Consistent(On_SHUTDOWN(w))
    BY <1>2, ShutdownConsistent, Zenon
  <2> QED BY <1>10, <2>1, Zenon DEF run_task, w, t
<1>11. CASE t = Fin
  <2>1. v.endpoint_upstream = "nullptr" =>
          v.client_pending_error # NullOpt /\ ~Has(w.tasks, Fin)
    BY <1>0, <1>3, <1>11, Zenon DEF ClientOK
  <2>2. Consistent(w)
    BY <1>2, <1>11, Zenon DEF Fin
  <2>3. Consistent(endpoint_connector_finalizer(w, slow))
    BY <1>2, <1>4, <2>1, <2>2, FinalizerConsistent, Zenon
  <2> QED BY <1>11, <2>3, Zenon DEF run_task, Fin, w, t
<1>12. CASE t = "deferred_disconnect"
  <2>1. Consistent(w)
    BY <1>2, <1>12, Zenon
  <2>2. Consistent(deferred_disconnect(w, slow))
    BY <1>2, <2>1, DeferredDisconnectConsistent, Zenon
  <2> QED BY <1>12, <2>2, Zenon DEF run_task, w, t
<1>13. CASE t = "cancelled"
  <2>1. Consistent(w)
    BY <1>2, <1>13, Zenon
  <2> QED BY <1>13, <2>1, Zenon DEF run_task, w, t
<1> QED BY <1>2, <1>5, <1>6, <1>7, <1>8, <1>9, <1>10, <1>11, <1>12, <1>13, Zenon
    DEF Tasks, ClientTasks, ManagerTasks, Fin

-----------------------------------------------------------------------------
(* Actions.                                                                *)

\* A ping has reported: whatever endpoint is selected, the state is steady.
LEMMA PingerFinished ==
  ASSUME NEW v, Consistent(v), v.phase # "created", v.pinger, NEW w \in VpnRecord,
         SessionPart(w) = SessionPart(v), RecoveryPart(w) = RecoveryPart(v),
         ClientPart(w) = ClientPart(v), w.tasks = v.tasks, w.pinger = FALSE
  PROVE  Steady(w) /\ ConnectedOK(w) /\ w.client_state = "CLIS_DISCONNECTED"
<1>0. /\ ClientOK(v) /\ PingOK(v) /\ BeginOK(v) /\ QuietOK(v) /\ ArmedOK(v)
      /\ CleanOK(v) /\ ConnectedOK(v)
  BY Zenon DEF Consistent, Steady
<1>1. /\ w.phase = v.phase /\ w.state = v.state /\ w.client_state = v.client_state
      /\ w.recovery_task = v.recovery_task /\ (Clean(v) => Clean(w))
  BY SMT DEF SessionPart, RecoveryPart, ClientPart, Clean
<1>2. w.client_state = "CLIS_DISCONNECTED"
  BY <1>0, <1>1, Zenon DEF PingOK
<1>3. ClientOK(w)
  BY <1>0, ClientOKFrame, Zenon
<1>4. PingOK(w) /\ BeginOK(w) /\ QuietOK(w) /\ ArmedOK(w) /\ CleanOK(w) /\ ConnectedOK(w)
  BY <1>0, <1>1, <1>2, Zenon DEF PingOK, BeginOK, QuietOK, ArmedOK, CleanOK, ConnectedOK
<1>5. EndpointOK(w) /\ RetryOK(w)
  BY <1>2, Zenon DEF EndpointOK, RetryOK
<1> QED BY <1>2, <1>3, <1>4, <1>5, Zenon DEF Steady

LEMMA LoopNextConsistent ==
  ASSUME Consistent(vpn), LoopNext
  PROVE  Consistent(vpn')
<1>0. vpn \in VpnRecord
  BY Zenon DEF Consistent, Steady
<1>1. loop_active => vpn.phase # "created"
  BY Zenon DEF loop_active
<1> DEFINE p == pinger_finished(vpn)
<1>2. /\ p \in VpnRecord /\ SessionPart(p) = SessionPart(vpn)
      /\ RecoveryPart(p) = RecoveryPart(vpn) /\ ClientPart(p) = ClientPart(vpn)
      /\ p.tasks = vpn.tasks /\ p.pinger = FALSE
  <2>1. p \in VpnRecord
    BY <1>0, PingerFinishedType, Zenon
  <2>2. /\ SessionPart(p) = SessionPart(vpn) /\ RecoveryPart(p) = RecoveryPart(vpn)
        /\ ClientPart(p) = ClientPart(vpn) /\ p.tasks = vpn.tasks /\ p.pinger = FALSE
    BY <1>0, SMT DEF VpnRecord, pinger_finished, SessionPart, RecoveryPart, ClientPart
  <2> QED BY <2>1, <2>2, Zenon
<1>3. CASE \E slow \in BOOLEAN : RunTask(slow)
  BY <1>3, RunTaskConsistent, Zenon DEF RunTask
<1>4. CASE \E slow \in BOOLEAN : PingerFailed(slow)
  <2>1. PICK slow \in BOOLEAN : PingerFailed(slow)
    BY <1>4
  <2> DEFINE error == IF vpn.ping_failure_induces_location_unavailable
                      THEN "VPN_EC_LOCATION_UNAVAILABLE" ELSE "VPN_EC_ERROR"
  <2>2. vpn' = On_PING_FAIL(p, error, slow) /\ vpn.pinger /\ loop_active
    BY <2>1, Zenon DEF PingerFailed
  <2>3. error \in MaybeError
    BY ErrorsType, Zenon
  <2> HIDE DEF p, error
  <2>4. Steady(p) /\ ConnectedOK(p)
    BY <1>1, <1>2, <2>2, PingerFinished, Zenon
  <2> QED BY <2>2, <2>3, <2>4, PingFailConsistent, Zenon
<1>5. CASE \E e \in Endpoints, started, slow \in BOOLEAN : PingerSelected(e, started, slow)
  <2>1. PICK e \in Endpoints, started \in BOOLEAN, slow \in BOOLEAN :
          PingerSelected(e, started, slow)
    BY <1>5
  <2> DEFINE f == vpn.ping_failure_induces_location_unavailable
             w == [p EXCEPT !.selected_endpoint = e]
             x == [p EXCEPT !.ping_failure_induces_location_unavailable = f]
  <2>2. /\ vpn' \in {On_PING_READY(w, started), On_PING_FAIL(x, "VPN_EC_ERROR", slow)}
        /\ vpn.pinger /\ loop_active /\ no_retry_queued
    BY <2>1, Zenon DEF PingerSelected
  <2>3. f \in BOOLEAN /\ e \in Endpoints \cup {NullOpt} /\ e # NullOpt
    BY <1>0, ConstantsAssumption, Zenon DEF VpnRecord
  <2> HIDE DEF p, f
  <2>4. w \in VpnRecord /\ x \in VpnRecord
    <3>1. w \in VpnRecord
      BY <1>2, <2>3, Zenon DEF VpnRecord
    <3>2. x \in VpnRecord
      BY <1>2, <2>3, Zenon DEF VpnRecord
    <3> QED BY <3>1, <3>2, Zenon
  <2>5. /\ SessionPart(w) = SessionPart(p) /\ RecoveryPart(w) = RecoveryPart(p)
        /\ ClientPart(w) = ClientPart(p) /\ w.tasks = p.tasks /\ w.pinger = p.pinger
        /\ w.selected_endpoint = e
    BY <1>2, SMT DEF VpnRecord, SessionPart, RecoveryPart, ClientPart
  <2>6. /\ SessionPart(x) = SessionPart(p) /\ RecoveryPart(x) = RecoveryPart(p)
        /\ ClientPart(x) = ClientPart(p) /\ x.tasks = p.tasks /\ x.pinger = p.pinger
    BY <1>2, SMT DEF VpnRecord, SessionPart, RecoveryPart, ClientPart
  <2> HIDE DEF w, x
  <2>7. Steady(w) /\ ConnectedOK(w) /\ w.client_state = "CLIS_DISCONNECTED"
    BY <1>1, <1>2, <2>2, <2>4, <2>5, PingerFinished, Zenon
  <2>8. Steady(x) /\ ConnectedOK(x)
    BY <1>1, <1>2, <2>2, <2>4, <2>6, PingerFinished, Zenon
  <2>9. ~Has(w.tasks, "retry_connect")
    BY <1>2, <2>2, <2>5, Zenon DEF Has, no_retry_queued
  <2>10. Consistent(On_PING_READY(w, started))
    BY <1>2, <2>3, <2>5, <2>7, <2>9, PingReadyConsistent, Zenon
  <2>11. Consistent(On_PING_FAIL(x, "VPN_EC_ERROR", slow))
    BY <2>8, ErrorsType, PingFailConsistent, Zenon
  <2> QED BY <2>2, <2>10, <2>11, Zenon
<1>6. CASE \E error \in ConnectorErrors, dns_ok \in BOOLEAN : ConnectorReport(error, dns_ok)
  BY <1>1, <1>6, ConnectorReportConsistent, Zenon DEF ConnectorReport
<1>7. CASE \/ \E slow \in BOOLEAN : UpstreamClosed(slow)
           \/ \E error \in UpstreamErrors : UpstreamError(error)
  <2> DEFINE w == upstream_ended(vpn)
  <2>1. loop_active /\ vpn.endpoint_upstream = "open"
    BY <1>7, Zenon DEF UpstreamClosed, UpstreamError
  <2>2. Consistent(w) /\ w.phase = vpn.phase /\ w.endpoint_upstream = "closed"
    BY <1>1, <2>1, UpstreamEndedEffect, Zenon
  <2>3. \/ \E slow \in BOOLEAN : vpn' = session_closed(w, slow)
        \/ \E error \in MaybeError : vpn' = submit_disconnect(w, error)
    BY <1>7, ErrorsType, Zenon DEF UpstreamClosed, UpstreamError, UpstreamErrors
  <2> HIDE DEF w
  <2>4. w \in VpnRecord /\ w.phase # "created" /\ SameSessionTasks(w, w)
    BY <1>1, <2>1, <2>2, SameTasks, Zenon DEF Consistent, Steady
  <2>5. w.endpoint_upstream # "nullptr"
    BY <2>2, Zenon
  <2>6. \A slow \in BOOLEAN : Consistent(session_closed(w, slow))
    BY <2>2, <2>4, <2>5, SessionClosedConsistent, Zenon
  <2>7. \A error \in MaybeError : Consistent(submit_disconnect(w, error))
    BY <2>2, <2>4, SubmitDisconnectConsistent, Zenon
  <2> QED BY <2>3, <2>6, <2>7, Zenon
<1>8. CASE HealthCheckError
  BY <1>1, <1>8, ErrorsType, SubmitDisconnectConsistent, Zenon DEF HealthCheckError
<1>9. CASE \E late, started \in BOOLEAN : RecoveryTimer(late, started)
  <2> DEFINE w == [vpn EXCEPT !.recovery_task = FALSE]
  <2>1. PICK late \in BOOLEAN, started \in BOOLEAN : RecoveryTimer(late, started)
    BY <1>9
  <2>2. vpn' = On_DO_RECOVERY(w, late, started) /\ vpn.recovery_task
    BY <2>1, Zenon DEF RecoveryTimer
  <2>3. w \in VpnRecord
    BY <1>0, Zenon DEF VpnRecord
  <2>4. /\ SessionPart(w) = SessionPart(vpn) /\ PingPart(w) = PingPart(vpn)
        /\ ClientPart(w) = ClientPart(vpn) /\ w.tasks = vpn.tasks
        /\ w.recovery_attempts = vpn.recovery_attempts
        /\ w.recovery_start_ts = vpn.recovery_start_ts /\ w.recovery_task = FALSE
    BY <1>0, SMT DEF VpnRecord, SessionPart, PingPart, ClientPart
  <2> HIDE DEF w
  <2>5. w.state = vpn.state /\ w.phase = vpn.phase /\ w.client_state = vpn.client_state
    BY <2>4, SMT DEF SessionPart, ClientPart
  <2>6. w.state = "VPN_SS_WAITING_RECOVERY" =>
          /\ Begun(w) /\ ~w.pinger /\ w.client_state = "CLIS_DISCONNECTED"
    <3> SUFFICES ASSUME w.state = "VPN_SS_WAITING_RECOVERY"
                 PROVE  Begun(w) /\ ~w.pinger /\ w.client_state = "CLIS_DISCONNECTED"
      BY Zenon
    <3>1. Steady(vpn) /\ QuietOK(vpn)
      BY Zenon DEF Consistent, Steady
    <3>2. Begun(vpn) /\ ~vpn.pinger /\ vpn.client_state = "CLIS_DISCONNECTED"
      BY <2>5, <3>1, SteadyBegun, Zenon DEF QuietOK
    <3>3. ClientOK(w)
      BY <2>4, <3>2, ClientOKFrame, Zenon DEF Begun
    <3>4. w.pinger = vpn.pinger
      BY <2>4, SMT DEF PingPart
    <3> QED BY <2>3, <2>4, <2>5, <3>2, <3>3, <3>4, Zenon DEF Begun
  <2>7. w.state # "VPN_SS_WAITING_RECOVERY" => Consistent(w)
    <3> SUFFICES ASSUME w.state # "VPN_SS_WAITING_RECOVERY" PROVE Consistent(w)
      BY Zenon
    <3>1. /\ ClientOK(vpn) /\ PingOK(vpn) /\ BeginOK(vpn) /\ QuietOK(vpn)
          /\ CleanOK(vpn) /\ EndpointOK(vpn) /\ RetryOK(vpn)
          /\ ConnectedOK(vpn) /\ DrivenOK(vpn)
      BY Zenon DEF Consistent, Steady
    <3>2. ClientOK(w)
      BY <2>4, <3>1, ClientOKFrame, Zenon
    <3>3. /\ w.pinger = vpn.pinger /\ w.selected_endpoint = vpn.selected_endpoint
          /\ w.ping_failure_induces_location_unavailable =
               vpn.ping_failure_induces_location_unavailable
          /\ Clean(vpn) => Clean(w)
      BY <2>4, SMT DEF PingPart, Clean
    <3>4. PingOK(w) /\ BeginOK(w) /\ QuietOK(w) /\ ArmedOK(w) /\ CleanOK(w)
      BY <2>4, <2>5, <3>1, <3>3, Zenon DEF PingOK, BeginOK, QuietOK, ArmedOK, CleanOK
    <3>5. EndpointOK(w) /\ RetryOK(w) /\ ConnectedOK(w) /\ DrivenOK(w)
      BY <2>4, <2>5, <3>1, <3>3, Zenon DEF EndpointOK, RetryOK, ConnectedOK, DrivenOK
    <3> QED BY <2>3, <3>2, <3>4, <3>5, Zenon DEF Consistent, Steady
  <2> QED BY <2>2, <2>6, <2>7, DoRecoveryConsistent, Zenon
<1>10. CASE PostponementTimer
  <2> DEFINE requests == vpn.postponed_requests
             w == [vpn EXCEPT !.postponement_window_timer = FALSE,
                              !.postponed_requests = {}]
             x == complete_all(w, requests, requests)
             y == [x EXCEPT !.bypassed_connection_ids = x.bypassed_connection_ids \cup requests]
             z == reject_all(w, requests)
  <2>1. vpn' \in {y, z}
    BY <1>10, Zenon DEF PostponementTimer
  <2>2. vpn' \in VpnRecord
    BY <1>0, LoopNextType, Zenon
  <2>3. /\ SessionPart(y) = SessionPart(vpn) /\ PingPart(y) = PingPart(vpn)
        /\ RecoveryPart(y) = RecoveryPart(vpn) /\ ClientPart(y) = ClientPart(vpn)
        /\ y.tasks = vpn.tasks
    BY <1>0, SMT DEF VpnRecord, complete_all, SessionPart, PingPart, RecoveryPart, ClientPart
  <2>4. /\ SessionPart(z) = SessionPart(vpn) /\ PingPart(z) = PingPart(vpn)
        /\ RecoveryPart(z) = RecoveryPart(vpn) /\ ClientPart(z) = ClientPart(vpn)
        /\ z.tasks = vpn.tasks
    BY <1>0, SMT DEF VpnRecord, reject_all, SessionPart, PingPart, RecoveryPart, ClientPart
  <2> HIDE DEF y, z
  <2> QED BY <2>1, <2>2, <2>3, <2>4, ConsistentFrame, Zenon
<1> QED BY <1>3, <1>4, <1>5, <1>6, <1>7, <1>8, <1>9, <1>10, Zenon DEF LoopNext

LEMMA ApiNextConsistent ==
  ASSUME Consistent(vpn), ApiNext
  PROVE  Consistent(vpn')
<1>0. /\ vpn \in VpnRecord /\ Steady(vpn) /\ ClientOK(vpn) /\ BeginOK(vpn) /\ QuietOK(vpn)
      /\ CleanOK(vpn)
  BY Zenon DEF Consistent, Steady
<1>1. loop_active => vpn.phase # "created"
  BY Zenon DEF loop_active
<1>2. vpn' \in VpnRecord
  BY <1>0, ApiNextType, Zenon
<1>3. CASE \E policy \in Policies : Connect(policy)
  <2>1. PICK policy \in Policies : Connect(policy)
    BY <1>3
  <2> DEFINE w == [vpn EXCEPT !.phase = "running", !.retry_policy = policy,
                              !.attempts_left = ConnectAttempts]
  <2>2. vpn' = submit(w, "do_connect") /\ vpn.phase = "created"
    BY <2>1, Zenon DEF Connect
  <2>3. w \in VpnRecord
    <3>1. "running" \in Phases /\ policy \in RetryPolicies
      BY ConstantsAssumption, Zenon DEF Phases, RetryPolicies
    <3>2. ConnectAttempts \in 0..SizeMax
      BY ConstantsAssumption, SMT
    <3> QED BY <1>0, <3>1, <3>2, Zenon DEF VpnRecord
  <2>4. /\ w.phase = "running" /\ w.state = vpn.state /\ w.pinger = vpn.pinger
        /\ RecoveryPart(w) = RecoveryPart(vpn) /\ ClientPart(w) = ClientPart(vpn)
        /\ w.tasks = vpn.tasks
    BY <1>0, SMT DEF VpnRecord, RecoveryPart, ClientPart
  <2> HIDE DEF w
  <2>5. ClientOK(w)
    BY <1>0, <2>4, ClientOKFrame, Zenon
  <2>6. /\ vpn.tasks = <<>> /\ vpn.state = "VPN_SS_DISCONNECTED"
        /\ vpn.client_state = "CLIS_DISCONNECTED" /\ ~vpn.pinger
    BY <1>0, <2>2, Zenon DEF BeginOK
  <2>7. Clean(w) /\ w.client_state = "CLIS_DISCONNECTED"
    <3>1. Clean(vpn)
      BY <1>0, <2>6, SMT DEF CleanOK
    <3> QED BY <2>4, <2>6, <3>1, SMT DEF Clean, RecoveryPart, ClientPart
  <2>8. ~Has(w.tasks, "do_connect")
    BY <2>4, <2>6, SMT DEF Has
  <2> DEFINE s == submit(w, "do_connect")
  <2>9. /\ SessionPart(s) = SessionPart(w) /\ PingPart(s) = PingPart(w)
        /\ RecoveryPart(s) = RecoveryPart(w) /\ ClientPart(s) = ClientPart(w)
        /\ Once(s.tasks, "do_connect") /\ ClientOK(s)
    BY <2>3, <2>5, <2>8, SubmitEffect, SubmitManagerTask, HasNotOnce, Zenon
    DEF Tasks, ManagerTasks
  <2> HIDE DEF s
  <2>10. /\ s.phase = "running" /\ s.state = "VPN_SS_DISCONNECTED" /\ s.pinger = vpn.pinger
         /\ s.client_state = "CLIS_DISCONNECTED" /\ Clean(s)
    BY <2>4, <2>6, <2>7, <2>9, SMT
    DEF SessionPart, PingPart, RecoveryPart, ClientPart, Clean
  <2>11. s \in VpnRecord
    BY <1>2, <2>2, Zenon DEF s
  <2>12. Consistent(s)
    BY <2>6, <2>9, <2>10, <2>11, Rests, Zenon
  <2> QED BY <2>2, <2>12, Zenon DEF s
<1>4. CASE \E late, started \in BOOLEAN : ForceReconnect(late, started)
  <2>1. vpn.state = "VPN_SS_WAITING_RECOVERY" =>
          Begun(vpn) /\ ~vpn.pinger /\ vpn.client_state = "CLIS_DISCONNECTED"
    BY <1>0, SteadyBegun, Zenon DEF QuietOK
  <2> QED BY <1>4, <2>1, DoRecoveryConsistent, Zenon DEF ForceReconnect
<1>5. CASE \E fatal \in BOOLEAN : ForceDisconnect(fatal)
  <2>1. PICK fatal \in BOOLEAN : ForceDisconnect(fatal)
    BY <1>5
  <2> DEFINE p == IF fatal THEN "VPN_EC_FATAL_CONNECTIVITY_ERROR" ELSE vpn.pending_error
  <2>2. vpn' = On_SHUTDOWN([vpn EXCEPT !.pending_error = p]) /\ loop_active
    BY <2>1, Zenon DEF ForceDisconnect
  <2>3. p \in MaybeError
    BY <1>0, ErrorsType, Zenon DEF VpnRecord
  <2> HIDE DEF p
  <2>4. /\ Once(vpn.tasks, "do_connect")
        /\ Has(vpn.tasks, "do_connect") => vpn.state = "VPN_SS_DISCONNECTED"
    BY <1>0, Zenon DEF BeginOK
  <2> QED BY <1>0, <1>1, <2>2, <2>3, <2>4, ShutdownWithError, Zenon
<1>6. CASE \E lost, slow \in BOOLEAN : NetworkChange(lost, slow)
  <2>1. PICK lost \in BOOLEAN, slow \in BOOLEAN : NetworkChange(lost, slow)
    BY <1>6
  <2> DEFINE w == [vpn EXCEPT !.network_changed_before_recovery = TRUE]
  <2>2. vpn' = On_NETWORK_CHANGE(w, lost, slow)
    BY <2>1, Zenon DEF NetworkChange
  <2>3. w \in VpnRecord
    BY <1>0, Zenon DEF VpnRecord
  <2>4. /\ SessionPart(w) = SessionPart(vpn) /\ PingPart(w) = PingPart(vpn)
        /\ RecoveryPart(w) = RecoveryPart(vpn) /\ ClientPart(w) = ClientPart(vpn)
        /\ w.tasks = vpn.tasks
    BY <1>0, SMT DEF VpnRecord, SessionPart, PingPart, RecoveryPart, ClientPart
  <2> HIDE DEF w
  <2> QED BY <2>2, <2>3, <2>4, ConsistentFrame, NetworkChangeConsistent, Zenon
<1>7. CASE \E e \in Endpoints, slow \in BOOLEAN : AbandonEndpoint(e, slow)
  BY <1>7, AbandonConsistent, Zenon DEF AbandonEndpoint
<1>8. CASE ListenFailed
  <2> DEFINE w == submit_disconnect(vpn, NullOpt)
             s == submit(w, "listen_failed")
  <2>1. vpn' = s /\ vpn.phase # "created"
    BY <1>8, Zenon DEF ListenFailed
  <2>2. Consistent(w) /\ w.phase # "created"
    <3>1. Consistent(w)
      BY <2>1, ErrorsType, SubmitDisconnectConsistent, Zenon
    <3>2. w.phase = vpn.phase
      BY <1>0, SMT DEF VpnRecord, submit_disconnect, submit
    <3> QED BY <2>1, <3>1, <3>2, Zenon
  <2> HIDE DEF w
  <2>3. w \in VpnRecord /\ ClientOK(w)
    BY <2>2, Zenon DEF Consistent, Steady
  <2>4. "listen_failed" \in Tasks /\ "listen_failed" \in ManagerTasks
        /\ "listen_failed" \notin SessionTasks
    BY Zenon DEF Tasks, ManagerTasks, SessionTasks
  <2>5. /\ s \in VpnRecord /\ ClientOK(s) /\ SameSessionTasks(w, s)
        /\ SessionPart(s) = SessionPart(w) /\ PingPart(s) = PingPart(w)
        /\ RecoveryPart(s) = RecoveryPart(w) /\ ClientPart(s) = ClientPart(w)
    BY <2>3, <2>4, SubmitEffect, SubmitManagerTask, SubmitOtherTask, Zenon
  <2> HIDE DEF s
  <2>6. s.phase = w.phase /\ s.state = w.state /\ s.client_state = w.client_state
    BY <2>5, SMT DEF SessionPart, ClientPart
  <2> QED BY <2>1, <2>2, <2>5, <2>6, ClientFrame, Zenon
<1>9. CASE \E r \in Requests : ConnectRequest(r)
  <2>1. /\ SessionPart(vpn') = SessionPart(vpn) /\ PingPart(vpn') = PingPart(vpn)
        /\ RecoveryPart(vpn') = RecoveryPart(vpn) /\ ClientPart(vpn') = ClientPart(vpn)
        /\ (vpn').tasks = vpn.tasks
    BY <1>0, <1>9, SMT
    DEF VpnRecord, ConnectRequest, SessionPart, PingPart, RecoveryPart, ClientPart
  <2> QED BY <1>2, <2>1, ConsistentFrame, Zenon
<1>10. CASE \E r \in Requests, immediate \in BOOLEAN : CompleteConnectRequest(r, immediate)
  <2>1. PICK r \in Requests, immediate \in BOOLEAN : CompleteConnectRequest(r, immediate)
    BY <1>10
  <2> DEFINE v == [vpn EXCEPT !.completed = vpn.completed \cup {r}]
             a == complete_all(v, {r}, BypassRequests)
             b == [v EXCEPT !.postponed_requests = v.postponed_requests \cup {r}]
             c == reject_all(v, {r})
             d == bypass_until_connected(v, r)
  <2>2. vpn' \in {a, b, c, d}
    <3>1. vpn' = On_COMPLETE_REQUEST(v, r, immediate)
      BY <2>1, Zenon DEF CompleteConnectRequest
    <3> HIDE DEF v
    <3> QED BY <3>1, Zenon DEF On_COMPLETE_REQUEST
  <2>3. /\ v \in VpnRecord
        /\ SessionPart(v) = SessionPart(vpn) /\ PingPart(v) = PingPart(vpn)
        /\ RecoveryPart(v) = RecoveryPart(vpn) /\ ClientPart(v) = ClientPart(vpn)
        /\ v.tasks = vpn.tasks
    <3>1. v \in VpnRecord
      BY <1>0, Zenon DEF VpnRecord
    <3>2. /\ SessionPart(v) = SessionPart(vpn) /\ PingPart(v) = PingPart(vpn)
          /\ RecoveryPart(v) = RecoveryPart(vpn) /\ ClientPart(v) = ClientPart(vpn)
          /\ v.tasks = vpn.tasks
      BY <1>0, SMT DEF VpnRecord, SessionPart, PingPart, RecoveryPart, ClientPart
    <3> QED BY <3>1, <3>2, Zenon
  <2> HIDE DEF v
  <2> DEFINE Same(u) == /\ SessionPart(u) = SessionPart(v) /\ PingPart(u) = PingPart(v)
                        /\ RecoveryPart(u) = RecoveryPart(v)
                        /\ ClientPart(u) = ClientPart(v) /\ u.tasks = v.tasks
  <2>4. Same(a) /\ Same(b) /\ Same(c) /\ Same(d)
    <3>1. Same(a)
      BY <2>3, SMT DEF VpnRecord, complete_all, SessionPart, PingPart,
         RecoveryPart, ClientPart
    <3>2. Same(b)
      BY <2>3, SMT DEF VpnRecord, SessionPart, PingPart,
         RecoveryPart, ClientPart
    <3>3. Same(c)
      BY <2>3, SMT DEF VpnRecord, reject_all, SessionPart, PingPart,
         RecoveryPart, ClientPart
    <3>4. Same(d)
      BY <2>3, SMT DEF VpnRecord, complete_all, bypass_until_connected, SessionPart, PingPart,
         RecoveryPart, ClientPart
    <3> QED BY <3>1, <3>2, <3>3, <3>4, Zenon
  <2> HIDE DEF a, b, c, d
  <2> QED BY <1>2, <2>2, <2>3, <2>4, ConsistentFrame, Zenon
<1>11. CASE \E r \in Requests : ConnectionClosed(r)
  <2>1. /\ SessionPart(vpn') = SessionPart(vpn) /\ PingPart(vpn') = PingPart(vpn)
        /\ RecoveryPart(vpn') = RecoveryPart(vpn) /\ ClientPart(vpn') = ClientPart(vpn)
        /\ (vpn').tasks = vpn.tasks
    BY <1>0, <1>11, SMT
    DEF VpnRecord, ConnectionClosed, SessionPart, PingPart, RecoveryPart, ClientPart
  <2> QED BY <1>2, <2>1, ConsistentFrame, Zenon
<1>12. CASE ResetConnections
  <2>1. /\ SessionPart(vpn') = SessionPart(vpn) /\ PingPart(vpn') = PingPart(vpn)
        /\ RecoveryPart(vpn') = RecoveryPart(vpn) /\ ClientPart(vpn') = ClientPart(vpn)
        /\ (vpn').tasks = vpn.tasks
    BY <1>0, <1>12, SMT DEF VpnRecord, ResetConnections, close_connections,
       SessionPart, PingPart, RecoveryPart, ClientPart
  <2> QED BY <1>2, <2>1, ConsistentFrame, Zenon
<1>13. CASE Stop
  <2> DEFINE w == [vpn EXCEPT !.phase = "stopping"]
             s == submit(w, "shutdown")
  <2>1. vpn' = s
    BY <1>13, Zenon DEF Stop
  <2>2. w \in VpnRecord
    <3>1. "stopping" \in Phases
      BY Zenon DEF Phases
    <3> QED BY <1>0, <3>1, Zenon DEF VpnRecord
  <2>3. /\ w.phase = "stopping" /\ w.state = vpn.state /\ PingPart(w) = PingPart(vpn)
        /\ RecoveryPart(w) = RecoveryPart(vpn) /\ ClientPart(w) = ClientPart(vpn)
        /\ w.tasks = vpn.tasks
    BY <1>0, SMT DEF VpnRecord, PingPart, RecoveryPart, ClientPart
  <2> HIDE DEF w
  <2>4. ClientOK(w)
    BY <1>0, <2>3, ClientOKFrame, Zenon
  <2>5. "shutdown" \in Tasks /\ "shutdown" \in ManagerTasks /\ "shutdown" \notin SessionTasks
    BY Zenon DEF Tasks, ManagerTasks, SessionTasks
  <2>6. /\ s \in VpnRecord /\ ClientOK(s) /\ SameSessionTasks(w, s)
        /\ SessionPart(s) = SessionPart(w) /\ PingPart(s) = PingPart(w)
        /\ RecoveryPart(s) = RecoveryPart(w) /\ ClientPart(s) = ClientPart(w)
    BY <2>2, <2>4, <2>5, SubmitEffect, SubmitManagerTask, SubmitOtherTask, Zenon
  <2> HIDE DEF s
  <2>7. s.phase = w.phase /\ s.state = vpn.state /\ s.client_state = vpn.client_state
    BY <2>3, <2>6, SMT DEF SessionPart, ClientPart
  <2>8. SameSessionTasks(vpn, s) /\ s.phase # "created"
    BY <2>3, <2>6, <2>7, Zenon DEF SameSessionTasks
  <2> QED BY <2>1, <2>3, <2>6, <2>7, <2>8, ClientFrame, Zenon
<1>14. CASE Stopped
  <2> DEFINE w == stop_pinging(reset_recovery(vpn))
             x == finalize_disconnect(w)
  <2>1. vpn' = [x EXCEPT
                  !.phase = "stopped", !.state = "VPN_SS_DISCONNECTED",
                  !.pending_error = NullOpt, !.client_state = "CLIS_DISCONNECTED",
                  !.postponement_window_timer = FALSE, !.selected_endpoint = NullOpt,
                  !.postponed_requests = {}, !.bypassed_connection_ids = {},
                  !.tasks = <<>>]
    BY <1>14, Zenon DEF Stopped
  <2>2. w \in VpnRecord /\ w.pinger = FALSE /\ Clean(w)
    <3>1. w \in VpnRecord
      BY <1>0, ResetRecoveryType, StopPingingType, Zenon
    <3>2. w.pinger = FALSE /\ Clean(w)
      BY <1>0, SMT DEF VpnRecord, stop_pinging, reset_recovery, Clean
    <3> QED BY <3>1, <3>2, Zenon
  <2> HIDE DEF w
  <2>3. /\ DOMAIN x = DOMAIN w /\ x.pinger = FALSE /\ RecoveryPart(x) = RecoveryPart(w)
        /\ x.client_fsm = "S_DISCONNECTED" /\ x.endpoint_connector = "nullptr"
    BY <2>2, SMT DEF VpnRecord, finalize_disconnect, close_connections, RecoveryPart
  <2>4. /\ DOMAIN w = DOMAIN vpn
        /\ {"phase", "state", "client_state", "tasks"} \subseteq DOMAIN vpn
    BY <1>0, <2>2, SMT DEF VpnRecord
  <2> HIDE DEF x
  <2>5. /\ (vpn').phase = "stopped" /\ (vpn').state = "VPN_SS_DISCONNECTED"
        /\ (vpn').client_state = "CLIS_DISCONNECTED" /\ (vpn').tasks = <<>>
        /\ (vpn').pinger = x.pinger /\ RecoveryPart(vpn') = RecoveryPart(x)
        /\ (vpn').client_fsm = x.client_fsm
        /\ (vpn').endpoint_connector = x.endpoint_connector
    BY <2>1, <2>3, <2>4, SMT DEF RecoveryPart
  <2>6. \A t : ~Has((vpn').tasks, t)
    BY <2>5, SMT DEF Has
  <2>7. ClientOK(vpn')
    BY <2>3, <2>5, <2>6, HasNotOnce, SMT DEF ClientOK
  <2>8. Clean(vpn') /\ ~(vpn').pinger /\ (vpn').phase # "created"
    BY <2>2, <2>3, <2>5, SMT DEF Clean, RecoveryPart
  <2> QED BY <1>2, <2>5, <2>6, <2>7, <2>8, HasNotOnce, Rests, Zenon
<1> QED BY <1>3, <1>4, <1>5, <1>6, <1>7, <1>8, <1>9, <1>10, <1>11, <1>12, <1>13, <1>14,
    Zenon DEF ApiNext

LEMMA InitConsistent == Init => Consistent(vpn)
<1> SUFFICES ASSUME Init PROVE Consistent(vpn)
  OBVIOUS
<1>1. vpn \in VpnRecord
  BY InitType
<1>2. /\ vpn.phase = "created" /\ vpn.state = "VPN_SS_DISCONNECTED" /\ vpn.tasks = <<>>
      /\ vpn.pinger = FALSE /\ vpn.recovery_attempts = 0 /\ vpn.recovery_task = FALSE
      /\ vpn.recovery_start_ts = FALSE /\ vpn.client_state = "CLIS_DISCONNECTED"
      /\ vpn.client_fsm = "S_DISCONNECTED" /\ vpn.endpoint_connector = "nullptr"
  BY SMT DEF Init
<1>3. \A t : ~Has(vpn.tasks, t)
  BY <1>2, SMT DEF Has
<1>4. ClientOK(vpn)
  BY <1>2, <1>3, HasNotOnce, SMT DEF ClientOK
<1>5. PingOK(vpn) /\ BeginOK(vpn) /\ QuietOK(vpn) /\ ArmedOK(vpn) /\ CleanOK(vpn)
  BY <1>2, <1>3, HasNotOnce, SMT DEF PingOK, BeginOK, QuietOK, ArmedOK, CleanOK, Clean
<1>6. EndpointOK(vpn) /\ RetryOK(vpn) /\ ConnectedOK(vpn) /\ DrivenOK(vpn)
  BY <1>2, SMT DEF EndpointOK, RetryOK, ConnectedOK, DrivenOK
<1> QED BY <1>1, <1>4, <1>5, <1>6, Zenon DEF Consistent, Steady

-----------------------------------------------------------------------------
(* The theorems.                                                           *)

\* The inductive invariant holds in every reachable state: session, ping,
\* recovery, endpoint client and queue of the manager agree with one another
\* between any two callbacks of the event loop.
THEOREM AlwaysConsistent == Spec => []Consistent(vpn)
<1>1. Init => Consistent(vpn)
  BY InitConsistent
<1>2. Consistent(vpn) /\ [Next]_vpn => Consistent(vpn')
  <2> SUFFICES ASSUME Consistent(vpn), [Next]_vpn
               PROVE  Consistent(vpn')
    OBVIOUS
  <2>1. CASE LoopNext
    BY <2>1, LoopNextConsistent, Zenon
  <2>2. CASE ApiNext
    BY <2>2, ApiNextConsistent, Zenon
  <2>3. CASE Done \/ UNCHANGED vpn
    BY <2>3, Zenon DEF Done
  <2> QED BY <2>1, <2>2, <2>3, Zenon DEF Next
<1>3. Consistent(vpn)' <=> Consistent(vpn')
  OBVIOUS
<1> QED BY <1>1, <1>2, <1>3, PTL DEF Spec

\* vpn_manager's client_state and the client's own Fsm never disagree, so that
\* disconnect_client never skips a client that is on.
THEOREM ClientAgreementHolds == Spec => []ClientAgreement
<1>1. Consistent(vpn) => ClientAgreement
  <2> SUFFICES ASSUME Consistent(vpn) PROVE ClientAgreement
    OBVIOUS
  <2>1. ClientOK(vpn) /\ vpn.client_state \in ClientConnectionStates
    BY Zenon DEF Consistent, Steady, VpnRecord
  <2> QED BY <2>1, SMT DEF ClientOK, ClientConnectionStates, ClientAgreement
<1> QED BY <1>1, AlwaysConsistent, PTL

\* The assertion of pinger_handler: no endpoint is selected while a ping runs.
THEOREM PingerHasNoEndpointHolds == Spec => []PingerHasNoEndpoint
<1>1. Consistent(vpn) => PingerHasNoEndpoint
  BY Zenon DEF Consistent, Steady, PingOK, PingerHasNoEndpoint
<1> QED BY <1>1, AlwaysConsistent, PTL

\* The flag of vpn_abandon_endpoint never reaches the ping it was set for.
THEOREM PingFailureNeverFatalHolds == Spec => []PingFailureNeverFatal
<1>1. Consistent(vpn) => PingFailureNeverFatal
  BY Zenon DEF Consistent, Steady, PingOK, PingFailureNeverFatal
<1> QED BY <1>1, AlwaysConsistent, PTL

\* A client in S_CONNECTING has a connector or the result of one is queued.
THEOREM ConnectingHasConnectorHolds == Spec => []ConnectingHasConnector
<1>1. Consistent(vpn) => ConnectingHasConnector
  BY Zenon DEF Consistent, Steady, ClientOK, ConnectingHasConnector
<1> QED BY <1>1, AlwaysConsistent, PTL

\* In CONNECTED, what raise_state dereferences exists: the selected endpoint, the
\* endpoint upstream, and a client the manager holds to be connected.
THEOREM ConnectedHasEndpointHolds == Spec => []ConnectedHasEndpoint
<1>1. Consistent(vpn) => ConnectedHasEndpoint
  <2> SUFFICES ASSUME Consistent(vpn), vpn.state = "VPN_SS_CONNECTED"
               PROVE  /\ vpn.selected_endpoint # NullOpt
                      /\ vpn.endpoint_upstream # "nullptr"
                      /\ vpn.client_state = "CLIS_CONNECTED"
    BY Zenon DEF ConnectedHasEndpoint
  <2>1. ClientOK(vpn) /\ EndpointOK(vpn) /\ ConnectedOK(vpn)
    BY Zenon DEF Consistent, Steady
  <2>2. vpn.client_state = "CLIS_CONNECTED"
    BY <2>1, Zenon DEF ConnectedOK
  <2> QED BY <2>1, <2>2, SMT DEF ClientOK, EndpointOK
<1> QED BY <1>1, AlwaysConsistent, PTL

\* A waiting session keeps neither ping nor client: prepare_for_recovery and
\* do_disconnect stop both, and no late callback starts one.
THEOREM WaitingIsQuietHolds == Spec => []WaitingIsQuiet
<1>1. Consistent(vpn) => WaitingIsQuiet
  BY Zenon DEF Consistent, Steady, QuietOK, WaitingIsQuiet
<1> QED BY <1>1, AlwaysConsistent, PTL

\* WAITING_RECOVERY always has its scheduled attempt or the task that gives up.
THEOREM WaitingRecoveryArmedHolds == Spec => []WaitingRecoveryArmed
<1>1. Consistent(vpn) => WaitingRecoveryArmed
  BY Zenon DEF Consistent, Steady, ArmedOK, WaitingRecoveryArmed, Queued, Has
<1> QED BY <1>1, AlwaysConsistent, PTL

\* No attempt of a recovery is counted, timed or scheduled outside of one.
THEOREM RecoveryStateCleanHolds == Spec => []RecoveryStateClean
<1>1. Consistent(vpn) => RecoveryStateClean
  <2> SUFFICES ASSUME Consistent(vpn),
                      vpn.state \in {"VPN_SS_DISCONNECTED", "VPN_SS_CONNECTED",
                                     "VPN_SS_WAITING_FOR_NETWORK"}
               PROVE  vpn.recovery_attempts = 0 /\ ~vpn.recovery_task
                      /\ ~vpn.recovery_start_ts
    BY Zenon DEF RecoveryStateClean
  <2>1. CleanOK(vpn)
    BY Zenon DEF Consistent, Steady
  <2> QED BY <2>1, SMT DEF CleanOK, Clean
<1> QED BY <1>1, AlwaysConsistent, PTL

\* A session that connects or recovers is driven by a ping, the client or a task:
\* no order of callbacks leaves it with nothing that will end the attempt.
THEOREM AttemptInProgressHolds == Spec => []AttemptInProgress
<1>1. Consistent(vpn) => AttemptInProgress
  <2> SUFFICES ASSUME Consistent(vpn) PROVE AttemptInProgress
    OBVIOUS
  <2>1. DrivenOK(vpn)
    BY Zenon DEF Consistent
  <2> QED BY <2>1, Zenon DEF DrivenOK, AttemptInProgress, Queued, Has
<1> QED BY <1>1, AlwaysConsistent, PTL

\* A session that has not ended always has something that takes it on: the
\* scheduled attempt, a ping, the client with its connector, or a queued task.
THEOREM SessionDrivenHolds == Spec => []SessionDriven
<1>1. WaitingRecoveryArmed /\ AttemptInProgress /\ ConnectingHasConnector => SessionDriven
  BY DEF SessionDriven
<1> QED BY <1>1, WaitingRecoveryArmedHolds, AttemptInProgressHolds, ConnectingHasConnectorHolds, PTL

\* What the callbacks of the manager assert or dereference is there, for every
\* order of callbacks.
THEOREM CallbackAssumptionsHold == Spec => []CallbackAssumptions
<1>1. /\ ConnectedHasEndpoint /\ PingerHasNoEndpoint /\ WaitingIsQuiet
      /\ RecoveryStateClean /\ PingFailureNeverFatal
      => CallbackAssumptions
  BY DEF CallbackAssumptions
<1> QED BY <1>1, ConnectedHasEndpointHolds, PingerHasNoEndpointHolds, WaitingIsQuietHolds,
           RecoveryStateCleanHolds, PingFailureNeverFatalHolds, PTL

=============================================================================
