----------------------------- MODULE VpnManager ------------------------------
(***************************************************************************)
(* The session manager of core/src/vpn_manager.cpp and the session state   *)
(* machine of core/src/vpn_fsm.cpp, composed with the endpoint client of   *)
(* module VpnClient.                                                       *)
(*                                                                         *)
(* The only variable is vpn, the state of one struct Vpn.  Everything that *)
(* changes it runs on the event-loop thread, one callback at a time, and a *)
(* callback runs to its end: an action is one callback.  What interleaves  *)
(* is the order of callbacks: tasks submitted to the loop (vpn.tasks, in   *)
(* FIFO order), timers, results of the pinger and of the connector, events *)
(* of the upstream, and the API calls of the application, whose tasks may  *)
(* have been submitted at any earlier moment and therefore run at any one. *)
(*                                                                         *)
(* A handler is an operator that takes vpn and returns the vpn it leaves,  *)
(* with the name of the C++ function.                                      *)
(***************************************************************************)
EXTENDS VpnClient

CONSTANTS
  Endpoints,            \* endpoints of the location given to vpn_connect
  Family,               \* address family of each endpoint
  Requests,             \* connect requests of client connections
  BypassRequests,       \* those the application answers with FORCE_BYPASS
  ConnectAttempts,      \* retry_info.attempts_num of VPN_CRP_SEVERAL_ATTEMPTS
  RecoveryAttempts,     \* upstream_config.recovery.attempts
  SizeMax,              \* largest value of size_t
  Policies,             \* retry policies the application may choose
  KillSwitch,           \* values killswitch_enabled may have
  MaxTasks              \* bound: no callback that submits runs on a longer queue

ASSUME ConstantsAssumption ==
  /\ Family \in [Endpoints -> {"AF_INET", "AF_INET6"}]
  /\ NullOpt \notin Endpoints
  /\ BypassRequests \subseteq Requests
  /\ SizeMax \in Nat \ {0}
  /\ ConnectAttempts \in 1..SizeMax
  /\ RecoveryAttempts \in Nat \ {0}
  /\ Policies \subseteq {"VPN_CRP_SEVERAL_ATTEMPTS", "VPN_CRP_FALL_INTO_RECOVERY"}
  /\ KillSwitch \subseteq BOOLEAN
  /\ MaxTasks \in Nat

VARIABLE vpn

SessionStates ==
  {"VPN_SS_DISCONNECTED", "VPN_SS_CONNECTING", "VPN_SS_CONNECTED",
   "VPN_SS_WAITING_RECOVERY", "VPN_SS_RECOVERING", "VPN_SS_WAITING_FOR_NETWORK"}

ClientConnectionStates == {"CLIS_DISCONNECTED", "CLIS_CONNECTING", "CLIS_CONNECTED"}

RetryPolicies == {"VPN_CRP_SEVERAL_ATTEMPTS", "VPN_CRP_FALL_INTO_RECOVERY"}

Phases == {"created", "running", "stopping", "stopped"}

(***************************************************************************)
(* struct Vpn.  The timestamps of RecoveryInfo are reduced to whether a    *)
(* recovery has a start, pinger to whether a result is still to come and   *)
(* pinger_location to the endpoints it was started with.  phase says where *)
(* the executor thread is between vpn_open and the end of vpn_stop.        *)
(***************************************************************************)
VpnRecord ==
  [phase : Phases, state : SessionStates, pending_error : MaybeError,
   recovery_attempts : 0..RecoveryAttempts, recovery_start_ts : BOOLEAN,
   recovery_task : BOOLEAN,
   selected_endpoint : Endpoints \cup {NullOpt},
   network_changed_before_recovery : BOOLEAN, connected_once : BOOLEAN,
   pinger : BOOLEAN, pinger_location : SUBSET Endpoints,
   ping_failure_induces_location_unavailable : BOOLEAN,
   client_state : ClientConnectionStates,
   retry_policy : RetryPolicies, attempts_left : 0..SizeMax,
   endpoints : SUBSET Endpoints,
   postponement_window_timer : BOOLEAN, postponed_requests : SUBSET Requests,
   bypassed_connection_ids : SUBSET Requests, completed : SUBSET Requests,
   kill_switch_on : BOOLEAN,
   client_fsm : ClientStates, client_pending_error : MaybeError,
   endpoint_connector : ConnectorStates, endpoint_upstream : UpstreamStates,
   endpoint_upstream_connected : BOOLEAN, conn : [Requests -> ConnStates],
   tasks : Seq(Tasks)]

Init ==
  \E kill_switch \in KillSwitch :
    vpn = [phase |-> "created", state |-> "VPN_SS_DISCONNECTED",
           pending_error |-> NullOpt, recovery_attempts |-> 0,
           recovery_start_ts |-> FALSE, recovery_task |-> FALSE,
           selected_endpoint |-> NullOpt,
           network_changed_before_recovery |-> FALSE, connected_once |-> FALSE,
           pinger |-> FALSE, pinger_location |-> {},
           ping_failure_induces_location_unavailable |-> FALSE,
           client_state |-> "CLIS_DISCONNECTED",
           retry_policy |-> "VPN_CRP_SEVERAL_ATTEMPTS", attempts_left |-> 0,
           endpoints |-> {},
           postponement_window_timer |-> FALSE, postponed_requests |-> {},
           bypassed_connection_ids |-> {}, completed |-> {},
           kill_switch_on |-> kill_switch,
           client_fsm |-> "S_DISCONNECTED", client_pending_error |-> NullOpt,
           endpoint_connector |-> "nullptr", endpoint_upstream |-> "nullptr",
           endpoint_upstream_connected |-> FALSE,
           conn |-> [r \in Requests |-> "none"], tasks |-> <<>>]

-----------------------------------------------------------------------------
(* Methods of struct Vpn (vpn_manager.cpp).                                *)

\* Mutant: the client is disconnected only once it has connected.
disconnect_client_once_connected(v) ==
  IF v.client_state = "CLIS_CONNECTED"
  THEN [client_disconnect(v) EXCEPT !.client_state = "CLIS_DISCONNECTED"]
  ELSE [v EXCEPT !.client_state = "CLIS_DISCONNECTED"]

disconnect_client(v) ==
  IF v.client_state = "CLIS_DISCONNECTED" THEN v
  ELSE [client_disconnect(v) EXCEPT !.client_state = "CLIS_DISCONNECTED"]

stop_pinging(v) ==
  [v EXCEPT !.pinger = FALSE, !.pinger_location = {},
            !.ping_failure_induces_location_unavailable = FALSE]

disconnect(v) == disconnect_client(stop_pinging(v))

\* recovery = {}; destroying the old value cancels its task.
reset_recovery(v) ==
  [v EXCEPT !.recovery_attempts = 0, !.recovery_start_ts = FALSE,
            !.recovery_task = FALSE]

\* Mutant: a connection that has been closed is not looked up first.
complete_all_closed_too(v, requests, bypass) ==
  [v EXCEPT !.conn = [r \in DOMAIN v.conn |->
     IF r \notin requests \/ v.conn[r] = "none" THEN v.conn[r]
     ELSE IF r \in bypass THEN "bypassed"
     ELSE IF v.endpoint_upstream_connected THEN "redirected"
     ELSE "closed"]]

(***************************************************************************)
(* Tunnel::complete_connect_request with a routing decision: FORCE_BYPASS  *)
(* routes directly, anything else through the endpoint, which is refused   *)
(* while the tunnel is not connected to it (a suspected exclusion, which   *)
(* goes to the fake upstream, is left out).  A closed connection is not    *)
(* found in the tunnel's table and stays closed.                           *)
(***************************************************************************)
complete_all(v, requests, bypass) ==
  [v EXCEPT !.conn = [r \in DOMAIN v.conn |->
     IF r \notin requests \/ v.conn[r] \in {"none", "closed"} THEN v.conn[r]
     ELSE IF r \in bypass THEN "bypassed"
     ELSE IF v.endpoint_upstream_connected THEN "redirected"
     ELSE "closed"]]

reject_all(v, requests) ==
  [v EXCEPT !.conn = [r \in DOMAIN v.conn |->
     IF r \in requests /\ v.conn[r] # "none" THEN "closed" ELSE v.conn[r]]]

\* Mutant: the list is not cleared after the loop over it.
complete_postponed_requests_uncleared(v) ==
  complete_all(v, v.postponed_requests, BypassRequests)

complete_postponed_requests(v) ==
  [complete_all(v, v.postponed_requests, BypassRequests) EXCEPT
     !.postponed_requests = {}]

\* Mutant: only the list is cleared.
reset_bypassed_connections_forgotten(v) == [v EXCEPT !.bypassed_connection_ids = {}]

reset_bypassed_connections(v) ==
  [v EXCEPT !.conn = [r \in DOMAIN v.conn |->
                        IF r \in v.bypassed_connection_ids /\ v.conn[r] # "none"
                        THEN "closed" ELSE v.conn[r]],
            !.bypassed_connection_ids = {}]

-----------------------------------------------------------------------------
(* Guards and actions of the session state machine (vpn_fsm.cpp).          *)

FatalErrors == {"VPN_EC_AUTH_REQUIRED", "VPN_EC_LOCATION_UNAVAILABLE"}

is_fatal_error(v, error) == error \in FatalErrors \/ v.pending_error \in FatalErrors

fall_into_recovery(v) == v.retry_policy = "VPN_CRP_FALL_INTO_RECOVERY"

no_connect_attempts(v) ==
  v.retry_policy = "VPN_CRP_SEVERAL_ATTEMPTS" /\ v.attempts_left = 0

need_to_ping_on_recovery(v, late) ==
  v.selected_endpoint = NullOpt \/ v.network_changed_before_recovery \/ late

\* perform_transition's state change followed by raise_state.
Enter(v, st) ==
  [v EXCEPT
     !.state = st,
     !.pending_error = IF st = "VPN_SS_CONNECTED" THEN @ ELSE NullOpt,
     !.connected_once = @ \/ st = "VPN_SS_CONNECTED",
     !.network_changed_before_recovery =
        @ /\ st \notin {"VPN_SS_DISCONNECTED", "VPN_SS_CONNECTING", "VPN_SS_RECOVERING"}]

\* Mutant: the endpoint of the previous attempt stays selected.
run_ping_keeps_endpoint(v) ==
  [stop_pinging(v) EXCEPT
     !.pinger = TRUE, !.pinger_location = v.endpoints,
     !.pending_error = NullOpt, !.recovery_task = FALSE]

run_ping(v) ==
  [stop_pinging(v) EXCEPT
     !.pinger = TRUE, !.pinger_location = v.endpoints,
     !.pending_error = NullOpt, !.selected_endpoint = NullOpt,
     !.recovery_task = FALSE]

run_client_connect(v, started) ==
  LET error == connect_error(v, started)
      w == client_connect(v, started)
  IN IF error = NoError
     THEN [w EXCEPT !.client_state = "CLIS_CONNECTING", !.pending_error = NullOpt]
     ELSE submit([w EXCEPT !.pending_error = error], "client_disconnected")

connect_client(v, started) == run_client_connect(v, started)

reconnect_client(v, started) == run_client_connect(disconnect_client(v), started)

\* Mutant: one attempt too many.
initiate_recovery_one_more(v, slow) ==
  IF v.recovery_attempts > RecoveryAttempts
  THEN submit(v, "failed_recovery")
  ELSE [v EXCEPT
          !.postponement_window_timer = @ \/ ~v.recovery_start_ts,
          !.recovery_attempts = @ + 1,
          !.recovery_task = TRUE,
          !.recovery_start_ts = ~slow]

\* Mutant: nobody is told that no attempt is left.
initiate_recovery_silent(v, slow) ==
  IF v.recovery_attempts >= RecoveryAttempts THEN v
  ELSE [v EXCEPT
          !.postponement_window_timer = @ \/ ~v.recovery_start_ts,
          !.recovery_attempts = @ + 1,
          !.recovery_task = TRUE,
          !.recovery_start_ts = ~slow]

\* Mutant: a recovery that takes too long forgets its attempts with its times.
initiate_recovery_forgets(v, slow) ==
  IF v.recovery_attempts >= RecoveryAttempts
  THEN submit(v, "failed_recovery")
  ELSE [v EXCEPT
          !.postponement_window_timer = @ \/ ~v.recovery_start_ts,
          !.recovery_attempts = IF slow THEN 0 ELSE @ + 1,
          !.recovery_task = TRUE,
          !.recovery_start_ts = ~slow]

(***************************************************************************)
(* Out of attempts, initiate_recovery only submits the task that shuts the *)
(* session down.  The first attempt of a recovery starts the postponement  *)
(* window; slow says that the recovery outlived location_update_period_ms, *)
(* which clears its start time but not the counter of attempts.            *)
(***************************************************************************)
initiate_recovery(v, slow) ==
  IF v.recovery_attempts >= RecoveryAttempts
  THEN submit(v, "failed_recovery")
  ELSE [v EXCEPT
          !.postponement_window_timer = @ \/ ~v.recovery_start_ts,
          !.recovery_attempts = @ + 1,
          !.recovery_task = TRUE,
          !.recovery_start_ts = ~slow]

\* Keep the error that brought the session here unless one is already pending.
note_error(v, error) ==
  [v EXCEPT !.pending_error =
     IF @ = NullOpt /\ error \notin {NullOpt, NoError} THEN error ELSE @]

prepare_for_recovery(v, error, slow) ==
  note_error(initiate_recovery(disconnect(v), slow), error)

(***************************************************************************)
(* complete_connect disconnects only when it is the one to record an error *)
(* and leaves the postponement window and postponed requests alone.  The   *)
(* health check it submits on success is an event of the upstream.         *)
(***************************************************************************)
complete_connect(v, error) ==
  LET failed == v.pending_error = NullOpt /\ error \notin {NullOpt, NoError}
      w == IF failed THEN note_error(disconnect(v), error) ELSE v
      exhausted == /\ w.pending_error # NullOpt
                   /\ ~is_fatal_error(w, error)
                   /\ no_connect_attempts(w)
  IN reset_recovery([w EXCEPT !.pending_error =
                       IF exhausted THEN "VPN_EC_INITIAL_CONNECT_FAILED" ELSE @])

fail_connect_with_no_attempts(v) ==
  complete_connect(v, "VPN_EC_INITIAL_CONNECT_FAILED")

\* size_t arithmetic: zero wraps.
decrement(n) == IF n = 0 THEN SizeMax ELSE n - 1

\* assert(0) under the other policy is compiled out of release builds.
retry_connect(v) ==
  submit(disconnect(IF v.retry_policy = "VPN_CRP_SEVERAL_ATTEMPTS"
                    THEN [v EXCEPT !.attempts_left = decrement(@)] ELSE v),
         "retry_connect")

finalize_recovery(v) ==
  reset_bypassed_connections(complete_postponed_requests(
    [stop_pinging(reset_recovery(v)) EXCEPT !.postponement_window_timer = FALSE]))

do_disconnect(v) == disconnect(reset_recovery(v))

-----------------------------------------------------------------------------
(***************************************************************************)
(* TRANSITION_TABLE, one operator per event.  An arm is a row of the table *)
(* (or rows that run the same code); rows of one state are tried in order, *)
(* so the guard of a row repeats the negations of the rows above it.  With *)
(* no row for its state an event changes nothing.                          *)
(***************************************************************************)
On_DO_CONNECT(v) ==
  IF v.state = "VPN_SS_DISCONNECTED"
  THEN Enter(run_ping(v), "VPN_SS_CONNECTING")
  ELSE Enter(disconnect(v), "VPN_SS_DISCONNECTED")       \* on_wrong_connect_state

On_RETRY_CONNECT(v) ==
  IF v.state = "VPN_SS_CONNECTING" THEN run_ping(v) ELSE v

On_PING_READY(v, started) ==
  CASE v.state = "VPN_SS_CONNECTING" -> connect_client(v, started)
    [] v.state = "VPN_SS_RECOVERING" -> reconnect_client(v, started)
    [] OTHER -> v

\* The rows that CE_PING_FAIL and CE_CLIENT_DISCONNECTED share in CONNECTING.
connecting_failed(v, error, slow) ==
  LET fatal == is_fatal_error(v, error)
  IN CASE fatal \/ (~fall_into_recovery(v) /\ no_connect_attempts(v)) ->
            Enter(complete_connect(v, error), "VPN_SS_DISCONNECTED")
       [] ~fatal /\ fall_into_recovery(v) ->
            Enter(prepare_for_recovery(v, error, slow), "VPN_SS_WAITING_RECOVERY")
       [] OTHER -> retry_connect(v)

\* The rows that end a session or put it into recovery.
session_failed(v, error, slow) ==
  IF is_fatal_error(v, error)
  THEN Enter(do_disconnect(v), "VPN_SS_DISCONNECTED")
  ELSE Enter(prepare_for_recovery(v, error, slow), "VPN_SS_WAITING_RECOVERY")

On_PING_FAIL(v, error, slow) ==
  CASE v.state = "VPN_SS_CONNECTING" -> connecting_failed(v, error, slow)
    [] v.state = "VPN_SS_RECOVERING" -> session_failed(v, error, slow)
    [] OTHER -> v

On_CLIENT_READY(v) ==
  CASE v.state = "VPN_SS_CONNECTING" ->
         Enter(complete_connect(v, NullOpt), "VPN_SS_CONNECTED")
    [] v.state = "VPN_SS_RECOVERING" ->
         Enter(finalize_recovery(v), "VPN_SS_CONNECTED")
    [] OTHER -> v

On_CLIENT_DISCONNECTED(v, error, slow) ==
  CASE v.state = "VPN_SS_DISCONNECTED" -> v
    [] v.state = "VPN_SS_CONNECTING" -> connecting_failed(v, error, slow)
    [] v.state = "VPN_SS_WAITING_RECOVERY" /\ ~is_fatal_error(v, error) -> v
    [] OTHER -> session_failed(v, error, slow)

On_ABANDON_ENDPOINT(v, slow) ==
  CASE v.state = "VPN_SS_CONNECTING" /\ is_fatal_error(v, NullOpt) ->
         Enter(complete_connect(v, NullOpt), "VPN_SS_DISCONNECTED")
    [] v.state = "VPN_SS_CONNECTING" /\ ~is_fatal_error(v, NullOpt) ->
         retry_connect(v)
    [] v.state \in {"VPN_SS_CONNECTED", "VPN_SS_RECOVERING"} ->
         session_failed(v, NullOpt, slow)
    [] v.state = "VPN_SS_WAITING_RECOVERY" /\ is_fatal_error(v, NullOpt) ->
         Enter(do_disconnect(v), "VPN_SS_DISCONNECTED")
    [] OTHER -> v

\* The row of VPN_SS_CONNECTING passes the network state where prepare_for_recovery
\* expects an error: VPN_NS_CONNECTED is 0 and reads as VPN_EC_NOERROR.
On_NETWORK_CHANGE(v, lost, slow) ==
  CASE v.state = "VPN_SS_CONNECTING" /\ no_connect_attempts(v) ->
         Enter(fail_connect_with_no_attempts(v), "VPN_SS_DISCONNECTED")
    [] v.state = "VPN_SS_CONNECTING" /\ ~no_connect_attempts(v) /\ ~lost
         /\ ~fall_into_recovery(v) -> retry_connect(v)
    [] \/ v.state \in {"VPN_SS_CONNECTED", "VPN_SS_WAITING_RECOVERY",
                       "VPN_SS_RECOVERING"} /\ lost
       \/ v.state = "VPN_SS_CONNECTING" /\ ~no_connect_attempts(v) /\ lost ->
         Enter(do_disconnect(v), "VPN_SS_WAITING_FOR_NETWORK")
    [] \/ v.state \in {"VPN_SS_CONNECTED", "VPN_SS_RECOVERING"} /\ ~lost
       \/ v.state = "VPN_SS_CONNECTING" /\ ~lost /\ fall_into_recovery(v)
       \/ v.state = "VPN_SS_WAITING_FOR_NETWORK" /\ ~lost /\ v.connected_once ->
         Enter(prepare_for_recovery(v, NullOpt, slow), "VPN_SS_WAITING_RECOVERY")
    [] v.state = "VPN_SS_WAITING_RECOVERY" /\ ~lost ->
         Enter(run_ping(v), "VPN_SS_RECOVERING")
    [] v.state = "VPN_SS_WAITING_FOR_NETWORK" /\ ~lost /\ ~v.connected_once
         /\ no_connect_attempts(v) ->
         Enter(fail_connect_with_no_attempts(v), "VPN_SS_DISCONNECTED")
    [] v.state = "VPN_SS_WAITING_FOR_NETWORK" /\ ~lost /\ ~v.connected_once
         /\ ~no_connect_attempts(v) ->
         Enter(retry_connect(v), "VPN_SS_CONNECTING")
    [] OTHER -> v

\* Mutant: the row is for any source state.
On_DO_RECOVERY_any_state(v, late, started) ==
  Enter(IF need_to_ping_on_recovery(v, late) THEN run_ping(v)
                                             ELSE connect_client(v, started),
        "VPN_SS_RECOVERING")

On_DO_RECOVERY(v, late, started) ==
  IF v.state # "VPN_SS_WAITING_RECOVERY" THEN v
  ELSE Enter(IF need_to_ping_on_recovery(v, late) THEN run_ping(v)
                                                  ELSE connect_client(v, started),
             "VPN_SS_RECOVERING")

On_SHUTDOWN(v) ==
  IF v.state = "VPN_SS_DISCONNECTED" THEN do_disconnect(v)
  ELSE Enter(do_disconnect(v), "VPN_SS_DISCONNECTED")

\* should_complete_immediately is the tunnel's decision about the connection.
can_complete(v, r, immediate) ==
  \/ r \in BypassRequests
  \/ v.state \in {"VPN_SS_CONNECTED", "VPN_SS_CONNECTING", "VPN_SS_DISCONNECTED",
                  "VPN_SS_WAITING_FOR_NETWORK"}
  \/ immediate

bypass_until_connected(v, r) ==
  [complete_all(v, {r}, {r}) EXCEPT !.bypassed_connection_ids = @ \cup {r}]

On_COMPLETE_REQUEST(v, r, immediate) ==
  CASE can_complete(v, r, immediate) -> complete_all(v, {r}, BypassRequests)
    [] ~can_complete(v, r, immediate) /\ v.postponement_window_timer ->
         [v EXCEPT !.postponed_requests = @ \cup {r}]
    [] ~can_complete(v, r, immediate) /\ ~v.postponement_window_timer
         /\ v.kill_switch_on -> reject_all(v, {r})
    [] OTHER -> bypass_until_connected(v, r)

-----------------------------------------------------------------------------
(* Events of the client (client_handler) and the tasks of the loop.        *)

client_connected(v) == On_CLIENT_READY([v EXCEPT !.client_state = "CLIS_CONNECTED"])

\* raise_disconnected: EVENT_ERROR with the pending error or EVENT_DISCONNECTED.
raise_disconnected(v, slow) ==
  On_CLIENT_DISCONNECTED(
    [v EXCEPT !.client_state = "CLIS_DISCONNECTED", !.client_pending_error = NullOpt],
    v.client_pending_error, slow)

\* E_SESSION_CLOSED has a row in every client state.
session_closed(v, slow) ==
  raise_disconnected([v EXCEPT !.client_fsm = "S_DISCONNECTED"], slow)

\* Mutant: a failed connector is only released.
endpoint_connector_finalizer_silent(v, slow) ==
  LET w == [v EXCEPT !.endpoint_connector = "nullptr"]
      opened == [w EXCEPT !.endpoint_upstream_connected = TRUE]
  IN CASE v.client_pending_error # NullOpt -> w
       [] v.client_pending_error = NullOpt /\ v.client_fsm = "S_CONNECTING" ->
            client_connected([opened EXCEPT !.client_fsm = "S_CONNECTED"])
       [] OTHER -> opened

endpoint_connector_finalizer(v, slow) ==
  LET w == [v EXCEPT !.endpoint_connector = "nullptr"]
      opened == [w EXCEPT !.endpoint_upstream_connected = TRUE]
  IN CASE v.client_pending_error # NullOpt -> session_closed(w, slow)
       [] v.client_pending_error = NullOpt /\ v.client_fsm = "S_CONNECTING" ->
            client_connected([opened EXCEPT !.client_fsm = "S_CONNECTED"])
       [] OTHER -> opened

deferred_disconnect(v, slow) ==
  IF v.client_fsm = "S_DISCONNECTING" THEN raise_disconnected(run_disconnect(v), slow)
  ELSE v

\* The task submitted by vpn_connect.
do_connect(v) ==
  On_DO_CONNECT([v EXCEPT
    !.endpoints = Endpoints,
    !.attempts_left = IF v.retry_policy = "VPN_CRP_SEVERAL_ATTEMPTS"
                      THEN decrement(@) ELSE @])

\* The task submitted by initiate_recovery when no attempt is left.
failed_recovery(v) ==
  On_SHUTDOWN([reset_recovery(v) EXCEPT
                 !.pending_error = "VPN_EC_LOCATION_UNAVAILABLE"])

\* The task submitted by start_listening.
listen_failed(v) == On_SHUTDOWN([v EXCEPT !.pending_error = "VPN_EC_ERROR"])

run_task(v, task, slow) ==
  CASE task = "do_connect" -> do_connect(v)
    [] task = "retry_connect" -> On_RETRY_CONNECT(v)
    [] task = "client_disconnected" -> On_CLIENT_DISCONNECTED(v, NullOpt, slow)
    [] task = "failed_recovery" -> failed_recovery(v)
    [] task = "listen_failed" -> listen_failed(v)
    [] task = "shutdown" -> On_SHUTDOWN(v)
    [] task = "endpoint_connector_finalizer" -> endpoint_connector_finalizer(v, slow)
    [] task = "deferred_disconnect" -> deferred_disconnect(v, slow)
    [] OTHER -> v

-----------------------------------------------------------------------------
(* Actions.  loop_active: the event loop is running callbacks.             *)

loop_active == vpn.phase \in {"running", "stopping"}

has_room == Len(vpn.tasks) < MaxTasks

\* vpn_connect; a second call is refused while the executor thread is joinable.
Connect(policy) ==
  /\ vpn.phase = "created"
  /\ vpn' = submit([vpn EXCEPT !.phase = "running",
                               !.retry_policy = policy,
                               !.attempts_left = ConnectAttempts], "do_connect")

RunTask(slow) ==
  /\ loop_active
  /\ vpn.tasks # <<>>
  /\ vpn' = run_task([vpn EXCEPT !.tasks = Tail(@)], Head(vpn.tasks), slow)

(***************************************************************************)
(* pinger_handler.  A ping needs at least one timer of the loop, so every  *)
(* task that was queued when it started has run before its result: a retry *)
(* still queued belongs to an older attempt and comes first.               *)
(***************************************************************************)
pinger_finished(v) == [v EXCEPT !.pinger = FALSE, !.pinger_location = {},
                                !.selected_endpoint = NullOpt,
                                !.ping_failure_induces_location_unavailable = FALSE]

no_retry_queued == \A i \in DOMAIN vpn.tasks : vpn.tasks[i] # "retry_connect"

PingerFailed(slow) ==
  /\ loop_active /\ has_room
  /\ vpn.pinger
  /\ no_retry_queued
  /\ LET error == IF vpn.ping_failure_induces_location_unavailable
                  THEN "VPN_EC_LOCATION_UNAVAILABLE" ELSE "VPN_EC_ERROR"
     IN vpn' = On_PING_FAIL(pinger_finished(vpn), error, slow)

PingerSelected(e, started, slow) ==
  /\ loop_active /\ has_room
  /\ vpn.pinger /\ e \in vpn.pinger_location
  /\ no_retry_queued
  /\ vpn' = IF e \in vpn.endpoints
            THEN On_PING_READY([pinger_finished(vpn) EXCEPT !.selected_endpoint = e],
                               started)
            ELSE On_PING_FAIL([pinger_finished(vpn) EXCEPT
                                 !.ping_failure_induces_location_unavailable =
                                    vpn.ping_failure_induces_location_unavailable],
                              "VPN_EC_ERROR", slow)

\* The endpoint connector reports a session or an error.
ConnectorReport(error, dns_ok) ==
  /\ loop_active /\ has_room
  /\ vpn.endpoint_connector = "connecting"
  /\ vpn' = endpoint_connector_handler(vpn, error, dns_ok)

(***************************************************************************)
(* vpn_upstream_handler.  A session that ends by itself is closed before   *)
(* its one event is raised; a failed health check leaves it open.          *)
(***************************************************************************)
upstream_ended(v) ==
  on_before_endpoint_disconnect([v EXCEPT !.endpoint_upstream = "closed"])

UpstreamClosed(slow) ==
  /\ loop_active /\ has_room
  /\ vpn.endpoint_upstream = "open"
  /\ vpn' = session_closed(upstream_ended(vpn), slow)

UpstreamError(error) ==
  /\ loop_active /\ has_room
  /\ vpn.endpoint_upstream = "open"
  /\ vpn' = submit_disconnect(upstream_ended(vpn), error)

HealthCheckError ==
  /\ loop_active /\ has_room
  /\ vpn.client_fsm = "S_CONNECTED"
  /\ vpn' = submit_disconnect(vpn, "VPN_EC_ERROR")

\* The task scheduled by initiate_recovery.
RecoveryTimer(late, started) ==
  /\ loop_active /\ has_room
  /\ vpn.recovery_task
  /\ vpn' = On_DO_RECOVERY([vpn EXCEPT !.recovery_task = FALSE], late, started)

\* Mutant: the kill switch is not asked.
PostponementTimer_bypasses ==
  /\ loop_active
  /\ vpn.postponement_window_timer
  /\ vpn' = [complete_all([vpn EXCEPT !.postponement_window_timer = FALSE,
                                      !.postponed_requests = {}],
                          vpn.postponed_requests, vpn.postponed_requests) EXCEPT
               !.bypassed_connection_ids = @ \cup vpn.postponed_requests]

\* postponement_window_timer_cb.
PostponementTimer ==
  /\ loop_active
  /\ vpn.postponement_window_timer
  /\ LET w == [vpn EXCEPT !.postponement_window_timer = FALSE,
                          !.postponed_requests = {}]
         requests == vpn.postponed_requests
     IN vpn' = IF vpn.kill_switch_on THEN reject_all(w, requests)
               ELSE [complete_all(w, requests, requests) EXCEPT
                       !.bypassed_connection_ids = @ \cup requests]

-----------------------------------------------------------------------------
(* Tasks of the API calls of the application.                              *)

ForceReconnect(late, started) ==
  /\ loop_active /\ has_room
  /\ vpn' = On_DO_RECOVERY(vpn, late, started)

ForceDisconnect(fatal_connectivity_error) ==
  /\ loop_active
  /\ vpn' = On_SHUTDOWN([vpn EXCEPT !.pending_error =
              IF fatal_connectivity_error THEN "VPN_EC_FATAL_CONNECTIVITY_ERROR" ELSE @])

NetworkChange(lost, slow) ==
  /\ loop_active /\ has_room
  /\ vpn' = On_NETWORK_CHANGE([vpn EXCEPT !.network_changed_before_recovery = TRUE],
                              lost, slow)

\* No endpoint of the family of e is left once e is removed.
family_exhausted(v, e) == \A o \in v.endpoints \ {e} : Family[o] # Family[e]

abandon_endpoint(v, e, slow) ==
  LET selected == v.selected_endpoint = e
      w == [v EXCEPT !.endpoints = @ \ {e},
                     !.selected_endpoint = IF selected THEN NullOpt ELSE @]
  IN CASE family_exhausted(v, e) ->
            On_ABANDON_ENDPOINT([w EXCEPT !.endpoints = {},
               !.pending_error = "VPN_EC_LOCATION_UNAVAILABLE"], slow)
       [] ~family_exhausted(v, e) /\ selected ->
            On_ABANDON_ENDPOINT([w EXCEPT
               !.pending_error = "VPN_EC_ERROR",
               !.ping_failure_induces_location_unavailable = TRUE], slow)
       [] OTHER -> w

AbandonEndpoint(e, slow) ==
  /\ loop_active /\ has_room
  /\ vpn' = abandon_endpoint(vpn, e, slow)

\* vpn_listen fails to start the listener; a success changes nothing modelled.
ListenFailed ==
  /\ vpn.phase = "running" /\ Len(vpn.tasks) + 1 < MaxTasks
  /\ vpn.state # "VPN_SS_DISCONNECTED"
  /\ vpn' = submit(submit_disconnect(vpn, NullOpt), "listen_failed")

\* VPN_EVENT_CONNECT_REQUEST: the listener has a new connection.
ConnectRequest(r) ==
  /\ loop_active
  /\ vpn.conn[r] = "none"
  /\ vpn' = [vpn EXCEPT !.conn[r] = "requested"]

CompleteConnectRequest(r, immediate) ==
  /\ loop_active
  /\ vpn.conn[r] # "none" /\ r \notin vpn.completed
  /\ vpn' = On_COMPLETE_REQUEST([vpn EXCEPT !.completed = @ \cup {r}], r, immediate)

\* A connection ends by itself: either side closes it or it cannot be opened.
ConnectionClosed(r) ==
  /\ loop_active
  /\ vpn.conn[r] \notin {"none", "closed"}
  /\ vpn' = [vpn EXCEPT !.conn[r] = "closed"]

\* vpn_reset_connections and vpn_update_exclusions: only a connected client acts.
ResetConnections ==
  /\ loop_active
  /\ vpn.client_fsm = "S_CONNECTED"
  /\ vpn' = close_connections(vpn)

-----------------------------------------------------------------------------
(* vpn_stop: the loop may run more callbacks before the thread is joined.  *)

Stop ==
  /\ vpn.phase = "running"
  /\ vpn' = submit([vpn EXCEPT !.phase = "stopping"], "shutdown")

finalize_disconnect(v) ==
  [close_connections(v) EXCEPT
     !.endpoint_upstream = "nullptr", !.endpoint_connector = "nullptr",
     !.client_fsm = "S_DISCONNECTED", !.endpoint_upstream_connected = FALSE]

Stopped ==
  /\ vpn.phase = "stopping"
  /\ vpn' = [finalize_disconnect(stop_pinging(reset_recovery(vpn))) EXCEPT
               !.phase = "stopped", !.state = "VPN_SS_DISCONNECTED",
               !.pending_error = NullOpt, !.client_state = "CLIS_DISCONNECTED",
               !.postponement_window_timer = FALSE, !.selected_endpoint = NullOpt,
               !.postponed_requests = {}, !.bypassed_connection_ids = {},
               !.tasks = <<>>]

Done == vpn.phase = "stopped" /\ UNCHANGED vpn

-----------------------------------------------------------------------------
ConnectorErrors == {NullOpt, NoError, "VPN_EC_ERROR", "VPN_EC_AUTH_REQUIRED"}

UpstreamErrors == {"VPN_EC_ERROR", "VPN_EC_AUTH_REQUIRED"}

LoopNext ==
  \/ \E slow \in BOOLEAN : RunTask(slow)
  \/ \E slow \in BOOLEAN : PingerFailed(slow)
  \/ \E e \in Endpoints, started, slow \in BOOLEAN : PingerSelected(e, started, slow)
  \/ \E error \in ConnectorErrors, dns_ok \in BOOLEAN : ConnectorReport(error, dns_ok)
  \/ \E slow \in BOOLEAN : UpstreamClosed(slow)
  \/ \E error \in UpstreamErrors : UpstreamError(error)
  \/ HealthCheckError
  \/ \E late, started \in BOOLEAN : RecoveryTimer(late, started)
  \/ PostponementTimer

ApiNext ==
  \/ \E policy \in Policies : Connect(policy)
  \/ \E late, started \in BOOLEAN : ForceReconnect(late, started)
  \/ \E fatal \in BOOLEAN : ForceDisconnect(fatal)
  \/ \E lost, slow \in BOOLEAN : NetworkChange(lost, slow)
  \/ \E e \in Endpoints, slow \in BOOLEAN : AbandonEndpoint(e, slow)
  \/ ListenFailed
  \/ \E r \in Requests : ConnectRequest(r)
  \/ \E r \in Requests, immediate \in BOOLEAN : CompleteConnectRequest(r, immediate)
  \/ \E r \in Requests : ConnectionClosed(r)
  \/ ResetConnections
  \/ Stop
  \/ Stopped

Next == LoopNext \/ ApiNext \/ Done

Spec == Init /\ [][Next]_vpn

-----------------------------------------------------------------------------
(***************************************************************************)
(* Fairness.  The loop runs the tasks it is given; a ping, a connector and *)
(* a timer have timeouts of their own, so each ends by itself; vpn_stop    *)
(* exits the loop and joins its thread.  The postponement timer is created *)
(* anew whenever a recovery starts (initiate_recovery), so it is known to  *)
(* fire only if recoveries do not start for ever.                          *)
(***************************************************************************)
RecoveryStarts ==
  ~vpn.recovery_start_ts /\ vpn'.recovery_attempts > vpn.recovery_attempts

RecoveriesCease == <>[][~RecoveryStarts]_vpn

Fairness ==
  /\ WF_vpn(\E slow \in BOOLEAN : RunTask(slow))
  /\ WF_vpn(\/ \E slow \in BOOLEAN : PingerFailed(slow)
            \/ \E e \in Endpoints, started, slow \in BOOLEAN :
                 PingerSelected(e, started, slow))
  /\ WF_vpn(\E error \in ConnectorErrors, dns_ok \in BOOLEAN :
              ConnectorReport(error, dns_ok))
  /\ WF_vpn(\E late, started \in BOOLEAN : RecoveryTimer(late, started))
  /\ WF_vpn(Stopped)

FairSpec == Spec /\ Fairness

TimerFairSpec == FairSpec /\ (RecoveriesCease => WF_vpn(PostponementTimer))

-----------------------------------------------------------------------------
(* Safety.                                                                 *)

Queued(task) == \E i \in DOMAIN vpn.tasks : vpn.tasks[i] = task

\* Every field of struct Vpn keeps its type; in particular the counter of
\* recovery attempts never passes its configured maximum.
TypeOK == vpn \in VpnRecord

\* raise_state dereferences client.endpoint_upstream and selected_endpoint when
\* the session becomes CONNECTED, and vpn_request_endpoint_connection_stats does
\* later: both exist for as long as the session is CONNECTED, whatever the order
\* of abandoned endpoints, late pings and lost sessions.
ConnectedHasEndpoint ==
  vpn.state = "VPN_SS_CONNECTED" =>
    /\ vpn.selected_endpoint # NullOpt
    /\ vpn.endpoint_upstream # "nullptr"
    /\ vpn.client_state = "CLIS_CONNECTED"

\* pinger_handler asserts that no endpoint is selected when a ping reports.
PingerHasNoEndpoint == vpn.pinger => vpn.selected_endpoint = NullOpt

\* client_state, the manager's idea of the client, agrees with the client's own
\* machine between any two callbacks: disconnect_client never skips a client
\* that is on, and VpnClient::connect is never refused for "Invalid state".
ClientAgreement ==
  vpn.client_fsm \in
    CASE vpn.client_state = "CLIS_DISCONNECTED" -> {"S_DISCONNECTED"}
      [] vpn.client_state = "CLIS_CONNECTING" -> {"S_CONNECTING"}
      [] vpn.client_state = "CLIS_CONNECTED" -> {"S_CONNECTED", "S_DISCONNECTING"}

\* A session that waits for recovery has something that will end the wait: the
\* scheduled attempt or the task that gives up.
WaitingRecoveryArmed ==
  vpn.state = "VPN_SS_WAITING_RECOVERY" =>
    vpn.recovery_task \/ Queued("failed_recovery")

\* A session that waits for recovery or for the network keeps neither a ping nor
\* the client going.
WaitingIsQuiet ==
  vpn.state \in {"VPN_SS_WAITING_RECOVERY", "VPN_SS_WAITING_FOR_NETWORK"} =>
    ~vpn.pinger /\ vpn.client_state = "CLIS_DISCONNECTED"

\* A session that connects or recovers is being driven by something: a ping, the
\* client, or a queued task that starts one of them or reports the failure.
AttemptInProgress ==
  vpn.state \in {"VPN_SS_CONNECTING", "VPN_SS_RECOVERING"} =>
    \/ vpn.pinger
    \/ vpn.client_state # "CLIS_DISCONNECTED"
    \/ Queued("retry_connect") \/ Queued("client_disconnected")

\* A client that is connecting has a connector, alive or with its result queued:
\* a late finalizer or a stale upstream event never leaves it with neither.
ConnectingHasConnector ==
  vpn.client_fsm = "S_CONNECTING" => vpn.endpoint_connector # "nullptr"

\* Recovery state belongs to a recovery: a session that is disconnected,
\* connected or without network has no attempt counted, timed or scheduled.
RecoveryStateClean ==
  vpn.state \in {"VPN_SS_DISCONNECTED", "VPN_SS_CONNECTED", "VPN_SS_WAITING_FOR_NETWORK"} =>
    vpn.recovery_attempts = 0 /\ ~vpn.recovery_task /\ ~vpn.recovery_start_ts

\* The flag vpn_abandon_endpoint sets, to turn a failed ping into
\* VPN_EC_LOCATION_UNAVAILABLE, is always cleared before the ping it was meant
\* for: every way from there to run_ping goes through stop_pinging.
PingFailureNeverFatal == vpn.pinger => ~vpn.ping_failure_induces_location_unavailable

\* No order of callbacks leaves a session that has not ended with nothing that
\* will take it on: a wait for recovery is armed, an attempt to connect or to
\* recover is driven, and a connecting client has its connector.
SessionDriven == WaitingRecoveryArmed /\ AttemptInProgress /\ ConnectingHasConnector

\* What callbacks take for granted when they run holds whatever ran before them:
\* the endpoint raise_state dereferences, the assertion of pinger_handler, the
\* silence of a session that waits, recovery state that belongs to a recovery,
\* and a ping whose failure is not fatal.
CallbackAssumptions ==
  /\ ConnectedHasEndpoint
  /\ PingerHasNoEndpoint
  /\ WaitingIsQuiet
  /\ RecoveryStateClean
  /\ PingFailureNeverFatal

\* With the kill switch on, a connection the application did not ask to bypass
\* is never routed directly, in any session state and through no postponement.
KillSwitchHolds ==
  vpn.kill_switch_on => \A r \in Requests \ BypassRequests : vpn.conn[r] # "bypassed"

\* A connection whose request the application has answered waits on only as a
\* postponed one, and a postponed one has the timer that answers it.
PostponedHasTimer ==
  /\ \A r \in vpn.completed : vpn.conn[r] = "requested" => r \in vpn.postponed_requests
  /\ vpn.postponed_requests # {} => vpn.postponement_window_timer

\* A connection that was let past the tunnel unasked is on the list of those the
\* end of a recovery closes, whatever happened to the session since.
BypassRemembered ==
  \A r \in Requests \ BypassRequests :
    vpn.conn[r] = "bypassed" => r \in vpn.bypassed_connection_ids

RecoveryEnds == vpn.state = "VPN_SS_RECOVERING" /\ vpn'.state = "VPN_SS_CONNECTED"

\* A recovery deals with every request it held up: no step leaves one postponed
\* without the timer that answers it or forgets what was let past the tunnel, and
\* once the recovery has succeeded none is held and no connection is direct but
\* those the application wants so.  (This is not so of
\* every way into VPN_SS_CONNECTED: a session that was never connected, falls into
\* recovery and loses the network comes back by retry_connect, and complete_connect
\* neither closes what was bypassed nor answers what is postponed.)
RecoveryServesRequests ==
  [][/\ PostponedHasTimer' /\ BypassRemembered'
     /\ RecoveryEnds =>
          /\ \A r \in vpn'.completed : vpn'.conn[r] # "requested"
          /\ \A r \in Requests \ BypassRequests : vpn'.conn[r] # "bypassed"]_vpn

\* A connection that has been routed is never routed again: the postponement
\* timer, the end of the recovery and the application do not answer it twice.
RoutedOnce ==
  [][\A r \in Requests : vpn.conn[r] \in {"redirected", "bypassed", "closed"}
       => vpn'.conn[r] \in {vpn.conn[r], "closed"}]_vpn

\* The manager implements the lifecycle that module SessionLifecycle promises.
Lifecycle == INSTANCE SessionLifecycle WITH
  state <- vpn.state, connected <- vpn.connected_once,
  used <- vpn.phase # "created" /\ ~Queued("do_connect"),
  attempts <- vpn.recovery_attempts

LifecycleSpec == Lifecycle!Spec

-----------------------------------------------------------------------------
(* Liveness, under FairSpec.                                               *)

Settled ==
  vpn.state \in {"VPN_SS_DISCONNECTED", "VPN_SS_CONNECTED", "VPN_SS_WAITING_FOR_NETWORK"}

\* No sequence of failures, network changes, forced reconnects and abandoned
\* endpoints keeps a session connecting or recovering for ever.
AttemptsSettle == []<>Settled

\* A postponed connect request is answered, with the kill switch and without, and
\* whatever the session does meanwhile, unless recoveries start again for ever: a
\* network that is lost and found within each postponement window (the case of
\* the test FlappingNetworkKeepsRecovering) sets the timer again each time.
PostponedAnswered ==
  RecoveriesCease =>
    \A r \in Requests : r \in vpn.postponed_requests ~> r \notin vpn.postponed_requests

\* The client is never left half-way: whatever overtakes it (a stale finalizer, a
\* late event of an old upstream, a session that ended without it), its connector
\* reports and its deferred disconnect runs.
ClientSettles == []<>(vpn.client_fsm \in {"S_DISCONNECTED", "S_CONNECTED"})

-----------------------------------------------------------------------------
(* What comments, documentation and assertions say, and the code does not  *)
(* do in every run.                                                        *)

\* vpn.h, VpnUpstreamSessionRecoverySettings::attempts: "The counter resets on
\* successful recovery, network change or client disconnect."  A reset followed
\* by the attempt that the change starts leaves it at most 1.
NetworkChangeResetsAttempts ==
  [][(\E lost, slow \in BOOLEAN : NetworkChange(lost, slow))
       => vpn'.recovery_attempts <= 1]_vpn

\* vpn_fsm.cpp, retry_connect: assert(0) unless the policy is several attempts.
RetryOnlySeveralAttempts ==
  Queued("retry_connect") => vpn.retry_policy = "VPN_CRP_SEVERAL_ATTEMPTS"

\* vpn.h, VPN_CRP_SEVERAL_ATTEMPTS: "Try to establish the connection for the
\* configured number of times."
AttemptsWithinConfigured == vpn.attempts_left <= ConnectAttempts

\* vpn.h, VPN_SS_DISCONNECTED: "Idle state. VPN client is disconnected".
DisconnectedStopsClient ==
  vpn.state = "VPN_SS_DISCONNECTED" => vpn.client_state = "CLIS_DISCONNECTED"

\* vpn.h, VPN_SS_WAITING_FOR_NETWORK: "waiting for network connection to appear,
\* as indicated by a call to `vpn_notify_network_change`".
WaitsForNetwork ==
  [][vpn.state = "VPN_SS_WAITING_FOR_NETWORK" /\ vpn'.state = "VPN_SS_WAITING_RECOVERY"
       => \E slow \in BOOLEAN : NetworkChange(FALSE, slow)]_vpn

\* vpn_manager.h, postponed_requests: "postponed until VPN is connected".
ConnectedAnswersPostponed ==
  vpn.state = "VPN_SS_CONNECTED" => vpn.postponed_requests = {}

\* vpn.h, VPN_SS_CONNECTED: "VPN client is connected to an endpoint."
ConnectedSessionOpen ==
  vpn.state = "VPN_SS_CONNECTED" /\ vpn.client_fsm = "S_CONNECTED"
    => vpn.endpoint_upstream = "open"

\* vpn_client.cpp, vpn_upstream_handler: assert(endpoint_connector == nullptr)
\* on every event of an upstream; an open upstream may raise one at any time.
OpenUpstreamHasNoConnector ==
  vpn.endpoint_upstream = "open" => vpn.endpoint_connector # "connecting"

=============================================================================
