------------------------------ MODULE VpnClient ------------------------------
(***************************************************************************)
(* The endpoint client of core/src/vpn_client.cpp: a four-state machine    *)
(* that owns the endpoint connector and the endpoint upstream.             *)
(*                                                                         *)
(* The client is a member of struct Vpn (core/src/vpn_manager.h) and its   *)
(* handlers run on the event-loop thread of the manager, so this module    *)
(* declares no variable: every handler is an operator that takes the whole *)
(* state v of struct Vpn and returns the state after the handler.  Module  *)
(* VpnManager turns these operators into actions.                          *)
(*                                                                         *)
(* Fields of v that belong to the client and its tunnel:                   *)
(*   client_fsm            state of the client's Fsm                       *)
(*   client_pending_error  VpnClient::pending_error                        *)
(*   endpoint_connector    nullptr, connecting, or finished (its result is *)
(*                         delivered and the finalizer task is queued)     *)
(*   endpoint_upstream     nullptr, open or closed session                 *)
(*   endpoint_upstream_connected   the tunnel's flag of that name          *)
(*   conn                  state of each client connection in the tunnel   *)
(*   tasks                 tasks submitted to the event loop, oldest first *)
(***************************************************************************)
EXTENDS Sequences, Naturals

NullOpt == "nullopt"                                \* an empty std::optional

NoError == "VPN_EC_NOERROR"

\* The codes that the manager's code treats differently from one another; the
\* certificate errors are treated like VPN_EC_AUTH_REQUIRED.
ErrorCodes ==
  {NoError, "VPN_EC_ERROR", "VPN_EC_AUTH_REQUIRED",
   "VPN_EC_LOCATION_UNAVAILABLE", "VPN_EC_INVALID_STATE",
   "VPN_EC_INITIAL_CONNECT_FAILED", "VPN_EC_FATAL_CONNECTIVITY_ERROR"}

MaybeError == ErrorCodes \cup {NullOpt}

ClientStates ==
  {"S_DISCONNECTED", "S_CONNECTING", "S_CONNECTED", "S_DISCONNECTING"}

ConnectorStates == {"nullptr", "connecting", "finished"}

UpstreamStates == {"nullptr", "open", "closed"}

\* A connection waits for its connect request to be answered ("requested"),
\* is routed through the endpoint or directly, or has been closed.
ConnStates == {"none", "requested", "redirected", "bypassed", "closed"}

(***************************************************************************)
(* Tasks of the event loop.  The client's tasks are held by AutoTaskIds in *)
(* deferred_tasks, so they can be cancelled; a cancelled task stays in the *)
(* sequence as a tombstone that does nothing when its turn comes.          *)
(***************************************************************************)
ClientTasks == {"endpoint_connector_finalizer", "deferred_disconnect"}

ManagerTasks ==
  {"do_connect", "retry_connect", "client_disconnected", "failed_recovery",
   "listen_failed", "shutdown"}

Tasks == ClientTasks \cup ManagerTasks \cup {"cancelled"}

submit(v, task) == [v EXCEPT !.tasks = Append(@, task)]

clear_deferred_tasks(v) ==
  [v EXCEPT !.tasks = [i \in DOMAIN v.tasks |->
     IF v.tasks[i] \in ClientTasks THEN "cancelled" ELSE v.tasks[i]]]

-----------------------------------------------------------------------------
(***************************************************************************)
(* Losing the endpoint closes every client-side connection of the tunnel,  *)
(* whichever way it is routed and whether or not its request is answered.  *)
(***************************************************************************)
close_connections(v) ==
  [v EXCEPT !.conn = [r \in DOMAIN v.conn |->
     IF v.conn[r] = "none" THEN "none" ELSE "closed"]]

on_before_endpoint_disconnect(v) ==
  [close_connections(v) EXCEPT !.endpoint_upstream_connected = FALSE]

(***************************************************************************)
(* E_DISCONNECT and E_DEFERRED_DISCONNECT run this: it cancels the tasks,  *)
(* drops the connector and closes the upstream's session.  It does not     *)
(* clear client_pending_error.                                             *)
(***************************************************************************)
run_disconnect(v) ==
  [clear_deferred_tasks(on_before_endpoint_disconnect(v)) EXCEPT
     !.endpoint_connector = "nullptr",
     !.endpoint_upstream = IF @ = "nullptr" THEN "nullptr" ELSE "closed",
     !.client_fsm = "S_DISCONNECTED"]

\* VpnClient::disconnect, the E_DISCONNECT rows of the table.
client_disconnect(v) ==
  IF v.client_fsm = "S_DISCONNECTED" THEN v ELSE run_disconnect(v)

(***************************************************************************)
(* VpnClient::connect.  The connector and the bypass upstream start or one *)
(* of them fails to (started).  client_connect reports pending_error, the  *)
(* connector's own error or one left from an earlier session, and a        *)
(* non-empty report makes connect() disconnect again.                      *)
(***************************************************************************)
connect_error(v, started) ==
  IF v.client_fsm # "S_DISCONNECTED" \/ ~started THEN "VPN_EC_ERROR"
  ELSE IF v.client_pending_error = NullOpt THEN NoError
  ELSE v.client_pending_error

client_connect(v, started) ==
  LET w == [v EXCEPT !.client_pending_error = NullOpt,
                     !.client_fsm = "S_CONNECTING",
                     !.endpoint_connector = "connecting"]
  IN CASE v.client_fsm # "S_DISCONNECTED" -> v
       [] v.client_fsm = "S_DISCONNECTED" /\ connect_error(v, started) = NoError -> w
       [] OTHER -> run_disconnect(w)

(***************************************************************************)
(* The connector reports once: an upstream with an open session (error is  *)
(* NullOpt), or an error code, NOERROR included when the session closed    *)
(* without one.  With an upstream, starting the DNS proxy listener may     *)
(* fail (dns_ok is FALSE).  Either way only the finalizer is submitted.    *)
(***************************************************************************)
endpoint_connector_handler(v, error, dns_ok) ==
  LET opened == error = NullOpt
  IN submit([v EXCEPT
               !.client_pending_error = IF opened /\ ~dns_ok THEN "VPN_EC_ERROR"
                                                             ELSE error,
               !.endpoint_upstream = IF opened THEN "open" ELSE @,
               !.endpoint_connector = "finished"],
            "endpoint_connector_finalizer")

\* E_SESSION_ERROR, E_HEALTH_CHECK_ERROR, E_RUN_PREPARATION_FAIL: only the rows
\* of S_CONNECTED exist, in every other state the event is dropped.
submit_disconnect(v, error) ==
  IF v.client_fsm # "S_CONNECTED" THEN v
  ELSE submit([v EXCEPT
                 !.client_fsm = "S_DISCONNECTING",
                 !.client_pending_error =
                    IF @ = NullOpt /\ error \notin {NullOpt, NoError} THEN error
                                                                      ELSE @],
              "deferred_disconnect")

=============================================================================
