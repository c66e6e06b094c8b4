--------------------------- MODULE SessionLifecycle ---------------------------
(***************************************************************************)
(* What the session manager promises the application through               *)
(* VPN_EVENT_STATE_CHANGED (core/include/vpn/vpn.h, VpnSessionState), with *)
(* no mention of pings, tasks, timers or the endpoint client.              *)
(*                                                                         *)
(*   state      the session state last reported                           *)
(*   connected  the session has been VPN_SS_CONNECTED                      *)
(*   used       the one vpn_connect of this client has had its effect      *)
(*   attempts   recovery attempts begun since the session was last         *)
(*              connected or lost the network                              *)
(***************************************************************************)
EXTENDS Naturals

CONSTANT RecoveryAttempts

VARIABLES state, connected, used, attempts

lifecycle == <<state, connected, used, attempts>>

Init ==
  /\ state = "VPN_SS_DISCONNECTED"
  /\ connected = FALSE
  /\ used = FALSE
  /\ attempts = 0

\* A session begins once.
Begin ==
  /\ state = "VPN_SS_DISCONNECTED" /\ ~used
  /\ state' = "VPN_SS_CONNECTING"
  /\ used' = TRUE
  /\ UNCHANGED <<connected, attempts>>

\* vpn_stop comes before the session could begin.
Cancel ==
  /\ state = "VPN_SS_DISCONNECTED" /\ ~used
  /\ used' = TRUE
  /\ UNCHANGED <<state, connected, attempts>>

\* Connecting succeeds, or a recovery does.
Succeed ==
  /\ state \in {"VPN_SS_CONNECTING", "VPN_SS_RECOVERING"}
  /\ state' = "VPN_SS_CONNECTED"
  /\ connected' = TRUE
  /\ attempts' = 0
  /\ UNCHANGED used

\* The connection is lost or an attempt failed: the next attempt is counted, or
\* every attempt allowed has been made.
Wait ==
  /\ state \in {"VPN_SS_CONNECTING", "VPN_SS_CONNECTED", "VPN_SS_RECOVERING",
                "VPN_SS_WAITING_FOR_NETWORK"}
  /\ state' = "VPN_SS_WAITING_RECOVERY"
  /\ \/ attempts < RecoveryAttempts /\ attempts' = attempts + 1
     \/ attempts = RecoveryAttempts /\ attempts' = attempts
  /\ UNCHANGED <<connected, used>>

Recover ==
  /\ state = "VPN_SS_WAITING_RECOVERY"
  /\ state' = "VPN_SS_RECOVERING"
  /\ UNCHANGED <<connected, used, attempts>>

LoseNetwork ==
  /\ state \notin {"VPN_SS_DISCONNECTED", "VPN_SS_WAITING_FOR_NETWORK"}
  /\ state' = "VPN_SS_WAITING_FOR_NETWORK"
  /\ attempts' = 0
  /\ UNCHANGED <<connected, used>>

\* The network is back before the session was ever connected.
ConnectAgain ==
  /\ state = "VPN_SS_WAITING_FOR_NETWORK" /\ ~connected
  /\ state' = "VPN_SS_CONNECTING"
  /\ UNCHANGED <<connected, used, attempts>>

\* For good: nothing is enabled in a session that was used and has ended.
End ==
  /\ state # "VPN_SS_DISCONNECTED"
  /\ state' = "VPN_SS_DISCONNECTED"
  /\ attempts' = 0
  /\ UNCHANGED <<connected, used>>

Next == Begin \/ Cancel \/ Succeed \/ Wait \/ Recover \/ LoseNetwork \/ ConnectAgain
        \/ End

Spec == Init /\ [][Next]_lifecycle

=============================================================================
