------------------------------- MODULE ClientApp -------------------------------
(***************************************************************************)
(* TrustTunnelClient (trusttunnel/src/client.cpp) and the programs around  *)
(* it: the console client, also as a Windows service                       *)
(* (trusttunnel/src/trusttunnel_client.cpp), and the library of the        *)
(* application (platform/windows/src/vpn_easy.cpp). Four threads meet in a *)
(* client: the one that connects and disconnects, the loop of the VPN that *)
(* raises events, the extra loop that completes connect requests, and the  *)
(* network monitor (trusttunnel/src/auto_network_monitor.cpp).             *)
(***************************************************************************)
EXTENDS Naturals, Sequences, FiniteSets

CONSTANTS
    MaxConnects,    \* bound: the clients that are started
    MaxRequests,    \* bound: connect requests of a client
    Owners          \* "console", "service" or "easy": whose client it is

VARIABLES
    app,    \* the thread of the owner: owner, pc, the outcome, keep_running and the state of the service
    cli,    \* the TrustTunnelClient: m_vpn, m_extra_loop and its queue, m_tunnel
    core,   \* the Vpn objects that are open, and whether their loop's thread runs
    mon     \* the network monitor's thread

appVars == <<app, cli, core, mon>>

\* A Vpn is the number of its client, 0 is the null pointer.
\* tasks: the Vpn each task of the extra loop holds, the first one of which may be running; undrained: the
\* Vpn was closed with the extra loop not started yet.
NoClient == [st |-> "none", vpn |-> 0, loop |-> "off", tasks |-> <<>>, running |-> FALSE, tunnel |-> FALSE,
             undrained |-> FALSE]

Init ==
    /\ app \in [owner : Owners, pc : {"idle"}, n : {0}, keep : {TRUE}, old : {0}, failed : {FALSE}, status : {"stopped"}]
    /\ cli = NoClient
    /\ core = [open |-> {}, loop |-> FALSE, listening |-> FALSE, requests |-> 0]
    /\ mon = [st |-> "off", vpn |-> 0]

AppGoes(from, to) == app.pc = from /\ app' = [app EXCEPT !.pc = to]
AppFails(from, to) == app.pc = from /\ app' = [app EXCEPT !.pc = to, !.failed = TRUE]

-----------------------------------------------------------------------------
\* run_client and vpn_easy_start_ex

\* The configuration is read, the client made and its loop's thread started.
MakeClient ==
    /\ app.pc = "idle" /\ app.n < MaxConnects
    /\ app' = [app EXCEPT !.pc = "monitor", !.n = @ + 1, !.keep = TRUE, !.failed = FALSE,
                          !.status = IF app.owner = "service" THEN "start_pending" ELSE @]
    /\ cli' = [NoClient EXCEPT !.st = "made", !.loop = "starting"]
    /\ UNCHANGED <<core, mon>>

\* vpn_event_loop_run
ExtraLoopRuns ==
    /\ cli.loop = "starting" /\ cli' = [cli EXCEPT !.loop = "on"]
    /\ UNCHANGED <<app, core, mon>>

\* AutoNetworkMonitor::start: an interface that is configured and absent is an error, its loop is on then.
StartMonitor ==
    /\ mon' = [mon EXCEPT !.st = "on"]
    /\ AppGoes("monitor", IF app.owner = "easy" THEN "open" ELSE "dns") \/ AppFails("monitor", "end")
    /\ UNCHANGED <<cli, core>>

\* set_system_dns, on the console
SetSystemDns ==
    /\ AppGoes("dns", "open") \/ AppFails("dns", "end")
    /\ UNCHANGED <<cli, core, mon>>

\* connect_impl: vpn_open, which starts the VPN's loop
VpnOpen ==
    /\ \/ /\ AppGoes("open", "connect")
          /\ cli' = [cli EXCEPT !.vpn = app.n]
          /\ core' = [open |-> core.open \cup {app.n}, loop |-> TRUE, listening |-> FALSE, requests |-> 0]
       \/ AppFails("open", "end") /\ UNCHANGED <<cli, core>>
    /\ UNCHANGED mon

\* vpn_runner: connect_to_server, which resolves the endpoints,
ConnectToServer ==
    /\ AppGoes("connect", "listener") \/ AppFails("connect", "disconnect")
    /\ UNCHANGED <<cli, core, mon>>

\* make_socks_listener, or make_tun_listener, which takes the tunnel back when it cannot be initialized,
MakeListener ==
    /\ \/ AppGoes("listener", "listen") /\ cli' \in {cli, [cli EXCEPT !.tunnel = TRUE]}
       \/ AppFails("listener", "disconnect") /\ cli' \in {cli, [cli EXCEPT !.tunnel = TRUE]}
    /\ UNCHANGED <<core, mon>>

\* and vpn_listen. Then the service reports that it is running.
Listen ==
    /\ \/ /\ app.pc = "listen"
          /\ app' = [app EXCEPT !.pc = "run", !.status = IF app.owner = "service" THEN "running" ELSE @]
          /\ core' = [core EXCEPT !.listening = TRUE]
       \/ AppFails("listen", "disconnect") /\ UNCHANGED core
    /\ UNCHANGED <<cli, mon>>

\* stop_trusttunnel_client: by a signal, by service_ctrl_handler, or by state_changed when the session
\* ended. The mutex of the wait is not taken: who is about to sleep does not notice.
StopRequest ==
    /\ app.owner # "easy" /\ (app.keep \/ app.pc = "asleep")
    /\ cli.st = "made" /\ (app.owner = "service" => app.status # "start_pending" \/ core.loop)
    /\ app' = [app EXCEPT !.keep = FALSE, !.pc = IF @ = "asleep" THEN "run" ELSE @,
                          !.status = IF @ = "running" THEN "stop_pending" ELSE @]
    /\ UNCHANGED <<cli, core, mon>>

\* run_client waits while keep_running is true. After it, the monitor is stopped first, then the client is
\* disconnected.
CheckKeepRunning ==
    /\ app.owner # "easy" /\ AppGoes("run", IF app.keep THEN "drowsy" ELSE "unmonitor")
    /\ UNCHANGED <<cli, core, mon>>

FallAsleep ==
    /\ AppGoes("drowsy", "asleep")
    /\ UNCHANGED <<cli, core, mon>>

\* vpn_easy_stop_ex: here the client is disconnected first.
EasyStop ==
    /\ app.owner = "easy" /\ AppGoes("run", "disconnect")
    /\ UNCHANGED <<cli, core, mon>>

\* AutoNetworkMonitor::stop waits for the monitor's loop.
StopMonitor ==
    /\ mon.st # "notify" /\ mon' = [mon EXCEPT !.st = "off"]
    /\ AppGoes("unmonitor", IF app.owner = "easy" THEN "end" ELSE "disconnect")
    /\ UNCHANGED <<cli, core>>

-----------------------------------------------------------------------------
\* disconnect()

TakeVpn ==
    /\ app.pc = "disconnect"
    /\ app' = [app EXCEPT !.pc = IF cli.vpn = 0 THEN "deinit" ELSE "stop", !.old = cli.vpn]
    /\ cli' = [cli EXCEPT !.vpn = 0]
    /\ UNCHANGED <<core, mon>>

\* vpn_stop joins the loop's thread: no event is raised after it.
VpnStop ==
    /\ AppGoes("stop", "drain") /\ core' = [core EXCEPT !.loop = FALSE]
    /\ UNCHANGED <<cli, mon>>

\* A slip: the extra loop is not waited for.
Drained_no == TRUE

\* vpn_event_loop_dispatch_sync returns when every task before it has run, if the loop is active.
Drained == cli.loop # "on" \/ (cli.tasks = <<>> /\ ~cli.running)

DrainExtraLoop ==
    /\ Drained /\ AppGoes("drain", "close")
    /\ cli' = [cli EXCEPT !.undrained = cli.loop # "on"]
    /\ UNCHANGED <<core, mon>>

VpnClose ==
    /\ AppGoes("close", "deinit") /\ core' = [core EXCEPT !.open = @ \ {app.old}]
    /\ UNCHANGED <<cli, mon>>

DeinitTunnel ==
    /\ AppGoes("deinit", IF app.owner = "easy" /\ ~app.failed THEN "unmonitor" ELSE "end")
    /\ cli' = [cli EXCEPT !.tunnel = FALSE]
    /\ UNCHANGED <<core, mon>>

\* The owner goes: the monitor with its thread, then ~TrustTunnelClient with the extra loop's. service_main
\* reports the end.
DestroyClient ==
    /\ app.pc = "end" /\ mon.st # "notify" /\ ~cli.running /\ cli.loop # "starting"
    /\ app' = [app EXCEPT !.pc = "idle", !.status = "stopped"]
    /\ cli' = NoClient /\ mon' = [mon EXCEPT !.st = "off"]
    /\ UNCHANGED core

-----------------------------------------------------------------------------
\* The other threads

\* vpn_handler, VPN_EVENT_CONNECT_REQUEST, on the VPN's loop: a task with the pointer goes to the extra loop.
ConnectRequest ==
    /\ core.loop /\ core.listening /\ core.requests < MaxRequests
    /\ core' = [core EXCEPT !.requests = @ + 1]
    /\ cli' = [cli EXCEPT !.tasks = Append(@, cli.vpn)]
    /\ UNCHANGED <<app, mon>>

\* The task begins and calls vpn_complete_connect_request,
TaskBegins ==
    /\ cli.loop = "on" /\ ~cli.running /\ cli.tasks # <<>>
    /\ cli' = [cli EXCEPT !.running = TRUE]
    /\ UNCHANGED <<app, core, mon>>

\* which returns; its context is deleted.
TaskEnds ==
    /\ cli.running /\ cli' = [cli EXCEPT !.running = FALSE, !.tasks = Tail(@)]
    /\ UNCHANGED <<app, core, mon>>

\* The monitor's callback: update_interface, then notify_network_change, which reads m_vpn twice and
\* hands the network's state to the Vpn.
MonitorNotifies ==
    /\ mon.st = "on" /\ cli.vpn # 0 /\ mon' = [st |-> "notify", vpn |-> cli.vpn]
    /\ UNCHANGED <<app, cli, core>>

MonitorReturns ==
    /\ mon.st = "notify" /\ mon' = [st |-> "on", vpn |-> 0]
    /\ UNCHANGED <<app, cli, core>>

Next ==
    \/ MakeClient
    \/ ExtraLoopRuns
    \/ StartMonitor
    \/ SetSystemDns
    \/ VpnOpen
    \/ ConnectToServer
    \/ MakeListener
    \/ Listen
    \/ StopRequest
    \/ CheckKeepRunning
    \/ FallAsleep
    \/ EasyStop
    \/ StopMonitor
    \/ TakeVpn
    \/ VpnStop
    \/ DrainExtraLoop
    \/ VpnClose
    \/ DeinitTunnel
    \/ DestroyClient
    \/ ConnectRequest
    \/ TaskBegins
    \/ TaskEnds
    \/ MonitorNotifies
    \/ MonitorReturns

Spec == Init /\ [][Next]_appVars

-----------------------------------------------------------------------------
\* Properties

\* A task of the extra loop never holds a Vpn that is closed ("`disconnect()` drains this loop before
\* `vpn_close`, which is what keeps that pointer from outliving the VPN"), although requests keep coming
\* until the VPN's loop has been joined, unless the extra loop's thread had not entered its loop by then;
\* and no Vpn of a client is left open once its owner is done, however starting it failed.
TaskVpnAlive ==
    /\ cli.undrained \/ \A i \in 1 .. Len(cli.tasks) : cli.tasks[i] \in core.open \cup {0}
    /\ app.pc = "idle" => core.open = {}

=============================================================================
