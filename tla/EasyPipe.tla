------------------------------- MODULE EasyPipe -------------------------------
(***************************************************************************)
(* The Windows service and its control pipe. PipeEndpoint                  *)
(* (platform/windows/src/vpn_easy_pipe.cpp) is driven by one thread that   *)
(* waits for events, while other threads call send(); the service          *)
(* (vpn_easy_service.cpp) serves one client after the other; the           *)
(* application starts and stops it (vpn_easy.cpp). A message is two pieces:*)
(* its header and its data.                                                *)
(***************************************************************************)
EXTENDS Naturals, Sequences

CONSTANTS
    MaxPending,     \* MAX_PENDING_WRITES
    MaxSessions,    \* bound: the clients that connect
    MaxMessages     \* bound: the messages the service sends

VARIABLES
    sv,     \* PipeServer and its thread
    link,   \* the kernel's side of the pipe and the client behind it
    svc,    \* the service: its process, g_vpn, and the VPN's thread inside send()
    ctl     \* the application: vpn_easy_service_start and vpn_easy_service_stop

pipeVars == <<sv, link, svc, ctl>>

\* pc: where loop() is; conn: m_connected; rp, wp: m_read_pending, m_write_pending; io, we, wake: the
\* events; pend: m_pending_writes; infl: the rest of m_inflight_write; buf: m_input_buf; misframed: a
\* message was parsed that is not one.
NewServer == [pc |-> "connect", conn |-> FALSE, rp |-> FALSE, wp |-> FALSE, io |-> FALSE, we |-> FALSE,
              wake |-> FALSE, pend |-> <<>>, infl |-> <<>>, buf |-> <<>>, ret |-> "read", misframed |-> FALSE]

\* client: of the session sess; out: the pieces it has sent, read: those the server has read; got:
\* what it has received; next: the number of the next message to it.
Init ==
    /\ sv = [NewServer EXCEPT !.pc = "off"]
    /\ link = [client |-> "none", sess |-> 0, out |-> 0, read |-> 0, got |-> <<>>, next |-> 1]
    /\ svc = [proc |-> "stopped", stop |-> FALSE, vpn |-> FALSE, sender |-> "idle"]
    /\ ctl = "idle"

-----------------------------------------------------------------------------
\* send(), from any thread

\* compose_message for the client of this session
Message == [sess |-> link.sess, no |-> link.next]

\* Under the lock: dropped without a client, and the oldest one when there are too many.
Pushed(s, m) ==
    IF ~s.conn THEN s
    ELSE [s EXCEPT !.pend = Append(IF Len(@) = MaxPending THEN Tail(@) ELSE @, m)]

\* The callbacks of the VPN: send_state, or a connection's info
VpnSends ==
    /\ svc.vpn /\ svc.sender = "idle" /\ link.next <= MaxMessages
    /\ sv' = Pushed(sv, Message) /\ link' = [link EXCEPT !.next = @ + 1]
    /\ svc' = [svc EXCEPT !.sender = IF sv.conn THEN "pushed" ELSE "idle"]
    /\ UNCHANGED ctl

\* SetEvent(m_wake_event)
VpnWakes ==
    /\ svc.sender = "pushed" /\ svc' = [svc EXCEPT !.sender = "idle"]
    /\ sv' = [sv EXCEPT !.wake = TRUE]
    /\ UNCHANGED <<link, ctl>>

-----------------------------------------------------------------------------
\* loop()

\* PipeServer::start_connect, after prepare_for_connect: a client may be there already.
StartConnect ==
    /\ sv.pc = "connect"
    /\ LET s == [sv EXCEPT !.pc = "wait", !.rp = FALSE, !.wp = FALSE, !.buf = <<>>, !.io = FALSE, !.we = FALSE]
       IN  sv' = IF link.client = "none" THEN [s EXCEPT !.conn = FALSE]
                 ELSE [s EXCEPT !.conn = TRUE, !.wake = TRUE]
    /\ UNCHANGED <<link, svc, ctl>>

\* finalize_connect, complete_read and complete_write when their event is set. A read that completes
\* without data has found the client gone.
IoEvent(s) ==
    CASE ~s.conn -> [s EXCEPT !.io = FALSE, !.conn = TRUE, !.pc = "read"]
      [] s.conn /\ ~s.rp -> [s EXCEPT !.pc = "read"]
      [] s.conn /\ s.rp /\ link.out = link.read -> [s EXCEPT !.pc = "disconnect"]
      [] OTHER -> [s EXCEPT !.io = FALSE, !.rp = FALSE, !.pc = "input", !.ret = "read"]

\* The pieces that a completed read delivers
Arrived(s) == [i \in 1 .. link.out - link.read |-> link.read + i]

\* WaitForMultipleObjects: the first event of its list that is set.
Wait ==
    /\ sv.pc = "wait" /\ UNCHANGED ctl
    /\ \/ svc.stop /\ sv' = [sv EXCEPT !.pc = "ended"] /\ UNCHANGED <<link, svc>>
       \/ ~svc.stop /\ sv.wake /\ sv' = [sv EXCEPT !.wake = FALSE, !.pc = "read"] /\ UNCHANGED <<link, svc>>
       \/ /\ ~svc.stop /\ ~sv.wake /\ sv.io
          /\ LET s == IoEvent(sv)
             IN  IF s.pc = "input"
                 THEN sv' = [s EXCEPT !.buf = @ \o Arrived(sv)] /\ link' = [link EXCEPT !.read = link.out]
                 ELSE sv' = s /\ UNCHANGED link
          /\ UNCHANGED svc
       \/ /\ ~svc.stop /\ ~sv.wake /\ ~sv.io /\ sv.we
          /\ sv' = IF link.client = "closed" THEN [sv EXCEPT !.pc = "disconnect"]
                   ELSE [sv EXCEPT !.we = FALSE, !.wp = FALSE, !.pc = "read"]
          /\ UNCHANGED <<link, svc>>

\* start_read: data that is there at once wakes the loop to read on.
StartRead ==
    /\ sv.pc = "read" /\ UNCHANGED <<svc, ctl>>
    /\ CASE ~sv.conn \/ sv.rp -> sv' = [sv EXCEPT !.pc = "pump"] /\ UNCHANGED link
         [] sv.conn /\ ~sv.rp /\ link.out > link.read ->
              /\ \E io \in {sv.io, TRUE} :
                    sv' = [sv EXCEPT !.buf = @ \o Arrived(sv), !.pc = "input", !.ret = "pump", !.wake = TRUE,
                                     !.io = io]
              /\ link' = [link EXCEPT !.read = link.out]
         [] OTHER -> /\ sv' = IF link.client = "closed" THEN [sv EXCEPT !.pc = "disconnect"]
                              ELSE [sv EXCEPT !.rp = TRUE, !.io = FALSE, !.pc = "pump"]
                     /\ UNCHANGED link

\* pipe_handler, called with the server s: START stops the VPN that is running and starts another one,
\* whose failure is sent to the client; STOP stops it. Stopping waits for the threads of the VPN, which
\* are not in send() afterwards.
PipeHandler(what, s) ==
    /\ svc.sender = "idle"
    /\ \/ svc' = [svc EXCEPT !.vpn = what = "START"] /\ sv' = s /\ UNCHANGED link
       \/ /\ what = "START" /\ svc' = [svc EXCEPT !.vpn = FALSE]
          /\ sv' = [Pushed(s, Message) EXCEPT !.wake = TRUE] /\ link' = [link EXCEPT !.next = @ + 1]

\* handle_input: every message of the buffer, the client's first one being START.
HandleInput ==
    /\ sv.pc = "input" /\ UNCHANGED ctl
    /\ \/ Len(sv.buf) < 2 /\ sv' = [sv EXCEPT !.pc = sv.ret] /\ UNCHANGED <<link, svc>>
       \/ /\ Len(sv.buf) >= 2
          /\ PipeHandler(IF sv.buf[1] = 1 THEN "START" ELSE "STOP",
                         [sv EXCEPT !.buf = SubSeq(@, 3, Len(@)),
                                    !.misframed = @ \/ sv.buf[1] % 2 = 0 \/ sv.buf[2] # sv.buf[1] + 1])

\* pump_writes, one WriteFile at a time: it takes some of the message at once, or completes later.
PumpWrites ==
    /\ sv.pc = "pump" /\ UNCHANGED <<svc, ctl>>
    /\ LET s == IF sv.infl # <<>> \/ sv.pend = <<>> THEN sv
                ELSE [sv EXCEPT !.infl = <<[m |-> Head(sv.pend), piece |-> 1], [m |-> Head(sv.pend), piece |-> 2]>>,
                                !.pend = Tail(@)]
       IN  \/ (~sv.conn \/ sv.wp \/ s.infl = <<>>) /\ sv' = [sv EXCEPT !.pc = "wait"] /\ UNCHANGED link
           \/ /\ sv.conn /\ ~sv.wp /\ s.infl # <<>> /\ link.client = "open"
              /\ \/ \E n \in 1 .. Len(s.infl) :
                       /\ sv' = [s EXCEPT !.infl = SubSeq(@, n + 1, Len(@)), !.we = FALSE]
                       /\ link' = [link EXCEPT !.got = @ \o SubSeq(s.infl, 1, n)]
                 \/ sv' = [s EXCEPT !.wp = TRUE, !.we = FALSE, !.pc = "wait"] /\ UNCHANGED link
           \/ /\ sv.conn /\ ~sv.wp /\ s.infl # <<>> /\ link.client = "closed"
              /\ sv' = [s EXCEPT !.pc = "disconnect"] /\ UNCHANGED link

\* A slip: the client counts as connected until the pipe is torn down.
StoreDisconnected_late(s) == s

\* disconnect_and_reset, first: m_connected is false before the lock is taken.
StoreDisconnected(s) == [s EXCEPT !.conn = FALSE]

Disconnect ==
    /\ sv.pc = "disconnect" /\ sv' = [StoreDisconnected(sv) EXCEPT !.pc = "clear"]
    /\ UNCHANGED <<link, svc, ctl>>

\* Then, under the lock, the writes that are pending go.
ClearWrites ==
    /\ sv.pc = "clear" /\ sv' = [sv EXCEPT !.pc = "reset", !.pend = <<>>]
    /\ UNCHANGED <<link, svc, ctl>>

\* Last, operations are cancelled, the client is disconnected and everything is as before it came.
Reset ==
    /\ sv.pc = "reset"
    /\ sv' = [sv EXCEPT !.pc = "connect", !.infl = <<>>, !.rp = FALSE, !.wp = FALSE, !.io = FALSE, !.we = FALSE,
                        !.buf = <<>>, !.conn = FALSE]
    /\ link' = [link EXCEPT !.client = "none", !.out = 0, !.read = 0]
    /\ UNCHANGED <<svc, ctl>>

-----------------------------------------------------------------------------
\* The kernel: operations that were left pending complete.

ReadCompletes ==
    /\ sv.rp /\ ~sv.io /\ (link.out > link.read \/ link.client = "closed")
    /\ sv' = [sv EXCEPT !.io = TRUE] /\ UNCHANGED <<link, svc, ctl>>

WriteCompletes ==
    /\ sv.wp /\ ~sv.we /\ UNCHANGED <<svc, ctl>>
    /\ \/ /\ link.client = "open"
          /\ \E n \in 1 .. Len(sv.infl) :
                /\ sv' = [sv EXCEPT !.we = TRUE, !.infl = SubSeq(@, n + 1, Len(@))]
                /\ link' = [link EXCEPT !.got = @ \o SubSeq(sv.infl, 1, n)]
       \/ link.client = "closed" /\ sv' = [sv EXCEPT !.we = TRUE] /\ UNCHANGED link

-----------------------------------------------------------------------------
\* The application and the service manager.

\* vpn_easy_service_start: the service is started when it is not running.
ServiceStart ==
    /\ ctl = "idle" /\ svc.proc # "stopping" /\ ctl' = "starting"
    /\ IF svc.proc = "running" THEN UNCHANGED <<sv, svc>>
       ELSE svc' = [svc EXCEPT !.proc = "running", !.stop = FALSE] /\ sv' = NewServer
    /\ UNCHANGED link

\* PipeClient::start_connect on a pipe that is free; a connect that is pending completes.
ClientConnects ==
    /\ ctl = "starting" /\ svc.proc = "running" /\ link.client = "none" /\ link.sess < MaxSessions
    /\ sv.pc \in {"connect", "wait"}
    /\ link' = [link EXCEPT !.client = "open", !.sess = @ + 1, !.out = 0, !.read = 0, !.got = <<>>]
    /\ sv' = IF sv.pc = "wait" THEN [sv EXCEPT !.io = TRUE] ELSE sv
    /\ ctl' = "connected" /\ UNCHANGED svc

\* The connection fails or takes too long.
ConnectFails == ctl = "starting" /\ ctl' = "idle" /\ UNCHANGED <<sv, link, svc>>

\* The client writes the next piece of START, and, when the application stops it, of STOP.
ClientWrites ==
    /\ ctl \in {"connected", "stopping"} /\ link.client = "open"
    /\ link.out < (IF ctl = "stopping" THEN 4 ELSE 2)
    /\ link' = [link EXCEPT !.out = @ + 1] /\ UNCHANGED <<sv, svc, ctl>>

\* vpn_easy_service_stop: STOP is sent, and reset() ends the client whether it has gone out or not.
ServiceStop ==
    /\ ctl = "connected" /\ ctl' = "stopping" /\ UNCHANGED <<sv, link, svc>>

ClientResets ==
    /\ ctl \in {"connected", "stopping"} /\ link.client = "open"
    /\ link' = [link EXCEPT !.client = "closed"]
    /\ ctl' = IF ctl = "stopping" THEN "closing" ELSE "idle"
    /\ UNCHANGED <<sv, svc>>

\* ControlService: service_ctrl_handler sets the event of loop(), unless the service cannot be reached.
ControlStop ==
    /\ ctl = "closing" /\ UNCHANGED <<sv, link>>
    /\ \/ svc' = [svc EXCEPT !.stop = TRUE] /\ ctl' = "waiting"
       \/ ctl' = "idle" /\ UNCHANGED svc

\* service_main after loop(): the VPN is stopped and the pipe is closed.
ServiceMainEnds ==
    /\ sv.pc = "ended" /\ svc.proc = "running" /\ svc.sender = "idle"
    /\ svc' = [svc EXCEPT !.proc = "stopped", !.vpn = FALSE]
    /\ sv' = [NewServer EXCEPT !.pc = "off"] /\ link' = [link EXCEPT !.client = "none", !.out = 0, !.read = 0]
    /\ UNCHANGED ctl

\* wait_for_service_state
ServiceStopped ==
    /\ ctl = "waiting" /\ \/ svc.proc = "stopped" /\ ctl' = "stopped"
                          \/ ctl' = "idle"
    /\ UNCHANGED <<sv, link, svc>>

\* The application starts it again.
StartAgain == ctl = "stopped" /\ ctl' = "idle" /\ UNCHANGED <<sv, link, svc>>

Next ==
    \/ VpnSends \/ VpnWakes
    \/ StartConnect \/ Wait \/ StartRead \/ HandleInput \/ PumpWrites \/ Disconnect \/ ClearWrites \/ Reset
    \/ ReadCompletes \/ WriteCompletes
    \/ ServiceStart \/ ClientConnects \/ ConnectFails \/ ClientWrites \/ ServiceStop \/ ClientResets
    \/ ControlStop \/ ServiceMainEnds \/ ServiceStopped \/ StartAgain

Spec == Init /\ [][Next]_pipeVars

-----------------------------------------------------------------------------

\* What goes over the pipe is framed: a client receives whole messages in the order they were sent, none
\* of which was meant for the client before it, and the service parses only whole messages of the client.
\* When the application has been told that the service is stopped no VPN is left.
PipeFramed ==
    /\ \A i \in DOMAIN link.got :
          /\ link.got[i].m.sess = link.sess
          /\ link.got[i].piece = 2 - (i % 2)
          /\ i > 1 => IF i % 2 = 0 THEN link.got[i].m = link.got[i - 1].m ELSE link.got[i].m.no > link.got[i - 1].m.no
    /\ ~sv.misframed
    /\ ctl = "stopped" => ~svc.vpn

\* loop() never sleeps on work: while it waits with a client, it is reading or about to, and a message in
\* the queue has a write or a wake-up that will take it on.
PipeDriven ==
    sv.pc = "wait" /\ sv.conn =>
        /\ sv.rp \/ sv.wake
        /\ sv.pend # <<>> \/ sv.infl # <<>> => sv.wp \/ sv.wake \/ svc.sender = "pushed"
=============================================================================
