------------------------------- MODULE RecvPump -------------------------------
(***************************************************************************)
(* How packets get from the Wintun ring into the core on Windows: the      *)
(* receive thread of VpnWinTunnel (net/src/os_tunnel_win.cpp) waits for    *)
(* the event of the ring, which resets itself, and wakes the listener      *)
(* (core/src/tun_device_listener.cpp), whose task on the event loop empties*)
(* the ring and hands the packets on in batches.                           *)
(***************************************************************************)
EXTENDS Naturals

CONSTANTS
    BatchSize,  \* BATCH_SIZE
    MaxPackets  \* bound: packets that arrive

ASSUME BatchAssumption == BatchSize \in Nat \ {0}

VARIABLES
    ring,   \* Wintun: packets in the ring, its event, and whether the session is open
    recv,   \* the receive thread: "off", "wait", "call" or "joined"
    pump    \* the listener: its queue, task and flag

pumpVars == <<ring, recv, pump>>

\* task: m_recv_packets_task, "none", "submitted", or the step recv_packets_task is at; owned: the task
\* id is held; signaled: m_recv_packets_signaled; done: packets the core has processed.
PumpInit ==
    /\ ring = [count |-> 0, event |-> FALSE, arrived |-> 0, open |-> TRUE]
    /\ recv = "off"
    /\ pump = [st |-> "new", queue |-> 0, task |-> "none", owned |-> FALSE, signaled |-> FALSE, done |-> 0]

\* The driver: a packet arrives, the event is set.
PacketArrives ==
    /\ ring.open /\ ring.arrived < MaxPackets
    /\ ring' = [ring EXCEPT !.count = @ + 1, !.event = TRUE, !.arrived = @ + 1]
    /\ UNCHANGED <<recv, pump>>

\* TunListener::init, start_recv_packets
StartRecvPackets ==
    /\ pump.st = "new" /\ recv = "off"
    /\ recv' = "wait" /\ pump' = [pump EXCEPT !.st = "on"]
    /\ UNCHANGED ring

\* receive_wintun_packets: the event is taken, then the callback is called.
ReceiveThread ==
    /\ recv = "wait" /\ ring.event
    /\ ring' = [ring EXCEPT !.event = FALSE] /\ recv' = "call"
    /\ UNCHANGED pump

\* recv_packets_handler, under the mutex
RecvPacketsHandler ==
    /\ recv = "call" /\ recv' = "wait"
    /\ pump' = IF pump.owned THEN [pump EXCEPT !.signaled = TRUE]
               ELSE [pump EXCEPT !.signaled = TRUE, !.owned = TRUE, !.task = "submitted"]
    /\ UNCHANGED ring

\* recv_packets_task: the ring is emptied into the queue, packet after packet,
DrainRing ==
    /\ pump.st = "on" /\ pump.task \in {"submitted", "drain"}
    /\ IF ring.count > 0
       THEN /\ ring' = [ring EXCEPT !.count = @ - 1]
            /\ pump' = [pump EXCEPT !.task = "drain", !.queue = @ + 1]
       ELSE UNCHANGED ring /\ pump' = [pump EXCEPT !.task = "process"]
    /\ UNCHANGED recv

\* one batch goes to the core,
ProcessBatch ==
    /\ pump.task = "process"
    /\ LET count == IF pump.queue < BatchSize THEN pump.queue ELSE BatchSize
       IN  pump' = [pump EXCEPT !.queue = @ - count, !.done = @ + count, !.task = "finish"]
    /\ UNCHANGED <<ring, recv>>

\* A slip: the flag that came while the task ran is forgotten.
TaskAgain_queue == pump.queue > 0

\* whether the task runs again,
TaskAgain == pump.signaled \/ pump.queue > 0

\* which it decides under the mutex.
FinishTask ==
    /\ pump.task = "finish"
    /\ pump' = [pump EXCEPT !.signaled = FALSE, !.owned = TaskAgain,
                            !.task = IF TaskAgain THEN "submitted" ELSE "none"]
    /\ UNCHANGED <<ring, recv>>

\* TunListener::deinit on the event loop, never within the task: the thread is joined, between its calls,
\* and the task that waits is taken back.
StopRecvPackets ==
    /\ pump.st = "on" /\ recv = "wait" /\ pump.task \in {"none", "submitted"}
    /\ recv' = "joined" /\ pump' = [pump EXCEPT !.st = "off", !.owned = FALSE, !.task = "none"]
    /\ UNCHANGED ring

\* VpnWinTunnel::deinit, stop_recv_packets and close_wintun, after the listener
CloseSession ==
    /\ pump.st = "off" /\ ring.open
    /\ ring' = [ring EXCEPT !.open = FALSE, !.count = 0]
    /\ UNCHANGED <<recv, pump>>

PumpNext ==
    \/ PacketArrives
    \/ StartRecvPackets
    \/ ReceiveThread
    \/ RecvPacketsHandler
    \/ DrainRing
    \/ ProcessBatch
    \/ FinishTask
    \/ StopRecvPackets
    \/ CloseSession

PumpSpec == PumpInit /\ [][PumpNext]_pumpVars

-----------------------------------------------------------------------------
\* Properties

\* No packet is stranded: while the listener is on, whatever is in the ring or the queue has an event, a
\* call or a task on its way to it, however the arrival falls between the drain, the exchange of the flag
\* and the release of the task.
PumpDriven ==
    pump.st = "on" =>
        /\ ring.count > 0 => ring.event \/ recv = "call" \/ pump.owned
        /\ pump.queue > 0 => pump.owned
        /\ pump.owned <=> pump.task # "none"

=============================================================================
