------------------------------- MODULE Windows --------------------------------
(* What surrounds the core on Windows: the client and its owners, the service    *)
(* and its pipe, the tunnel's adapter, the thread that receives its packets and  *)
(* the removal of old filters. They meet in calls that their modules state on    *)
(* both sides: a behaviour is one of them.                                       *)
EXTENDS WinTunnel, RecvPump, NetworkGuard

CONSTANTS MaxPending, MaxSessions, MaxMessages, MaxConnects, MaxRequests, Owners

\* The queue of the pipe holds a message at least; the code asserts MAX_PENDING_WRITES > 0.
ASSUME PipeAssumption == MaxPending \in Nat \ {0}

VARIABLES part,
    sv, link, svc, ctl,
    app, cli, core, mon

Pipe == INSTANCE EasyPipe
Client == INSTANCE ClientApp

pipeVars == <<sv, link, svc, ctl>>
clientVars == <<app, cli, core, mon>>

\* The filters' initial states differ only where they are looked at.
WindowsInit ==
    /\ part \in {"pipe", "win", "recv", "guard", "client"}
    /\ Pipe!Init /\ Init /\ PumpInit /\ GuardInit /\ Client!Init
    /\ part # "guard" => \A o \in GuardObjects : wfp[o] = "none"
    /\ part # "client" => app.owner = "easy"

WindowsNext ==
    \/ part = "pipe" /\ Pipe!Next /\ UNCHANGED <<part, winVars, pumpVars, guardVars, clientVars>>
    \/ part = "win" /\ Next /\ UNCHANGED <<part, pipeVars, pumpVars, guardVars, clientVars>>
    \/ part = "recv" /\ PumpNext /\ UNCHANGED <<part, pipeVars, winVars, guardVars, clientVars>>
    \/ part = "guard" /\ GuardNext /\ UNCHANGED <<part, pipeVars, winVars, pumpVars, clientVars>>
    \/ part = "client" /\ Client!Next /\ UNCHANGED <<part, pipeVars, winVars, pumpVars, guardVars>>

WindowsSpec == WindowsInit /\ [][WindowsNext]_<<part, pipeVars, winVars, pumpVars, guardVars, clientVars>>

\* Whole messages of the right client go over the pipe, and its loop never sleeps on work; see EasyPipe.
PipeServed == Pipe!PipeFramed /\ Pipe!PipeDriven

\* No task holds a VPN that is closed, and a client leaves no VPN open; see ClientApp.
TaskVpnAlive == Client!TaskVpnAlive
=============================================================================
