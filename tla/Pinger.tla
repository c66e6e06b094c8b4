------------------------------- MODULE Pinger -------------------------------
(***************************************************************************)
(* One location's ping (net/src/ping.cpp): rounds of connections, each     *)
(* round ended by its last result or by a timer, with fall-backs from QUIC *)
(* to TLS and to relays, and "shortcut" connections through a relay for    *)
(* those that are slow. LocationsPinger (net/src/locations_pinger.cpp)     *)
(* keeps the best connection of each endpoint and hands one over.          *)
(* A failed assert stops the program: aborted.                             *)
(***************************************************************************)
EXTENDS Naturals, FiniteSets

CONSTANTS
    Endpoints,
    Protocol,       \* main_protocol: "AUTO", "HTTP2" or "HTTP3"
    Relays,         \* the number of relays of the location
    Rounds,         \* rounds_target
    NON

VARIABLES
    conn,       \* the connections of Ping::pending, inprogress, done and report
    sc,         \* their shortcut connections: "none", "pending", "inprogress", "failed" or "ok"
    tasks,      \* the tasks submitted: prepare, connect, connectShortcut, report
    timers,     \* the timers armed: round, shortcut
    relays,     \* relays left
    round,      \* rounds_started
    direct,     \* have_direct_result
    winner,     \* have_round_winner
    phase,      \* "pinging", "finished" or "destroyed"
    aborted,
    kept,       \* LocationsCtx: the connection kept for each endpoint
    freed,      \* connections whose state was destroyed
    chosen      \* the connection handed over in the result

pingVars == <<conn, sc, tasks, timers, relays, round, direct, winner, phase, aborted, kept, freed, chosen>>

Conns == Endpoints \X (IF Protocol = "AUTO" THEN {"HTTP2", "HTTP3"} ELSE {Protocol})

\* add_endpoint, ping_start: PingConn. The QUIC connection of a pair has no fall-back.
NewConn(c) == [at |-> "pending", quic |-> c[2] = "HTTP3", wasQuic |-> FALSE, pinned |-> Protocol = "AUTO" /\ c[2] = "HTTP3",
               relay |-> FALSE, err |-> FALSE, ok |-> FALSE, rounds |-> 0]

Init == /\ conn = [c \in Conns |-> NewConn(c)]
        /\ sc = [c \in Conns |-> "none"]
        /\ tasks = {"prepare"}
        /\ timers = IF Relays > 0 THEN {"shortcut"} ELSE {}
        /\ relays = Relays /\ round = 0 /\ direct = FALSE /\ winner = FALSE
        /\ phase = "pinging" /\ aborted = FALSE
        /\ kept = [e \in Endpoints |-> NON] /\ freed = {} /\ chosen = NON

At(p) == {c \in Conns : conn[c].at = p}
Sc(p) == {c \in Conns : sc[c] = p}
Located == <<phase, kept, freed, chosen>>

-----------------------------------------------------------------------------

TimedOut == [c \in Conns |-> IF conn[c].at \in {"pending", "inprogress"}
                             THEN [conn[c] EXCEPT !.at = "done", !.err = @ \/ ~winner] ELSE conn[c]]

\* A slip: nothing follows when every connection has been through the round already.
OnTimer_waits ==
    /\ "round" \in timers /\ timers' = timers \ {"round"}
    /\ conn' = TimedOut
    /\ sc' = [c \in Conns |-> IF sc[c] \in {"pending", "inprogress"} THEN "failed" ELSE sc[c]]
    /\ tasks' = (tasks \ {"connect", "connectShortcut"}) \cup (IF conn' = conn THEN {} ELSE {"prepare"})
    /\ UNCHANGED <<relays, round, direct, winner, aborted, Located>>

\* on_timer: the round is over. A connection that did not answer has an error unless another
\* one has won the round.
OnTimer ==
    /\ "round" \in timers /\ timers' = timers \ {"round"}
    /\ conn' = TimedOut
    /\ sc' = [c \in Conns |-> IF sc[c] \in {"pending", "inprogress"} THEN "failed" ELSE sc[c]]
    /\ tasks' = (tasks \ {"connect", "connectShortcut"}) \cup {"prepare"}
    /\ UNCHANGED <<relays, round, direct, winner, aborted, Located>>

\* on_shortcut_timer: a second connection, through a relay, for each one in progress; some of
\* them may not be prepared.
OnShortcutTimer ==
    /\ "shortcut" \in timers /\ timers' = timers \ {"shortcut"}
    /\ \E new \in SUBSET {c \in At("inprogress") : ~conn[c].relay} :
          /\ sc' = [c \in Conns |-> IF c \in new THEN "pending" ELSE sc[c]]
          /\ tasks' = IF new # {} \/ Sc("pending") # {} THEN tasks \cup {"connectShortcut"} ELSE tasks
    /\ UNCHANGED <<conn, relays, round, direct, winner, aborted, Located>>

\* do_connect: one connection at a time; starting it may fail. When it was the last and nothing
\* is in progress the round is over.
DoConnect(c) ==
    /\ "connect" \in tasks /\ conn[c].at = "pending"
    /\ \E ok \in BOOLEAN :
          LET more == At("pending") # {c}
              over == ~more /\ ~ok /\ At("inprogress") = {}
          IN  /\ conn' = [conn EXCEPT ![c].at = IF ok THEN "inprogress" ELSE "done", ![c].err = ~ok]
              /\ tasks' = (tasks \ (IF more THEN {} ELSE {"connect"})) \cup (IF over THEN {"prepare"} ELSE {})
              /\ timers' = IF over THEN timers \ {"round"} ELSE timers
    /\ UNCHANGED <<sc, relays, round, direct, winner, aborted, Located>>

\* do_connect of a shortcut connection, which never ends the round.
DoConnectShortcut(c) ==
    /\ "connectShortcut" \in tasks /\ sc[c] = "pending"
    /\ \E ok \in BOOLEAN : sc' = [sc EXCEPT ![c] = IF ok THEN "inprogress" ELSE "failed"]
    /\ tasks' = IF Sc("pending") = {c} THEN tasks \ {"connectShortcut"} ELSE tasks
    /\ UNCHANGED <<conn, timers, relays, round, direct, winner, aborted, Located>>

\* conn_process_result: the last result of the round ends it; the first good one shortens it.
ProcessResult(c, shortcut, ok) ==
    LET others == {d \in Conns : conn[d].at \in {"pending", "inprogress"} /\ (shortcut \/ d # c)}
        otherSc == {d \in Conns : sc[d] \in {"pending", "inprogress"} /\ (~shortcut \/ d # c)}
        over == others = {} /\ otherSc = {}
    IN  /\ IF shortcut
           THEN sc[c] = "inprogress" /\ sc' = [sc EXCEPT ![c] = IF ok THEN "ok" ELSE "failed"] /\ UNCHANGED conn
           ELSE /\ conn[c].at = "inprogress" /\ UNCHANGED sc
                /\ conn' = [conn EXCEPT ![c].at = "done", ![c].ok = @ \/ ok, ![c].err = ~ok]
        /\ winner' = (winner \/ ok)
        /\ timers' = IF over THEN timers \ {"round"} ELSE IF winner' # winner THEN timers \cup {"round"} ELSE timers
        /\ tasks' = IF over THEN tasks \cup {"prepare"} ELSE tasks
        /\ UNCHANGED <<relays, round, direct, aborted, Located>>
Result(c) == phase = "pinging" /\ "report" \notin tasks /\ \E shortcut, ok \in BOOLEAN : ProcessResult(c, shortcut, ok)

\* The results of the shortcuts: one that worked replaces the first connection done to its
\* endpoint, when that did not. first gives that connection for each endpoint.
FirstDone == {f \in [Endpoints -> Conns] : \A e \in Endpoints :
                 f[e][1] = e /\ (conn[f[e]].at = "done" \/ \A c \in At("done") : c[1] # e)}
Replaced(c, first) ==
    /\ c = first[c[1]] /\ conn[c].at = "done" /\ ~conn[c].ok
    /\ \E d \in Sc("ok") : d[1] = c[1]
AfterShortcuts(first) ==
    [c \in Conns |-> IF Replaced(c, first)
                     THEN [conn[c] EXCEPT !.ok = TRUE, !.err = FALSE, !.relay = TRUE, !.rounds = 0]
                     ELSE conn[c]]

\* What do_prepare makes of a connection that is done: in its first round it falls back from
\* QUIC to TLS, then to a relay; otherwise the round counts.
FirstError(k) == k.at = "done" /\ k.err /\ k.rounds = 0
TlsFallback(k) == FirstError(k) /\ k.quic /\ ~k.pinned
RelayFallback(k) == FirstError(k) /\ ~TlsFallback(k)
NextRound(k, relay) ==
    IF k.at # "done" THEN k
    ELSE IF TlsFallback(k) THEN [k EXCEPT !.at = "pending", !.quic = FALSE, !.wasQuic = TRUE]
    ELSE IF RelayFallback(k) /\ relay
    THEN [k EXCEPT !.at = "pending", !.relay = TRUE, !.quic = IF k.pinned THEN @ ELSE k.wasQuic]
    ELSE [k EXCEPT !.rounds = @ + 1, !.at = IF k.rounds + 1 = Rounds THEN "report" ELSE "pending"]

\* do_prepare: its asserts, the fall-backs, and the next round or the report. The sockets of some
\* connections, those in bad, cannot be prepared (conn_prepare).
DoPrepare == \E first \in FirstDone :
    LET done == AfterShortcuts(first)
        hasDirect == direct \/ \E c \in Conns : done[c].at = "done" /\ done[c].ok /\ ~done[c].relay
        relay == ~hasDirect /\ relays > 0
        next == [c \in Conns |-> NextRound(done[c], relay)]
        used == \E c \in Conns : Replaced(c, first) \/ (relay /\ RelayFallback(done[c]))
        waiting == {c \in Conns : next[c].at = "pending"}
    IN
    /\ "prepare" \in tasks
    /\ aborted' = (At("inprogress") # {} \/ Sc("inprogress") # {})
    /\ direct' = hasDirect
    /\ sc' = [c \in Conns |-> IF sc[c] \in {"ok", "failed"} THEN "none" ELSE sc[c]]
    /\ relays' = IF used THEN relays - 1 ELSE relays
    /\ \E bad \in SUBSET waiting, e \in BOOLEAN :
          /\ conn' = [c \in Conns |-> IF c \in bad THEN [next[c] EXCEPT !.at = "done", !.err = e]
                                      ELSE IF c \in waiting THEN [next[c] EXCEPT !.err = FALSE] ELSE next[c]]
          /\ tasks' = (tasks \ {"prepare"}) \cup
                      (IF waiting = {} THEN {"report"} ELSE IF bad = waiting THEN {"prepare"} ELSE {"connect"})
          /\ timers' = IF waiting = {} THEN {}
                       ELSE (IF used THEN timers \ {"shortcut"} ELSE timers) \cup (IF bad = waiting THEN {} ELSE {"round"})
    /\ winner' = (winner /\ waiting = {})
    /\ round' = IF waiting = {} THEN round ELSE round + 1
    /\ UNCHANGED Located

\* process_ping_result, PING_OK: a faster connection to the same endpoint replaces the one kept.
PingOk(c) ==
    LET e == c[1] IN
    IF kept[e] = NON THEN kept' = [kept EXCEPT ![e] = c] /\ UNCHANGED freed
    ELSE \/ kept' = [kept EXCEPT ![e] = c] /\ freed' = freed \cup {kept[e]}
         \/ UNCHANGED <<kept, freed>>

\* do_report of one connection, and what LocationsPinger does with it.
DoReport(c) ==
    /\ "report" \in tasks /\ conn[c].at = "report"
    /\ conn' = [conn EXCEPT ![c].at = "reported"]
    /\ IF conn[c].ok THEN PingOk(c) ELSE UNCHANGED <<kept, freed>>
    /\ UNCHANGED <<sc, tasks, timers, relays, round, direct, winner, phase, aborted, chosen>>

\* do_report at the end, PING_FINISHED: finalize_location hands one connection over and destroys
\* the others it kept.
Finish ==
    /\ "report" \in tasks /\ At("report") = {}
    /\ tasks' = {} /\ phase' = "finished"
    /\ LET found == {kept[e] : e \in Endpoints} \ {NON} IN
          \/ found = {} /\ UNCHANGED <<freed, chosen>>
          \/ \E c \in found : chosen' = c /\ freed' = freed \cup (found \ {c})
    /\ UNCHANGED <<conn, sc, timers, relays, round, direct, winner, aborted, kept>>

\* locations_pinger_stop, ping_destroy
Stop == phase = "pinging" /\ phase' = "destroyed" /\ tasks' = {} /\ timers' = {}
        /\ UNCHANGED <<conn, sc, relays, round, direct, winner, aborted, kept, freed, chosen>>

Next == /\ ~aborted
        /\ \/ OnTimer \/ OnShortcutTimer \/ DoPrepare \/ Finish \/ Stop
           \/ \E c \in Conns : DoConnect(c) \/ DoConnectShortcut(c) \/ Result(c) \/ DoReport(c)

Spec == Init /\ [][Next]_pingVars

-----------------------------------------------------------------------------

\* A ping always goes on: until it has finished a task is submitted or the timer of the round
\* is armed (do_connect, conn_process_result and on_timer each end a round).
PingDriven == phase = "pinging" /\ ~aborted => tasks \cap {"prepare", "connect", "report"} # {} \/ "round" \in timers

\* The connection the session takes over from the pinger is alive (destroy_conn_state in
\* process_ping_result and finalize_location).
HandoffAlive == chosen # NON => chosen \notin freed

\* The assertion of do_prepare, net/src/ping.cpp:371: "assert(self->inprogress_shortcut.empty())".
PrepareQuiet == ~aborted
=============================================================================
